------------------------- MODULE LeaperCoreProofs -------------------------
(***************************************************************************)
(* LeaperCore keeps its types, restores the idle context, grants no job    *)
(* more than its budget and implements JobContexts, for every set of       *)
(* options, blocks, forecasts and reported ratios and for any nesting.     *)
(* Its rollback decides by full windows of equal verdicts.                 *)
(***************************************************************************)
EXTENDS SsadWindow, TLAPS

(* The provers that a leaf is tried with in turn, unless it names its own. *)
USE SMT, Zenon, Z3, SMTT(30), Z3T(30)

(* The moving average of two ratios lies between 0 and 100. *)
LEMMA EwmaBounds ==
    ASSUME NEW b \in 0 .. 100, NEW m \in 0 .. 100, NEW a \in 0 .. 100
    PROVE  b + ((m - b) * a) \div 100 \in 0 .. 100
<1> DEFINE p == (m - b) * a
<1>1. p \in Int
  OBVIOUS
<1>2. p >= -(100 * b) /\ p <= 100 * (100 - b)
  <2>1. CASE m >= b
    <3>1. m - b >= 0 /\ m - b <= 100 - b
      BY <2>1
    <3>2. (m - b) * a >= 0 /\ (m - b) * a <= (m - b) * 100
      BY <3>1
    <3> QED  BY <3>1, <3>2
  <2>2. CASE m < b
    <3>1. b - m > 0 /\ b - m <= b
      BY <2>2
    <3>2. (b - m) * a >= 0 /\ (b - m) * a <= (b - m) * 100
      BY <3>1
    <3>3. (m - b) * a = -((b - m) * a)
      OBVIOUS
    <3> QED  BY <3>1, <3>2, <3>3
  <2> QED  BY <2>1, <2>2
<1> HIDE DEF p
<1>3. p \div 100 >= -b /\ p \div 100 <= 100 - b
  BY <1>1, <1>2
<1>4. p \div 100 \in Int
  BY <1>1
<1>5. b + p \div 100 \in 0 .. 100
  BY <1>3, <1>4
<1> QED  BY <1>5 DEF p

(* What phase 2 and the baselines call hot are ranges. *)
LEMMA HotRanges ==
    ASSUME NEW blocks, NEW c \in SUBSET Ranges, NEW lo, NEW hi
    PROVE  ExpandRanges(blocks) \in SUBSET Ranges /\ PredictHot(c, lo, hi) \in SUBSET Ranges
BY DEF ExpandRanges, PredictHot

(* set_health keeps the rollback's state in its types. *)
LEMMA SetHealthType ==
    ASSUME opt \in Configs, SsadTypeOK, NEW m \in MissRatios, set_health(m), UNCHANGED opt
    PROVE  SsadTypeOK'
<1>0. m \in 0 .. 100 /\ opt.ssad_window \in Nat \ {0} /\ opt.ssad_relative \in Nat
      /\ opt.ssad_miss_threshold \in Nat /\ opt.ssad_ewma_alpha \in 0 .. 100
  BY SsadAssumption
<1>1. Bad(m) \in BOOLEAN
  BY DEF Bad
<1>2. RunLength(Bad(m)) \in 0 .. opt.ssad_window
  BY <1>0 DEF RunLength, SsadTypeOK
<1>3. Verdict(Bad(m), RunLength(Bad(m))) \in BOOLEAN
  BY ZenonT(60), <1>1 DEF Verdict, SsadTypeOK
<1>4. NextEwma(m) \in -1 .. 100
  <2>1. Baseline(m) \in 0 .. 100
    BY <1>0 DEF Baseline, SsadTypeOK
  <2>2. Baseline(m) + ((m - Baseline(m)) * opt.ssad_ewma_alpha) \div 100 \in 0 .. 100
    BY Zenon, <1>0, <2>1, EwmaBounds
  <2> QED  BY <2>1, <2>2 DEF NextEwma, SsadTypeOK
<1> QED  BY <1>1, <1>2, <1>3, <1>4 DEF set_health, SsadTypeOK

-----------------------------------------------------------------------------
(* The types of the members; the block cache belongs to the engine. *)
CoreType ==
    /\ opt \in Configs
    /\ Context \in JobCtx
    /\ ctx_stack \in Seq(JobCtx)
    /\ forecast \in Forecasts
    /\ qps \in Nat
    /\ SsadTypeOK

(* Beginning a job opens one more context on top of the others. *)
LEMMA PushOpensJob ==
    ASSUME CoreType, ctx_stack' = Append(ctx_stack, Context)
    PROVE  OpenJobs' = Append(OpenJobs, JobOf(Context'))
<1>1. ctx_stack \in Seq(JobCtx) /\ Context \in JobCtx
  BY DEF CoreType
<1>2. Len(ctx_stack') = Len(ctx_stack) + 1 /\ Len(ctx_stack) \in Nat
  BY <1>1
<1>3. \A i \in 1 .. Len(ctx_stack) : ctx_stack'[i] = ctx_stack[i]
  BY <1>1
<1>4. ctx_stack'[Len(ctx_stack) + 1] = Context
  BY <1>1
<1> DEFINE n == Len(ctx_stack)
<1>5. OpenJobs' = [i \in 1 .. n + 1 |-> JobOf(IF i < n + 1 THEN ctx_stack'[i + 1] ELSE Context')]
  BY <1>2 DEF OpenJobs, JobOf
<1>6. OpenJobs = [i \in 1 .. n |-> JobOf(IF i < n THEN ctx_stack[i + 1] ELSE Context)]
  BY DEF OpenJobs
<1>7. Len(OpenJobs) = n
  BY <1>2, <1>6
<1>8. Append(OpenJobs, JobOf(Context')) =
        [i \in 1 .. n + 1 |-> IF i = n + 1 THEN JobOf(Context') ELSE OpenJobs[i]]
  BY <1>2, <1>6, <1>7
<1>9. \A i \in 1 .. n : OpenJobs[i] = JobOf(ctx_stack'[i + 1])
  BY <1>2, <1>3, <1>4, <1>6
<1> QED  BY <1>2, <1>5, <1>8, <1>9

(* The open jobs have the types the abstract specification gives them. *)
LEMMA OpenJobsType ==
    ASSUME CoreType
    PROVE  OpenJobs \in Seq(Jobs!Job) /\ Len(OpenJobs) = Len(ctx_stack)
<1> DEFINE n == Len(ctx_stack)
<1>1. ctx_stack \in Seq(JobCtx) /\ Context \in JobCtx /\ n \in Nat
  BY DEF CoreType
<1>2. \A c \in JobCtx : JobOf(c) \in Jobs!Job
  BY DEF JobCtx, JobOf, Jobs!Job
<1>3. \A i \in 1 .. n : (IF i < n THEN ctx_stack[i + 1] ELSE Context) \in JobCtx
  BY <1>1
<1>4. OpenJobs = [i \in 1 .. n |-> JobOf(IF i < n THEN ctx_stack[i + 1] ELSE Context)]
  BY DEF OpenJobs
<1> HIDE DEF n
<1>5. OpenJobs \in [1 .. n -> Jobs!Job]
  BY <1>2, <1>3, <1>4
<1> QED  BY <1>1, <1>5 DEF n

(* What pop_back leaves. *)
LEMMA PoppedStack ==
    ASSUME NEW S, NEW s \in Seq(S), s # <<>>
    PROVE  /\ SubSeq(s, 1, Len(s) - 1) \in Seq(S)
           /\ Len(SubSeq(s, 1, Len(s) - 1)) = Len(s) - 1
           /\ \A i \in 1 .. Len(s) - 1 : SubSeq(s, 1, Len(s) - 1)[i] = s[i]
<1>1. Len(s) \in Nat \ {0}
  OBVIOUS
<1>2. \A i \in 1 .. Len(s) - 1 : s[i] \in S
  BY <1>1
<1> DEFINE k == Len(s) - 1
<1>3. k \in Nat /\ \A i \in 1 .. k : s[i] \in S
  BY <1>1, <1>2
<1> HIDE DEF k
<1>4. /\ SubSeq(s, 1, k) \in Seq(S)
      /\ Len(SubSeq(s, 1, k)) = IF 1 <= k THEN k - 1 + 1 ELSE 0
      /\ \A i \in 1 .. k - 1 + 1 : SubSeq(s, 1, k)[i] = s[1 + i - 1]
  BY <1>3
<1>5. Len(SubSeq(s, 1, k)) = k /\ \A i \in 1 .. k : SubSeq(s, 1, k)[i] = s[i]
  BY <1>3, <1>4
<1> QED  BY <1>4, <1>5 DEF k

(* Ending it closes that one and no other. *)
LEMMA PopClosesJob ==
    ASSUME CoreType, ctx_stack # <<>>,
           ctx_stack' = SubSeq(ctx_stack, 1, Len(ctx_stack) - 1),
           Restore(ctx_stack[Len(ctx_stack)])
    PROVE  /\ OpenJobs' = SubSeq(OpenJobs, 1, Len(OpenJobs) - 1)
           /\ Context' = ctx_stack[Len(ctx_stack)]
           /\ OpenJobs # <<>>
<1> DEFINE n == Len(ctx_stack)
<1>1. ctx_stack \in Seq(JobCtx) /\ n \in Nat \ {0}
  BY DEF CoreType
<1>2. ctx_stack[n] \in JobCtx
  BY <1>1
<1>3. Context' = ctx_stack[n]
  BY <1>2 DEF Context, Restore, JobCtx
<1>4. Len(ctx_stack') = n - 1 /\ \A i \in 1 .. n - 1 : ctx_stack'[i] = ctx_stack[i]
  BY <1>1, PoppedStack
<1>5. OpenJobs = [i \in 1 .. n |-> JobOf(IF i < n THEN ctx_stack[i + 1] ELSE Context)]
  BY DEF OpenJobs
<1>6. OpenJobs' = [i \in 1 .. n - 1 |-> JobOf(IF i < n - 1 THEN ctx_stack'[i + 1] ELSE Context')]
  BY <1>4 DEF OpenJobs, JobOf
<1>7. Len(OpenJobs) = n
  BY <1>1, <1>5
<1>8. SubSeq(OpenJobs, 1, n - 1) = [i \in 1 .. n - 1 |-> OpenJobs[i]]
  BY <1>1, <1>5, <1>7
<1>9. \A i \in 1 .. n - 1 : OpenJobs'[i] = OpenJobs[i]
  BY <1>1, <1>3, <1>4, <1>5, <1>6
<1> HIDE DEF n
<1>10. OpenJobs' = SubSeq(OpenJobs, 1, n - 1)
  BY Zenon, <1>1, <1>6, <1>8, <1>9
<1> QED  BY <1>1, <1>3, <1>7, <1>10 DEF n

-----------------------------------------------------------------------------
(* What the core keeps under any adapter, whatever the block cache holds:  *)
(* budgets are only kept because the contexts on the stack are, and the    *)
(* stack only ends in the idle context because that is what the first job  *)
(* found.                                                                  *)
CoreInv == CoreType /\ IdleRestored /\ BudgetPerJob

(* The constants have the types the actions need. *)
LEMMA ConstantTypes ==
    /\ \A b \in Outputs : b.size \in Nat
    /\ \A f \in Forecasts : f \in Seq(SUBSET Ranges) /\ f[1] \in SUBSET Ranges
    /\ \A o \in Configs : o.budget \in Nat /\ o.policy \in Policies
    /\ QpsValues \subseteq Nat
<1>1. \A f \in Forecasts : f \in Seq(SUBSET Ranges) /\ f[1] \in SUBSET Ranges
  <2> SUFFICES ASSUME NEW f \in Forecasts PROVE f \in Seq(SUBSET Ranges) /\ f[1] \in SUBSET Ranges
    OBVIOUS
  <2>1. f \in Seq(SUBSET Ranges) /\ f # <<>>
    BY CoreAssumption
  <2>2. Len(f) \in Nat \ {0}
    BY <2>1
  <2> QED  BY <2>1, <2>2
<1> QED  BY <1>1, CoreAssumption DEF BlockRef

(* Whatever its policy decides, a job begins with a set of ranges and adds *)
(* nothing to the cache.                                                   *)
LEMMA DecisionType ==
    ASSUME CoreType, NEW is_flush \in BOOLEAN, NEW est_blocks, NEW blocks,
           OnCompactionBegin(is_flush, est_blocks, blocks)
    PROVE  hot_t2' \in SUBSET Ranges /\ cache' \subseteq cache
<1>1. CASE DecideNothing
  BY <1>1 DEF DecideNothing
<1>2. CASE DecideIncremental(blocks)
  BY <1>2, HotRanges DEF DecideIncremental
<1>3. CASE DecideOracle
  BY <1>3, ConstantTypes DEF DecideOracle, CoreType
<1>4. CASE DecideLeaperFlush(blocks)
  BY <1>4, HotRanges DEF DecideLeaperFlush
<1>5. CASE DecideLeaperCompaction(blocks, est_blocks)
  BY <1>5, HotRanges DEF DecideLeaperCompaction
<1> QED  BY <1>1, <1>2, <1>3, <1>4, <1>5 DEF OnCompactionBegin

(* The instance is opened idle. *)
LEMMA InitCore == CoreInit => CoreInv
<1> SUFFICES ASSUME CoreInit PROVE CoreInv
  OBVIOUS
<1> USE DEF CoreInit
<1>1. Context = Idle /\ Idle \in JobCtx
  BY Zenon DEF Context, Idle, JobCtx
<1>2. ctx_stack = <<>> /\ ctx_stack \in Seq(JobCtx)
  OBVIOUS
<1>3. SsadTypeOK
  <2>1. opt \in Configs /\ opt.ssad_window \in Nat
    BY SsadAssumption
  <2>2. ssad_suspended \in BOOLEAN /\ ssad_last_bad \in BOOLEAN
    BY Zenon DEF SsadInit
  <2>3. ssad_run \in 0 .. opt.ssad_window /\ ssad_ewma \in -1 .. 100
    BY <2>1 DEF SsadInit
  <2> QED  BY <2>2, <2>3 DEF SsadTypeOK
<1>4. CoreType
  BY <1>1, <1>2, <1>3 DEF CoreType
<1>5. IdleRestored
  BY <1>1, <1>2 DEF IdleRestored, BaseContext
<1>6. BudgetPerJob
  BY <1>2 DEF BudgetPerJob, OpenJobs
<1> QED  BY <1>4, <1>5, <1>6 DEF CoreInv

(* A step that leaves the job's members alone leaves the jobs alone. *)
LEMMA SameJobs ==
    ASSUME UNCHANGED jobVars
    PROVE  /\ Context' = Context /\ OpenJobs' = OpenJobs
           /\ BaseContext' = BaseContext
BY DEF jobVars, Context, OpenJobs, JobOf, BaseContext

(* Reports of the harness and of the models touch no job. *)
LEMMA QuietCore ==
    ASSUME CoreInv, UNCHANGED <<opt, jobVars>>, SsadTypeOK',
           forecast' \in Forecasts, qps' \in Nat
    PROVE  CoreInv' /\ UNCHANGED OpenJobs
<1>1. /\ Context' = Context /\ OpenJobs' = OpenJobs /\ BaseContext' = BaseContext
      /\ opt' = opt /\ ctx_stack' = ctx_stack
  BY SameJobs DEF jobVars
<1> QED  BY <1>1 DEF CoreInv, CoreType, IdleRestored, Idle, BudgetPerJob

(* A step that changes neither the rollback's state nor the options keeps  *)
(* the rollback's types.                                                   *)
LEMMA SameSsad ==
    ASSUME CoreInv, UNCHANGED opt, UNCHANGED ssadVars
    PROVE  SsadTypeOK'
BY DEF CoreInv, CoreType, SsadTypeOK, ssadVars

(* set_health under any adapter. *)
LEMMA HealthCore ==
    ASSUME CoreInv, NEW m \in MissRatios, Health(m)
    PROVE  CoreInv' /\ UNCHANGED OpenJobs
<1>1. UNCHANGED <<opt, jobVars>> /\ forecast' = forecast /\ qps' = qps
  BY DEF Health, envVars
<1>2. forecast' \in Forecasts /\ qps' \in Nat
  BY <1>1 DEF CoreInv, CoreType
<1>3. SsadTypeOK'
  BY SetHealthType DEF CoreInv, CoreType, Health
<1> QED  BY <1>1, <1>2, <1>3, QuietCore

(* Begin: one more job, funded in full, on top of jobs left as they were. *)
LEMMA BeginCore ==
    ASSUME CoreInv, NEW is_flush \in BOOLEAN, NEW est_blocks, NEW blocks,
           OnCompactionBegin(is_flush, est_blocks, blocks),
           UNCHANGED <<opt, forecast, qps>>, UNCHANGED ssadVars
    PROVE  CoreInv' /\ Jobs!Open /\ Len(ctx_stack') = Len(ctx_stack) + 1
<1>1. /\ ctx_stack' = Append(ctx_stack, Context)
      /\ prefetched_bytes' = 0 /\ cur_is_flush' = is_flush /\ budget_bytes' = opt.budget
      /\ UNCHANGED opt /\ UNCHANGED <<forecast, qps>> /\ UNCHANGED ssadVars
  BY DEF OnCompactionBegin
<1>2. hot_t2' \in SUBSET Ranges /\ cache' \subseteq cache
  BY DecisionType DEF CoreInv
<1>3. opt \in Configs /\ opt.budget \in Nat
  BY ConstantTypes DEF CoreInv, CoreType
<1>4. Context' \in JobCtx
  BY <1>1, <1>2, <1>3 DEF Context, JobCtx
<1>5. ctx_stack \in Seq(JobCtx) /\ Context \in JobCtx
  BY DEF CoreInv, CoreType
<1>6. ctx_stack' \in Seq(JobCtx) /\ Len(ctx_stack') = Len(ctx_stack) + 1
  BY <1>1, <1>5
<1>7. SsadTypeOK'
  BY <1>1 DEF CoreInv, CoreType, SsadTypeOK, ssadVars
<1>8. CoreType'
  BY <1>1, <1>2, <1>4, <1>6, <1>7 DEF CoreInv, CoreType
<1>9. IdleRestored'
  <2>1. CASE ctx_stack = <<>>
    BY <1>1, <1>5, <1>6, <2>1 DEF CoreInv, IdleRestored, BaseContext, Idle
  <2>2. CASE ctx_stack # <<>>
    <3>1. Len(ctx_stack) \in Nat \ {0} /\ ctx_stack'[1] = ctx_stack[1] /\ ctx_stack' # <<>>
      BY <1>1, <1>5, <2>2
    <3> QED  BY <2>2, <3>1 DEF CoreInv, IdleRestored, BaseContext, Idle
  <2> QED  BY <2>1, <2>2
<1>10. OpenJobs' = Append(OpenJobs, JobOf(Context'))
  BY <1>1, PushOpensJob DEF CoreInv
<1>11. /\ JobOf(Context') \in Jobs!Job
       /\ JobOf(Context').spent = 0 /\ JobOf(Context').budget = opt.budget
  BY <1>1, <1>2, <1>3 DEF JobOf, Context, Jobs!Job
<1>12. OpenJobs \in Seq(Jobs!Job)
  BY OpenJobsType DEF CoreInv
<1>13. /\ OpenJobs' # <<>>
       /\ OpenJobs'[Len(OpenJobs')] = JobOf(Context')
       /\ Len(OpenJobs') = Len(OpenJobs) + 1
       /\ \A i \in 1 .. Len(OpenJobs) : OpenJobs'[i] = OpenJobs[i]
  BY <1>10, <1>11, <1>12
<1>14. BudgetPerJob'
  <2> SUFFICES ASSUME NEW i \in DOMAIN OpenJobs'
               PROVE  OpenJobs'[i].budget = opt.budget /\ OpenJobs'[i].spent <= OpenJobs'[i].budget
    BY <1>1 DEF BudgetPerJob
  <2>1. Len(OpenJobs) \in Nat /\ DOMAIN OpenJobs = 1 .. Len(OpenJobs)
        /\ i \in 1 .. Len(OpenJobs) + 1
    BY <1>10, <1>11, <1>12, <1>13
  <2>2. CASE i = Len(OpenJobs) + 1
    BY <1>3, <1>11, <1>13, <2>2
  <2>3. CASE i \in 1 .. Len(OpenJobs)
    BY <1>13, <2>1, <2>3 DEF CoreInv, BudgetPerJob
  <2> QED  BY <2>1, <2>2, <2>3
<1>15. Jobs!Open
  BY <1>10, <1>11, <1>13 DEF Jobs!Open
<1> QED  BY <1>6, <1>8, <1>9, <1>14, <1>15 DEF CoreInv

(* ShouldPrefetch: only the innermost job spends, and within its budget. *)
LEMMA GrantCore ==
    ASSUME CoreInv, NEW b, b.size \in Nat, ctx_stack # <<>>, ShouldPrefetch(b),
           UNCHANGED <<opt, forecast, qps>>, UNCHANGED ssadVars
    PROVE  CoreInv' /\ Jobs!Spend
<1> DEFINE n == Len(ctx_stack)
           spent == prefetched_bytes'
<1>1. /\ ctx_stack # <<>> /\ ctx_stack \in Seq(JobCtx) /\ n \in Nat \ {0}
      /\ UNCHANGED <<hot_t2, budget_bytes, cur_is_flush, ctx_stack, cache, opt, forecast, qps>>
      /\ UNCHANGED ssadVars
  BY DEF ShouldPrefetch, CoreInv, CoreType
<1>2. Context \in JobCtx /\ prefetched_bytes \in Nat /\ budget_bytes \in Nat
  BY DEF CoreInv, CoreType, Context, JobCtx
<1>3. OpenJobs \in Seq(Jobs!Job) /\ Len(OpenJobs) = n /\ OpenJobs # <<>>
  BY <1>1, OpenJobsType DEF CoreInv
<1>4. OpenJobs = [i \in 1 .. n |-> JobOf(IF i < n THEN ctx_stack[i + 1] ELSE Context)]
  BY DEF OpenJobs
<1>5. OpenJobs[n] = JobOf(Context) /\ n \in DOMAIN OpenJobs
  BY <1>1, <1>4
<1>6. prefetched_bytes <= budget_bytes /\ budget_bytes = opt.budget
  BY <1>5 DEF CoreInv, BudgetPerJob, JobOf, Context
<1>7. spent \in prefetched_bytes .. budget_bytes
  <2>2. CASE Granted(b)
    BY <1>2, <2>2 DEF Granted, Affordable, ShouldPrefetch
  <2>3. CASE ~Granted(b)
    BY <1>2, <1>6, <2>3 DEF ShouldPrefetch
  <2> QED  BY <2>2, <2>3
<1>8. Context' = [Context EXCEPT !.prefetched_bytes = spent]
  BY <1>1 DEF Context
<1>9. JobOf(Context') = [JobOf(Context) EXCEPT !.spent = spent]
  BY <1>1 DEF JobOf, Context
<1>10. OpenJobs' = [i \in 1 .. n |-> JobOf(IF i < n THEN ctx_stack[i + 1] ELSE Context')]
  BY <1>1 DEF OpenJobs, JobOf
<1>11. OpenJobs' = [OpenJobs EXCEPT ![n].spent = spent]
  <2>0. n \in Nat \ {0}
    BY <1>1
  <2> HIDE DEF n, spent
  <2>1. OpenJobs' = [OpenJobs EXCEPT ![n] = JobOf(Context')]
    BY <1>4, <1>10, <2>0
  <2>2. JobOf(Context') = [OpenJobs[n] EXCEPT !.spent = spent]
    BY <1>5, <1>9
  <2> QED  BY <2>1, <2>2, Zenon
<1>12. Jobs!Spend
  <2>1. OpenJobs[n].spent = prefetched_bytes /\ OpenJobs[n].budget = budget_bytes
    BY <1>5 DEF JobOf, Context
  <2> QED  BY Zenon, <1>3, <1>7, <1>11, <2>1 DEF Jobs!Spend
<1>13. CoreType'
  <2>1. Context' \in JobCtx
    BY <1>1, <1>2, <1>7 DEF Context, JobCtx
  <2>2. SsadTypeOK'
    BY <1>1 DEF CoreInv, CoreType, SsadTypeOK, ssadVars
  <2> QED  BY <1>1, <2>1, <2>2 DEF CoreInv, CoreType
<1>14. IdleRestored'
  BY <1>1 DEF CoreInv, IdleRestored, BaseContext, Idle
<1>15. BudgetPerJob'
  <2>1. \A i \in 1 .. n : i # n => OpenJobs'[i] = OpenJobs[i]
    BY <1>4, <1>10
  <2>2. OpenJobs'[n].budget = opt.budget /\ OpenJobs'[n].spent <= OpenJobs'[n].budget
    BY <1>1, <1>2, <1>6, <1>7, <1>10 DEF JobOf, Context
  <2> QED  BY <1>1, <1>4, <1>10, <2>1, <2>2 DEF CoreInv, BudgetPerJob
<1> QED  BY <1>12, <1>13, <1>14, <1>15 DEF CoreInv

(* OnCompactionEnd: the innermost job is closed; without one, the members  *)
(* already hold the idle context and nothing changes.                      *)
LEMMA EndCore ==
    ASSUME CoreInv, OnCompactionEnd, UNCHANGED <<opt, forecast, qps>>, UNCHANGED ssadVars
    PROVE  /\ CoreInv' /\ (Jobs!Close \/ UNCHANGED OpenJobs)
           /\ ctx_stack # <<>> => Len(ctx_stack') = Len(ctx_stack) - 1
<1>0. SsadTypeOK'
  BY DEF CoreInv, CoreType, SsadTypeOK, ssadVars
<1>1. CASE ctx_stack = <<>>
  <2>1. hot_t2 = {} /\ Context = Idle
    BY <1>1 DEF CoreInv, IdleRestored, BaseContext, Context, Idle
  <2>2. UNCHANGED jobVars
    BY <1>1, <2>1 DEF OnCompactionEnd, jobVars
  <2>3. forecast' \in Forecasts /\ qps' \in Nat
    BY DEF CoreInv, CoreType
  <2> QED  BY <1>0, <1>1, <2>2, <2>3, QuietCore
<1>2. CASE ctx_stack # <<>>
  <2> DEFINE n == Len(ctx_stack)
  <2>1. /\ Restore(ctx_stack[n]) /\ ctx_stack' = SubSeq(ctx_stack, 1, n - 1)
        /\ ctx_stack \in Seq(JobCtx) /\ n \in Nat \ {0} /\ ctx_stack[n] \in JobCtx
    BY <1>2 DEF OnCompactionEnd, CoreInv, CoreType
  <2>2. /\ OpenJobs' = SubSeq(OpenJobs, 1, Len(OpenJobs) - 1)
        /\ Context' = ctx_stack[n]
        /\ OpenJobs # <<>>
    BY <1>2, <2>1, PopClosesJob DEF CoreInv
  <2>3. /\ ctx_stack' \in Seq(JobCtx) /\ Len(ctx_stack') = n - 1
        /\ \A i \in 1 .. n - 1 : ctx_stack'[i] = ctx_stack[i]
    BY <1>2, <2>1, PoppedStack
  <2>4. Jobs!Close
    BY <2>2 DEF Jobs!Close
  <2>5. CoreType'
    BY <1>0, <2>1, <2>2, <2>3 DEF CoreInv, CoreType
  <2>6. IdleRestored'
    <3>1. CASE n = 1
      <4>1. ctx_stack' = <<>>
        BY <2>3, <3>1
      <4> QED  BY <1>2, <2>2, <3>1, <4>1 DEF CoreInv, IdleRestored, BaseContext, Idle
    <3>2. CASE n # 1
      <4>0. n \in Nat \ {0}
        BY <2>1
      <4> HIDE DEF n
      <4>1. n - 1 \in Nat \ {0} /\ 1 \in 1 .. n - 1
        BY <4>0, <3>2
      <4>2. ctx_stack' # <<>> /\ ctx_stack'[1] = ctx_stack[1]
        BY <2>3, <4>1
      <4> QED  BY <1>2, <4>2 DEF CoreInv, IdleRestored, BaseContext, Idle
    <3> QED  BY <3>1, <3>2
  <2>7. BudgetPerJob'
    <3>1. OpenJobs \in Seq(Jobs!Job)
      BY OpenJobsType DEF CoreInv
    <3>2. /\ Len(OpenJobs') = Len(OpenJobs) - 1 /\ OpenJobs' \in Seq(Jobs!Job)
          /\ \A i \in 1 .. Len(OpenJobs) - 1 : OpenJobs'[i] = OpenJobs[i]
      BY <2>2, <3>1, PoppedStack
    <3>3. \A i \in DOMAIN OpenJobs' : i \in DOMAIN OpenJobs /\ OpenJobs'[i] = OpenJobs[i]
      BY <3>1, <3>2
    <3> QED  BY <1>0, <3>3 DEF CoreInv, BudgetPerJob
  <2> QED  BY <2>3, <2>4, <2>5, <2>6, <2>7 DEF CoreInv
<1> QED  BY <1>1, <1>2

-----------------------------------------------------------------------------
(* The inductive invariant of the core driven by itself. *)
Inv == CoreInv /\ cache \subseteq InputIds

(* Every step keeps the invariant and is a step of the abstract            *)
(* specification or leaves the jobs alone.                                 *)
LEMMA NextInv ==
    ASSUME Inv, [Next]_vars
    PROVE  Inv' /\ [Jobs!Next]_OpenJobs
<1>0. CoreInv /\ cache \subseteq InputIds /\ forecast \in Forecasts /\ qps \in Nat
      /\ InputIds' = InputIds
  BY DEF Inv, CoreInv, CoreType, InputIds
<1>1. ASSUME NEW is_flush \in BOOLEAN, NEW blocks \in Inputs, Begin(is_flush, blocks)
      PROVE  Inv' /\ [Jobs!Next]_OpenJobs
  <2>1. /\ OnCompactionBegin(is_flush, Len(blocks), blocks)
        /\ UNCHANGED <<opt, forecast, qps>> /\ UNCHANGED ssadVars
    BY <1>1 DEF Begin, envVars
  <2>2. CoreInv' /\ Jobs!Open
    BY <1>0, <2>1, BeginCore
  <2>3. cache' \subseteq cache
    BY <1>0, <2>1, DecisionType DEF CoreInv
  <2> QED  BY <1>0, <2>2, <2>3 DEF Inv, Jobs!Next
<1>2. ASSUME NEW b \in Outputs, Write(b)
      PROVE  Inv' /\ [Jobs!Next]_OpenJobs
  <2>1. /\ b.size \in Nat /\ ctx_stack # <<>> /\ ShouldPrefetch(b) /\ cache' = cache
        /\ UNCHANGED <<opt, forecast, qps>> /\ UNCHANGED ssadVars
    BY <1>2, ConstantTypes DEF Write, ShouldPrefetch, envVars
  <2>2. CoreInv' /\ Jobs!Spend
    BY <1>0, <2>1, GrantCore
  <2> QED  BY <1>0, <2>1, <2>2 DEF Inv, Jobs!Next
<1>3. CASE End
  <2>1. OnCompactionEnd /\ UNCHANGED <<opt, forecast, qps>> /\ UNCHANGED ssadVars /\ cache' = cache
    BY <1>3 DEF End, envVars
  <2>2. CoreInv' /\ (Jobs!Close \/ UNCHANGED OpenJobs)
    BY <1>0, <2>1, EndCore
  <2> QED  BY <1>0, <2>1, <2>2 DEF Inv, Jobs!Next
<1>4. ASSUME UNCHANGED <<opt, jobVars>>, UNCHANGED ssadVars, cache' \subseteq InputIds,
             forecast' \in Forecasts, qps' \in Nat
      PROVE  Inv' /\ [Jobs!Next]_OpenJobs
  <2>1. SsadTypeOK'
    BY <1>0, <1>4, SameSsad
  <2>2. CoreInv' /\ UNCHANGED OpenJobs
    BY <1>0, <1>4, <2>1, QuietCore
  <2> QED  BY <1>0, <1>4, <2>2 DEF Inv
<1>5. ASSUME NEW m \in MissRatios, Health(m)
      PROVE  Inv' /\ [Jobs!Next]_OpenJobs
  <2>1. CoreInv' /\ UNCHANGED OpenJobs
    BY <1>0, <1>5, HealthCore
  <2> QED  BY <1>0, <1>5, <2>1 DEF Inv, Health
<1>6. ASSUME NEW blocks \in Inputs, Obsolete(blocks)
      PROVE  Inv' /\ [Jobs!Next]_OpenJobs
  BY <1>0, <1>4, <1>6 DEF Obsolete, OnFileObsolete, envVars
<1>7. ASSUME NEW q \in QpsValues, set_qps(q)
      PROVE  Inv' /\ [Jobs!Next]_OpenJobs
  BY <1>0, <1>4, <1>7, ConstantTypes DEF set_qps
<1>8. CASE TimePasses
  BY <1>0, <1>4, <1>8 DEF TimePasses
<1>9. ASSUME NEW b \in InputIds, CacheInsert(b) \/ CacheDrop(b)
      PROVE  Inv' /\ [Jobs!Next]_OpenJobs
  BY <1>0, <1>4, <1>9 DEF CacheInsert, CacheDrop, envVars
<1>10. CASE UNCHANGED vars
  BY <1>0, <1>4, <1>10 DEF vars, envVars
<1> QED  BY <1>1, <1>2, <1>3, <1>5, <1>6, <1>7, <1>8, <1>9, <1>10 DEF Next

(* The inductive invariant holds throughout. *)
THEOREM Invariance == Spec => []Inv
<1>1. Init => Inv
  BY InitCore DEF Init, Inv
<1>2. Inv /\ [Next]_vars => Inv'
  BY NextInv
<1> QED  BY <1>1, <1>2, PTL DEF Spec

(* Every member of the core keeps its type. *)
THEOREM TypeCorrect == Spec => []TypeOK
<1>1. Inv => TypeOK
  BY DEF Inv, CoreInv, CoreType, TypeOK
<1> QED  BY Invariance, <1>1, PTL

(* ShouldPrefetch grants no job, nested or suspended, more than its budget. *)
THEOREM BudgetKept == Spec => []BudgetPerJob
<1>1. Inv => BudgetPerJob
  BY DEF Inv, CoreInv
<1> QED  BY Invariance, <1>1, PTL

(* OnCompactionEnd of the outermost job leaves nothing of any job behind. *)
THEOREM IdleKept == Spec => []IdleRestored
<1>1. Inv => IdleRestored
  BY DEF Inv, CoreInv
<1> QED  BY Invariance, <1>1, PTL

(* Saving and restoring four members at Begin and End implements a stack   *)
(* of private job contexts.                                                *)
THEOREM IsolationRefinement == Spec => JobIsolation
<1>1. Init => Jobs!Init
  BY DEF Init, CoreInit, Jobs!Init, OpenJobs
<1>2. Inv /\ [Next]_vars => [Jobs!Next]_OpenJobs
  BY NextInv
<1> QED  BY Invariance, <1>1, <1>2, PTL DEF Spec, JobIsolation, Jobs!Spec

-----------------------------------------------------------------------------
(* No job begins with so many ranges that ExpandRanges stops early. *)
NoneTruncated ==
    \A blocks \in Inputs : \A i \in DOMAIN blocks :
        LET lo == Clamp(blocks[i].first_range)
        IN  \A r \in lo .. Clamp(blocks[i].last_range) :
                PushedBefore(blocks, i) + (r - lo) <= kMaxCandidates

(* A block is listed with one pair of bounds. *)
BoundsById == \A blocks \in Inputs : \A b, c \in BlockSet(blocks) : Id(b) = Id(c) => b = c

(* Then a block that meets a hot range of the key space meets one that was *)
(* a candidate.                                                            *)
LEMMA CandidatesCover ==
    ASSUME NoneTruncated, NEW blocks \in Inputs, NEW b \in BlockSet(blocks), NEW lo, NEW hi,
           Overlaps(b, PredictHot(Ranges, lo, hi))
    PROVE  Overlaps(b, PredictHot(ExpandRanges(blocks), lo, hi))
<1>1. PICK i \in DOMAIN blocks : b = blocks[i]
  BY DEF BlockSet
<1>2. PICK r \in b.first_range .. b.last_range : r \in PredictHot(Ranges, lo, hi)
  BY DEF Overlaps
<1>3. blocks \in Seq(BlockRef) /\ MaxRangeId \in Nat
  BY CoreAssumption
<1>4. b.first_range \in Nat /\ b.last_range \in Nat
  <2>1. blocks[i] \in BlockRef
    BY <1>3
  <2> QED  BY <1>1, <2>1 DEF BlockRef
<1>5. r \in Ranges
  BY <1>2 DEF PredictHot
<1>6. r \in Clamp(b.first_range) .. Clamp(b.last_range)
  BY <1>2, <1>3, <1>4, <1>5 DEF Clamp, Ranges
<1>7. PushedBefore(blocks, i) + (r - Clamp(b.first_range)) <= kMaxCandidates
  BY <1>1, <1>6 DEF NoneTruncated
<1>8. r \in ExpandRanges(blocks)
  BY <1>1, <1>5, <1>6, <1>7 DEF ExpandRanges
<1>9. r \in PredictHot(ExpandRanges(blocks), lo, hi)
  BY <1>2, <1>8 DEF PredictHot
<1> QED  BY <1>2, <1>9 DEF Overlaps

(* Phase 1 evicts predicted-cold blocks only (OnCompactionBegin in         *)
(* leaper.cc), for any models and options, as long as ExpandRanges never   *)
(* stops at kMaxCandidates: a list that is cut short is all that breaks it. *)
THEOREM HotKept ==
    ASSUME NoneTruncated, BoundsById
    PROVE  Spec => Phase1KeepsHot
<1>1. ASSUME NEW blocks \in Inputs, opt.policy = "leaper", OnCompactionBegin(FALSE, Len(blocks), blocks)
      PROVE  EvictsOnlyCold(blocks)
  <2>1. CASE cache' = cache
    BY <2>1 DEF EvictsOnlyCold
  <2>2. CASE DecideLeaperCompaction(blocks, Len(blocks))
    <3> DEFINE keep == PredictHot(ExpandRanges(blocks), 1, K1(Len(blocks)))
    <3>1. cache' = cache \/ cache' = cache \ {Id(c) : c \in {d \in BlockSet(blocks) : ~Overlaps(d, keep)}}
      BY <2>2 DEF DecideLeaperCompaction, KeepPhase1
    <3> SUFFICES ASSUME NEW b \in BlockSet(blocks), Id(b) \in cache \ cache'
                 PROVE  ~Overlaps(b, PredictHot(Ranges, 1, K1(Len(blocks))))
      BY DEF EvictsOnlyCold
    <3>2. PICK c \in BlockSet(blocks) : Id(b) = Id(c) /\ ~Overlaps(c, keep)
      BY <3>1
    <3>3. ~Overlaps(b, keep)
      BY <3>2, BoundsById DEF BoundsById
    <3> QED  BY <3>3, CandidatesCover
  <2> QED
    BY <1>1, <2>1, <2>2
       DEF OnCompactionBegin, DecideNothing, DecideIncremental, DecideOracle, DecideLeaperFlush
<1>2. [Next]_vars => [\A blocks \in Inputs :
                        opt.policy = "leaper" /\ OnCompactionBegin(FALSE, Len(blocks), blocks)
                            => EvictsOnlyCold(blocks)]_vars
  BY Zenon, <1>1
<1> QED  BY <1>2, PTL DEF Spec, Phase1KeepsHot

-----------------------------------------------------------------------------
(* The run the code counts is the stretch of equal verdicts the window     *)
(* ends in, and a run that fills the window has decided.                   *)
RunInv ==
    LET n == Len(verdicts)
    IN  /\ verdicts \in Seq(BOOLEAN) /\ n <= opt.ssad_window
        /\ ssad_run <= n /\ (n > 0 => ssad_run >= 1)
        /\ \A i \in n - ssad_run + 1 .. n : verdicts[i] = ssad_last_bad
        /\ ssad_run < n => verdicts[n - ssad_run] # ssad_last_bad
        /\ ssad_run = opt.ssad_window => ssad_suspended = ssad_last_bad

(* The window after one more verdict: the oldest goes when it was full.    *)
LEMMA NextWindow ==
    ASSUME NEW s \in Seq(BOOLEAN), NEW b \in BOOLEAN,
           opt.ssad_window \in Nat \ {0}, Len(s) <= opt.ssad_window
    PROVE  LET w == LastWindow(Append(s, b))
               d == IF Len(s) < opt.ssad_window THEN 0 ELSE 1
           IN  /\ w \in Seq(BOOLEAN) /\ Len(w) = Len(s) + 1 - d /\ w[Len(w)] = b
               /\ \A i \in 1 .. Len(s) - d : w[i] = s[i + d]
<1> DEFINE W == opt.ssad_window
           n == Len(s)
           a == Append(s, b)
<1>1. /\ n \in Nat /\ a \in Seq(BOOLEAN) /\ Len(a) = n + 1 /\ a[n + 1] = b
      /\ \A i \in 1 .. n : a[i] = s[i]
  OBVIOUS
<1>2. CASE n < W
  <2>1. LastWindow(a) = a
    BY <1>1, <1>2 DEF LastWindow
  <2> QED  BY <1>1, <1>2, <2>1
<1>3. CASE n = W
  <2>1. LastWindow(a) = SubSeq(a, 2, n + 1)
    BY <1>1, <1>3 DEF LastWindow
  <2>2. \A i \in 2 .. n + 1 : a[i] \in BOOLEAN
    BY <1>1
  <2> HIDE DEF a, n
  <2>3. /\ SubSeq(a, 2, n + 1) \in Seq(BOOLEAN)
        /\ Len(SubSeq(a, 2, n + 1)) = IF 2 <= n + 1 THEN n + 1 - 2 + 1 ELSE 0
        /\ \A i \in 1 .. n + 1 - 2 + 1 : SubSeq(a, 2, n + 1)[i] = a[2 + i - 1]
    BY <1>1, <2>2
  <2>4. n >= 1
    BY <1>1, <1>3
  <2>5. /\ Len(SubSeq(a, 2, n + 1)) = n
        /\ \A i \in 1 .. n : SubSeq(a, 2, n + 1)[i] = a[i + 1]
    BY <1>1, <2>3, <2>4
  <2>6. SubSeq(a, 2, n + 1)[n] = b /\ \A i \in 1 .. n - 1 : SubSeq(a, 2, n + 1)[i] = s[i + 1]
    BY <1>1, <2>4, <2>5
  <2> QED  BY SMTT(30), Z3T(30), <1>1, <1>3, <2>1, <2>3, <2>5, <2>6 DEF a, n
<1> QED  BY <1>1, <1>2, <1>3

(* A report moves the run with the window. *)
LEMMA ReportKeepsRun ==
    ASSUME CoreInv, RunInv, NEW m \in MissRatios, Report(m)
    PROVE  RunInv' /\ (ssad_run' < opt.ssad_window => ssad_suspended' = ssad_suspended)
<1> DEFINE W == opt.ssad_window
           n == Len(verdicts)
           b == Bad(m)
           d == IF n < W THEN 0 ELSE 1
           w == verdicts'
<1>1. /\ opt' = opt /\ ssad_run' = RunLength(b) /\ ssad_last_bad' = b
      /\ ssad_suspended' = Verdict(b, RunLength(b)) /\ w = LastWindow(Append(verdicts, b))
  BY DEF Report, Health, set_health
<1>2. /\ W \in Nat \ {0} /\ n \in Nat /\ n <= W /\ verdicts \in Seq(BOOLEAN)
      /\ ssad_run \in 0 .. W /\ ssad_last_bad \in BOOLEAN /\ b \in BOOLEAN
  BY SsadAssumption DEF CoreInv, CoreType, SsadTypeOK, RunInv, Bad
<1>3. /\ w \in Seq(BOOLEAN) /\ Len(w) = n + 1 - d /\ w[Len(w)] = b
      /\ \A i \in 1 .. n - d : w[i] = verdicts[i + d]
  BY Zenon, <1>1, <1>2, NextWindow
<1>4. /\ ssad_run <= n /\ (n > 0 => ssad_run >= 1)
      /\ \A i \in n - ssad_run + 1 .. n : verdicts[i] = ssad_last_bad
      /\ ssad_run < n => verdicts[n - ssad_run] # ssad_last_bad
  BY DEF RunInv
<1>5. d \in {0, 1} /\ n + 1 - d <= W /\ (d = 1 => n = W)
  BY <1>2
<1> HIDE DEF W, n, b, d, w
<1>6. PICK r \in Int : r = RunLength(b)
  BY <1>2 DEF RunLength, W
<1>7. /\ r <= n + 1 - d /\ r >= 1
      /\ \A i \in n + 1 - d - r + 1 .. n + 1 - d : w[i] = b
      /\ r < n + 1 - d => w[n + 1 - d - r] # b
  <2>1. CASE b # ssad_last_bad
    <3>1. r = 1
      BY <1>6, <2>1 DEF RunLength
    <3>2. 1 <= n + 1 - d
      BY <1>2, <1>5
    <3>3. ASSUME 1 < n + 1 - d  PROVE w[n - d] # b
      <4>1. n - d \in 1 .. n - d /\ n \in n - ssad_run + 1 .. n
        BY <1>2, <1>4, <1>5, <3>3
      <4>2. w[n - d] = verdicts[n - d + d] /\ n - d + d = n
        BY <1>2, <1>3, <1>5, <4>1
      <4> QED  BY <1>4, <2>1, <4>1, <4>2
    <3> QED  BY <1>2, <1>3, <1>5, <3>1, <3>2, <3>3
  <2>2. CASE b = ssad_last_bad /\ ssad_run < W
    <3>1. r = ssad_run + 1
      BY <1>2, <1>6, <2>2 DEF RunLength, W
    <3>2. r <= n + 1 - d
      BY <1>2, <1>4, <1>5, <2>2, <3>1
    <3>3. ASSUME NEW i \in n + 1 - d - r + 1 .. n + 1 - d  PROVE w[i] = b
      <4>1. CASE i = n + 1 - d
        BY <1>3, <4>1
      <4>2. CASE i # n + 1 - d
        <5>1. i \in 1 .. n - d /\ i + d \in n - ssad_run + 1 .. n
          BY <1>2, <1>5, <3>1, <3>2, <3>3, <4>2
        <5> QED  BY <1>3, <1>4, <2>2, <5>1
      <4> QED  BY <4>1, <4>2
    <3>4. ASSUME r < n + 1 - d  PROVE w[n + 1 - d - r] # b
      <4>1. /\ n + 1 - d - r \in 1 .. n - d /\ (n + 1 - d - r) + d = n - ssad_run /\ ssad_run < n
        BY <1>2, <1>5, <3>1, <3>4
      <4> QED  BY <1>3, <1>4, <2>2, <4>1
    <3> QED  BY <1>2, <3>1, <3>2, <3>3, <3>4
  <2>3. CASE b = ssad_last_bad /\ ~(ssad_run < W)
    <3>1. r = ssad_run /\ ssad_run = W /\ n = W /\ d = 1
      BY <1>2, <1>4, <1>6, <2>3 DEF RunLength, W, d
    <3>2. ASSUME NEW i \in 1 .. n  PROVE w[i] = b
      <4>1. CASE i = n
        BY <1>2, <1>3, <3>1, <4>1
      <4>2. CASE i # n
        <5>1. i \in 1 .. n - d /\ i + d \in n - ssad_run + 1 .. n
          BY <1>2, <3>1, <3>2, <4>2
        <5> QED  BY <1>3, <1>4, <2>3, <5>1
      <4> QED  BY <4>1, <4>2
    <3> QED  BY <1>2, <3>1, <3>2
  <2> QED  BY <2>1, <2>2, <2>3
<1>8. /\ r < W => ssad_suspended' = ssad_suspended
      /\ r = W => ssad_suspended' = b
  BY <1>1, <1>2, <1>6 DEF Verdict, W
<1>9. RunInv'
  <2>1. /\ r <= Len(w) /\ r >= 1 /\ Len(w) <= W
        /\ \A i \in Len(w) - r + 1 .. Len(w) : w[i] = b
        /\ r < Len(w) => w[Len(w) - r] # b
    <3>1. Len(w) = n + 1 - d
      BY <1>3
    <3> QED  BY <1>2, <1>5, <1>7, <3>1
  <2>2. ssad_run' = r /\ ssad_last_bad' = b /\ opt'.ssad_window = W
    BY <1>1, <1>6 DEF W
  <2> QED  BY <1>3, <1>8, <2>1, <2>2 DEF RunInv, w
<1> QED  BY <1>1, <1>6, <1>8, <1>9 DEF W

(* What a full window says of the run. *)
LEMMA FullMeansDecided ==
    ASSUME CoreInv', RunInv', opt' = opt, NEW v \in BOOLEAN
    PROVE  Full(v) <=> ssad_run' = opt.ssad_window /\ ssad_last_bad' = v
<1> DEFINE W == opt.ssad_window
           w == verdicts'
           n == Len(w)
           r == ssad_run'
<1>1. /\ W \in Nat \ {0} /\ w \in Seq(BOOLEAN) /\ n \in Nat /\ n <= W /\ r \in 0 .. W
      /\ r <= n /\ (n > 0 => r >= 1)
      /\ \A i \in n - r + 1 .. n : w[i] = ssad_last_bad'
      /\ r < n => w[n - r] # ssad_last_bad'
      /\ DOMAIN w = 1 .. n
  BY SsadAssumption DEF CoreInv, CoreType, SsadTypeOK, RunInv
<1> HIDE DEF W, w, n, r
<1>2. ASSUME n = W, \A i \in 1 .. n : w[i] = v  PROVE r = W /\ ssad_last_bad' = v
  <2>1. n \in n - r + 1 .. n /\ n \in 1 .. n
    BY <1>1, <1>2
  <2>2. ssad_last_bad' = v
    BY <1>1, <1>2, <2>1
  <2>3. r < n => n - r \in 1 .. n
    BY <1>1, <2>1
  <2>4. ~(r < n)
    BY <1>1, <1>2, <2>2, <2>3
  <2> QED  BY <1>1, <1>2, <2>2, <2>4
<1>3. ASSUME r = W, ssad_last_bad' = v  PROVE n = W /\ \A i \in 1 .. n : w[i] = v
  <2>1. n = W
    BY <1>1, <1>3
  <2>2. \A i \in 1 .. n : i \in n - r + 1 .. n
    BY <1>1, <1>3, <2>1
  <2> QED  BY <1>1, <1>3, <2>1, <2>2
<1>4. Full(v) <=> n = W /\ \A i \in 1 .. n : w[i] = v
  BY <1>1 DEF Full, W, w, n
<1> QED  BY <1>2, <1>3, <1>4 DEF W, r

(* The rollback's steps, with the window they leave. *)
LEMMA WindowStep ==
    ASSUME CoreInv, CoreInv', RunInv, [HNext]_hvars
    PROVE  RunInv' /\ ssad_suspended' = (Full(TRUE) \/ (ssad_suspended /\ ~Full(FALSE)))
<1>0. opt' = opt
  BY DEF HNext, Report, Health, Next, Begin, Write, End, Obsolete, set_qps, TimePasses, CacheInsert, CacheDrop,
         hvars, vars
<1>1. RunInv' /\ (ssad_run' < opt.ssad_window => ssad_suspended' = ssad_suspended)
  <2>1. CASE \E m \in MissRatios : Report(m)
    BY <2>1, ReportKeepsRun
  <2>2. CASE UNCHANGED <<ssadVars, verdicts>>
    BY <1>0, <2>2 DEF RunInv, ssadVars
  <2> QED  BY <2>1, <2>2 DEF HNext, hvars, vars
<1>2. /\ ssad_run' \in 0 .. opt.ssad_window /\ opt.ssad_window \in Nat /\ ssad_last_bad' \in BOOLEAN
      /\ ssad_suspended \in BOOLEAN /\ ssad_suspended' \in BOOLEAN
  BY <1>0, SsadAssumption DEF CoreInv, CoreType, SsadTypeOK
<1>3. ssad_run' = opt.ssad_window => ssad_suspended' = ssad_last_bad'
  BY <1>0, <1>1 DEF RunInv
<1>4. /\ Full(TRUE) <=> ssad_run' = opt.ssad_window /\ ssad_last_bad' = TRUE
      /\ Full(FALSE) <=> ssad_run' = opt.ssad_window /\ ssad_last_bad' = FALSE
  BY Zenon, <1>0, <1>1, FullMeansDecided
<1>5. CASE ssad_run' = opt.ssad_window /\ ssad_last_bad' = TRUE
  <2>1. ssad_suspended' = TRUE /\ Full(TRUE)
    BY Zenon, <1>3, <1>4, <1>5
  <2> QED  BY Zenon, <1>1, <2>1
<1>6. CASE ssad_run' = opt.ssad_window /\ ssad_last_bad' = FALSE
  <2>1. ssad_suspended' = FALSE /\ Full(FALSE) /\ ~Full(TRUE)
    BY Zenon, <1>3, <1>4, <1>6
  <2> QED  BY Zenon, <1>1, <2>1
<1>7. CASE ssad_run' # opt.ssad_window
  <2>1. ssad_suspended' = ssad_suspended
    BY <1>1, <1>2, <1>7
  <2>2. ~Full(TRUE) /\ ~Full(FALSE)
    BY Zenon, <1>4, <1>7
  <2> QED  BY Zenon, <1>1, <1>2, <2>1, <2>2
<1> QED  BY Zenon, <1>1, <1>2, <1>5, <1>6, <1>7

(* set_health switches the prefetcher on a full window of equal verdicts   *)
(* and on nothing else (leaper.cc, ssad_run_ and ssad_suspended_), however *)
(* the runs before it were interrupted.                                    *)
THEOREM WindowDecides == HSpec => FullWindowDecides
<1>1. HInit => Init /\ RunInv
  <2> SUFFICES ASSUME HInit  PROVE Init /\ RunInv
    OBVIOUS
  <2>1. Init /\ verdicts = <<>> /\ ssad_run = 0
    BY DEF HInit, Init, CoreInit, SsadInit
  <2>2. opt.ssad_window \in Nat \ {0}
    BY <2>1, SsadAssumption DEF Init, CoreInit
  <2>3. Len(verdicts) = 0 /\ verdicts \in Seq(BOOLEAN)
    BY <2>1
  <2> QED  BY <2>1, <2>2, <2>3 DEF RunInv
<1>2. [HNext]_hvars => [Next]_vars
  BY DEF HNext, Report, Next, hvars
<1>3. Inv /\ Inv' /\ RunInv /\ [HNext]_hvars
        => RunInv' /\ [ssad_suspended' = (Full(TRUE) \/ (ssad_suspended /\ ~Full(FALSE)))]_hvars
  BY Zenon, WindowStep DEF Inv
<1>4. Init => Inv
  BY InitCore DEF Init, Inv
<1>5. Inv /\ [Next]_vars => Inv'
  BY NextInv
<1> QED  BY <1>1, <1>2, <1>3, <1>4, <1>5, PTL DEF HSpec, FullWindowDecides
=============================================================================
