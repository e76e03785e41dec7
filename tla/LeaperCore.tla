---------------------------- MODULE LeaperCore ----------------------------
(***************************************************************************)
(* The engine-neutral plug-in, LeaperImpl in leaper/src/leaper.cc: what a  *)
(* background job decides when it begins (which input blocks to evict,     *)
(* which ranges are hot), what it is granted while it writes, and how the  *)
(* state of the enclosing job is put aside and restored.  Every operation  *)
(* holds mu_ from its first to its last line, so each is one action.       *)
(*                                                                         *)
(* A list of hot spans is represented by the set of ranges it covers       *)
(* (module Overlap checks that the spans and the searches agree with it),  *)
(* and a model by the set of ranges it scores at or above hot_threshold.   *)
(***************************************************************************)
EXTENDS Ssad, FiniteSetsExt

CONSTANTS
    MaxRangeId,      \* Options::max_range_id
    kMaxCandidates,  \* ExpandRanges stops once it holds more ids than this
    Inputs,          \* lists of input blocks a job may begin with
    Outputs,         \* blocks a job may write
    Forecasts,       \* sequences over SUBSET Ranges: the models' answers, per step
    QpsValues,       \* loads the harness may report
    MaxDepth         \* bound on the number of open jobs

Ranges == 0 .. MaxRangeId

BlockRef == [file_id: Nat, offset: Nat, size: Nat, first_range: Nat, last_range: Nat]

Policies == {"off", "eager_evict", "incremental", "warm_all", "warm_flush", "leaper", "oracle"}

ASSUME CoreAssumption ==
    /\ MaxRangeId \in Nat
    /\ kMaxCandidates \in Nat
    /\ Inputs \subseteq Seq(BlockRef)
    /\ Outputs \subseteq BlockRef
    /\ Forecasts \subseteq Seq(SUBSET Ranges) \ {<<>>}
    /\ QpsValues \subseteq Nat
    /\ MaxDepth \in Nat
    /\ \A o \in Configs : o.policy \in Policies /\ o.budget \in Nat

VARIABLES
    hot_t2,            \* ranges the current job warms
    prefetched_bytes,  \* bytes granted to the current job
    budget_bytes,      \* what it may be granted
    cur_is_flush,
    ctx_stack,         \* the enclosing jobs' contexts, innermost last
    cache,             \* ids of the blocks in the engine's block cache
    forecast,          \* what the models answer now; its first step is also
                       \* oracle_[slot + 1], which only policy oracle reads
    qps

jobVars == <<hot_t2, prefetched_bytes, budget_bytes, cur_is_flush, ctx_stack>>
envVars == <<forecast, qps>>
vars == <<opt, jobVars, cache, envVars, ssadVars>>

JobCtx == [hot_t2: SUBSET Ranges, prefetched_bytes: Nat, budget_bytes: Nat, is_flush: BOOLEAN]

(* The four members Begin saves and End restores. *)
Context == [hot_t2 |-> hot_t2, prefetched_bytes |-> prefetched_bytes,
            budget_bytes |-> budget_bytes, is_flush |-> cur_is_flush]

(* What they hold when no job is open. *)
Idle == [hot_t2 |-> {}, prefetched_bytes |-> 0, budget_bytes |-> 0, is_flush |-> FALSE]

-----------------------------------------------------------------------------
(* ExpandRanges pushes the ids of each block in turn, clamped to the key   *)
(* space, and stops after the push that takes it past kMaxCandidates.      *)
Clamp(r) == IF r < MaxRangeId THEN r ELSE MaxRangeId

Width(b) == Cardinality(Clamp(b.first_range) .. Clamp(b.last_range))

PushedBefore(blocks, i) == MapThenSumSet(LAMBDA j : Width(blocks[j]), 1 .. i - 1)

(* A slip: the bounds of a block are taken as they come. *)
ExpandUnclamped(blocks) == UNION {blocks[i].first_range .. blocks[i].last_range : i \in DOMAIN blocks}

ExpandRanges(blocks) ==
    {r \in Ranges : \E i \in DOMAIN blocks :
        LET lo == Clamp(blocks[i].first_range)
        IN  /\ r \in lo .. Clamp(blocks[i].last_range)
            /\ PushedBefore(blocks, i) + (r - lo) <= kMaxCandidates}

Overlaps(b, hot) == \E r \in b.first_range .. b.last_range : r \in hot

(* The ranges some model of steps step_lo .. step_hi calls hot.  A single  *)
(* model stands for every step; steps beyond the last model predict        *)
(* nothing.                                                                *)
PredictHot(candidates, step_lo, step_hi) ==
    LET last   == Len(forecast)
        single == last = 1
        hi     == IF single THEN step_lo ELSE IF step_hi < last THEN step_hi ELSE last
    IN  {r \in candidates : \E s \in step_lo .. hi : r \in forecast[IF single THEN 1 ELSE s]}

(* Length of a phase in slots: the pinned one, or a linear estimate rounded *)
(* up, and at least one slot.                                               *)
Slots(pinned, amount, per_slot) ==
    LET k == IF pinned > 0 THEN pinned ELSE (amount + per_slot - 1) \div per_slot
    IN  IF k > 1 THEN k ELSE 1

K1(est_blocks) == Slots(opt.t1, est_blocks, opt.blocks_per_slot)
K2 == Slots(opt.t2, qps, opt.qps_per_slot)

(* What the block cache knows a block by: its file and offset, not its     *)
(* bounds.                                                                 *)
Id(b) == [file_id |-> b.file_id, offset |-> b.offset]

Cached(blocks) == SelectSeq(blocks, LAMBDA b : Id(b) \in cache)
BlockSet(blocks) == {blocks[i] : i \in DOMAIN blocks}
Ids(blocks) == {Id(b) : b \in BlockSet(blocks)}

-----------------------------------------------------------------------------
(* OnCompactionBegin, one operator per policy group.  Each fixes the new   *)
(* job's hot ranges and what happens to the cache.                         *)
DecideNothing ==
    /\ \/ opt.policy \in {"off", "eager_evict", "warm_all", "warm_flush"}
       \/ opt.policy = "leaper" /\ ssad_suspended
    /\ hot_t2' = {}
    /\ UNCHANGED cache

(* The cache is probed twice and is not under mu_.  A block a client       *)
(* inserts in between is evicted and not counted as live, the outcome of   *)
(* its not having been there, so one step loses no outcome.                *)
DecideIncremental(blocks) ==
    /\ opt.policy = "incremental"
    /\ hot_t2' = ExpandRanges(Cached(blocks))
    /\ cache' = cache \ Ids(blocks)

DecideOracle ==
    /\ opt.policy = "oracle"
    /\ hot_t2' = forecast[1]
    /\ UNCHANGED cache

DecideLeaperFlush(blocks) ==
    /\ opt.policy = "leaper" /\ ~ssad_suspended
    /\ LET hot2 == PredictHot(ExpandRanges(blocks), 1, K2)
       IN  hot_t2' = IF opt.dry_run THEN {} ELSE hot2
    /\ UNCHANGED cache

(* A slip: phase 1 keeps what phase 2 wants, not what is read meanwhile. *)
KeepPhase2(blocks, est_blocks) ==
    LET k1 == K1(est_blocks)
    IN  PredictHot(ExpandRanges(blocks), k1 + 1, k1 + K2)

KeepPhase1(blocks, est_blocks) == PredictHot(ExpandRanges(blocks), 1, K1(est_blocks))

DecideLeaperCompaction(blocks, est_blocks) ==
    /\ opt.policy = "leaper" /\ ~ssad_suspended
    /\ LET k1   == K1(est_blocks)
           keep == KeepPhase1(blocks, est_blocks)
           hot2 == PredictHot(ExpandRanges(blocks), k1 + 1, k1 + K2)
       IN  /\ hot_t2' = IF opt.dry_run THEN {} ELSE hot2
           /\ cache' = IF opt.dry_run \/ ~opt.enable_phase1 THEN cache
                       ELSE cache \ {Id(b) : b \in {c \in BlockSet(blocks) : ~Overlaps(c, keep)}}

OnCompactionBegin(is_flush, est_blocks, blocks) ==
    /\ ctx_stack' = Append(ctx_stack, Context)
    /\ prefetched_bytes' = 0
    /\ cur_is_flush' = is_flush
    /\ budget_bytes' = opt.budget
    /\ \/ DecideNothing
       \/ DecideIncremental(blocks)
       \/ DecideOracle
       \/ is_flush /\ DecideLeaperFlush(blocks)
       \/ ~is_flush /\ DecideLeaperCompaction(blocks, est_blocks)

-----------------------------------------------------------------------------
(* ShouldPrefetch *)
Wanted(b) ==
    CASE opt.policy \in {"off", "eager_evict"} -> FALSE
      [] opt.policy = "warm_all" -> TRUE
      [] opt.policy = "warm_flush" -> cur_is_flush
      [] opt.policy \in {"incremental", "oracle"} -> Overlaps(b, hot_t2)
      [] opt.policy = "leaper" -> opt.enable_phase2 /\ ~ssad_suspended /\ Overlaps(b, hot_t2)

(* A slip: the budget is compared before the block is added to it. *)
AffordableLate(b) == prefetched_bytes <= budget_bytes

Affordable(b) == prefetched_bytes + b.size <= budget_bytes

Granted(b) == Wanted(b) /\ Affordable(b)

ShouldPrefetch(b) ==
    /\ prefetched_bytes' = IF Granted(b) THEN prefetched_bytes + b.size ELSE prefetched_bytes
    /\ UNCHANGED <<hot_t2, budget_bytes, cur_is_flush, ctx_stack, cache>>

(* A slip: the enclosing job's budget use is forgotten. *)
RestoreForgetful(outer) ==
    /\ hot_t2' = outer.hot_t2
    /\ prefetched_bytes' = 0
    /\ budget_bytes' = outer.budget_bytes
    /\ cur_is_flush' = outer.is_flush

(* A slip: the enclosing job goes on with the nested job's hot ranges. *)
RestoreKeepsHot(outer) ==
    /\ UNCHANGED hot_t2
    /\ prefetched_bytes' = outer.prefetched_bytes
    /\ budget_bytes' = outer.budget_bytes
    /\ cur_is_flush' = outer.is_flush

(* A slip: the flush flag is left as the nested job set it. *)
RestoreKeepsFlag(outer) ==
    /\ hot_t2' = outer.hot_t2
    /\ prefetched_bytes' = outer.prefetched_bytes
    /\ budget_bytes' = outer.budget_bytes
    /\ UNCHANGED cur_is_flush

Restore(outer) ==
    /\ hot_t2' = outer.hot_t2
    /\ prefetched_bytes' = outer.prefetched_bytes
    /\ budget_bytes' = outer.budget_bytes
    /\ cur_is_flush' = outer.is_flush

OnCompactionEnd ==
    \/ /\ ctx_stack = <<>>
       /\ hot_t2' = {}
       /\ UNCHANGED <<prefetched_bytes, budget_bytes, cur_is_flush, ctx_stack>>
    \/ /\ ctx_stack # <<>>
       /\ Restore(ctx_stack[Len(ctx_stack)])
       /\ ctx_stack' = SubSeq(ctx_stack, 1, Len(ctx_stack) - 1)

OnFileObsolete(blocks) ==
    /\ opt.policy # "off"
    /\ cache' = cache \ Ids(blocks)
    /\ UNCHANGED jobVars

-----------------------------------------------------------------------------
(* The environment: the harness reports, the models' answers change with   *)
(* time, clients fill the cache and LRU empties it.                        *)
set_qps(q) == qps' = q /\ UNCHANGED <<opt, jobVars, cache, forecast, ssadVars>>

TimePasses ==
    /\ forecast' \in Forecasts
    /\ UNCHANGED <<opt, jobVars, cache, qps, ssadVars>>

InputIds == UNION {Ids(i) : i \in Inputs}

CacheInsert(id) == cache' = cache \cup {id} /\ UNCHANGED <<opt, jobVars, envVars, ssadVars>>
CacheDrop(id) == cache' = cache \ {id} /\ UNCHANGED <<opt, jobVars, envVars, ssadVars>>

CoreInit ==
    /\ opt \in Configs
    /\ hot_t2 = {} /\ prefetched_bytes = 0 /\ budget_bytes = 0 /\ cur_is_flush = FALSE
    /\ ctx_stack = <<>>
    /\ forecast \in Forecasts
    /\ qps = 0
    /\ SsadInit

Init == CoreInit /\ cache \in SUBSET InputIds

Begin(is_flush, blocks) ==
    /\ Len(ctx_stack) < MaxDepth
    /\ OnCompactionBegin(is_flush, Len(blocks), blocks)
    /\ UNCHANGED <<opt, envVars, ssadVars>>
Write(b) == ctx_stack # <<>> /\ ShouldPrefetch(b) /\ UNCHANGED <<opt, envVars, ssadVars>>
End == OnCompactionEnd /\ UNCHANGED <<opt, cache, envVars, ssadVars>>
Obsolete(blocks) == OnFileObsolete(blocks) /\ UNCHANGED <<opt, envVars, ssadVars>>
Health(m) == set_health(m) /\ UNCHANGED <<opt, jobVars, cache, envVars>>

Next ==
    \/ \E is_flush \in BOOLEAN, blocks \in Inputs : Begin(is_flush, blocks)
    \/ \E b \in Outputs : Write(b)
    \/ End
    \/ \E blocks \in Inputs : Obsolete(blocks)
    \/ \E m \in MissRatios : Health(m)
    \/ \E q \in QpsValues : set_qps(q)
    \/ TimePasses
    \/ \E id \in InputIds : CacheInsert(id) \/ CacheDrop(id)

Spec == Init /\ [][Next]_vars

-----------------------------------------------------------------------------
TypeOK ==
    /\ opt \in Configs
    /\ Context \in JobCtx
    /\ ctx_stack \in Seq(JobCtx)
    /\ cache \subseteq InputIds
    /\ forecast \in Forecasts
    /\ qps \in Nat
    /\ SsadTypeOK

(* The open jobs as the adapters see them: the context a job works in is   *)
(* on the stack once another job has begun inside it.                      *)
JobOf(c) == [hot |-> c.hot_t2, is_flush |-> c.is_flush,
             budget |-> c.budget_bytes, spent |-> c.prefetched_bytes]

OpenJobs ==
    [i \in 1 .. Len(ctx_stack) |->
        JobOf(IF i < Len(ctx_stack) THEN ctx_stack[i + 1] ELSE Context)]

Jobs == INSTANCE JobContexts WITH jobs <- OpenJobs

(* Begin, ShouldPrefetch and End treat the shared members as a stack of    *)
(* private job contexts: a flush that begins and ends inside a compaction  *)
(* leaves the compaction's hot set, flush flag, budget and the bytes it    *)
(* has used exactly as they were, however often this happens               *)
(* (leaper.cc, OnCompactionBegin's comment on nesting).                    *)
JobIsolation == Jobs!Spec

(* No open job, current or suspended under a nested one, was ever granted  *)
(* more bytes than max_prefetch_frac of the cache (leaper.h,               *)
(* Options::max_prefetch_frac), and nesting never changes that limit.      *)
BudgetPerJob ==
    \A i \in DOMAIN OpenJobs :
        OpenJobs[i].budget = opt.budget /\ OpenJobs[i].spent <= OpenJobs[i].budget

(* When the last job has ended no member still holds anything of a job:    *)
(* the base context is the one the instance was opened with, whatever      *)
(* nested, was suspended or was refused in between.                        *)
BaseContext == IF ctx_stack = <<>> THEN Context ELSE ctx_stack[1]
IdleRestored == BaseContext = Idle

(* Phase 1 evicts no block that holds a range some model expects to be     *)
(* read while the compaction runs (leaper.cc, "Only evicting predicted-    *)
(* cold blocks is what keeps this safe").                                  *)
EvictsOnlyCold(blocks) ==
    \A b \in BlockSet(blocks) :
        Id(b) \in cache \ cache' => ~Overlaps(b, PredictHot(Ranges, 1, K1(Len(blocks))))

Phase1KeepsHot ==
    [][\A blocks \in Inputs :
        opt.policy = "leaper" /\ OnCompactionBegin(FALSE, Len(blocks), blocks)
            => EvictsOnlyCold(blocks)]_vars
=============================================================================
