# Leaper in TLA+

Leaper is a plug-in for LSM storage engines: it counts accesses per key range,
predicts which ranges will be read after a flush or compaction, evicts input
blocks that will not be read any more and warms the output blocks that will.
This directory holds TLA+ models of the parts where order, concurrency and
limits decide whether it is right, TLC configurations for small instances, and
TLAPS proofs about the core and its rollback, the overlap check, both adapters,
the warm queue, the collector with its memo, the benchmark harness and its
instruments.

## 1. The system

| part | source | state | operations |
|---|---|---|---|
| core | `leaper/src/leaper.cc` | `hot_t2_`, `prefetched_bytes_`, `budget_bytes_`, `cur_is_flush_`, `ctx_stack_`, all under `mu_` | `OnCompactionBegin`, `ShouldPrefetch`, `OnCompactionEnd`, `OnFileObsolete`, `set_qps` |
| rollback (SSAD) | `leaper.cc`, `set_health` | suspended flag, run length, EWMA | `set_health` |
| overlap check | `leaper/src/overlap.cc` | none | `ToSpans`, `BlockOverlaps`, `SelectOverlapping` |
| collector | `leaper/src/collector.cc` | one atomic word per range, kind and ring cell | `Record` from any client thread, `History` |
| predictor | `leaper/src/predictor.cc` | memo of this second's answers | `PredictHot` |
| LevelDB adapter | `adapters/leveldb/leaper_leveldb.cc`, hooks patch | `pending_warm_`, `current_output_`, `nested_`, `file_sizes_`; warm queue | hooks on the background thread, `WarmLoop`, `Shutdown` |
| RocksDB adapter | `adapters/rocksdb/leaper_rocksdb.cc`, filter patch | `pending_by_job_`, thread-local prepopulate job and budget | `Begin`, `End`, `ShouldWarm`, `Prefetch`, `WarmFromFiles` |
| GBDT models, oracle file | `leaper/src/gbdt.cc`, `leaper.cc` | loaded trees, tables | `LoadString`, `RawScore`, `LoadOracle`, `Leaper::Open` |
| range mappers | `leaper.cc` | none | `Map`, `RangeStartKey` |
| harnesses | `bench/src/` | `Shared`, the main thread's snapshots, output files | `ParseArgs`, `WorkerLoop`, `Run` |
| instruments | `bench/include/` | `StatsCache` and its counters, event log, histograms, trace buffers | `Lookup`, `Insert`, `Erase`, `Logv`, `Percentile`, `TraceWriter` |
| key generators | `bench/include/leaper_bench/keygen.h` | shares, phases | one draw each |
| offline tools | `tools/`, `experiments/` | files | training and analysis |

How they interact: client threads feed the collector. An engine's background
job calls `Begin` on its adapter, the adapter asks the core, the core asks the
predictor over the collector's counters and evicts through the adapter's cache
bridge. While the job writes, each output block is offered to `ShouldPrefetch`;
what is granted is warmed when its file is finished (LevelDB, in place or by a
warm thread) or when the job ends (RocksDB, or while the block is built). The
harness reports the miss ratio once a second, which may suspend the plug-in.

What makes it hard: LevelDB runs a flush *inside* a compaction, so one job's
members are overwritten by another's; RocksDB runs jobs concurrently over the
same members; budgets are unsigned counters in which 0 also means "no limit";
`Record` is lock-free and can be overtaken by the ring; files are deleted while
their blocks wait to be warmed; the harness samples counters that move and
writes result files a killed run leaves half done.
`PROJECT.json` lists each hazard at its line with the properties that cover it.

## 2. Modules

| module | models | abstraction |
|---|---|---|
| `JobContexts` | what the core promises: a stack of private job contexts | abstract specification |
| `Ssad` | `set_health` | ratios in integer hundredths |
| `SsadWindow` | the core with the rollback's last verdicts remembered | history only |
| `LeaperCore` | `LeaperImpl`, one action per operation, as each holds `mu_` throughout | spans are sets of ranges; a model is the set of ranges it calls hot |
| `Overlap` | `overlap.cc` as operators, against their definitions | justifies the sets of `LeaperCore` |
| `RangeMapper` | both range mappers, `EncodeKey` | a key is a sequence of digits of a small base |
| `Gbdt` | `GbdtModel`, `LoadOracle`, `Predictor::Load`, `Leaper::Open` | a file is a sequence of lines, a line a key and its numbers; scores are integers |
| `Setup` | `ParseArgs` of both harnesses, the plug-in `Run` creates, the load | a value is its text and the number it begins with |
| `Histogram` | buckets, accumulation and `Percentile` | few octaves |
| `KeyGen` | mixgraph, lifecycle, drifting and phased choosers | random numbers and hashes are inputs |
| `LevelDBAdapter` | engine thread, hooks, adapter and core together, warming in place | a file is a sequence of blocks with the ranges they hold |
| `WarmQueue` | `warm_async`: queue, warm thread, file deletion, failed flushes, table cache, shutdown | a batch is a file and a number of blocks; the loop that evicts a file's blocks is one step |
| `RocksDBAdapter` | concurrent jobs over one core, pending lists, prepopulate filter | how ranges are read is left to `RocksDBWarm` |
| `RocksDBWarm` | modes `iterator` and `sst` with their block budgets | what a move of an iterator reads is external: a number of blocks up to a bound |
| `Collector` | `Record`, one step per atomic access; `ResetClock` | a word is a slot and a count |
| `Predictor` | hook calls that take their time once, `PredictHot` and its memo over the live collector | an answer is what it was computed from, read in one step |
| `StatsCache` | the instrumented block cache, one step per counter where the order matters | LevelDB's cache is external: entries, pins, eviction |
| `EventLogger` | `Logv` on the compaction thread's lines | a line is the beginning it is recognised by |
| `Bench` | both harnesses' workers and main thread, chosen by `engine` | latencies and formats left out; a trace file is a count of records; the sine of `--sine_a` is any function of time |
| `LeaperCoreProofs`, `OverlapProofs`, `LevelDBProofs`, `WarmQueueProofs`, `RocksDBProofs`, `CollectorProofs`, `BenchProofs`, `StatsCacheProofs` | theorems, see section 4 | |

`LevelDBAdapter`, `RocksDBAdapter` and `SsadWindow` EXTEND `LeaperCore`, `Predictor` EXTENDS
`Collector`, `Setup` EXTENDS `Gbdt` and `StatsCache` EXTENDS `EventLogger`: a
hook's action contains the core's operation it calls. `MC*` modules give small
sets of options, blocks, forecasts and rates; `WarmQueue` is instantiated by its
`.cfg` alone. Definitions named in a "slip" comment are plausible
mistakes in the operator that follows; for every property at least one of them
makes TLC report a violation.

Correspondence of state and code: variables have the members' names without the
trailing underscore (`hot_t2`, `warm_queue`, `ops_issued`). A thread that the
code runs in several steps has a `pc`, and a step is what it does between two
points at which another thread can see or change something: an atomic access, a
lock taken or released, a call into the engine. The core's operations hold
`mu_` from beginning to end and are one action each. History variables
(`begun`, `before`, `seen`, `verdicts`) only remember; no action's guard but a
bound reads them.

## 3. Runs

Passing runs, with the number of distinct states:

| run | states | properties |
|---|---|---|
| `core` | 464 thousand | `TypeOK`, `BudgetPerJob`, `IdleRestored`, `Phase1KeepsHot`; `JobIsolation`: the core implements `JobContexts`; `FullWindowDecides`: the plug-in is switched by a full window of equal verdicts, always and only; `HealthyResumes` |
| `algorithms` | 649 thousand | `OverlapExact`: exactly the overlapping blocks; `MapExact`: ranges keep the order of keys and of shortened keys; `PercentileBrackets`; `DrawExact`: every key is loaded once and every draw lies where it should; `SetupExact`: a command line, a model file or a core is taken as written or refused |
| `leveldb` | 2.5 million | every block is warmed under its own file (`RightFile`), by its own job's prediction (`WarmsOwnPrediction`) and budget (`WarmWithinBudget`); `NoGarbage`: no block of a deleted file stays cached |
| `warm_queue` | 141 thousand | `NoUseAfterClose`; `FailsOnlyIfGone`: a warm call fails only for a file that is obsolete or whose flush failed; `GarbageWasWaiting`: what stays cached of a deleted file was waiting or unreachable; `QueueDrains`: no lost wake-up; `ShutdownCompletes` |
| `rocksdb` | 822 thousand | a job chooses by its own prediction (`ChoosesOwnPrediction`) and warms its own choice (`WarmsOwnChoice`); `ContextsAccounted` for the shared stack; `WithinBudget` in all three modes; `JobsEnd` |
| `collector` | 1.3 million | `NoPhantomAccess`; `CountsExact` without sampling; `FirstAccessKept` with it; `MemoFreshIfPrompt` |
| `bench` | 1.5 million | `PacedTogether`, `TraceComplete`, `NoWarmupLeak`, `BgAccounted`, `SummaryAddsUp`, `OutputsPaired`, `RunEnds` |
| `stats_cache` | 488 thousand | `LiveExact`: live bytes, by slot and in total, never wrap and are right when all is quiet; `PrefetchAccounted`: a prefetched block is read first once, and before its eviction counts it; `EventsBracketed` |

Runs that must find a violation, each with a finding in `PROJECT.json`:

| run | what the code does |
|---|---|
| `truncated_candidates` | beyond `kMaxCandidates` ids, ranges are never scored, and phase 1 evicts their blocks though a model calls them hot |
| `first_block` | a file's first block is reported with its upper bound as lower bound, and phase 1 evicts it though it holds a hot range |
| `first_access_sampled` | in the clock's slot 0 the first access of a range can be dropped by sampling, as an unused cell looks like slot 0 |
| `invalidations_leak` | the first measured row's `invalidated_blocks` includes every invalidation since the database was opened |

### Bounds, and why they are enough

* `core`: four ranges, blocks that nest and one that reaches beyond
  `max_range_id`, nesting depth 2, every policy, windows of two and three
  verdicts, ratios of 0 and 80 per cent, so that the average starts at zero or
  sinks to it. The proofs lift the bounds for all but `HealthyResumes`.
* `algorithms`: six range ids, up to three blocks and four hot ids; keys of
  three digits in base 3 with ranges that do and do not divide the space;
  latencies in the linear buckets, in each of three octaves and beyond; model
  files of up to three parts, sound and broken; command lines of two flags with
  values that are empty, too wide, negative or run on, with `int` 4 and `long`
  6 bits wide.
* `leveldb`: one file to start from and two more, so that a flush falls inside
  a compaction before and after its output's first block, and the compaction
  goes on when that flush fails; one block of budget, so that blocks are
  granted and refused.
* `warm_queue`: two files, batches of at most two, so that a file is deleted
  before, during and after its batch, or was never built.
* `rocksdb`: two threads and three jobs, the least with which jobs end out of
  order while another begins. The reads of an `End` share nothing with other
  jobs but statistics and are explored on their own: three ranges, two output
  files, budgets 0, 1, 3 and 4 against moves that read up to three blocks
  through the database and two in a file, so that a budget ends inside a move,
  exactly at a range, and never.
* `collector`: a ring of two cells, three calls of two threads, calls overtaken
  by none, one or three slots, that is by less and by more than the ring, with
  and without a load before. Slots of two and seconds of three ticks, so that
  they end apart and together, and two hook calls over one memo, each scoring
  by the time it took when it began. One range and only reads: counters of
  different ranges share nothing, but for ranges that hash to one counter,
  which the properties take together.
* `bench`: two workers, one second of warm-up, two measured, rates that the
  workers reach, the rising quarter of a sine, trace buffers of two records, one
  background lookup or invalidation. A budget that shrinks again (`sine_a` above
  `sine_d`), unthrottled and closed loops, all reads, all writes and sampled
  traces are left to the proofs, which hold for any of them.
* `stats_cache`: two tables, room for one block, two readers (interchangeable),
  the warming and the compaction thread; many accesses with few log lines, and
  the reverse.

### Fairness

`core` assumes that once the harness' reports stay healthy, the next one that
moves the rollback comes, as `Run` reports once a second; nothing forces a bad
report. `warm_queue` assumes weak
fairness of the warm thread, of the notification that follows a push, and of
`Shutdown` once it has begun; no file need be written and no shutdown begun.
`rocksdb` assumes weak fairness of each thread inside a callback; waiting for
`mu_` needs no more, as a finite number of jobs compete for it. `bench` assumes
that threads and the clock go on: workers sleep for a bounded time and take no
lock. The other runs are safety only. Deadlock is checked except where the
modelled program ends or the inputs are used up (`algorithms`, `warm_queue`,
`rocksdb`, `collector`, `bench`, `stats_cache`).

## 4. Proofs

All theorems hold for every value of the constants that satisfies the named
assumptions of their modules (TLC evaluates those on every run), so without
the bounds of section 3 on threads, files, ranges, budgets and depth. Each
proof module names, in a `USE` after its `EXTENDS`, the provers that its leaves
are tried with in turn; a leaf that names a prover is tried with that one only.

**Core** (`LeaperCoreProofs`): `TypeCorrect` (`Spec => []TypeOK`), `BudgetKept`
(`[]BudgetPerJob`), `IdleKept` (`[]IdleRestored`) and `IsolationRefinement`
(`Spec => JobIsolation`). They rest on `Invariance`, `Spec => []Inv`, where
`Inv` is `CoreInv == CoreType /\ IdleRestored /\ BudgetPerJob` and the type of
the cache. `BudgetPerJob` alone is not inductive: `End` makes a saved context
current, so the contexts on the stack have to be typed, and the bottom one,
which belongs to no job, has to be the idle one. The open jobs are the saved
contexts shifted by one with the current members on top; `PushOpensJob` and
`PopClosesJob` show that saving and restoring act on them as `JobContexts` opens
and closes a job, and from these the refinement follows action by action.
`CoreInv` says nothing of the cache, so the lemmas about it (`BeginCore`,
`GrantCore`, `EndCore`, `HealthCore`) serve the adapters' proofs as they stand.

`HotKept` proves the action property `Phase1KeepsHot` from two hypotheses on the
input lists: `NoneTruncated`, that no list reaches `kMaxCandidates`, and
`BoundsById`, that a list has one pair of bounds for a block. The first is the
one the run `truncated_candidates` violates: truncation is all that breaks the
property. The instance of the run `core` satisfies both.

**Rollback** (`LeaperCoreProofs`): `WindowDecides` (`HSpec =>
FullWindowDecides`), for any window, thresholds and reports. `RunInv` says that
`ssad_run_` is the length of the stretch of equal verdicts the window ends in,
that a verdict of the other kind comes before it, and that a run as long as the
window has decided. `EwmaBounds` is the arithmetic of the average.

**Overlap check** (`OverlapProofs`): `OverlapIsExact` (`[]OverlapExact`), for
any number of ranges, hot ids and blocks. The inductive invariant of the
specification, `Sorted`, is only what callers promise: ids ascend, blocks come
by first range. The rest is about the algorithms (`SortedIsExact`). Each loop is
a function defined by recursion; `Recursion` shows that such equations have a
solution and `EveryIteration` that a set closed under the iteration holds all
its states, which is the induction the argument needs, from the well-foundedness
of `<`. `ToSpansRuns`: the spans are runs with gaps between them, cover the ids
seen so far and end at the last. `SearchFindsFirst`: every window of the halving
search yields the point of that window nearest to the first span that does not
end before the block. `FirstDecides`: testing that one span decides.
`MergePassLists`: after each block the cursor is at that block's first span,
because the spans passed end before all later blocks too; nested blocks do not
disturb it. The cost model decides nothing but the branch.

**LevelDB adapter** (`LevelDBProofs`), engine thread, adapter and core together,
for any files, blocks and nesting: `RightFileKept` (`[]RightFile`),
`PredictionKept` (`[]WarmsOwnPrediction`), `WarmingKeptInBudget`
(`[]WarmWithinBudget`), `NoGarbageKept` (`[]NoGarbage`), and `EngineIsolation`:
under the hooks, too, the core implements `JobContexts` and keeps
`BudgetPerJob`. They rest on `EngineInvariance`, `ASpec => []LDInv`, where
`LDInv == CoreInv /\ StackInv /\ FileInv /\ CacheInv`. `StackInv` keeps three
stacks in step, the engine's jobs, the adapter's `nested_` and the core's
`ctx_stack_`, and relates each job to what the other two hold for it; `FileInv`
says that file numbers are fresh and that what a version, a reader or a job
needs is not up for deletion; `CacheInv` that a cached block is one of a file on
disk. `NoGarbage` needs all of them: a nested flush must not finish, or delete,
under the number of the compaction around it. `WarmWithinBudget` is a sum of
sizes, which no step of the code computes: `FitsIn` says that the blocks a job
has warmed or has waiting are no more bytes than the core has charged to the
job's context, whether that context is the current one or saved under another
job's. The bytes of a set of blocks are counted as the members of a set
(`Units`; `SumIsCount` shows that this is the sum), so that a further block is a
disjoint union.

**Warm queue** (`WarmQueueProofs`): `NeverUsedAfterClose`
(`[]NoUseAfterClose`) from `ExitInv`: a thread that is not warming has no
batch, and the main thread is past `Join` only once the warm thread has exited.
`FailuresAreGone` (`[]FailsOnlyIfGone`) from `FailInv`: every batch,
waiting or taken, is of a file that has been written or whose flush failed, and
the size of an open file is remembered; without the second part a batch of an
open file could find no size and fail. `GarbageBounded` (`[]GarbageWasWaiting`) from `GarbageInv`: a
file has at most one batch, waiting or taken, and what an evicted file has in
the cache, reachable or not, with what is left of its batch is no more than was
owed when it was evicted.

**RocksDB adapter** (`RocksDBProofs`), for any number of threads and jobs:
`ChoosesOwn` (`[]ChoosesOwnPrediction`), `WarmsOwn` (`[]WarmsOwnChoice`),
`ContextsKept` (`[]ContextsAccounted`) and `WithinBudgetKept` (`[]WithinBudget`).
`AdapterInv` adds to `CoreInv` what each thread may rely on: while it chooses it
holds `mu_` and the core's hot ranges are its own; while it builds, the list
under its job's id is its own; ids are not shared; and the core's stack holds
one context for each open job and each that was never closed. `BudgetHolds` is
the part about reads: `IteratorInv` ties the thread's remaining budget to what
the ranges before read, as long as there is one, which keeps a budget used up
from being taken for the 0 that means no limit; `CountInv` relates the three
counters of blocks. A move may read any number of blocks, and a budget is passed
by less than one move.

**Collector and memo** (`CollectorProofs`), for any ring and any number of
threads. `NoPhantoms` (`[]NoPhantomAccess`) holds for calls overtaken by any
number of slots: by `PhantomInv` a call about to add finds its own slot in the
cell unless the cell has been claimed, with a count of at least one, for another
slot that had an access of its own. `CountsKept` (`[]CountsExact`: without
sampling, a slot's count is the calls that began in it less those still in
flight) and `FirstAccesses` (`[]FirstAccessKept`) hold when calls are overtaken
by less than the ring, and rest on `RingInv`. No two recent slots share a cell
(`CellOfOne`), so a call finds its cell as it loaded it or as a call of its own
slot left it (`ClaimInv`), and every call that is over has been counted
(`ExactInv`). `MemoKeptFresh` (`[]MemoFreshIfPrompt`) follows: the cells of
completed slots stay as they are (`HistoryStays`), so what the memo holds for
this slot is what would be computed now. `MemoInv` says so of every entry made
by the present clock and of every time in the entry's second and slot, and that
a hook call is still in the slot it took its time in; entries and calls of the
clock before a `ResetClock` are told apart by the clock they were made by.

**Harness** (`BenchProofs`), for both engines and any number of threads.
`BenchTyped` is the typing all others need; `WorkerEffects` and `MainEffects`
say once what each step does to the thread that takes it.

* `PacingKept` (`[]PacedTogether`): `PacedInv` counts the threads that have
  passed the check and not yet raised the counter as if they had. The writes'
  budget only grows with time (`WritesAllowedGrows`); the operations', which a
  sine may shrink, is the largest the clock has shown so far (`PacedStays`,
  `PacedByCheck`).
* `OutputsKept` (`[]OutputsPaired`): `OutputsInv` says for each stage of `Run`
  which files can be there.
* `TracesKept` (`[]TraceComplete`): `TraceInv` has records in the buffer and in
  the file add up to the operations traced, and orders the clock, the seconds
  of the main thread and the opening of the window.
* `WarmupKeptOut` (`[]NoWarmupLeak`): `LevelInv` bounds the rows *plus what the
  next one could still add* by the lookups of the window; `RocksInv` does so
  for the workers' own counts, the reads still to be counted included.
* `SummaryHolds` (`[]SummaryAddsUp`): lookups that have missed, that is lookups
  less hits less reads between their two counts, never become fewer.
  `SummaryInv` bounds the difference of the two bases, loaded one after the
  other, by them and one read a thread.
* `BackgroundAccounted` (`[]BgAccounted`): `ColumnInv` has the warm-up's
  lookups within the base on LevelDB. On RocksDB the tickers are the workers'
  counts, the measured reads those still miss, and what they never see.

**Instruments** (`StatsCacheProofs`), for any threads, blocks, capacity and
slots, and without an assumption on them.

* `LiveHolds` (`[]LiveExact`) and `PrefetchHolds` (`[]PrefetchAccounted`) rest
  on `StatsInvariance`, `Spec => [](Owned /\ Counted)`. `Owned` is about
  references: an entry being inserted has its inserter as its only user and is
  not in the cache; an entry the deleter is called for is neither in the cache
  nor in use, and one thread disposes of it; one reader settles that a
  prefetched block was read. `Counted` names, for each counter, the set of
  entries it counts at every moment, those between two of a thread's steps
  included: the slot's bytes, for instance, are those of the entries found, used
  or waiting for the deleter, without those whose inserter has yet to add them.
  The properties compare these sets. Each step changes one of them by one entry
  (`Shifts` says of `Put`, `Release` and `Erase` together that they change none).
* `EventsHold` (`[]EventsBracketed`): a recorded event is one more of its kind
  (`RecordCounts`), so the property is inductive once the log is typed.

Only model-checked:

* liveness (`HealthyResumes`, `QueueDrains`, `ShutdownCompletes`, `JobsEnd`,
  `RunEnds`): fairness and `ENABLED` are out of the prover's reach;
* `MapExact`, `PercentileBrackets`, `DrawExact` and `SetupExact`: each relates
  one call's answer to its definition on an input that is enumerated, so there
  is no step to preserve an invariant. Their arithmetic has products, quotients
  and powers of unknowns, which the SMT solver does not decide, and they fold
  over digits, buckets, shares and lines, where every law would be an induction
  of its own.

## 5. Other disagreements and oddities met while modelling

Seen in the code and stated here, without a run of their own.

Plug-in:

* A Record call that is late changes a completed slot inside a second, and the
  memo goes on with the old features; `leaper.h` calls them constant inside a
  second. A hook call that waits for the core's mutex past the end of its slot
  computes from cells that have gone to later slots, and its answers are in the
  memo for a call that was as late. A memo entry also survives `ResetClock`. `MemoFreshIfPrompt` states
  when answers are fresh.
* `ResetClock` moves the clock back after the load; a cell that still holds a
  slot number of the load is taken for that slot of the run
  (`NoPhantomAccess` bounds which).
* A table that LevelDB drops and reopens gets a new cache id; blocks cached
  under the old id can no longer be addressed when the file becomes obsolete.
* In asynchronous mode a late batch can reopen a file that is being deleted
  (`GarbageWasWaiting` says what it leaves).
* A flush calls `OnCompactionEnd` before its version is installed, and when it
  failed, in which case its blocks are queued or warmed all the same and the
  calls fail; a compaction calls it after the install.
* `dry_run` still evicts in `OnFileObsolete`, though `leaper.h` says nothing is.
* A move of an iterator is not checked against the budget until it is over; the
  comment allows one block too many, a move through several levels can read
  more (`WithinBudget` states the bound).
* A cache fraction below one block rounds to a budget of 0, which is no limit.
* When a range's scan ends just as the budget is used up, the remaining ranges
  are skipped and no stop is counted, though a comment says `Prefetch` did.
* On RocksDB the incremental policy warms nothing, as `IsCached` is false.
* The successor LevelDB stores for a key that begins with '9' is no number and
  maps to range 0 in the decimal mapper.

Harness:

* `set_health` is fed 1.0 (LevelDB) or 0.0 (RocksDB) for a second without any
  lookup. The RocksDB harness sets no `ssad_*` option, so it has no effect there.
* The RocksDB harness' background column subtracts the measured lookups from
  tickers that also count the workload's own during load and warm-up, and is
  cumulative, though line 580 describes it as the background's.
* The summary says "measured window only", but trivial moves and background
  lookups are printed without subtracting their value at the window's start.
* `stale_bytes` counts fresh tables that were never hit.
* `Snapshot` loads the prefetch counters one after another, so a row may show
  more blocks used than read; `PrefetchAccounted` is about the counters at one
  instant.
* After a failed compaction `compactions_running` stays up.
* A percentile whose rank rounds down to 0 is the first bucket's.
* Numeric flags are checked for being consumed whole, not for their range: an
  `int` wraps and an unsigned takes "-1". `--leaper_range_size=0` divides by zero.
* `ParseKeyDist` takes an unknown name for zipf, an unknown compression is none,
  and the RocksDB harness takes an unknown policy for off where LevelDB's exits.
* Without a model prefix the RocksDB harness names model files all the same, and
  so refuses to start; LevelDB's does not.
* The write and shifted choosers ignore the mix flags.
* Inserted keys lie beyond `max_range_id` and share its clamp.
* A trace record keeps 30 bits of a key's number; stale trace files of a run
  with more threads are read by `make_oracle.py`.

## 6. Not modelled

* `pread_env.h`: passes reads through to `pread`, with an optional sleep.
* `tools/`, `experiments/`, `scripts/`: offline, one thread, files in and out.
* The check programs and micro-benchmarks: what they assert went into the
  properties.
* Inside modelled components: statistics no property needs, latencies, log and
  output formats, the engines' own options, the stale-table estimate of
  `StatsCache`, the bytes of a trace record, the RocksDB harness' unchecked
  opening of trace files, errors when a table is opened again, and the
  floating-point formulas (sigmoid, zipf, exponential, sine), which TLC's
  integers cannot express.
* Two loops are one step each. The blocks of an obsolete file are evicted
  together in `WarmQueue`, so a block that is warmed, or whose table is dropped,
  half-way through counts as warmed or dropped before or after; `BuildFeatures`
  loads the cells of one range together.
* LevelDB and RocksDB below the hooks are external: modelled only by how the
  code here uses them.
