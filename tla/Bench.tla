------------------------------- MODULE Bench -------------------------------
(***************************************************************************)
(* The two benchmark harnesses: worker threads that pace themselves        *)
(* against shared counters, and the main thread, which clears the outputs  *)
(* of an earlier run, loads the database and starts the workers, opens the *)
(* measured window after the warm-up, writes one row a second from the     *)
(* difference of two loads of the cache's counters, stops the workers,     *)
(* sums up and writes the event timeline.                                  *)
(* They differ in whose lookups a counter sees: LevelDB's StatsCache       *)
(* counts the workload's and the background's apart, RocksDB's tickers     *)
(* count both together and the workers keep counts of their own.  A        *)
(* counter that one thread raises and another loads is touched in a step   *)
(* of its own.                                                             *)
(*                                                                         *)
(* Time is in seconds since the workers started.  A read looks up a block; *)
(* whether it hits is the cache's business.  Latencies and the counts of   *)
(* operations in a row are left out, and so are RocksDB's counts of hits   *)
(* apart from misses.  A crash is a behaviour that stops: what a property  *)
(* says of the files holds in every state.  `rows`, `seen` and `health`    *)
(* record what was done, for the properties.                               *)
(***************************************************************************)
EXTENDS Integers, Sequences, FiniteSets

CONSTANTS
    Engines,       \* subset of {"leveldb", "rocksdb"}
    Threads,       \* worker threads
    warmup, duration,
    op_rate,       \* operations in Per seconds; 0 = unthrottled
    write_rate,    \* writes in Per seconds; 0 = closed loop
    Per,
    wave,          \* what --sine_a adds to op_rate * t at each time t; 0 without it
    read_ratio,    \* per cent
    trace_sample,  \* per cent; LevelDB's harness only
    kBatch,        \* records a TraceWriter buffers
    MaxTime,       \* bound on the clock, and so on the number of operations
    MaxBackground  \* bound on the lookups of background jobs

ASSUME BenchAssumption ==
    /\ Engines \subseteq {"leveldb", "rocksdb"}
    /\ IsFiniteSet(Threads) /\ warmup \in Nat /\ duration \in Nat \ {0}
    /\ op_rate \in Nat /\ write_rate \in Nat /\ Per \in Nat \ {0} /\ read_ratio \in 0 .. 100
    /\ trace_sample \in 0 .. 100
    /\ wave \in [0 .. MaxTime -> Nat]
    /\ kBatch \in Nat \ {0}
    /\ MaxTime \in Nat /\ MaxTime >= warmup + duration /\ MaxBackground \in Nat

VARIABLES
    engine,
    now,
    running, measuring,            \* Shared
    ops_issued, writes_issued,
    count,      \* the cache's counters and the workers' own
    worker,     \* each thread's place in WorkerLoop and its locals
    trace,      \* each thread's TraceWriter: records buffered, records in the file
    main,       \* the main thread's place in Run and its locals
    files,      \* which run wrote the output files: "none", an "earlier" one, "this"
    rows,       \* how many rows there are and what they add up to
    seen,       \* lookups, operations and invalidations as they happened
    health      \* rows there were at the last set_health call, or -1

issued == <<ops_issued, writes_issued>>
history == <<rows, health, files>>
vars == <<engine, now, running, measuring, issued, count, worker, trace, main, history, seen>>

total_secs == warmup + duration
measure_start == warmup

(* StatsCache and Stats on LevelDB; on RocksDB the tickers (hits and       *)
(* misses together) and the workers' fg_hits and fg_misses together.       *)
Counters == {"lookups", "hits", "bg_lookups", "invalidated", "tickers", "fg"}
NoCounts == [c \in Counters |-> 0]

Top == [pc |-> "loop", t0 |-> 0, measuring |-> FALSE, perf |-> 0]

Goto(t, pc) == worker' = [worker EXCEPT ![t].pc = pc]
At(t, pc) == worker[t].pc = pc
Raise(c) == count' = [count EXCEPT ![c] = @ + 1]

(* Earlier runs leave a timeseries without events when they were aborted,  *)
(* never events without their timeseries.  RocksDB's harness has no events *)
(* and removes nothing.                                                    *)
Left ==
    {f \in [events: {"none", "earlier"}, timeseries: {"none", "earlier"}] :
       f.events = "earlier" => engine = "leveldb" /\ f.timeseries = "earlier"}

Init ==
    /\ engine \in Engines
    /\ files \in Left
    /\ now = 0 /\ running = FALSE /\ measuring = FALSE
    /\ ops_issued = 0 /\ writes_issued = 0 /\ count = NoCounts
    /\ worker = [t \in Threads |-> [Top EXCEPT !.pc = "new"]]
    /\ trace = [t \in Threads |-> [buf |-> 0, file |-> 0]]
    /\ main = [pc |-> IF engine = "leveldb" THEN "remove" ELSE "prepare", sec |-> 1, i |-> 1,
               prev |-> NoCounts, cur |-> NoCounts, base |-> NoCounts]
    /\ rows = [n |-> 0, look |-> 0, bg |-> 0, invalidated |-> 0] /\ health = -1
    /\ seen = [window |-> 0, bg |-> 0, unmeasured |-> 0, early |-> 0, ops |-> [t \in Threads |-> 0]]

-----------------------------------------------------------------------------
(* The integral of the modulated rate adds (1 - cos(sine_b * t)) times a   *)
(* constant.  That is never negative, and with sine_a > sine_d the budget  *)
(* may shrink as time goes on.                                             *)
OpsAllowed(t) == (op_rate * t + wave[t]) \div Per

WritesAllowed(t) == (write_rate * t) \div Per

(* A slip: one more than the budget. *)
OverBudgetLate(n, rate, allowed) == rate > 0 /\ n > allowed + 1

OverBudget(n, rate, allowed) == rate > 0 /\ n >= allowed + 1

(* The loop test, the clock and --op_rate: the thread sleeps and starts    *)
(* over while the budget is used up.                                       *)
Loop(t) ==
    /\ At(t, "loop")
    /\ \/ ~running /\ Goto(t, "exit")
       \/ /\ running /\ ~OverBudget(ops_issued, op_rate, OpsAllowed(now))
          /\ worker' = [worker EXCEPT ![t].pc = "issue", ![t].t0 = now]
    /\ UNCHANGED <<engine, now, running, measuring, issued, count, trace, main, history, seen>>

(* The operation is issued and its kind drawn; a write over --write_rate   *)
(* becomes a read, unless there are no reads: p = 0.0 is not below a       *)
(* read_ratio of 0.  t0 is taken anew when the operation starts.           *)
Issue(t) ==
    /\ At(t, "issue")
    /\ ops_issued' = ops_issued + 1
    /\ \E kind \in {"flag_read", "flag_write"} :
          /\ kind = "flag_read" => read_ratio > 0
          /\ kind = "flag_write" =>
               /\ read_ratio < 100
               /\ read_ratio > 0 => ~OverBudget(writes_issued, write_rate, WritesAllowed(worker[t].t0))
          /\ worker' = [worker EXCEPT ![t].pc = kind, ![t].t0 = 0]
    /\ UNCHANGED <<engine, now, running, measuring, writes_issued, count, trace, main, history, seen>>

Flag(t) ==
    /\ worker[t].pc \in {"flag_read", "flag_write"}
    /\ worker' = [worker EXCEPT ![t].measuring = measuring,
                                ![t].pc = IF At(t, "flag_read") THEN "read" ELSE "write"]
    /\ UNCHANGED <<engine, now, running, measuring, issued, count, trace, main, history, seen>>

(* The read on LevelDB, up to the count of its lookup; *)
Read(t) ==
    /\ engine = "leveldb" /\ At(t, "read")
    /\ Raise("lookups") /\ seen' = [seen EXCEPT !.window = IF measuring THEN @ + 1 ELSE @]
    /\ worker' = [worker EXCEPT ![t].pc = "looked", ![t].t0 = now]
    /\ UNCHANGED <<engine, now, running, measuring, issued, trace, main, history>>

(* on RocksDB, whose Get raises a ticker and the thread's PerfContext.     *)
Get(t) ==
    /\ engine = "rocksdb" /\ At(t, "read")
    /\ Raise("tickers")
    /\ seen' = [seen EXCEPT !.window = IF measuring THEN @ + 1 ELSE @,
                            !.unmeasured = IF worker[t].measuring THEN @ ELSE @ + 1]
    /\ worker' = [worker EXCEPT ![t].pc = "looked", ![t].t0 = now, ![t].perf = @ + 1]
    /\ UNCHANGED <<engine, now, running, measuring, issued, trace, main, history>>

(* A slip: a full buffer is dropped, not written. *)
AddDropping(w) == IF w.buf + 1 >= kBatch THEN [w EXCEPT !.buf = 0] ELSE [w EXCEPT !.buf = @ + 1]

FlushBuffer(w) == [buf |-> 0, file |-> w.file + w.buf]

(* TraceWriter::Add: a full buffer goes to the file. *)
Add(w) ==
    LET added == [w EXCEPT !.buf = @ + 1]
    IN  IF added.buf >= kBatch THEN FlushBuffer(added) ELSE added

Close(w) == FlushBuffer(w)

(* The end of the loop's body: a measured operation is traced, if sampled. *)
Trace(t) ==
    \/ /\ worker[t].measuring /\ (engine = "leveldb" => trace_sample > 0)
       /\ trace' = [trace EXCEPT ![t] = Add(@)] /\ seen' = [seen EXCEPT !.ops[t] = @ + 1]
    \/ /\ ~worker[t].measuring \/ (engine = "leveldb" /\ trace_sample < 100)
       /\ UNCHANGED <<trace, seen>>

(* On LevelDB the outcome of a lookup is counted after it. *)
Looked(t) ==
    /\ engine = "leveldb" /\ At(t, "looked")
    /\ Raise("hits") \/ UNCHANGED count
    /\ Trace(t)
    /\ worker' = [worker EXCEPT ![t] = Top]
    /\ UNCHANGED <<engine, now, running, measuring, issued, main, history>>

(* A slip: the warm-up's counts wait for the first measured read. *)
TakenIfMeasuring(t) == worker[t].measuring

Taken(t) == TRUE

(* On RocksDB the worker adds what its PerfContext has seen since the last *)
(* read, if this one is measured.                                          *)
Count(t) ==
    /\ engine = "rocksdb" /\ At(t, "looked")
    /\ count' = IF worker[t].measuring THEN [count EXCEPT !["fg"] = @ + worker[t].perf] ELSE count
    /\ Trace(t)
    /\ worker' = [worker EXCEPT ![t] = IF Taken(t) THEN Top ELSE [Top EXCEPT !.perf = worker[t].perf]]
    /\ UNCHANGED <<engine, now, running, measuring, issued, main, history>>

Write(t) ==
    /\ At(t, "write")
    /\ writes_issued' = writes_issued + 1
    /\ worker' = [worker EXCEPT ![t].pc = "written", ![t].t0 = now]
    /\ UNCHANGED <<engine, now, running, measuring, ops_issued, count, trace, main, history, seen>>

Written(t) ==
    /\ At(t, "written")
    /\ Trace(t)
    /\ worker' = [worker EXCEPT ![t].pc = "loop", ![t].t0 = 0, ![t].measuring = FALSE]
    /\ UNCHANGED <<engine, now, running, measuring, issued, count, main, history>>

WorkerLoop(t) ==
    \/ Loop(t) \/ Issue(t) \/ Flag(t)
    \/ Read(t) \/ Looked(t) \/ Get(t) \/ Count(t)
    \/ Write(t) \/ Written(t)

(* A background job looks a block up, while the database is loaded or used; *)
(* on LevelDB it also invalidates one that was cached.                     *)
Background ==
    /\ main.pc \notin {"remove", "prepare", "failed", "done"}
    /\ count["bg_lookups"] + seen.bg < MaxBackground
    /\ IF engine = "leveldb"
       THEN /\ count' = [count EXCEPT !["bg_lookups"] = @ + 1, !["invalidated"] = @ + 1]
            /\ seen' = IF measuring THEN seen ELSE [seen EXCEPT !.early = @ + 1]
       ELSE /\ Raise("tickers")
            /\ seen' = [seen EXCEPT !.bg = @ + 1]
    /\ UNCHANGED <<engine, now, running, measuring, issued, worker, trace, main, history>>

-----------------------------------------------------------------------------
(* A slip: the event timeline is left, since it is written at the end.     *)
RemoveOrderShort == <<"timeseries">>

RemoveOrder == <<"events", "timeseries">>

(* Run: "Remove the outputs up front"; a crash may come between the two. *)
Remove ==
    /\ main.pc = "remove"
    /\ files' = [files EXCEPT ![RemoveOrder[main.i]] = "none"]
    /\ main' = IF main.i = Len(RemoveOrder) THEN [main EXCEPT !.i = 1, !.pc = "prepare"]
               ELSE [main EXCEPT !.i = @ + 1]
    /\ UNCHANGED <<engine, now, running, measuring, issued, count, worker, trace, rows, health, seen>>

(* The plug-in is created and the database opened; either may fail. *)
Prepare ==
    /\ main.pc = "prepare"
    /\ \E pc \in {"fill", "failed"} : main' = [main EXCEPT !.pc = pc]
    /\ UNCHANGED <<engine, now, running, measuring, issued, count, worker, trace, history, seen>>

(* The database is loaded and compacted, or taken as it is; then the files *)
(* of the run are opened.  LevelDB's harness returns if one cannot be.     *)
Outputs ==
    /\ main.pc = "fill"
    /\ \/ /\ files' = [files EXCEPT !.timeseries = "this"]
          /\ main' = [main EXCEPT !.pc = "start"]
       \/ /\ engine = "leveldb"
          /\ main' = [main EXCEPT !.pc = "failed"] /\ UNCHANGED files
    /\ UNCHANGED <<engine, now, running, measuring, issued, count, worker, trace, rows, health, seen>>

(* The workers start, and the clock with them. *)
Start ==
    /\ main.pc = "start"
    /\ running' = TRUE
    /\ worker' = [t \in Threads |-> Top]
    /\ main' = [main EXCEPT !.pc = "second"]
    /\ UNCHANGED <<engine, now, measuring, issued, count, trace, history, seen>>

(* A second begins, and with the first one after the warm-up the measured  *)
(* window.                                                                 *)
Second ==
    /\ main.pc = "second"
    /\ measuring' = (measuring \/ main.sec = warmup + 1)
    /\ main' = [main EXCEPT !.pc = IF main.sec = warmup + 1 THEN "reset" ELSE "health"]
    /\ UNCHANGED <<engine, now, running, issued, count, worker, trace, history, seen>>

(* What the differences start from, in the order it is loaded: counters    *)
(* that no worker raises at two places are loaded together.                *)
(* prev_invalidated is not reset.                                          *)
ResetOrder ==
    IF engine = "leveldb" THEN <<{"lookups"}, {"hits", "bg_lookups"}>> ELSE <<{"tickers"}, {"fg"}>>

LoadOrder ==
    IF engine = "leveldb" THEN <<{"lookups"}, {"hits", "bg_lookups", "invalidated"}>>
    ELSE <<{"tickers"}, {"fg"}>>

(* The counters of the next group join what is known. *)
Loaded(known, group) == [c \in Counters |-> IF c \in group THEN count[c] ELSE known[c]]

(* A slip: base_hits is forgotten. *)
BaseShort(group) == Loaded(main.base, group \ {"hits"})

(* What the summary subtracts. *)
Base(group) == Loaded(main.base, group)

Reset ==
    /\ main.pc = "reset"
    /\ main' = [main EXCEPT !.i = IF main.i = Len(ResetOrder) THEN 1 ELSE @ + 1,
                            !.pc = IF main.i = Len(ResetOrder) THEN "health" ELSE @,
                            !.prev = Loaded(@, ResetOrder[main.i]),
                            !.base = IF engine = "leveldb" THEN Base(ResetOrder[main.i]) ELSE @]
    /\ UNCHANGED <<engine, now, running, measuring, issued, count, worker, trace, history, seen>>

HasSample == main.sec > warmup + 1

(* LevelDB's harness calls set_health with the last row's ratio. *)
Health ==
    /\ main.pc = "health"
    /\ health' = IF engine = "leveldb" /\ HasSample THEN rows.n ELSE health
    /\ main' = [main EXCEPT !.pc = "sleep"]
    /\ UNCHANGED <<engine, now, running, measuring, issued, count, worker, trace, rows, files, seen>>

(* A slip: a second without a row is not counted. *)
SleepUncounted ==
    /\ main.pc = "sleep" /\ now >= main.sec
    /\ main' = [main EXCEPT !.pc = IF main.sec <= warmup THEN "second" ELSE "load"]
    /\ UNCHANGED <<engine, now, running, measuring, issued, count, worker, trace, history, seen>>

(* Sleep to the tick; a second of the warm-up has no row. *)
Sleep ==
    /\ main.pc = "sleep" /\ now >= main.sec
    /\ main' = IF main.sec <= warmup THEN [main EXCEPT !.sec = @ + 1, !.pc = "second"]
               ELSE [main EXCEPT !.pc = "load"]
    /\ UNCHANGED <<engine, now, running, measuring, issued, count, worker, trace, history, seen>>

Load ==
    /\ main.pc = "load"
    /\ main' = [main EXCEPT !.i = IF main.i = Len(LoadOrder) THEN 1 ELSE @ + 1,
                            !.pc = IF main.i = Len(LoadOrder) THEN "row" ELSE @,
                            !.cur = Loaded(@, LoadOrder[main.i])]
    /\ UNCHANGED <<engine, now, running, measuring, issued, count, worker, trace, history, seen>>

(* A slip: the difference of two loads is taken for a count. *)
BeyondUnclamped(all, fg) == all - fg

(* What the tickers saw beyond the workers' own counts. *)
Beyond(all, fg) == IF all > fg THEN all - fg ELSE 0

Lookups(c) == IF engine = "leveldb" THEN c["lookups"] ELSE c["fg"]

BgLookups(c) ==
    IF engine = "leveldb" THEN c["bg_lookups"] - main.base["bg_lookups"]
    ELSE Beyond(c["tickers"], c["fg"])

(* The row; RocksDB's harness reports the row's own ratio to set_health. *)
Row ==
    /\ main.pc = "row"
    /\ rows' = [n |-> rows.n + 1,
                look |-> rows.look + Lookups(main.cur) - Lookups(main.prev),
                bg |-> BgLookups(main.cur),
                invalidated |-> rows.invalidated + main.cur["invalidated"] - main.prev["invalidated"]]
    /\ health' = IF engine = "rocksdb" THEN rows.n + 1 ELSE health
    /\ main' = [main EXCEPT !.prev = main.cur, !.cur = NoCounts, !.sec = @ + 1,
                            !.pc = IF main.sec = total_secs THEN "stop" ELSE "second"]
    /\ UNCHANGED <<engine, now, running, measuring, issued, count, worker, trace, files, seen>>

Stop ==
    /\ main.pc = "stop"
    /\ running' = FALSE
    /\ main' = [main EXCEPT !.pc = "join"]
    /\ UNCHANGED <<engine, now, measuring, issued, count, worker, trace, history, seen>>

(* The workers are joined and their traces closed; LevelDB's harness       *)
(* writes the event timeline; the summary is over a last load.             *)
Join ==
    /\ main.pc = "join" /\ \A t \in Threads : At(t, "exit")
    /\ trace' = [t \in Threads |-> Close(trace[t])]
    /\ main' = [main EXCEPT !.pc = IF engine = "leveldb" THEN "events" ELSE "summary"]
    /\ UNCHANGED <<engine, now, running, measuring, issued, count, worker, history, seen>>

Events ==
    /\ main.pc = "events"
    /\ files' = [files EXCEPT !.events = "this"]
    /\ main' = [main EXCEPT !.pc = "summary"]
    /\ UNCHANGED <<engine, now, running, measuring, issued, count, worker, trace, rows, health, seen>>

Summary ==
    /\ main.pc = "summary"
    /\ main' = [main EXCEPT !.pc = "done", !.cur = count]
    /\ UNCHANGED <<engine, now, running, measuring, issued, count, worker, trace, history, seen>>

Run ==
    \/ Remove \/ Prepare \/ Outputs \/ Start
    \/ Second \/ Reset \/ Health \/ Sleep \/ Load \/ Row
    \/ Stop \/ Join \/ Events \/ Summary

Tick ==
    /\ main.pc \notin {"remove", "prepare", "fill", "start", "failed"}
    /\ now < MaxTime /\ now' = now + 1
    /\ UNCHANGED <<engine, running, measuring, issued, count, worker, trace, main, history, seen>>

Next == Run \/ Tick \/ Background \/ \E t \in Threads : WorkerLoop(t)

(* Every thread keeps running, and the clock with them. *)
Fairness == WF_vars(Run) /\ WF_vars(Tick) /\ \A t \in Threads : WF_vars(WorkerLoop(t))

Spec == Init /\ [][Next]_vars /\ Fairness

-----------------------------------------------------------------------------
(* The budgets are checked before the counters are raised, so threads pass *)
(* them together, but never by more than one operation each.  Under a sine *)
(* the budget that counts is the largest so far; the writes' grows, but    *)
(* holds nobody back where all operations are writes (WorkerLoop,          *)
(* --op_rate, --sine_a and --write_rate).                                  *)
PacedTogether ==
    /\ op_rate > 0 => \E t \in 0 .. now : ops_issued <= OpsAllowed(t) + Cardinality(Threads)
    /\ write_rate > 0 /\ read_ratio > 0 =>
         writes_issued <= WritesAllowed(now) + Cardinality(Threads)

(* The trace files hold every operation to be traced exactly once when the *)
(* run is over, the half-full buffers included, and no measured operation  *)
(* starts before the window does: the unsigned time of its record is no    *)
(* wrapped difference (WorkerLoop, tw->Add; TraceWriter::Close).           *)
TraceComplete ==
    /\ main.pc = "done" => \A t \in Threads : trace[t].file = seen.ops[t]
    /\ \A t \in Threads : worker[t].pc \in {"looked", "written"} /\ worker[t].measuring
                            => worker[t].t0 >= measure_start

(* "Reset the per-second deltas so warmup does not leak into second 1":    *)
(* the rows contain only lookups made after the window opened, and         *)
(* set_health is fed no ratio before a row was measured ("feeding 0.0      *)
(* during warmup seeded the EWMA at zero").                                *)
NoWarmupLeak == rows.look <= seen.window /\ health # 0

(* The same of the column invalidated_blocks. *)
NoInvalidationLeak == rows.invalidated <= count["invalidated"] - seen.early

(* The background's lookups in a row: on LevelDB those of the window, on   *)
(* RocksDB those of the background and of unmeasured reads, with at most   *)
(* one more for each read that was between its two counts.  The tickers    *)
(* are loaded before the workers' counts, which may have passed them; the  *)
(* unsigned column is no wrapped difference.                               *)
BgAccounted ==
    /\ engine = "leveldb" => rows.bg <= count["bg_lookups"] - seen.early
    /\ engine = "rocksdb" => rows.bg \in 0 .. seen.bg + seen.unmeasured + Cardinality(Threads)

(* The hits of the summary exceed its lookups by at most the reads that    *)
(* were between their two counts when the window opened, one a thread: its *)
(* hit ratio passes 1 by no more than that.  RocksDB's never does.         *)
SummaryAddsUp ==
    main.pc = "done" =>
        main.cur["hits"] - main.base["hits"]
            <= main.cur["lookups"] - main.base["lookups"] + Cardinality(Threads)

(* "A crash cannot fake a complete result set": whenever the process ends, *)
(* an event timeline on disk is of the run its timeseries is of            *)
(* (Run, std::remove and the two fopen).                                   *)
OutputsPaired == files.events # "none" => files.events = files.timeseries

(* The run ends, for good: it fails to start, or the last row is written,  *)
(* the workers stop and are joined, and the summary is printed.            *)
RunEnds == []<>(main.pc \in {"failed", "done"})
=============================================================================
