----------------------------- MODULE StatsCache -----------------------------
(***************************************************************************)
(* StatsCache of bench/include/leaper_bench/stats_cache.h in tracking      *)
(* mode: what the workload's threads, a thread that warms blocks and       *)
(* LevelDB's compaction thread do to the block cache, and the counters     *)
(* kept on the way.  The counters of bytes and of prefetching are raised   *)
(* in steps of their own; those of lookups and outcomes together with the  *)
(* call of the cache they are about (Bench has them apart).                *)
(*                                                                         *)
(* A block is the number of its table (its cache_id) and its place in it;  *)
(* every block is charged 1.  The cache underneath is LevelDB's: it holds  *)
(* `Capacity` blocks besides those in use, replaces a block of the same    *)
(* key, and calls the deleter when a block is neither in it nor in use.    *)
(***************************************************************************)
EXTENDS Integers, FiniteSetsExt, EventLogger

CONSTANTS
    Readers,      \* threads marked as foreground
    Warmer,       \* the thread inside an InternalCacheAccess
    Compactor,    \* LevelDB's background thread
    Blocks,       \* set of [id, place]
    Capacity,
    kSlots,
    Bounds        \* pairs of bounds on the lookups and on the events of a behaviour

Threads == Readers \cup {Warmer, Compactor}

VARIABLES
    cache,       \* the entries the cache underneath holds
    entry,       \* the entries allocated: [block, prefetched, hits]
    thread,      \* each thread's place, its block, its handle and what it must dispose of
    stats,       \* the counters
    live,        \* bytes resident per slot
    MaxLookups   \* bound on the number of lookups, fixed at the start

statsVars == <<cache, entry, thread, stats, live, MaxLookups>>
vars == <<statsVars, logVars>>

Slot(b) == b.id % kSlots
None == 0
At(t, pc) == thread[t].pc = pc
Goto(t, pc) == thread' = [thread EXCEPT ![t].pc = pc]
Bump(c) == stats' = [stats EXCEPT ![c] = @ + 1]

InForegroundThread(t) == t \in Readers
InInternalCacheAccess(t) == t = Warmer

NoBlock == [id |-> 0, place |-> 0]
Idle == [pc |-> "idle", block |-> NoBlock, handle |-> None, gone |-> {}, victim |-> None,
         then |-> "idle"]

Users(h) == {t \in Threads : thread[t].handle = h}

Counters == {"lookups", "hits", "misses", "internal_lookups", "bg_lookups", "bg_hits", "inserts",
             "evictions", "pf_inserted", "pf_read_once", "pf_evicted", "pf_used", "live_total"}

StatsInit ==
    /\ cache = {} /\ entry = <<>> /\ thread = [t \in Threads |-> Idle]
    /\ stats = [c \in Counters |-> 0] /\ live = [s \in 0 .. kSlots - 1 |-> 0]

-----------------------------------------------------------------------------
(* Lookup: counted by who asks.  The compaction thread looks up inside a   *)
(* compaction only.                                                        *)
Looked(t) ==
    IF InInternalCacheAccess(t) THEN "internal_lookups"
    ELSE IF InForegroundThread(t) THEN "lookups" ELSE "bg_lookups"

(* The cache underneath is asked; a hit is counted for the thread's kind,  *)
(* and a miss of the workload.                                             *)
Lookup(t, b) ==
    LET found == {h \in cache : entry[h].block = b}
        fg    == InForegroundThread(t)
    IN  /\ At(t, "idle") /\ (t = Compactor => bg = "compaction")
        /\ stats.lookups + stats.internal_lookups + stats.bg_lookups < MaxLookups
        /\ \E h \in IF found = {} THEN {None} ELSE found :
             /\ stats' = [stats EXCEPT ![Looked(t)] = @ + 1,
                                       !.hits = IF fg /\ h # None THEN @ + 1 ELSE @,
                                       !.misses = IF fg /\ h = None THEN @ + 1 ELSE @,
                                       !.bg_hits = IF t = Compactor /\ h # None THEN @ + 1 ELSE @]
             /\ thread' = [thread EXCEPT ![t].block = b, ![t].handle = h,
                             ![t].pc = IF h # None THEN (IF fg THEN "hit" ELSE "using")
                                       ELSE IF t = Compactor THEN "using" ELSE "insert"]
        /\ UNCHANGED <<cache, entry, live>>

(* A slip: a later read of a prefetched block counts it again. *)
FirstReadAgain(h) == entry[h].prefetched

FirstRead(h) == entry[h].prefetched /\ entry[h].hits = 0

(* The entry's own count; the first read of a prefetched block settles its *)
(* precision.                                                              *)
Hit(t) ==
    LET h == thread[t].handle
    IN  /\ \/ /\ At(t, "hit")
              /\ entry' = IF entry[h].prefetched THEN [entry EXCEPT ![h].hits = @ + 1] ELSE entry
              /\ Goto(t, IF FirstRead(h) THEN "first_read" ELSE "using")
              /\ UNCHANGED stats
           \/ At(t, "first_read") /\ Bump("pf_read_once") /\ Goto(t, "using") /\ UNCHANGED entry
        /\ UNCHANGED <<cache, live>>

-----------------------------------------------------------------------------
(* Insert: counted and accounted for before the cache underneath has it.   *)
NewEntry(t) == [block |-> thread[t].block, prefetched |-> InInternalCacheAccess(t), hits |-> 0]

(* A slip: the bytes are accounted for once the block is in the cache. *)
InsertNextLate == [insert |-> "put", put |-> "live", live |-> "total", total |-> "using"]

InsertNext == [insert |-> "live", live |-> "total", total |-> "put", put |-> "using"]

CountInsert(t) ==
    /\ At(t, "insert")
    /\ stats' = [stats EXCEPT !.inserts = @ + 1,
                              !.pf_inserted = IF InInternalCacheAccess(t) THEN @ + 1 ELSE @]
    /\ entry' = Append(entry, NewEntry(t))
    /\ thread' = [thread EXCEPT ![t].pc = InsertNext.insert, ![t].handle = Len(entry) + 1]
    /\ UNCHANGED <<cache, live>>

RaiseLive(t) ==
    /\ \/ /\ At(t, "live") /\ Goto(t, InsertNext.live)
          /\ live' = [live EXCEPT ![Slot(thread[t].block)] = @ + 1] /\ UNCHANGED stats
       \/ At(t, "total") /\ Goto(t, InsertNext.total) /\ Bump("live_total") /\ UNCHANGED live
    /\ UNCHANGED <<cache, entry>>

(* The deleter runs in the thread that let the last reference go, which    *)
(* then carries on.                                                        *)
Dispose(t, gone, then) ==
    thread' = [thread EXCEPT ![t] = IF gone = {} THEN then
                                    ELSE [then EXCEPT !.pc = "dispatch", !.gone = gone,
                                                      !.then = then.pc]]

(* target_->Insert: the block replaces one of its key, and blocks not in   *)
(* use leave until the rest fits.                                          *)
Put(t) ==
    LET h      == thread[t].handle
        same   == {x \in cache : entry[x].block = entry[h].block}
        kept   == (cache \ same) \cup {h}
        unused == {x \in cache : Users(x) = {}}
        over   == Cardinality(kept) - Capacity
    IN  /\ At(t, "put")
        /\ \E out \in SUBSET (kept \cap unused) :
             /\ Cardinality(out) = Max({0, Min({over, Cardinality(kept \cap unused)})})
             /\ cache' = kept \ out
             /\ Dispose(t, out \cup (same \cap unused), [thread[t] EXCEPT !.pc = InsertNext.put])
        /\ UNCHANGED <<entry, stats, live>>

-----------------------------------------------------------------------------
(* Release, and Erase for a block of an obsolete file. *)
Release(t) ==
    LET h == thread[t].handle
    IN  /\ At(t, "using")
        /\ Dispose(t, IF h \notin cache \cup {None} /\ Users(h) = {t} THEN {h} ELSE {}, Idle)
        /\ UNCHANGED <<cache, entry, stats, live>>

Erase(t, h) ==
    /\ At(t, "idle") /\ t = Compactor /\ h \in cache
    /\ cache' = cache \ {h}
    /\ Dispose(t, IF Users(h) = {} THEN {h} ELSE {}, Idle)
    /\ UNCHANGED <<entry, stats, live>>

(* Dispatch, the deleter, for one block after another. *)
Dispatch(t) ==
    LET h    == thread[t].victim
        left == thread[t].gone
    IN  /\ \/ /\ At(t, "dispatch")
              /\ \E v \in left :
                   /\ live' = [live EXCEPT ![Slot(entry[v].block)] = @ - 1]
                   /\ thread' = [thread EXCEPT ![t].pc = "total_down", ![t].victim = v, ![t].gone = @ \ {v}]
              /\ Bump("evictions")
           \/ /\ At(t, "total_down")
              /\ stats' = [stats EXCEPT !.live_total = @ - 1]
              /\ Goto(t, "precision") /\ UNCHANGED live
           \/ /\ At(t, "precision")
              /\ stats' = IF ~entry[h].prefetched THEN stats
                          ELSE [stats EXCEPT !.pf_evicted = @ + 1,
                                             !.pf_used = IF entry[h].hits > 0 THEN @ + 1 ELSE @]
              /\ thread' = [thread EXCEPT ![t].victim = None,
                               ![t].pc = IF left = {} THEN thread[t].then ELSE "dispatch",
                               ![t].then = IF left = {} THEN "idle" ELSE @]
              /\ UNCHANGED live
        /\ UNCHANGED <<cache, entry>>

-----------------------------------------------------------------------------
Access(t) ==
    \/ \E b \in Blocks : Lookup(t, b)
    \/ Hit(t)
    \/ CountInsert(t) \/ RaiseLive(t) \/ Put(t)
    \/ Release(t) \/ Dispatch(t)
    \/ \E h \in cache : Erase(t, h)

Init == StatsInit /\ LogInit /\ \E b \in Bounds : MaxLookups = b[1] /\ MaxEvents = b[2]

(* The compaction thread logs between two accesses. *)
Next ==
    \/ \E t \in Threads : Access(t) /\ UNCHANGED <<logVars, MaxLookups>>
    \/ LogNext /\ At(Compactor, "idle") /\ UNCHANGED statsVars

Spec == Init /\ [][Next]_vars

-----------------------------------------------------------------------------
Held == {h \in DOMAIN entry : h \in cache \/ \E t \in Users(h) : At(t, "using")}
HeldIn(s) == {h \in Held : Slot(entry[h].block) = s}
Quiet == \A t \in Threads : At(t, "idle")
Prefetched == {h \in DOMAIN entry : entry[h].prefetched}

(* A block's bytes are in the live counters as long as it can be found or  *)
(* used: the unsigned counters never drop below zero, whichever thread's   *)
(* eviction overtakes whose insert, and are exact when nobody is at work   *)
(* (StatsCache::Insert, Dispatch).                                         *)
LiveExact ==
    /\ \A s \in DOMAIN live :
         live[s] >= Cardinality(HeldIn(s)) /\ (Quiet => live[s] = Cardinality(HeldIn(s)))
    /\ stats.live_total >= Cardinality(Held) /\ (Quiet => stats.live_total = Cardinality(Held))

(* Prefetch precision: a prefetched block counts as read once, while it is *)
(* resident, and as used if it was when it leaves.  So at any one instant  *)
(* the counters show no more blocks used than read or evicted, nor more    *)
(* read or evicted than inserted (Lookup's pf_read_once_, Dispatch's       *)
(* pf_used_).  A row of the timeseries shows differences of counters that  *)
(* Snapshot loads one after another, which promises no such order.         *)
PrefetchAccounted ==
    /\ stats.pf_used <= stats.pf_read_once /\ stats.pf_read_once <= stats.pf_inserted
    /\ stats.pf_used <= stats.pf_evicted /\ stats.pf_evicted <= stats.pf_inserted
    /\ Quiet => /\ stats.pf_read_once = Cardinality({h \in Prefetched : entry[h].hits > 0})
                /\ stats.pf_evicted = Cardinality(Prefetched \ cache)
=============================================================================
