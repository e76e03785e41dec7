-------------------------- MODULE LevelDBAdapter --------------------------
(***************************************************************************)
(* LevelDB with the hooks of leveldb-1.23-leaper-hooks.patch, the adapter  *)
(* of adapters/leveldb/leaper_leveldb.cc (warm_async off) and the core.    *)
(*                                                                         *)
(* One background thread does all flushes and compactions; a flush may     *)
(* run in the middle of a compaction, also while an output file is open.   *)
(* Only that thread calls the hooks, so what a hook does between two steps *)
(* of the thread is one action.  Clients read through a pinned version and *)
(* fill the cache at any time.                                             *)
(*                                                                         *)
(* A file is the sequence of its blocks, each with the ranges of the keys  *)
(* it really holds.  What leaper learns of a block on disk goes through    *)
(* the index (ForEachDataBlock) and is modelled as that conversion.        *)
(***************************************************************************)
EXTENDS LeaperCore

CONSTANTS
    InitialFiles,   \* file number -> sequence of extents, before the DB opens
    Extents,        \* first/last range and size of the blocks a job may write
    MaxBlocks,      \* bound on the blocks of one output file
    MaxFile         \* bound on file numbers

ASSUME AdapterAssumption ==
    /\ MaxFile \in Nat /\ DOMAIN InitialFiles \subseteq 1 .. MaxFile
    /\ \A f \in DOMAIN InitialFiles : InitialFiles[f] \in Seq(Extents)
    /\ Extents \subseteq [first_range: Nat, last_range: Nat, size: Nat]
    /\ \A e \in Extents : e.first_range <= e.last_range

VARIABLES
    current_output,   \* adapter: the file OnOutputFileStart named last
    pending_warm,     \* adapter: blocks to warm once their file is finished, in any order
    nested,           \* adapter: the enclosing jobs' two members above
    bg,               \* engine: the background thread's open jobs, innermost last
    flushed,          \* engine: a flushed file not yet installed, or 0
    gc,               \* engine: files RemoveObsoleteFiles is about to delete
    disk,             \* engine: file number -> its blocks
    version,          \* engine: files of the current version
    pinned,           \* engine: files of the version a reader holds
    next_file,        \* engine: the next file number
    bg_error          \* engine: a background error has stopped the thread

adapterVars == <<current_output, pending_warm, nested>>
engineVars == <<bg, flushed, gc, disk, version, pinned, next_file, bg_error>>
allVars == <<vars, adapterVars, engineVars>>

\* never changed here: the harness' reports are the business of LeaperCore
quietVars == <<opt, qps, ssadVars>>

-----------------------------------------------------------------------------
(* Table::ForEachDataBlock: the index gives a block's upper bound, and the *)
(* previous block's upper bound as its lower one; the first block's own    *)
(* upper bound stands in for its lower one.                                *)
ForEachDataBlock(f) ==
    [i \in DOMAIN disk[f] |->
        [file_id |-> f, offset |-> i, size |-> disk[f][i].size,
         first_range |-> disk[f][IF i > 1 THEN i - 1 ELSE i].last_range,
         last_range |-> disk[f][i].last_range]]

(* The blocks of several files, file by file. *)
InputRefs(fs) ==
    LET refs[n \in 0 .. MaxFile] ==
            IF n = 0 THEN <<>> ELSE refs[n - 1] \o (IF n \in fs THEN ForEachDataBlock(n) ELSE <<>>)
    IN  refs[MaxFile]

IdsOf(f) == {[file_id |-> f, offset |-> i] : i \in DOMAIN disk[f]}

(* An open job: what the engine knows of it, and for the properties the    *)
(* ranges predicted for it and the blocks warmed for it.                   *)
Job(is_flush, inputs, out) ==
    [is_flush |-> is_flush, inputs |-> inputs, outputs |-> {}, out |-> out, layout |-> <<>>,
     failed |-> FALSE, hot |-> hot_t2', warmed |-> {}]

Top == bg[Len(bg)]
SetTop(j) == bg' = [bg EXCEPT ![Len(bg)] = j]
PopTop == bg' = SubSeq(bg, 1, Len(bg) - 1)

(* The disk with one more table. *)
WithFile(f, blocks) == [g \in DOMAIN disk \cup {f} |-> IF g = f THEN blocks ELSE disk[g]]

(* The thread goes on only when it has nothing to install or delete; after *)
(* an error it takes up no new work but finishes the compaction it is in.  *)
Running == flushed = 0 /\ gc = {} /\ (bg = <<>> => ~bg_error)

(* RemoveObsoleteFiles: what is neither in a live version nor being        *)
(* written, or nothing at all after an error.                              *)
Unreferenced(v, jobs) ==
    IF bg_error' THEN {} ELSE DOMAIN disk' \ (v \cup pinned \cup UNION {jobs[i].outputs \cup {jobs[i].out} : i \in DOMAIN jobs})

-----------------------------------------------------------------------------
(* The adapter's handlers.  A slip: jobs share one list of pending blocks. *)
AdapterBeginShared(first_output) ==
    /\ nested' = Append(nested, [pending_warm |-> pending_warm, current_output |-> current_output])
    /\ current_output' = first_output
    /\ UNCHANGED pending_warm

(* OnCompactionBegin's own part, with the output file named right after it. *)
AdapterBegin(first_output) ==
    /\ nested' = Append(nested, [pending_warm |-> pending_warm, current_output |-> current_output])
    /\ pending_warm' = {}
    /\ current_output' = first_output

OnOutputFileStart(f) == current_output' = f /\ UNCHANGED <<pending_warm, nested>>

OnOutputBlock(r) ==
    /\ ShouldPrefetch(r)
    /\ pending_warm' = IF Granted(r) THEN pending_warm \cup {r} ELSE pending_warm
    /\ UNCHANGED <<current_output, nested>>

(* The blocks OnOutputFileFinished warms, and those it leaves pending. *)
WarmNow(f) == {r \in pending_warm : r.file_id = f}
StillPending(f) == pending_warm \ WarmNow(f)

AdapterEnd ==
    \/ nested = <<>> /\ UNCHANGED <<current_output, pending_warm, nested>>
    \/ /\ nested # <<>>
       /\ pending_warm' = nested[Len(nested)].pending_warm
       /\ current_output' = nested[Len(nested)].current_output
       /\ nested' = SubSeq(nested, 1, Len(nested) - 1)

-----------------------------------------------------------------------------
(* WriteLevel0Table up to BuildTable: the memtable's span is reported as   *)
(* one pseudo-block, and the flush's only output is named at once.         *)
FlushBegin(span) ==
    /\ Running /\ next_file <= MaxFile
    /\ bg # <<>> => ~Top.is_flush /\ ~Top.failed
    /\ OnCompactionBegin(TRUE, 1, <<[file_id |-> 0, offset |-> 0, size |-> 0,
                                     first_range |-> span.first_range, last_range |-> span.last_range]>>)
    /\ AdapterBegin(next_file)
    /\ bg' = Append(bg, Job(TRUE, {}, next_file))
    /\ next_file' = next_file + 1
    /\ UNCHANGED <<quietVars, forecast, flushed, gc, disk, version, pinned, bg_error>>

(* DoCompactionWork: the inputs' blocks, file by file. *)
CompactionBegin(inputs) ==
    /\ Running /\ bg = <<>>
    /\ OnCompactionBegin(FALSE, Len(InputRefs(inputs)), InputRefs(inputs))
    /\ AdapterBegin(0)
    /\ bg' = <<Job(FALSE, inputs, 0)>>
    /\ UNCHANGED <<quietVars, forecast, flushed, gc, disk, version, pinned, next_file, bg_error>>

OpenCompactionOutputFile ==
    /\ Running /\ bg # <<>> /\ ~Top.is_flush /\ Top.out = 0 /\ ~Top.failed
    /\ next_file <= MaxFile
    /\ OnOutputFileStart(next_file)
    /\ SetTop([Top EXCEPT !.out = next_file, !.layout = <<>>])
    /\ next_file' = next_file + 1
    /\ UNCHANGED <<vars, flushed, gc, disk, version, pinned, bg_error>>

(* TableBuilder::Flush: a block of the file being built; the adapter says  *)
(* which file that is.                                                     *)
OutputBlock(e) ==
    /\ Running /\ bg # <<>> /\ Top.out # 0 /\ ~Top.failed /\ Len(Top.layout) < MaxBlocks
    /\ OnOutputBlock([file_id |-> current_output, offset |-> Len(Top.layout) + 1, size |-> e.size,
                      first_range |-> e.first_range, last_range |-> e.last_range])
    /\ SetTop([Top EXCEPT !.layout = Append(@, e)])
    /\ UNCHANGED <<quietVars, forecast, flushed, gc, disk, version, pinned, next_file, bg_error>>

(* FinishCompactionOutputFile: the hook runs only for a file that was      *)
(* synced, closed and opened; another one stays on disk unreadable and     *)
(* stops the compaction.                                                   *)
FinishCompactionOutputFile(ok) ==
    /\ Running /\ bg # <<>> /\ ~Top.is_flush /\ Top.out # 0 /\ Top.layout # <<>> /\ ~Top.failed
    /\ disk' = WithFile(Top.out, IF ok THEN Top.layout ELSE <<>>)
    /\ IF ok THEN /\ cache' = cache \cup {Id(r) : r \in WarmNow(Top.out)}
                  /\ pending_warm' = StillPending(Top.out)
                  /\ SetTop([Top EXCEPT !.outputs = @ \cup {Top.out}, !.out = 0,
                                        !.warmed = @ \cup WarmNow(Top.out)])
             ELSE /\ SetTop([Top EXCEPT !.failed = TRUE])
                  /\ UNCHANGED <<cache, pending_warm>>
    /\ UNCHANGED <<quietVars, forecast, jobVars, current_output, nested,
                   flushed, gc, version, pinned, next_file, bg_error>>

(* The end of DoCompactionWork: the result is installed if nothing failed, *)
(* the hook runs either way, then obsolete files are collected.            *)
CompactionEnd(ok) ==
    /\ Running /\ bg # <<>> /\ ~Top.is_flush
    /\ Top.failed \/ (Top.out = 0 /\ Top.outputs # {})
    /\ Top.failed => ~ok
    /\ version' = IF ok THEN (version \ Top.inputs) \cup Top.outputs ELSE version
    /\ bg_error' = (bg_error \/ ~ok)
    /\ PopTop
    /\ OnCompactionEnd /\ AdapterEnd
    /\ UNCHANGED <<quietVars, forecast, cache, flushed, disk, pinned, next_file>>
    /\ gc' = Unreferenced(version', bg')

(* WriteLevel0Table after BuildTable: both hooks run whether the table was *)
(* built or not; a table that was not is gone and cannot be warmed.        *)
FlushEnd(ok) ==
    /\ Running /\ bg # <<>> /\ Top.is_flush /\ Top.layout # <<>>
    /\ disk' = IF ok THEN WithFile(Top.out, Top.layout) ELSE disk
    /\ cache' = IF ok THEN cache \cup {Id(r) : r \in WarmNow(Top.out)} ELSE cache
    /\ OnCompactionEnd /\ AdapterEnd
    /\ flushed' = IF ok THEN Top.out ELSE 0
    /\ bg_error' = (bg_error \/ ~ok)
    /\ PopTop
    /\ UNCHANGED <<quietVars, forecast, gc, version, pinned, next_file>>

(* CompactMemTable: LogAndApply, then RemoveObsoleteFiles. *)
InstallFlush(ok) ==
    /\ flushed # 0
    /\ version' = IF ok THEN version \cup {flushed} ELSE version
    /\ bg_error' = (bg_error \/ ~ok)
    /\ flushed' = 0
    /\ UNCHANGED <<vars, adapterVars, bg, disk, pinned, next_file>>
    /\ gc' = Unreferenced(version', bg)

(* A slip: the table is dropped and the file unlinked before the hook can  *)
(* address the blocks.                                                     *)
ObsoleteBlocksLate(f) == <<>>

ObsoleteBlocks(f) == ForEachDataBlock(f)

(* RemoveObsoleteFiles on one file: the hook, the table, the file. *)
RemoveObsoleteFile(f) ==
    /\ \/ OnFileObsolete(ObsoleteBlocks(f))
       \/ opt.policy = "off" /\ UNCHANGED <<jobVars, cache>>
    /\ gc' = gc \ {f}
    /\ disk' = [g \in DOMAIN disk \ {f} |-> disk[g]]
    /\ UNCHANGED <<quietVars, forecast, adapterVars, bg, flushed, version, pinned, next_file,
                   bg_error>>

-----------------------------------------------------------------------------
(* Clients, the block cache's LRU, the models and the table cache. *)
PinVersion == pinned = {} /\ pinned' = version
              /\ UNCHANGED <<vars, adapterVars, bg, flushed, gc, disk, version, next_file, bg_error>>
ReleaseVersion == pinned # {} /\ pinned' = {}
              /\ UNCHANGED <<vars, adapterVars, bg, flushed, gc, disk, version, next_file, bg_error>>
ReadBlock(id) == id \notin cache /\ CacheInsert(id) /\ UNCHANGED <<adapterVars, engineVars>>
LruEvict(id) == id \in cache /\ CacheDrop(id) /\ UNCHANGED <<adapterVars, engineVars>>
NewForecast == TimePasses /\ UNCHANGED <<adapterVars, engineVars>>

(* Reopening a dropped table assigns a new cache_id; the blocks cached     *)
(* under the old one are beyond the reach of readers and adapter alike and *)
(* wait for LRU, so `cache` no longer counts them.                         *)
DropTable(f) ==
    /\ cache \cap IdsOf(f) # {}
    /\ cache' = cache \ IdsOf(f)
    /\ UNCHANGED <<opt, jobVars, envVars, ssadVars, adapterVars,
                   bg, flushed, gc, disk, version, pinned, next_file, bg_error>>

AdapterInit ==
    /\ CoreInit
    /\ cache \in SUBSET UNION {IdsOf(f) : f \in DOMAIN disk}
    /\ current_output = 0 /\ pending_warm = {} /\ nested = <<>>
    /\ bg = <<>> /\ flushed = 0 /\ gc = {} /\ pinned = {} /\ bg_error = FALSE
    /\ version = DOMAIN disk
    /\ next_file = Max(DOMAIN disk \cup {0}) + 1

AInit == disk = InitialFiles /\ AdapterInit

ANext ==
    \/ \E e \in Extents : FlushBegin(e) \/ OutputBlock(e)
    \/ \E inputs \in SUBSET version \ {{}} : CompactionBegin(inputs)
    \/ OpenCompactionOutputFile
    \/ \E ok \in BOOLEAN : FinishCompactionOutputFile(ok) \/ CompactionEnd(ok)
                             \/ FlushEnd(ok) \/ InstallFlush(ok)
    \/ \E f \in gc : RemoveObsoleteFile(f)
    \/ PinVersion \/ ReleaseVersion \/ NewForecast
    \/ \E f \in version \cup pinned : \E id \in IdsOf(f) : ReadBlock(id)
    \/ \E id \in cache : LruEvict(id)
    \/ \E f \in DOMAIN disk : DropTable(f)

ASpec == AInit /\ [][ANext]_allVars

-----------------------------------------------------------------------------
(* The adapter's two members as the i-th open job left them. *)
View(i) ==
    IF i < Len(bg) THEN nested[i + 1]
    ELSE [pending_warm |-> pending_warm, current_output |-> current_output]

Chosen(i) == bg[i].warmed \cup View(i).pending_warm

(* Every block waiting to be warmed is one its own job has written to the  *)
(* file it names, also when a flush ran between the file's blocks          *)
(* (leaper_leveldb.cc, OnCompactionBegin's comment).  The adapter's stack, *)
(* the core's stack and the engine's open jobs stay in step, and between   *)
(* jobs nothing of a job is left, whatever nested or failed.               *)
RightFile ==
    /\ Len(nested) = Len(bg) /\ Len(ctx_stack) = Len(bg)
    /\ bg = <<>> => Context = Idle /\ pending_warm = {} /\ current_output = 0
    /\ \A i \in DOMAIN bg :
        /\ bg[i].out # 0 => View(i).current_output = bg[i].out
        /\ \A r \in View(i).pending_warm :
              /\ r.file_id = bg[i].out /\ r.offset \in DOMAIN bg[i].layout
              /\ r.last_range = bg[i].layout[r.offset].last_range

(* What a job warms and is about to warm never exceeds its budget          *)
(* (leaper.h, Options::max_prefetch_frac).                                 *)
WarmWithinBudget ==
    \A i \in DOMAIN bg : MapThenSumSet(LAMBDA r : r.size, Chosen(i)) <= opt.budget

(* A selective policy warms for a job only blocks that meet the ranges     *)
(* predicted when that very job began.                                     *)
WarmsOwnPrediction ==
    opt.policy \in {"leaper", "incremental", "oracle"} =>
        \A i \in DOMAIN bg : \A r \in Chosen(i) : Overlaps(r, bg[i].hot)

(* With any policy but off, a deleted file leaves no block in the cache    *)
(* under the cache_id its table had at the end (leaper.cc,                 *)
(* OnFileObsolete's comment), also when a reader kept the file alive past  *)
(* its compaction or a job that failed wrote it.                           *)
NoGarbage == opt.policy # "off" => \A id \in cache : id.file_id \in DOMAIN disk

(* Phase 1 evicts no block that really holds a range predicted to be read  *)
(* while the compaction runs.                                              *)
EngineKeepsHot ==
    [][\A inputs \in SUBSET version : CompactionBegin(inputs) =>
         \A f \in inputs : \A i \in DOMAIN disk[f] :
            [file_id |-> f, offset |-> i] \in cache \ cache'
              => ~Overlaps(disk[f][i], PredictHot(Ranges, 1, K1(Len(InputRefs(inputs)))))]_allVars
=============================================================================
