----------------------------- MODULE WarmQueue -----------------------------
(***************************************************************************)
(* Asynchronous warming in the LevelDB adapter (warm_async): the           *)
(* background thread hands the blocks of each finished file to a warm      *)
(* thread through a queue with a mutex and a condition variable, deletes   *)
(* files meanwhile, and the harness shuts the warm thread down before it   *)
(* closes the DB.                                                          *)
(*                                                                         *)
(* A batch is the file its blocks belong to and how many of them are left. *)
(* Each critical section of wq_mu_ or fs_mu_ is one step.  A table that is *)
(* opened again has a new cache_id: the blocks cached under the old one    *)
(* are out of reach.  `owed` records, for the properties, what eviction    *)
(* could not reach when a file became obsolete.                            *)
(***************************************************************************)
EXTENDS Integers, Sequences

CONSTANTS
    Files,       \* files the background thread may write, each once
    BatchSize    \* at most so many blocks chosen for warming in each file

ASSUME QueueAssumption == BatchSize \in Nat \ {0}

VARIABLES
    warm_queue,   \* batches waiting
    wq_stop,      \* set by Shutdown
    batch,        \* the batch WarmBatch works on: [file, left]
    known,        \* the size of the batch's file as FileSize found it: known or not
    t_pc,         \* the warm thread
    bg_pc,        \* the background thread
    main_pc,      \* the harness
    state,        \* each file's life
    file_sizes,   \* files whose size the adapter remembers
    tables,       \* files the table cache has open
    warm_failed,  \* files with a warm call that failed
    cached,       \* blocks of each file in the block cache, under its table's cache_id
    orphans,      \* and under a cache_id it no longer has
    owed

blocks == <<cached, orphans, owed>>
fileVars == <<state, file_sizes, tables, warm_failed>>
vars == <<warm_queue, wq_stop, batch, known, t_pc, bg_pc, main_pc, fileVars, blocks>>

NoBatch == [file |-> 0, left |-> 0]

Init ==
    /\ warm_queue = <<>> /\ wq_stop = FALSE /\ batch = NoBatch /\ known = FALSE
    /\ t_pc = "check" /\ bg_pc = "idle" /\ main_pc = "running"
    /\ state = [f \in Files |-> "unwritten"]
    /\ file_sizes = {} /\ tables = {} /\ warm_failed = {}
    /\ cached = [f \in Files |-> 0] /\ orphans = cached /\ owed = cached

-----------------------------------------------------------------------------
(* The background thread *)
(* A slip: the size of the finished file is not remembered. *)
RememberNothing(f) == UNCHANGED file_sizes

Remember(f) == file_sizes' = file_sizes \cup {f}

(* A finished file.  A compaction calls the hook once the file is open in  *)
(* the table cache; WriteLevel0Table calls it whatever BuildTable said,    *)
(* which has removed the file of a flush that failed and left no table.    *)
Finish(f, built) ==
    /\ state[f] = "unwritten"
    /\ \/ built /\ state' = [state EXCEPT ![f] = "open"] /\ tables' = tables \cup {f}
       \/ ~built /\ state' = [state EXCEPT ![f] = "failed"] /\ UNCHANGED tables

(* OnOutputFileFinished: a batch, if any block was chosen, is queued under *)
(* wq_mu_ and the thread notified after.                                   *)
OnOutputFileFinished(f, built) ==
    /\ bg_pc = "idle" /\ main_pc # "closed"
    /\ Finish(f, built)
    /\ Remember(f)
    /\ \/ /\ \E n \in 1 .. BatchSize : warm_queue' = Append(warm_queue, [file |-> f, left |-> n])
          /\ bg_pc' = "notify"
       \/ UNCHANGED <<warm_queue, bg_pc>>
    /\ UNCHANGED <<wq_stop, batch, known, t_pc, main_pc, warm_failed, blocks>>

(* A slip: a batch is queued and nobody is told. *)
WakeNobody == t_pc

Wake == IF t_pc = "asleep" THEN "check" ELSE t_pc

NotifyOne ==
    /\ bg_pc = "notify" /\ bg_pc' = "idle"
    /\ t_pc' = Wake
    /\ UNCHANGED <<warm_queue, wq_stop, batch, known, main_pc, fileVars, blocks>>

(* Dropping a table leaves its cached blocks behind. *)
Drop(f) ==
    /\ tables' = tables \ {f}
    /\ cached' = [cached EXCEPT ![f] = 0] /\ orphans' = [orphans EXCEPT ![f] = @ + cached[f]]

(* Blocks of f that are waiting to be warmed.  A file is finished once, so *)
(* it has one batch at most.                                               *)
Queued(f) == {i \in DOMAIN warm_queue : warm_queue[i].file = f}
Waiting(f) ==
    (IF batch.file = f THEN batch.left ELSE 0)
      + (IF Queued(f) = {} THEN 0 ELSE warm_queue[CHOOSE i \in Queued(f) : TRUE].left)

(* A slip: the blocks are listed and not evicted. *)
EvictNothing(f) == UNCHANGED cached

Evict(f) == cached' = [cached EXCEPT ![f] = 0]

(* A flush that failed leaves the DB with a background error. *)
BgError == \E f \in Files : state[f] = "failed"

(* RemoveObsoleteFiles, which does nothing after a background error.       *)
(* OnFileObsolete notes the size, opens the table to evict the file's      *)
(* blocks and forgets the size; then the table is dropped and the file     *)
(* unlinked.  The blocks are evicted one by one; here they go in one step. *)
RemoveObsoleteFiles(f) ==
    /\ bg_pc = "idle" /\ main_pc # "closed"
    /\ \/ /\ state[f] = "open" /\ ~BgError
          /\ state' = [state EXCEPT ![f] = "evicting"]
          /\ file_sizes' = file_sizes \cup {f} /\ tables' = tables \cup {f} /\ UNCHANGED blocks
       \/ /\ state[f] = "evicting"
          /\ state' = [state EXCEPT ![f] = "evicted"]
          /\ Evict(f) /\ owed' = [owed EXCEPT ![f] = Waiting(f) + orphans[f]]
          /\ UNCHANGED <<file_sizes, tables, orphans>>
       \/ /\ state[f] = "evicted"
          /\ state' = [state EXCEPT ![f] = "forgotten"]
          /\ file_sizes' = file_sizes \ {f} /\ UNCHANGED <<tables, blocks>>
       \/ /\ state[f] = "forgotten"
          /\ state' = [state EXCEPT ![f] = "dropped"]
          /\ Drop(f) /\ UNCHANGED <<file_sizes, owed>>
       \/ /\ state[f] = "dropped"
          /\ state' = [state EXCEPT ![f] = "unlinked"]
          /\ UNCHANGED <<file_sizes, tables, blocks>>
    /\ UNCHANGED <<warm_queue, wq_stop, batch, known, t_pc, bg_pc, main_pc, warm_failed>>

(* The table cache is an LRU of its own. *)
DropTable(f) ==
    /\ f \in tables /\ main_pc # "closed"
    /\ Drop(f)
    /\ UNCHANGED <<warm_queue, wq_stop, batch, known, t_pc, bg_pc, main_pc>>
    /\ UNCHANGED <<state, file_sizes, warm_failed, owed>>

-----------------------------------------------------------------------------
(* The warm thread: WarmLoop and WarmBatch *)
(* A slip: the predicate looks at the queue only. *)
StopsDeaf == FALSE

Stops == wq_stop

CheckQueue ==
    /\ t_pc = "check"
    /\ \/ /\ Stops
          /\ t_pc' = "exited" /\ UNCHANGED <<warm_queue, batch>>
       \/ /\ ~Stops /\ warm_queue # <<>>
          /\ batch' = Head(warm_queue) /\ warm_queue' = Tail(warm_queue)
          /\ t_pc' = "size"
       \/ /\ ~Stops /\ warm_queue = <<>>
          /\ t_pc' = "asleep" /\ UNCHANGED <<warm_queue, batch>>
    /\ UNCHANGED <<wq_stop, known, bg_pc, main_pc, fileVars, blocks>>

(* CacheBridge::FileSize, under fs_mu_ *)
FileSize ==
    /\ t_pc = "size"
    /\ known' = (batch.file \in file_sizes)
    /\ t_pc' = "warm"
    /\ UNCHANGED <<warm_queue, wq_stop, batch, bg_pc, main_pc, fileVars, blocks>>

(* FindTable succeeds on an open table whatever the size; otherwise it     *)
(* opens the file, which needs its size and the file.                      *)
Reopens(f) == known /\ state[f] \notin {"failed", "unlinked"}

LastBlock == batch.left = 1

WarmBlock ==
    LET f == batch.file
    IN  /\ t_pc = "warm"
        /\ \/ /\ f \in tables
              /\ UNCHANGED <<tables, warm_failed>>
           \/ /\ f \notin tables /\ Reopens(f)
              /\ tables' = tables \cup {f} /\ UNCHANGED warm_failed
           \/ /\ f \notin tables /\ ~Reopens(f)
              /\ warm_failed' = warm_failed \cup {f} /\ UNCHANGED tables
        /\ IF LastBlock THEN batch' = NoBatch /\ t_pc' = "check"
           ELSE batch' = [batch EXCEPT !.left = @ - 1] /\ t_pc' = "size"
        /\ cached' = IF f \in tables' THEN [cached EXCEPT ![f] = @ + 1] ELSE cached
        /\ known' = FALSE
        /\ UNCHANGED <<warm_queue, wq_stop, bg_pc, main_pc, state, file_sizes, orphans, owed>>

-----------------------------------------------------------------------------
(* The harness: Shutdown, then delete db *)
Stop ==
    /\ main_pc = "running" /\ main_pc' = "stopping"
    /\ wq_stop' = TRUE /\ warm_queue' = <<>>
    /\ UNCHANGED <<batch, known, t_pc, bg_pc, fileVars, blocks>>

NotifyAll ==
    /\ main_pc = "stopping" /\ main_pc' = "joining"
    /\ t_pc' = Wake
    /\ UNCHANGED <<warm_queue, wq_stop, batch, known, bg_pc, fileVars, blocks>>

(* A slip: the thread is told to stop and not waited for. *)
JoinedAtOnce == TRUE

Joined == t_pc = "exited"

Join ==
    /\ main_pc = "joining" /\ Joined
    /\ main_pc' = "closing"
    /\ UNCHANGED <<warm_queue, wq_stop, batch, known, t_pc, bg_pc, fileVars, blocks>>

(* The DB's destructor waits for the background thread. *)
CloseDB ==
    /\ main_pc = "closing" /\ bg_pc = "idle"
    /\ main_pc' = "closed"
    /\ UNCHANGED <<warm_queue, wq_stop, batch, known, t_pc, bg_pc, fileVars, blocks>>

WarmThread == CheckQueue \/ FileSize \/ WarmBlock
Shutdown == NotifyAll \/ Join \/ CloseDB

Next ==
    \/ \E f \in Files, built \in BOOLEAN : OnOutputFileFinished(f, built)
    \/ \E f \in Files : RemoveObsoleteFiles(f) \/ DropTable(f)
    \/ NotifyOne
    \/ WarmThread
    \/ Stop \/ Shutdown

(* Threads are scheduled: none stays forever at a step it could take.      *)
(* Nothing obliges the harness to begin a shutdown.                        *)
Fairness == WF_vars(WarmThread) /\ WF_vars(NotifyOne) /\ WF_vars(Shutdown)

Spec == Init /\ [][Next]_vars /\ Fairness

-----------------------------------------------------------------------------
(* Once the DB is gone the warm thread has exited: it never reads through  *)
(* a deleted DB (leaper_leveldb.h, Shutdown "must be called before the DB  *)
(* it warms into is closed").                                              *)
NoUseAfterClose == main_pc = "closed" => t_pc = "exited" /\ batch = NoBatch

(* A warm call fails only for a file that has become obsolete or whose     *)
(* flush failed: never for one the DB still reads from, however often its  *)
(* table is dropped between two blocks (leaper_bench.cc warns that results *)
(* are invalid when warm calls fail).                                      *)
FailsOnlyIfGone == \A f \in warm_failed : state[f] \notin {"unwritten", "open"}

(* What an obsolete file leaves in the cache is no more than the blocks    *)
(* that were still waiting to be warmed, or were out of reach, when it was *)
(* evicted: a late batch puts blocks of a deleted file back, and nothing   *)
(* else does (Adapter::OnFileObsolete, LeaperImpl::OnFileObsolete).        *)
GarbageWasWaiting ==
    \A f \in Files : state[f] \in {"evicted", "forgotten", "dropped", "unlinked"} =>
         cached[f] + orphans[f] <= owed[f]

(* Every queued batch is taken by the warm thread, unless Shutdown         *)
(* discards it: no wake-up is lost.                                        *)
QueueDrains == warm_queue # <<>> ~> (warm_queue = <<>> \/ wq_stop)

(* Shutdown returns: the warm thread, asleep, between two blocks or about  *)
(* to sleep, notices the stop and exits, and the DB is closed.             *)
ShutdownCompletes == wq_stop ~> main_pc = "closed"
=============================================================================
