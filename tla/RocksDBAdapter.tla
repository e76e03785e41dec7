-------------------------- MODULE RocksDBAdapter --------------------------
(***************************************************************************)
(* The RocksDB adapter: flushes and compactions run at the same time on    *)
(* several background threads, their listener callbacks share one core and *)
(* one mutex, and they end in any order.  Begin holds mu_ while it         *)
(* predicts and chooses, but the harness' set_health takes the core's      *)
(* mutex only and may fall between two choices.                            *)
(*                                                                         *)
(* Evict is a no-op and IsCached always false on RocksDB: `cache` of the   *)
(* core stays empty.  How the chosen ranges are read at End is the         *)
(* business of module RocksDBWarm: opt.warm_mode is "prepop", or "reads"   *)
(* for iterator and sst.                                                   *)
(***************************************************************************)
EXTENDS LeaperCore

CONSTANTS
    Threads,     \* background threads
    NoThread,    \* nobody
    BlockBudget, \* warm_block_budget_, in blocks; 0 is no limit
    EstBlocks,   \* block counts OnCompactionBegin may estimate
    Spans,       \* first and last range of the blocks a job may write
    MaxJob,      \* bound on job ids
    MaxBuilt     \* bound on the blocks of a job

ASSUME RocksDBAssumption ==
    /\ NoThread \notin Threads
    /\ \A o \in Configs : o.warm_mode \in {"prepop", "reads"}
    /\ BlockBudget \in Nat /\ EstBlocks \subseteq Nat /\ Spans \subseteq Ranges \X Ranges
    /\ MaxJob \in Nat /\ MaxBuilt \in Nat

VARIABLES
    mu,               \* the thread that holds Adapter::mu_, or NoThread
    run,              \* what each thread is doing
    pending_by_job,   \* job id -> ranges to warm at its End
    tl_prepop_job,    \* the thread-local PrepopJob
    next_job,         \* RocksDB's next job id
    failed            \* ids of flushes RocksDB never reported as completed

adapterVars == <<mu, run, pending_by_job, tl_prepop_job, next_job, failed>>
allVars == <<vars, adapterVars>>

(* A thread's job and the locals of the callback it is in.  `predicted`    *)
(* and `selected` remember what the job's own Begin predicted and chose;   *)
(* `built` counts its output blocks, `accepted` the ones it was told to    *)
(* warm.                                                                   *)
NotRunning == [pc |-> "idle", id |-> 0, is_flush |-> FALSE, next_cand |-> 0, chosen |-> {},
               predicted |-> {}, selected |-> {}, built |-> 0, accepted |-> <<>>]

NoPrepop == [hot |-> {}, budget_left |-> 0, active |-> FALSE]

Open == {t \in Threads : run[t].pc # "idle"}

-----------------------------------------------------------------------------
(* Every range the database spans is a candidate, one block each, size 0. *)
Candidate(r) == [file_id |-> 0, offset |-> r, size |-> 0, first_range |-> r, last_range |-> r]
Candidates == [i \in 1 .. MaxRangeId + 1 |-> Candidate(i - 1)]

(* Listener::Begin takes mu_ and predicts. *)
Begin_Predict(t, is_flush, est_blocks) ==
    /\ run[t].pc = "idle" /\ mu = NoThread /\ next_job <= MaxJob
    /\ is_flush => est_blocks = 0
    /\ mu' = t
    /\ OnCompactionBegin(is_flush, est_blocks, Candidates)
    /\ run' = [run EXCEPT ![t] = [NotRunning EXCEPT !.pc = "choosing", !.id = next_job,
                                  !.is_flush = is_flush, !.predicted = hot_t2']]
    /\ next_job' = next_job + 1
    /\ UNCHANGED <<opt, envVars, ssadVars, pending_by_job, tl_prepop_job, failed>>

(* One turn of the loop that asks the core about each candidate. *)
Begin_Choose(t) ==
    LET r == run[t].next_cand
    IN  /\ run[t].pc = "choosing" /\ r <= MaxRangeId
        /\ ShouldPrefetch(Candidate(r))
        /\ run' = [run EXCEPT ![t].next_cand = r + 1,
                              ![t].chosen = IF Granted(Candidate(r)) THEN @ \cup {r} ELSE @]
        /\ UNCHANGED <<opt, envVars, ssadVars, mu, pending_by_job, tl_prepop_job, next_job, failed>>

(* A slip: one pending list for all jobs. *)
PendingKeyShared(id) == 0

PendingKey(id) == id

(* The decision is kept for the builder or for End, and mu_ is released. *)
Begin_Done(t) ==
    LET chosen == run[t].chosen
        key    == PendingKey(run[t].id)
    IN  /\ run[t].pc = "choosing" /\ run[t].next_cand > MaxRangeId
        /\ mu' = NoThread
        /\ run' = [run EXCEPT ![t].pc = "building", ![t].selected = chosen, ![t].chosen = {}]
        /\ \/ /\ opt.warm_mode = "prepop"
              /\ tl_prepop_job' = [tl_prepop_job EXCEPT ![t] =
                     [hot |-> chosen, budget_left |-> BlockBudget, active |-> TRUE]]
              /\ UNCHANGED pending_by_job
           \/ /\ opt.warm_mode # "prepop"
              /\ pending_by_job' = [j \in DOMAIN pending_by_job \cup {key} |->
                                       IF j = key THEN chosen ELSE pending_by_job[j]]
              /\ UNCHANGED tl_prepop_job
        /\ UNCHANGED <<vars, next_job, failed>>

-----------------------------------------------------------------------------
Spend(job) == IF BlockBudget # 0 THEN job.budget_left - 1 ELSE job.budget_left

(* PrepopFilter::ShouldWarm for a block that spans lo .. hi.  Its counters *)
(* are updated under mu_, which Begin of another job may hold: the step is *)
(* the moment it gets it.                                                  *)
Warmable(job, lo, hi) ==
    /\ job.active
    /\ BlockBudget # 0 => job.budget_left > 0
    /\ \E r \in job.hot : lo <= r /\ r <= hi

ShouldWarm(t, lo, hi) ==
    LET job == tl_prepop_job[t]
    IN  /\ opt.warm_mode = "prepop" /\ run[t].pc = "building" /\ mu = NoThread
        /\ run[t].built < MaxBuilt
        /\ \/ /\ Warmable(job, lo, hi)
              /\ tl_prepop_job' = [tl_prepop_job EXCEPT ![t].budget_left = Spend(job)]
              /\ run' = [run EXCEPT ![t].built = @ + 1,
                                    ![t].accepted = Append(@, <<lo, hi>>)]
           \/ /\ ~Warmable(job, lo, hi)
              /\ run' = [run EXCEPT ![t].built = @ + 1]
              /\ UNCHANGED tl_prepop_job
        /\ UNCHANGED <<vars, mu, pending_by_job, next_job, failed>>

(* A flush that fails: RocksDB reports completed flushes only, so its      *)
(* pending list, its PrepopJob and its context in the core stay behind.    *)
FlushFails(t) ==
    /\ run[t].pc = "building" /\ run[t].is_flush
    /\ failed' = failed \cup {run[t].id}
    /\ run' = [run EXCEPT ![t] = NotRunning]
    /\ UNCHANGED <<vars, mu, pending_by_job, tl_prepop_job, next_job>>

-----------------------------------------------------------------------------
(* A slip: End keeps mu_ over the warm reads. *)
ReleasedToSelf(t) == t

ReleasedTo(t) == NoThread

(* Listener::End: take the job's list under mu_, *)
End_Take(t) ==
    LET key   == PendingKey(run[t].id)
        found == key \in DOMAIN pending_by_job
    IN  /\ run[t].pc = "building" /\ mu = NoThread
        /\ run' = [run EXCEPT ![t].pc = "warming",
                              ![t].chosen = IF found THEN pending_by_job[key] ELSE {}]
        /\ pending_by_job' = [j \in DOMAIN pending_by_job \ {key} |-> pending_by_job[j]]
        /\ mu' = ReleasedTo(t)
        /\ UNCHANGED <<vars, tl_prepop_job, next_job, failed>>

(* warm without it, but for the counters at the end of each read, or       *)
(* switch the filter off,                                                  *)
End_Warm(t) ==
    /\ run[t].pc = "warming" /\ (run[t].chosen # {} => mu = NoThread)
    /\ run' = [run EXCEPT ![t].pc = "popping"]
    /\ tl_prepop_job' = IF opt.warm_mode = "prepop"
                        THEN [tl_prepop_job EXCEPT ![t].active = FALSE, ![t].hot = {}]
                        ELSE tl_prepop_job
    /\ UNCHANGED <<vars, mu, pending_by_job, next_job, failed>>

(* A slip: the core's context is popped without mu_. *)
MayPopUnlocked == TRUE

(* A slip: a job that warmed nothing does not tell the core it ended. *)
PopsIfChosen(t) == run[t].chosen # {}

MayPop == mu = NoThread
Pops(t) == TRUE

(* and pop the core's context under mu_. *)
End_Pop(t) ==
    /\ run[t].pc = "popping" /\ MayPop
    /\ IF Pops(t) THEN OnCompactionEnd ELSE UNCHANGED jobVars
    /\ run' = [run EXCEPT ![t] = NotRunning]
    /\ UNCHANGED <<opt, cache, envVars, ssadVars, mu, pending_by_job, tl_prepop_job, next_job, failed>>

-----------------------------------------------------------------------------
RInit ==
    /\ CoreInit /\ cache = {}
    /\ mu = NoThread
    /\ run = [t \in Threads |-> NotRunning]
    /\ pending_by_job = [j \in {} |-> {}]
    /\ tl_prepop_job = [t \in Threads |-> NoPrepop]
    /\ next_job = 1 /\ failed = {}

RNext ==
    \/ \E t \in Threads :
          \/ \E is_flush \in BOOLEAN, est \in EstBlocks : Begin_Predict(t, is_flush, est)
          \/ Begin_Choose(t) \/ Begin_Done(t)
          \/ \E s \in Spans : ShouldWarm(t, s[1], s[2])
          \/ FlushFails(t)
          \/ End_Take(t) \/ End_Warm(t) \/ End_Pop(t)
    \/ (\E m \in MissRatios : Health(m)) /\ UNCHANGED adapterVars
    \/ TimePasses /\ UNCHANGED adapterVars

(* A background thread does not stop in the middle of a job; weak fairness *)
(* is enough because only finitely many jobs compete for mu_.              *)
JobStep(t) == Begin_Choose(t) \/ Begin_Done(t) \/ End_Take(t) \/ End_Warm(t) \/ End_Pop(t)
RFairness == \A t \in Threads : WF_allVars(JobStep(t))

RSpec == RInit /\ [][RNext]_allVars /\ RFairness

-----------------------------------------------------------------------------
(* A job selects only ranges its own Begin predicted, whatever other jobs  *)
(* do in the meantime: no End restores an older context in the middle of   *)
(* its choosing (leaper_rocksdb.cc, End: "that job then selects against a  *)
(* stale hot set").                                                        *)
ChoosesOwnPrediction ==
    opt.policy = "leaper" =>
        \A t \in Open : run[t].chosen \cup run[t].selected \subseteq run[t].predicted

(* At its End a job warms exactly what it selected at its Begin, though    *)
(* jobs overlap and end in any order (leaper_rocksdb.h, pending_by_job_:   *)
(* "a single pending list was taken by whichever job ended first").        *)
WarmsOwnChoice ==
    \A t \in Threads :
        /\ opt.warm_mode = "reads" /\ run[t].pc = "warming" => run[t].chosen = run[t].selected
        /\ \A i \in DOMAIN run[t].accepted : \E r \in run[t].selected :
              run[t].accepted[i][1] <= r /\ r <= run[t].accepted[i][2]

(* The core holds one context for each open job and each flush that was    *)
(* never reported as completed, and no pending list survives its job: the  *)
(* shared stack does not drift although its contexts are popped in an      *)
(* order other than the jobs'.                                             *)
ContextsAccounted ==
    /\ Len(ctx_stack) = Cardinality(Open) + Cardinality(failed)
    /\ Open = {} /\ failed = {} => Context = Idle
    /\ DOMAIN pending_by_job \subseteq failed \cup {run[t].id : t \in Open}

(* Every job that began is over at some point, so each thread is idle      *)
(* again and again: threads queue for mu_ but none holds it while waiting  *)
(* for another.                                                            *)
JobsEnd == \A t \in Threads : []<>(run[t].pc = "idle")
=============================================================================
