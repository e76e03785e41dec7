----------------------------- MODULE MCRocksDB -----------------------------
(***************************************************************************)
(* A small instance of the RocksDB adapter.  The jobs: two threads, three  *)
(* jobs, two ranges, so that jobs overlap and end out of order; a rollback *)
(* may switch the prefetcher off and on again between two choices.  The    *)
(* reads of one job's End, step by step: they share nothing with other     *)
(* jobs but counters, so they are explored while no job is in a callback.  *)
(***************************************************************************)
EXTENDS RocksDBAdapter, RocksDBWarm

MCSpans == {<<0, 1>>, <<1, 1>>}
MCForecasts == {<<{0}>>, <<{0, 1}, {1}>>}

Options(policy, threshold, mode_) ==
    [policy |-> policy, warm_mode |-> mode_, budget |-> 1, t1 |-> 0, t2 |-> 0,
     blocks_per_slot |-> 4, qps_per_slot |-> 1,
     enable_phase1 |-> TRUE, enable_phase2 |-> TRUE, dry_run |-> FALSE,
     ssad_miss_threshold |-> threshold, ssad_relative |-> 0, ssad_ewma_alpha |-> 50, ssad_window |-> 1]

MCConfigs == {Options("leaper", 50, "reads"), Options("leaper", 0, "prepop")}

JobNext == pc = "idle" /\ RNext /\ UNCHANGED warmVars
EndNext == next_job = 1 /\ WarmNext /\ UNCHANGED allVars

MCInit == RInit /\ WarmInit

MCSpec ==
    /\ MCInit
    /\ [][JobNext \/ EndNext]_<<allVars, warmVars>>
    /\ \A t \in Threads : WF_<<allVars, warmVars>>(JobStep(t) /\ UNCHANGED warmVars)

-----------------------------------------------------------------------------
(* No job warms more than its block budget.  Mode prepop accepts at most   *)
(* so many blocks (leaper_rocksdb.cc, PrepopJob: "how many blocks this job *)
(* may still warm"); for the other two see ReadsWithinBudget.              *)
WithinBudget ==
    /\ BlockBudget # 0 => \A t \in Threads : Len(run[t].accepted) <= BlockBudget
    /\ ReadsWithinBudget
=============================================================================
