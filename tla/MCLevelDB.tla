----------------------------- MODULE MCLevelDB -----------------------------
(***************************************************************************)
(* Small instances of LevelDBAdapter: one file before the DB opens, two    *)
(* more written, so that a flush can land inside a compaction whose output *)
(* is open, before and after its first block.                              *)
(***************************************************************************)
EXTENDS LevelDBAdapter, TLC

Ext(lo, hi, size) == [first_range |-> lo, last_range |-> hi, size |-> size]

MCExtents == {Ext(0, 1, 1), Ext(2, 2, 1)}
MCInitialFiles == 1 :> <<Ext(0, 1, 1), Ext(2, 2, 1)>>
MCForecasts == {<<{0}, {2}>>, <<{1, 2}, {1}>>}

Options(policy) ==
    [policy |-> policy, budget |-> 1, t1 |-> 0, t2 |-> 0, blocks_per_slot |-> 4, qps_per_slot |-> 1,
     enable_phase1 |-> TRUE, enable_phase2 |-> TRUE, dry_run |-> FALSE,
     ssad_miss_threshold |-> 0, ssad_relative |-> 0, ssad_ewma_alpha |-> 50, ssad_window |-> 2]

MCConfigs == {Options("leaper"), Options("incremental"), Options("off")}
MCLeaper == {Options("leaper")}
=============================================================================
