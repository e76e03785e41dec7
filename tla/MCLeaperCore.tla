--------------------------- MODULE MCLeaperCore ---------------------------
(***************************************************************************)
(* Small instances of LeaperCore.  Four ranges; the blocks of two input    *)
(* files, one nested inside another block's span; output blocks of two     *)
(* sizes under a budget that admits some and refuses others.               *)
(***************************************************************************)
EXTENDS SsadWindow

Block(f, o, s, lo, hi) ==
    [file_id |-> f, offset |-> o, size |-> s, first_range |-> lo, last_range |-> hi]

wide == Block(1, 0, 1, 0, 2)
inner == Block(2, 0, 1, 1, 1)
high == Block(1, 1, 1, 2, 4)   \* its upper bound lies beyond max_range_id

MCInputs == {<<wide, high, inner>>, <<inner>>}
MCOutputs == {Block(3, 0, 1, 0, 1), Block(3, 1, 2, 2, 3)}

MCForecasts == {<<{1}>>, <<{1, 3}, {}, {0, 2}>>}

Options(policy) ==
    [policy |-> policy, budget |-> 2, t1 |-> 0, t2 |-> 0, blocks_per_slot |-> 2, qps_per_slot |-> 1,
     enable_phase1 |-> TRUE, enable_phase2 |-> TRUE, dry_run |-> FALSE,
     ssad_miss_threshold |-> 0, ssad_relative |-> 0, ssad_ewma_alpha |-> 50, ssad_window |-> 2]

MCConfigs ==
    {Options(p) : p \in Policies}
      \cup {[Options("leaper") EXCEPT !.ssad_miss_threshold = 50, !.ssad_window = 3]}
      \cup {[Options("leaper") EXCEPT !.ssad_relative = 30]}
      \cup {[Options("leaper") EXCEPT !.dry_run = TRUE, !.t1 = 1]}
      \cup {[Options("leaper") EXCEPT !.enable_phase1 = FALSE, !.t2 = 2]}

MCLeaper == {Options("leaper")}
=============================================================================
