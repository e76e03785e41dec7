---------------------------- MODULE MCStatsCache ----------------------------
EXTENDS StatsCache, TLC

(* Two tables. *)
MCBlocks == {[id |-> 1, place |-> 0], [id |-> 2, place |-> 0]}

(* Many accesses inside one compaction, or many log lines about one.       *)
MCBounds == {<<3, 1>>, <<1, 6>>}

Symmetry == Permutations(Readers)
=============================================================================
