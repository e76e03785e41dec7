------------------------------ MODULE MCBench ------------------------------
(***************************************************************************)
(* The first quarter of a sine: sine_b = pi / 6, rounded as the budget is. *)
(***************************************************************************)
EXTENDS Bench

MCWave == [t \in 0 .. MaxTime |-> <<0, 0, 1, 2>>[t + 1]]
NoWave == [t \in 0 .. MaxTime |-> 0]
=============================================================================
