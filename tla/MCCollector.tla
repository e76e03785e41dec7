---------------------------- MODULE MCCollector ----------------------------
(***************************************************************************)
(* Small instances of Collector and Predictor: two client threads, one     *)
(* slot of history (a ring of two), slots of two thirds of a second, so    *)
(* that seconds and slots begin apart and together, calls that are         *)
(* overtaken by none, one or more slots than the ring has, and two hook    *)
(* calls that share the memo.                                              *)
(***************************************************************************)
EXTENDS Predictor, TLC

MCInstances ==
    [rate: {1, 2}, lag: {0, 1, 3}, load: {FALSE}, memoize: {FALSE}]
      \cup [rate: {1}, lag: {0, 1}, load: {TRUE}, memoize: {FALSE}]
      \cup [rate: {1}, lag: {0}, load: BOOLEAN, memoize: {TRUE}]
MCSampled == [rate: {2}, lag: {0}, load: {FALSE}, memoize: {FALSE}]
MCPrecursors == 0 :> <<0>>
MCSteps == {<<1, 1>>, <<1, 2>>}
=============================================================================
