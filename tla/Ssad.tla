------------------------------- MODULE Ssad -------------------------------
(***************************************************************************)
(* The rollback of the prefetcher (LeaperImpl::set_health).  Once per      *)
(* interval the harness reports the block cache's miss ratio; ssad_window  *)
(* consecutive verdicts of one kind suspend or resume the prefetcher.      *)
(*                                                                         *)
(* Ratios are integers in hundredths.  The EWMA, a double in the code, is  *)
(* an integer in the same unit; -1 is the code's "no sample yet".          *)
(***************************************************************************)
EXTENDS Integers, Sequences

CONSTANTS
    Configs,      \* the Options records an instance may be opened with
    MissRatios    \* the ratios the harness may report

(* A window of 0 behaves as a window of 1. *)
ASSUME SsadAssumption ==
    /\ MissRatios \subseteq 0 .. 100
    /\ \A o \in Configs : /\ o.ssad_miss_threshold \in Nat
                          /\ o.ssad_relative \in Nat
                          /\ o.ssad_ewma_alpha \in 0 .. 100
                          /\ o.ssad_window \in Nat \ {0}

VARIABLES
    opt,              \* opt_, fixed when the instance is opened
    ssad_suspended,   \* the prefetcher is switched off
    ssad_last_bad,    \* the previous verdict
    ssad_run,         \* length of the current run of equal verdicts
    ssad_ewma         \* moving average of the healthy miss ratios

ssadVars == <<ssad_suspended, ssad_last_bad, ssad_run, ssad_ewma>>

SsadEnabled == opt.ssad_miss_threshold > 0 \/ opt.ssad_relative > 0

(* The first sample seeds the average, so it is never bad by itself. *)
Baseline(miss_ratio) == IF ssad_ewma < 0 THEN miss_ratio ELSE ssad_ewma

Bad(miss_ratio) ==
    \/ opt.ssad_relative > 0 /\ miss_ratio * 100 > Baseline(miss_ratio) * (100 + opt.ssad_relative)
    \/ opt.ssad_relative = 0 /\ miss_ratio > opt.ssad_miss_threshold

(* The average follows the ratio only while it is healthy. *)
NextEwma(miss_ratio) ==
    LET b == Baseline(miss_ratio)
    IN  IF opt.ssad_relative = 0 THEN ssad_ewma
        ELSE IF Bad(miss_ratio) THEN b
        ELSE b + ((miss_ratio - b) * opt.ssad_ewma_alpha) \div 100

(* A slip: the run is not restarted by a verdict of the other kind. *)
RunLengthNoRestart(bad) ==
    IF ssad_run < opt.ssad_window THEN ssad_run + 1 ELSE ssad_run

(* The run is only ever compared with the window, so it saturates there. *)
RunLength(bad) ==
    IF bad # ssad_last_bad THEN 1
    ELSE IF ssad_run < opt.ssad_window THEN ssad_run + 1 ELSE ssad_run

(* A slip: a suspended prefetcher is never switched on again. *)
VerdictSticky(bad, run) == ssad_suspended \/ (run >= opt.ssad_window /\ bad)

Verdict(bad, run) == IF run < opt.ssad_window THEN ssad_suspended ELSE bad

set_health(miss_ratio) ==
    /\ SsadEnabled
    /\ LET bad == Bad(miss_ratio)
           run == RunLength(bad)
       IN  /\ ssad_ewma' = NextEwma(miss_ratio)
           /\ ssad_run' = run
           /\ ssad_last_bad' = bad
           /\ ssad_suspended' = Verdict(bad, run)

SsadInit ==
    /\ ssad_suspended = FALSE
    /\ ssad_last_bad = FALSE
    /\ ssad_run = 0
    /\ ssad_ewma = -1

SsadTypeOK ==
    /\ ssad_suspended \in BOOLEAN
    /\ ssad_last_bad \in BOOLEAN
    /\ ssad_run \in 0 .. opt.ssad_window
    /\ ssad_ewma \in -1 .. 100
=============================================================================
