---------------------------- MODULE SsadWindow ----------------------------
(***************************************************************************)
(* LeaperCore with a memory of the rollback's verdicts: what a window of   *)
(* them is said to decide, apart from the run the code counts.             *)
(***************************************************************************)
EXTENDS LeaperCore

VARIABLE verdicts   \* the last ssad_window verdicts, the newest last

hvars == <<vars, verdicts>>

LastWindow(s) ==
    IF Len(s) > opt.ssad_window THEN SubSeq(s, Len(s) - opt.ssad_window + 1, Len(s)) ELSE s

HInit == Init /\ verdicts = <<>>

Report(m) == Health(m) /\ verdicts' = LastWindow(Append(verdicts, Bad(m)))

(* A report that leaves the rollback as it is leaves the window as it is:  *)
(* its run of verdicts was full already.                                   *)
HNext ==
    \/ \E m \in MissRatios : Report(m)
    \/ Next /\ UNCHANGED <<ssadVars, verdicts>>

(* The harness reports once a second for as long as it runs, but need not  *)
(* report anything bad: once its reports stay healthy, the next one that   *)
(* moves the rollback comes.                                               *)
HealthyReport == \E m \in MissRatios : ~Bad(m) /\ Report(m)

HSpec ==
    /\ HInit /\ [][HNext]_hvars
    /\ WF_<<ssad_suspended, ssad_last_bad, ssad_run>>(HealthyReport)

-----------------------------------------------------------------------------
(* The window holds ssad_window verdicts of one kind. *)
Full(v) == Len(verdicts') = opt.ssad_window /\ \A i \in DOMAIN verdicts' : verdicts'[i] = v

(* The prefetcher is off or on by the last full window of equal verdicts:  *)
(* ssad_window consecutive ones of a kind always switch it (leaper.h,      *)
(* Options::ssad_window), also when an earlier run was interrupted, and    *)
(* as many with a verdict of the other kind among them never do.           *)
FullWindowDecides ==
    [][ssad_suspended' = (Full(TRUE) \/ (ssad_suspended /\ ~Full(FALSE)))]_hvars

(* Once the reports stay healthy the prefetcher is running again for good. *)
HealthyResumes == <>[]~ssad_last_bad => <>[]~ssad_suspended
=============================================================================
