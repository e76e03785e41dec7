---------------------------- MODULE JobContexts ----------------------------
(***************************************************************************)
(* What the core promises its adapters about background jobs: every open   *)
(* job has a hot set, a flush flag and a budget of its own, fixed when it  *)
(* begins.  Jobs nest, only the innermost one spends, nobody spends more   *)
(* than its budget, and closing a job leaves the others as they were.      *)
(***************************************************************************)
EXTENDS Naturals, Sequences

CONSTANT Ranges

VARIABLE jobs   \* the open jobs, innermost last

Job == [hot: SUBSET Ranges, is_flush: BOOLEAN, budget: Nat, spent: Nat]

Init == jobs = <<>>

Open ==
    LET j == jobs'[Len(jobs')]
    IN  /\ jobs' # <<>>
        /\ j \in Job /\ j.spent = 0
        /\ jobs' = Append(jobs, j)

Spend ==
    LET top == jobs[Len(jobs)]
    IN  /\ jobs # <<>>
        /\ \E n \in top.spent .. top.budget : jobs' = [jobs EXCEPT ![Len(jobs)].spent = n]

Close ==
    /\ jobs # <<>>
    /\ jobs' = SubSeq(jobs, 1, Len(jobs) - 1)

Next == Open \/ Spend \/ Close

Spec == Init /\ [][Next]_jobs
=============================================================================
