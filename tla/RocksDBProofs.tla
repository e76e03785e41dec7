--------------------------- MODULE RocksDBProofs ---------------------------
(***************************************************************************)
(* The RocksDB adapter with any number of background threads and jobs, and *)
(* the warm reads of a job's End under any budget: each job selects and    *)
(* warms what its own Begin predicted, the shared stack of contexts does   *)
(* not drift, and no budget is passed.                                     *)
(***************************************************************************)
EXTENDS MCRocksDB, LeaperCoreProofs, FiniteSetTheorems

(* The provers that a leaf is tried with in turn, unless it names its own. *)
USE SMT, Zenon, Z3, SMTT(30), Z3T(30)

Job == [pc: {"idle", "choosing", "building", "warming", "popping"}, id: Nat, is_flush: BOOLEAN,
        next_cand: Nat, chosen: SUBSET Ranges, predicted: SUBSET Ranges, selected: SUBSET Ranges,
        built: Nat, accepted: Seq(Ranges \X Ranges)]
Prepop == [hot: SUBSET Ranges, budget_left: Nat, active: BOOLEAN]

AdapterType ==
    /\ run \in [Threads -> Job]
    /\ tl_prepop_job \in [Threads -> Prepop]
    /\ \A j \in DOMAIN pending_by_job : pending_by_job[j] \in SUBSET Ranges
    /\ next_job \in Nat \ {0}

(* What holds of each thread by itself.  A job chooses under mu_ only, so  *)
(* the core's hot set is its own until it is done; what it selected waits  *)
(* for it under its id, or in its thread's PrepopJob.                      *)
ThreadInv(t) ==
    LET r == run[t]
        p == tl_prepop_job[t]
    IN  /\ r.pc = "choosing" => mu = t /\ hot_t2 = r.predicted /\ r.accepted = <<>>
        /\ opt.policy = "leaper" => r.chosen \cup r.selected \subseteq r.predicted
        /\ r.pc = "building" /\ r.id \in DOMAIN pending_by_job => pending_by_job[r.id] = r.selected
        /\ r.pc = "building" /\ opt.warm_mode = "reads" => r.id \in DOMAIN pending_by_job
        /\ r.pc = "warming" /\ opt.warm_mode = "reads" => r.chosen = r.selected
        /\ r.pc = "building" /\ opt.warm_mode = "prepop" =>
              p.hot = r.selected /\ (BlockBudget # 0 => Len(r.accepted) + p.budget_left = BlockBudget)
        /\ BlockBudget # 0 => Len(r.accepted) <= BlockBudget
        /\ \A i \in DOMAIN r.accepted : \E q \in r.selected :
              r.accepted[i][1] <= q /\ q <= r.accepted[i][2]

(* Job ids are not used twice, and a pending list belongs to a job that is *)
(* still to take it or to a flush that failed.                             *)
IdInv ==
    /\ failed \subseteq 1 .. next_job - 1
    /\ \A t \in Open : run[t].id \in 1 .. next_job - 1 /\ run[t].id \notin failed
    /\ \A t, u \in Open : run[t].id = run[u].id => t = u
    /\ \A j \in DOMAIN pending_by_job :
          j \in failed \/ \E t \in Threads : run[t].pc = "building" /\ run[t].id = j

(* One context per open job and per flush never reported as completed. *)
ContextInv ==
    /\ IsFiniteSet(Open) /\ IsFiniteSet(failed)
    /\ Len(ctx_stack) = Cardinality(Open) + Cardinality(failed)

AdapterInv == CoreInv /\ AdapterType /\ (\A t \in Threads : ThreadInv(t)) /\ IdInv /\ ContextInv

-----------------------------------------------------------------------------
(* What another thread's step leaves to a thread. *)
LEMMA OtherThread ==
    ASSUME NEW u \in Threads, ThreadInv(u), run'[u] = run[u], tl_prepop_job'[u] = tl_prepop_job[u],
           opt' = opt,
           run[u].pc = "choosing" => mu' = mu /\ hot_t2' = hot_t2,
           run[u].pc = "building" =>
               /\ run[u].id \in DOMAIN pending_by_job <=> run[u].id \in DOMAIN pending_by_job'
               /\ run[u].id \in DOMAIN pending_by_job =>
                     pending_by_job'[run[u].id] = pending_by_job[run[u].id]
    PROVE  ThreadInv(u)'
BY DEF ThreadInv

(* Nobody chooses while mu_ is free. *)
LEMMA NobodyChooses ==
    ASSUME AdapterInv, mu = NoThread, NEW t \in Threads
    PROVE  run[t].pc # "choosing"
BY RocksDBAssumption DEF AdapterInv, ThreadInv

(* At most one thread chooses. *)
LEMMA OneChooses ==
    ASSUME AdapterInv, NEW t \in Threads, NEW u \in Threads,
           run[t].pc = "choosing", run[u].pc = "choosing"
    PROVE  t = u
BY DEF AdapterInv, ThreadInv

(* A step that moves an open job on without closing it keeps the set of    *)
(* open jobs.                                                              *)
LEMMA SameOpen ==
    ASSUME AdapterType, NEW t \in Open, NEW x \in Job, x.pc # "idle",
           run' = [run EXCEPT ![t] = x]
    PROVE  Open' = Open
BY DEF AdapterType, Open

(* A job that ends leaves the others open. *)
LEMMA CloseOne ==
    ASSUME AdapterType, NEW t \in Open, IsFiniteSet(Open), run' = [run EXCEPT ![t] = NotRunning]
    PROVE  /\ Open' = Open \ {t} /\ IsFiniteSet(Open') /\ Cardinality(Open') = Cardinality(Open) - 1
           /\ Cardinality(Open) \in Nat \ {0}
<1>1. Open' = Open \ {t}
  BY DEF AdapterType, Open, NotRunning
<1>2. IsFiniteSet(Open \ {t}) /\ Cardinality(Open \ {t}) = Cardinality(Open) - 1
  BY FS_RemoveElement
<1>3. Cardinality(Open) \in Nat /\ Cardinality(Open \ {t}) \in Nat
  BY <1>2, FS_CardinalityType
<1> QED  BY <1>1, <1>2, <1>3

(* An idle thread's record is one. *)
LEMMA IdleType == NotRunning \in Job
BY DEF NotRunning, Job

(* What an idle thread's record satisfies. *)
LEMMA IdleThread ==
    ASSUME NEW t \in Threads, run'[t] = NotRunning
    PROVE  ThreadInv(t)'
<1>1. /\ run'[t].pc = "idle" /\ run'[t].chosen = {} /\ run'[t].selected = {}
      /\ run'[t].accepted = <<>>
  BY DEF NotRunning
<1>2. BlockBudget \in Nat
  BY RocksDBAssumption
<1> QED  BY <1>1, <1>2 DEF ThreadInv

(* A step outside the core keeps what the core keeps. *)
LEMMA CoreSame ==
    ASSUME CoreInv, UNCHANGED vars
    PROVE  CoreInv'
<1>1. UNCHANGED <<opt, jobVars>> /\ UNCHANGED ssadVars /\ forecast' = forecast /\ qps' = qps
  BY DEF vars, envVars
<1>2. SsadTypeOK'
  BY <1>1, SameSsad
<1>3. forecast' \in Forecasts /\ qps' \in Nat
  BY <1>1 DEF CoreInv, CoreType
<1> QED  BY ZenonT(60), <1>1, <1>2, <1>3, QuietCore

(* An open job has a context on the stack. *)
LEMMA OpenHasContext ==
    ASSUME AdapterInv, NEW t \in Open
    PROVE  ctx_stack # <<>>
<1>1. IsFiniteSet(Open) /\ IsFiniteSet(failed) /\ ctx_stack \in Seq(JobCtx)
      /\ Len(ctx_stack) = Cardinality(Open) + Cardinality(failed)
  BY DEF AdapterInv, ContextInv, CoreInv, CoreType
<1>2. Cardinality(Open) \in Nat /\ Cardinality(failed) \in Nat /\ Cardinality(Open) # 0
  BY ZenonT(60), <1>1, FS_CardinalityType, FS_EmptySet
<1> QED  BY <1>1, <1>2

(* Only a job that is still to take its list has one. *)
LEMMA NotPending ==
    ASSUME AdapterInv, NEW t \in Open, run[t].pc # "building"
    PROVE  run[t].id \notin DOMAIN pending_by_job
BY DEF AdapterInv, IdInv, Open

(* A job that moves on keeps its id and its context. *)
LEMMA MoveOn ==
    ASSUME AdapterInv, NEW t \in Open, NEW x \in Job, x.pc # "idle", x.id = run[t].id,
           run' = [run EXCEPT ![t] = x], UNCHANGED <<next_job, failed>>,
           \A j \in DOMAIN pending_by_job' :
               \/ j \in DOMAIN pending_by_job /\ j # x.id
               \/ j = x.id /\ x.pc = "building",
           Len(ctx_stack') = Len(ctx_stack)
    PROVE  /\ IdInv' /\ ContextInv'
           /\ t \in Threads /\ run'[t] = x /\ \A u \in Threads \ {t} : run'[u] = run[u]
           /\ run' \in [Threads -> Job]
<1>1. AdapterType /\ IdInv /\ ContextInv /\ t \in Threads /\ run \in [Threads -> Job]
  BY DEF AdapterInv, AdapterType, Open
<1>2. Open' = Open
  BY Zenon, <1>1, SameOpen
<1>3. run'[t] = x /\ (\A u \in Threads \ {t} : run'[u] = run[u]) /\ run' \in [Threads -> Job]
  BY <1>1
<1>4. \A u \in Open : run'[u].id = run[u].id
  BY <1>3 DEF Open
<1>5. \A j \in DOMAIN pending_by_job' :
          j \in failed \/ \E u \in Threads : run'[u].pc = "building" /\ run'[u].id = j
  BY ZenonT(60), <1>1, <1>3 DEF IdInv
<1>6. IdInv'
  BY <1>1, <1>2, <1>4, <1>5 DEF IdInv
<1>7. ContextInv'
  BY <1>1, <1>2 DEF ContextInv
<1> QED  BY ZenonT(60), <1>1, <1>3, <1>6, <1>7

(* Listener::Begin takes mu_, pushes a context and predicts. *)
LEMMA BeginPredictStep ==
    ASSUME AdapterInv, NEW t \in Threads, NEW f \in BOOLEAN, NEW est \in EstBlocks,
           Begin_Predict(t, f, est)
    PROVE  AdapterInv'
<1> DEFINE x == [NotRunning EXCEPT !.pc = "choosing", !.id = next_job,
                                   !.is_flush = f, !.predicted = hot_t2']
<1>0. CoreInv /\ AdapterType /\ IdInv /\ ContextInv /\ next_job \in Nat \ {0} /\ BlockBudget \in Nat
  BY RocksDBAssumption DEF AdapterInv, AdapterType
<1>1. /\ OnCompactionBegin(f, est, Candidates)
      /\ UNCHANGED <<opt, forecast, qps>> /\ UNCHANGED ssadVars
      /\ UNCHANGED <<pending_by_job, tl_prepop_job, failed>>
      /\ run[t].pc = "idle" /\ mu = NoThread /\ mu' = t /\ next_job' = next_job + 1
      /\ run' = [run EXCEPT ![t] = x]
  BY DEF Begin_Predict, envVars
<1>2. CoreInv' /\ Len(ctx_stack') = Len(ctx_stack) + 1
  BY ZenonT(60), <1>0, <1>1, BeginCore
<1>3. hot_t2' \in SUBSET Ranges
  BY ZenonT(60), <1>0, <1>1, DecisionType DEF CoreInv
<1>4. /\ x \in Job /\ x.pc = "choosing" /\ x.id = next_job /\ x.chosen = {} /\ x.selected = {}
      /\ x.accepted = <<>> /\ x.predicted = hot_t2'
  <2>1. /\ x.pc = "choosing" /\ x.id = next_job /\ x.chosen = {} /\ x.selected = {}
        /\ x.accepted = <<>> /\ x.predicted = hot_t2'
    BY DEF NotRunning
  <2>2. x \in Job
    BY Zenon, <1>0, <1>3, IdleType DEF Job
  <2> QED  BY <2>1, <2>2
<1> HIDE DEF x
<1>5. run'[t] = x /\ \A u \in Threads \ {t} : run'[u] = run[u]
  BY ZenonT(60), <1>0, <1>1 DEF AdapterType
<1>6. AdapterType'
  BY <1>0, <1>1, <1>4 DEF AdapterType
<1>7. ThreadInv(t)'
  BY <1>0, <1>1, <1>4, <1>5 DEF ThreadInv
<1>8. ASSUME NEW u \in Threads, u # t  PROVE ThreadInv(u)'
  <2>1. run[u].pc # "choosing"
    BY Zenon, <1>1, NobodyChooses
  <2> QED  BY Zenon, <1>1, <1>5, <1>8, <2>1, OtherThread DEF AdapterInv
<1>9. Open' = Open \cup {t} /\ t \notin Open
  BY ZenonT(60), <1>0, <1>1, <1>4, <1>5 DEF Open, AdapterType
<1>10. IdInv'
  <2>1. failed' \subseteq 1 .. next_job' - 1
    BY <1>0, <1>1 DEF IdInv
  <2>2. \A u \in Open' : run'[u].id \in 1 .. next_job' - 1 /\ run'[u].id \notin failed'
    BY <1>0, <1>1, <1>4, <1>5, <1>9 DEF IdInv, Open
  <2>3. \A u, v \in Open' : run'[u].id = run'[v].id => u = v
    BY <1>0, <1>4, <1>5, <1>9 DEF IdInv, Open
  <2>4. \A j \in DOMAIN pending_by_job' :
          j \in failed' \/ \E u \in Threads : run'[u].pc = "building" /\ run'[u].id = j
    <3> SUFFICES ASSUME NEW j \in DOMAIN pending_by_job, j \notin failed
                 PROVE  \E u \in Threads : run'[u].pc = "building" /\ run'[u].id = j
      BY Zenon, <1>1
    <3>1. PICK u \in Threads : run[u].pc = "building" /\ run[u].id = j
      BY Zenon, <1>0 DEF IdInv
    <3>2. run'[u] = run[u]
      BY <1>1, <1>5, <3>1
    <3> QED  BY Zenon, <3>1, <3>2
  <2> QED  BY ZenonT(60), <2>1, <2>2, <2>3, <2>4 DEF IdInv
<1>11. ContextInv'
  <2>1. IsFiniteSet(Open \cup {t}) /\ Cardinality(Open \cup {t}) = Cardinality(Open) + 1
    BY ZenonT(60), <1>0, <1>9, FS_AddElement DEF ContextInv
  <2>2. Cardinality(Open) \in Nat /\ Cardinality(failed) \in Nat
    BY <1>0, FS_CardinalityType DEF ContextInv
  <2> QED  BY <1>0, <1>1, <1>2, <1>9, <2>1, <2>2 DEF ContextInv
<1> QED  BY Zenon, <1>2, <1>6, <1>7, <1>8, <1>10, <1>11 DEF AdapterInv

(* One candidate: the core's hot set is the job's own prediction. *)
LEMMA BeginChooseStep ==
    ASSUME AdapterInv, NEW t \in Threads, Begin_Choose(t)
    PROVE  AdapterInv'
<1> DEFINE r == run[t].next_cand
           c == IF Granted(Candidate(r)) THEN run[t].chosen \cup {r} ELSE run[t].chosen
           x == [run[t] EXCEPT !.next_cand = r + 1, !.chosen = c]
<1>0. /\ CoreInv /\ AdapterType /\ run[t] \in Job /\ t \in Open
      /\ run[t].pc = "choosing" /\ r \in Ranges /\ r + 1 \in Nat
  <2>1. run[t].pc = "choosing" /\ r <= MaxRangeId /\ run[t] \in Job
    BY DEF Begin_Choose, AdapterInv, AdapterType
  <2>2. r \in Nat /\ MaxRangeId \in Nat
    BY <2>1, CoreAssumption DEF Job
  <2> QED  BY <2>1, <2>2 DEF AdapterInv, Open, Ranges
<1>1. /\ ShouldPrefetch(Candidate(r)) /\ UNCHANGED <<opt, forecast, qps>> /\ UNCHANGED ssadVars
      /\ UNCHANGED <<mu, pending_by_job, tl_prepop_job, next_job, failed, hot_t2, ctx_stack>>
  BY DEF Begin_Choose, envVars, ShouldPrefetch
<1>2. run' = [run EXCEPT ![t] = x]
  BY Zenon, <1>0 DEF Begin_Choose, AdapterType
<1>3. CoreInv'
  <2>1. Candidate(r).size \in Nat
    BY DEF Candidate
  <2> QED  BY Zenon, <1>0, <1>1, <2>1, OpenHasContext, GrantCore
<1>4. /\ c \in SUBSET Ranges
      /\ c \subseteq run[t].chosen \cup {r}
      /\ opt.policy = "leaper" /\ r \in c => r \in hot_t2 \/ r \in run[t].chosen
  <2>1. run[t].chosen \in SUBSET Ranges
    BY <1>0 DEF Job
  <2>2. ASSUME opt.policy = "leaper", Granted(Candidate(r))  PROVE r \in hot_t2
    <3>1. Overlaps(Candidate(r), hot_t2)
      BY <2>2 DEF Granted, Wanted
    <3>2. r \in Nat
      BY <1>0 DEF Job
    <3> QED  BY <3>1, <3>2 DEF Overlaps, Candidate
  <2> QED  BY Zenon, <1>0, <2>1, <2>2
<1> HIDE DEF c
<1>5. /\ x \in Job /\ x.pc = "choosing" /\ x.id = run[t].id /\ x.chosen = c
      /\ x.predicted = run[t].predicted /\ x.selected = run[t].selected
      /\ x.accepted = run[t].accepted
  BY Zenon, <1>0, <1>4 DEF Job
<1> HIDE DEF x
<1>6. run[t].id \notin DOMAIN pending_by_job
  BY <1>0, NotPending
<1>7. /\ IdInv' /\ ContextInv' /\ run'[t] = x /\ (\A u \in Threads \ {t} : run'[u] = run[u])
      /\ run' \in [Threads -> Job]
  BY ZenonT(60), <1>0, <1>1, <1>2, <1>5, <1>6, MoveOn
<1>8. AdapterType'
  BY Zenon, <1>0, <1>1, <1>7 DEF AdapterType
<1>9. ThreadInv(t)'
  <2>1. ThreadInv(t)
    BY DEF AdapterInv
  <2> QED  BY ZenonT(60), <1>0, <1>1, <1>4, <1>5, <1>7, <2>1 DEF ThreadInv
<1>10. ASSUME NEW u \in Threads, u # t  PROVE ThreadInv(u)'
  BY ZenonT(60), <1>1, <1>7, <1>10, OtherThread DEF AdapterInv
<1> QED  BY Zenon, <1>3, <1>7, <1>8, <1>9, <1>10 DEF AdapterInv

(* The decision is stored under the job's own id, or in its own thread. *)
LEMMA BeginDoneStep ==
    ASSUME AdapterInv, NEW t \in Threads, Begin_Done(t)
    PROVE  AdapterInv'
<1> DEFINE c == run[t].chosen
           k == run[t].id
           x == [run[t] EXCEPT !.pc = "building", !.selected = c, !.chosen = {}]
           w == [hot |-> c, budget_left |-> BlockBudget, active |-> TRUE]
<1>0. /\ CoreInv /\ AdapterType /\ run[t] \in Job /\ t \in Open /\ run[t].pc = "choosing"
      /\ c \in SUBSET Ranges /\ BlockBudget \in Nat /\ ThreadInv(t)
  BY Zenon, RocksDBAssumption DEF Begin_Done, AdapterInv, AdapterType, Open, Job
<1>1. UNCHANGED vars /\ UNCHANGED <<next_job, failed, opt, hot_t2, ctx_stack>>
  BY DEF Begin_Done, vars, jobVars
<1>2. run' = [run EXCEPT ![t] = x]
  BY Zenon, <1>0 DEF Begin_Done, AdapterType
<1>3. /\ x \in Job /\ x.pc = "building" /\ x.id = k /\ x.chosen = {} /\ x.selected = c
      /\ x.predicted = run[t].predicted /\ x.accepted = run[t].accepted
  BY Zenon, <1>0 DEF Job
<1> HIDE DEF x
<1>4. k \notin DOMAIN pending_by_job
  BY <1>0, NotPending
<1>5. \/ /\ opt.warm_mode = "prepop" /\ pending_by_job' = pending_by_job
         /\ tl_prepop_job' = [tl_prepop_job EXCEPT ![t] = w]
      \/ /\ opt.warm_mode # "prepop" /\ tl_prepop_job' = tl_prepop_job
         /\ pending_by_job' = [j \in DOMAIN pending_by_job \cup {k} |->
                                  IF j = k THEN c ELSE pending_by_job[j]]
  BY Zenon DEF Begin_Done, PendingKey
<1>6. /\ w \in Prepop /\ w.hot = c /\ w.budget_left = BlockBudget
  BY <1>0 DEF Prepop
<1> HIDE DEF w
<1>7. /\ \A j \in DOMAIN pending_by_job' : j \in DOMAIN pending_by_job \/ j = k
      /\ \A j \in DOMAIN pending_by_job :
            j \in DOMAIN pending_by_job' /\ pending_by_job'[j] = pending_by_job[j]
      /\ k \in DOMAIN pending_by_job' => pending_by_job'[k] = c
      /\ opt.warm_mode # "prepop" => k \in DOMAIN pending_by_job'
  BY <1>4, <1>5
<1>8. /\ tl_prepop_job' \in [Threads -> Prepop]
      /\ opt.warm_mode = "prepop" => tl_prepop_job'[t] = w
      /\ \A u \in Threads \ {t} : tl_prepop_job'[u] = tl_prepop_job[u]
  BY ZenonT(60), <1>0, <1>5, <1>6 DEF AdapterType
<1>9. CoreInv'
  BY <1>0, <1>1, CoreSame
<1>10. /\ IdInv' /\ ContextInv' /\ run'[t] = x /\ (\A u \in Threads \ {t} : run'[u] = run[u])
       /\ run' \in [Threads -> Job]
  BY ZenonT(60), <1>0, <1>1, <1>2, <1>3, <1>4, <1>7, MoveOn
<1>11. AdapterType'
  BY Zenon, <1>0, <1>1, <1>7, <1>8, <1>10 DEF AdapterType
<1>12. ThreadInv(t)'
  <2>1. x.accepted = <<>> /\ Len(x.accepted) = 0 /\ DOMAIN x.accepted = {}
    BY <1>0, <1>3 DEF ThreadInv
  <2>2. opt.policy = "leaper" => x.chosen \cup x.selected \subseteq x.predicted
    BY Zenon, <1>0, <1>3 DEF ThreadInv
  <2>3. opt.warm_mode = "prepop" => /\ tl_prepop_job'[t].hot = x.selected
                                    /\ Len(x.accepted) + tl_prepop_job'[t].budget_left = BlockBudget
    BY <1>0, <1>3, <1>6, <1>8, <2>1
  <2>4. Len(x.accepted) <= BlockBudget
    BY <1>0, <2>1
  <2>5. opt' = opt /\ run'[t] = x /\ x.pc = "building"
    BY Zenon, <1>1, <1>3, <1>10
  <2>6. /\ x.id \in DOMAIN pending_by_job' => pending_by_job'[x.id] = x.selected
        /\ opt.warm_mode # "prepop" => x.id \in DOMAIN pending_by_job'
    BY Zenon, <1>3, <1>7
  <2>7. \A i \in DOMAIN x.accepted : \E q \in x.selected : x.accepted[i][1] <= q /\ q <= x.accepted[i][2]
    BY Zenon, <2>1
  <2> QED  BY <2>2, <2>3, <2>4, <2>5, <2>6, <2>7 DEF ThreadInv
<1>13. ASSUME NEW u \in Threads, u # t  PROVE ThreadInv(u)'
  <2>1. run[u].pc # "choosing"
    BY ZenonT(60), <1>0, <1>13, OneChooses
  <2>2. run[u].pc = "building" => run[u].id # k
    BY <1>0, <1>13 DEF AdapterInv, IdInv, Open
  <2> QED  BY Zenon, <1>1, <1>7, <1>8, <1>10, <1>13, <2>1, <2>2, OtherThread DEF AdapterInv
<1> QED  BY ZenonT(60), <1>9, <1>10, <1>11, <1>12, <1>13 DEF AdapterInv

(* A block is accepted only while the thread's own budget lasts and only   *)
(* if it meets a range the job selected.                                   *)
LEMMA ShouldWarmStep ==
    ASSUME AdapterInv, NEW t \in Threads, NEW s \in Spans, ShouldWarm(t, s[1], s[2])
    PROVE  AdapterInv'
<1> DEFINE p == tl_prepop_job[t]
           x == [run[t] EXCEPT !.built = run[t].built + 1,
                               !.accepted = Append(run[t].accepted, <<s[1], s[2]>>)]
           y == [run[t] EXCEPT !.built = run[t].built + 1]
           w == [p EXCEPT !.budget_left = Spend(p)]
<1>0. /\ CoreInv /\ AdapterType /\ run[t] \in Job /\ t \in Open /\ run[t].pc = "building"
      /\ p \in Prepop /\ BlockBudget \in Nat /\ ThreadInv(t) /\ opt.warm_mode = "prepop"
      /\ <<s[1], s[2]>> \in Ranges \X Ranges /\ mu = NoThread
  BY RocksDBAssumption DEF ShouldWarm, AdapterInv, AdapterType, Open
<1>1. UNCHANGED vars /\ UNCHANGED <<next_job, failed, opt, hot_t2, ctx_stack, mu, pending_by_job>>
  BY DEF ShouldWarm, vars, jobVars
<1>2. CoreInv' /\ run[t].built + 1 \in Nat
  BY <1>0, <1>1, CoreSame DEF Job
<1>3. CASE Warmable(p, s[1], s[2])
  <2>1. run' = [run EXCEPT ![t] = x] /\ tl_prepop_job' = [tl_prepop_job EXCEPT ![t] = w]
    BY Zenon, <1>0, <1>3 DEF ShouldWarm, AdapterType
  <2>2. /\ run[t].accepted \in Seq(Ranges \X Ranges) /\ p.budget_left \in Nat
        /\ BlockBudget # 0 => p.budget_left > 0
        /\ \E q \in p.hot : s[1] <= q /\ q <= s[2]
    BY <1>0, <1>3 DEF Job, Prepop, Warmable
  <2>3. /\ x \in Job /\ x.pc = "building" /\ x.id = run[t].id /\ x.chosen = run[t].chosen
        /\ x.predicted = run[t].predicted /\ x.selected = run[t].selected
        /\ x.accepted = Append(run[t].accepted, <<s[1], s[2]>>)
    <3>1. Append(run[t].accepted, <<s[1], s[2]>>) \in Seq(Ranges \X Ranges)
      BY <1>0, <2>2
    <3> QED  BY Zenon, <1>0, <1>2, <3>1 DEF Job
  <2> HIDE DEF x
  <2>4. Spend(p) \in Nat /\ (BlockBudget # 0 => Spend(p) = p.budget_left - 1)
    BY <2>2 DEF Spend
  <2>5. w \in Prepop /\ w.hot = p.hot /\ w.budget_left = Spend(p)
    BY Zenon, <1>0, <2>4 DEF Prepop
  <2> HIDE DEF w
  <2>6. /\ tl_prepop_job' \in [Threads -> Prepop] /\ tl_prepop_job'[t] = w
        /\ \A u \in Threads \ {t} : tl_prepop_job'[u] = tl_prepop_job[u]
    BY ZenonT(60), <1>0, <2>1, <2>5 DEF AdapterType
  <2>7. /\ IdInv' /\ ContextInv' /\ run'[t] = x /\ (\A u \in Threads \ {t} : run'[u] = run[u])
        /\ run' \in [Threads -> Job]
    BY ZenonT(60), <1>0, <1>1, <2>1, <2>3, MoveOn
  <2>8. AdapterType'
    BY ZenonT(60), <1>0, <1>1, <2>6, <2>7 DEF AdapterType
  <2>9. ThreadInv(t)'
    <3> DEFINE a == run[t].accepted
               n1 == Len(a)
    <3>1. n1 \in Nat /\ Len(x.accepted) = n1 + 1 /\ DOMAIN x.accepted = 1 .. n1 + 1
          /\ DOMAIN a = 1 .. n1
      BY <2>2, <2>3
    <3>2. \A i \in 1 .. n1 : x.accepted[i] = a[i]
      BY <2>2, <2>3
    <3>3. x.accepted[n1 + 1] = <<s[1], s[2]>>
      BY <2>2, <2>3
    <3>4. p.hot = run[t].selected /\ (BlockBudget # 0 => n1 + p.budget_left = BlockBudget)
      BY Zenon, <1>0 DEF ThreadInv
    <3>5. \A i \in DOMAIN x.accepted : \E q \in x.selected :
              x.accepted[i][1] <= q /\ q <= x.accepted[i][2]
      <4>1. \A i \in 1 .. n1 : \E q \in run[t].selected : a[i][1] <= q /\ q <= a[i][2]
        BY <1>0, <3>1 DEF ThreadInv
      <4> HIDE DEF n1, a
      <4>2. \E q \in x.selected : x.accepted[n1 + 1][1] <= q /\ q <= x.accepted[n1 + 1][2]
        <5>1. x.accepted[n1 + 1][1] = s[1] /\ x.accepted[n1 + 1][2] = s[2]
          BY <3>3
        <5> QED  BY ZenonT(60), <2>2, <2>3, <3>4, <5>1
      <4>3. \A i \in 1 .. n1 + 1 : i \in 1 .. n1 \/ i = n1 + 1
        BY <3>1
      <4> QED  BY Zenon, <2>3, <3>1, <3>2, <4>1, <4>2, <4>3
    <3> HIDE DEF n1, a
    <3>6. BlockBudget # 0 => /\ Len(x.accepted) <= BlockBudget
                             /\ Len(x.accepted) + w.budget_left = BlockBudget
      <4> SUFFICES ASSUME BlockBudget # 0
                   PROVE  n1 + 1 <= BlockBudget /\ n1 + 1 + w.budget_left = BlockBudget
        BY <3>1
      <4>1. BlockBudget \in Nat /\ n1 \in Nat /\ p.budget_left \in Nat /\ p.budget_left > 0
            /\ n1 + p.budget_left = BlockBudget
        BY Zenon, <1>0, <2>2, <3>1, <3>4
      <4>2. w.budget_left = p.budget_left - 1
        BY Zenon, <2>4, <2>5
      <4> HIDE DEF p
      <4> QED  BY <4>1, <4>2
    <3> QED  BY ZenonT(60), <1>0, <1>1, <2>3, <2>5, <2>6, <2>7, <3>4, <3>5, <3>6 DEF ThreadInv
  <2>10. ASSUME NEW u \in Threads, u # t  PROVE ThreadInv(u)'
    BY ZenonT(60), <1>1, <2>6, <2>7, <2>10, OtherThread DEF AdapterInv
  <2> QED  BY Zenon, <1>2, <2>7, <2>8, <2>9, <2>10 DEF AdapterInv
<1>4. CASE ~Warmable(p, s[1], s[2])
  <2>1. run' = [run EXCEPT ![t] = y] /\ tl_prepop_job' = tl_prepop_job
    BY <1>0, <1>4 DEF ShouldWarm, AdapterType
  <2>2. /\ y \in Job /\ y.pc = "building" /\ y.id = run[t].id /\ y.chosen = run[t].chosen
        /\ y.predicted = run[t].predicted /\ y.selected = run[t].selected
        /\ y.accepted = run[t].accepted
    BY Zenon, <1>0, <1>2 DEF Job
  <2> HIDE DEF y
  <2>3. /\ IdInv' /\ ContextInv' /\ run'[t] = y /\ (\A u \in Threads \ {t} : run'[u] = run[u])
        /\ run' \in [Threads -> Job]
    BY ZenonT(60), <1>0, <1>1, <2>1, <2>2, MoveOn
  <2>4. AdapterType'
    BY ZenonT(60), <1>0, <1>1, <2>1, <2>3 DEF AdapterType
  <2>5. ThreadInv(t)'
    BY ZenonT(60), <1>0, <1>1, <2>1, <2>2, <2>3 DEF ThreadInv
  <2>6. ASSUME NEW u \in Threads, u # t  PROVE ThreadInv(u)'
    BY ZenonT(60), <1>1, <2>1, <2>3, <2>6, OtherThread DEF AdapterInv
  <2> QED  BY ZenonT(60), <1>2, <2>3, <2>4, <2>5, <2>6 DEF AdapterInv
<1> QED  BY <1>3, <1>4

(* A flush that fails leaves its context and its list, under an id that is *)
(* never used again.                                                       *)
LEMMA FlushFailsStep ==
    ASSUME AdapterInv, NEW t \in Threads, FlushFails(t)
    PROVE  AdapterInv'
<1>0. /\ CoreInv /\ AdapterType /\ IdInv /\ ContextInv /\ t \in Open /\ run[t].pc = "building"
  BY DEF FlushFails, AdapterInv, AdapterType, Open
<1>1. /\ UNCHANGED vars /\ UNCHANGED <<next_job, opt, hot_t2, ctx_stack, mu, pending_by_job, tl_prepop_job>>
      /\ failed' = failed \cup {run[t].id} /\ run' = [run EXCEPT ![t] = NotRunning]
  BY DEF FlushFails, vars, jobVars
<1>2. CoreInv'
  BY Zenon, <1>0, <1>1, CoreSame
<1>3. /\ run'[t] = NotRunning /\ (\A u \in Threads \ {t} : run'[u] = run[u])
      /\ run' \in [Threads -> Job]
  BY ZenonT(60), <1>0, <1>1, IdleType DEF AdapterType
<1>4. AdapterType'
  BY <1>0, <1>1, <1>3 DEF AdapterType
<1>5. ThreadInv(t)'
  BY ZenonT(60), <1>3, IdleThread
<1>6. ASSUME NEW u \in Threads, u # t  PROVE ThreadInv(u)'
  BY <1>1, <1>3, <1>6, OtherThread DEF AdapterInv
<1>7. /\ Open' = Open \ {t} /\ IsFiniteSet(Open') /\ Cardinality(Open') = Cardinality(Open) - 1
      /\ Cardinality(Open) \in Nat \ {0}
  BY Zenon, <1>0, <1>1, CloseOne DEF ContextInv
<1>8. IdInv'
  <2>1. failed' \subseteq 1 .. next_job' - 1
    BY Zenon, <1>0, <1>1 DEF IdInv
  <2>2. \A u \in Open' : run'[u] = run[u] /\ u \in Open /\ u # t
    BY ZenonT(60), <1>3, <1>7 DEF Open
  <2>3. \A u \in Open' : run'[u].id \in 1 .. next_job' - 1 /\ run'[u].id \notin failed'
    BY <1>0, <1>1, <2>2 DEF IdInv
  <2>4. \A j \in DOMAIN pending_by_job' :
          j \in failed' \/ \E u \in Threads : run'[u].pc = "building" /\ run'[u].id = j
    BY ZenonT(60), <1>0, <1>1, <1>3 DEF IdInv
  <2> QED  BY ZenonT(60), <1>0, <2>1, <2>2, <2>3, <2>4 DEF IdInv
<1>9. ContextInv'
  <2>1. run[t].id \notin failed
    BY Zenon, <1>0 DEF IdInv
  <2>2. /\ IsFiniteSet(failed \cup {run[t].id})
        /\ Cardinality(failed \cup {run[t].id}) = Cardinality(failed) + 1
    BY ZenonT(60), <1>0, <2>1, FS_AddElement DEF ContextInv
  <2>3. Cardinality(failed) \in Nat
    BY ZenonT(60), <1>0, FS_CardinalityType DEF ContextInv
  <2> QED  BY <1>0, <1>1, <1>7, <2>2, <2>3 DEF ContextInv
<1> QED  BY ZenonT(60), <1>2, <1>4, <1>5, <1>6, <1>8, <1>9 DEF AdapterInv

(* End takes the list stored under the job's id and no other. *)
LEMMA EndTakeStep ==
    ASSUME AdapterInv, NEW t \in Threads, End_Take(t)
    PROVE  AdapterInv'
<1> DEFINE k == run[t].id
           c == IF k \in DOMAIN pending_by_job THEN pending_by_job[k] ELSE {}
           x == [run[t] EXCEPT !.pc = "warming", !.chosen = c]
<1>0. /\ CoreInv /\ AdapterType /\ run[t] \in Job /\ t \in Open /\ run[t].pc = "building"
      /\ ThreadInv(t) /\ mu = NoThread
  BY DEF End_Take, AdapterInv, AdapterType, Open
<1>1. /\ UNCHANGED vars /\ UNCHANGED <<next_job, opt, hot_t2, ctx_stack, failed, tl_prepop_job>>
      /\ mu' = NoThread /\ run' = [run EXCEPT ![t] = x]
      /\ pending_by_job' = [j \in DOMAIN pending_by_job \ {k} |-> pending_by_job[j]]
  BY Zenon, <1>0 DEF End_Take, vars, jobVars, ReleasedTo, PendingKey, AdapterType
<1>2. c \in SUBSET Ranges /\ (c # {} => k \in DOMAIN pending_by_job /\ c = pending_by_job[k])
      /\ (k \in DOMAIN pending_by_job => c = pending_by_job[k])
  BY <1>0 DEF AdapterType
<1> HIDE DEF c
<1>3. /\ x \in Job /\ x.pc = "warming" /\ x.id = k /\ x.chosen = c
      /\ x.predicted = run[t].predicted /\ x.selected = run[t].selected
      /\ x.accepted = run[t].accepted
  BY Zenon, <1>0, <1>2 DEF Job
<1> HIDE DEF x
<1>4. CoreInv'
  BY Zenon, <1>0, <1>1, CoreSame
<1>5. /\ DOMAIN pending_by_job' = DOMAIN pending_by_job \ {k}
      /\ \A j \in DOMAIN pending_by_job' : pending_by_job'[j] = pending_by_job[j]
  BY <1>1
<1>6. /\ IdInv' /\ ContextInv' /\ run'[t] = x /\ (\A u \in Threads \ {t} : run'[u] = run[u])
      /\ run' \in [Threads -> Job]
  BY ZenonT(60), <1>0, <1>1, <1>3, <1>5, MoveOn
<1>7. AdapterType'
  BY Zenon, <1>0, <1>1, <1>5, <1>6 DEF AdapterType
<1>8. ThreadInv(t)'
  BY ZenonT(60), <1>0, <1>1, <1>2, <1>3, <1>6 DEF ThreadInv
<1>9. ASSUME NEW u \in Threads, u # t  PROVE ThreadInv(u)'
  <2>1. run[u].pc = "building" => run[u].id # k
    BY Zenon, <1>0, <1>9 DEF AdapterInv, IdInv, Open
  <2>2. run[u].pc # "choosing"
    BY Zenon, <1>0, NobodyChooses
  <2> QED  BY ZenonT(60), <1>1, <1>5, <1>6, <1>9, <2>1, <2>2, OtherThread DEF AdapterInv
<1> QED  BY <1>4, <1>6, <1>7, <1>8, <1>9 DEF AdapterInv

(* The reads touch the thread's own members only. *)
LEMMA EndWarmStep ==
    ASSUME AdapterInv, NEW t \in Threads, End_Warm(t)
    PROVE  AdapterInv'
<1> DEFINE x == [run[t] EXCEPT !.pc = "popping"]
           w == [tl_prepop_job[t] EXCEPT !.active = FALSE, !.hot = {}]
<1>0. /\ CoreInv /\ AdapterType /\ run[t] \in Job /\ t \in Open /\ run[t].pc = "warming"
      /\ ThreadInv(t) /\ tl_prepop_job[t] \in Prepop
  BY DEF End_Warm, AdapterInv, AdapterType, Open
<1>1. /\ UNCHANGED vars /\ UNCHANGED <<next_job, opt, hot_t2, ctx_stack, failed, mu, pending_by_job>>
      /\ run' = [run EXCEPT ![t] = x]
  BY <1>0 DEF End_Warm, vars, jobVars, AdapterType
<1>2. tl_prepop_job' = [tl_prepop_job EXCEPT ![t] = w] \/ tl_prepop_job' = tl_prepop_job
  BY Zenon, <1>0 DEF End_Warm, AdapterType
<1>3. w \in Prepop
  BY Zenon, <1>0 DEF Prepop
<1> HIDE DEF w
<1>4. /\ tl_prepop_job' \in [Threads -> Prepop]
      /\ \A u \in Threads \ {t} : tl_prepop_job'[u] = tl_prepop_job[u]
  BY <1>0, <1>2, <1>3 DEF AdapterType
<1>5. /\ x \in Job /\ x.pc = "popping" /\ x.id = run[t].id /\ x.chosen = run[t].chosen
      /\ x.predicted = run[t].predicted /\ x.selected = run[t].selected
      /\ x.accepted = run[t].accepted
  BY Zenon, <1>0 DEF Job
<1> HIDE DEF x
<1>6. CoreInv'
  BY ZenonT(60), <1>0, <1>1, CoreSame
<1>7. run[t].id \notin DOMAIN pending_by_job
  BY <1>0, NotPending
<1>8. /\ IdInv' /\ ContextInv' /\ run'[t] = x /\ (\A u \in Threads \ {t} : run'[u] = run[u])
      /\ run' \in [Threads -> Job]
  BY ZenonT(60), <1>0, <1>1, <1>5, <1>7, MoveOn
<1>9. AdapterType'
  BY Zenon, <1>0, <1>1, <1>4, <1>8 DEF AdapterType
<1>10. ThreadInv(t)'
  BY <1>0, <1>1, <1>5, <1>8 DEF ThreadInv
<1>11. ASSUME NEW u \in Threads, u # t  PROVE ThreadInv(u)'
  BY Zenon, <1>1, <1>4, <1>8, <1>11, OtherThread DEF AdapterInv
<1> QED  BY <1>6, <1>8, <1>9, <1>10, <1>11 DEF AdapterInv

(* A job that ends pops one context, while nobody chooses against it. *)
LEMMA EndPopStep ==
    ASSUME AdapterInv, NEW t \in Threads, End_Pop(t)
    PROVE  AdapterInv'
<1>0. /\ CoreInv /\ AdapterType /\ IdInv /\ ContextInv /\ t \in Open /\ run[t].pc = "popping"
      /\ mu = NoThread
  BY DEF End_Pop, MayPop, AdapterInv, Open
<1>1. /\ OnCompactionEnd /\ UNCHANGED <<opt, forecast, qps>> /\ UNCHANGED ssadVars
      /\ UNCHANGED <<next_job, failed, mu, pending_by_job, tl_prepop_job>>
      /\ run' = [run EXCEPT ![t] = NotRunning]
  BY DEF End_Pop, Pops, envVars
<1>2. CoreInv' /\ Len(ctx_stack') = Len(ctx_stack) - 1
  BY Zenon, <1>0, <1>1, EndCore, OpenHasContext
<1>3. /\ run'[t] = NotRunning /\ (\A u \in Threads \ {t} : run'[u] = run[u])
      /\ run' \in [Threads -> Job]
  BY Zenon, <1>0, <1>1, IdleType DEF AdapterType
<1>4. AdapterType'
  BY Zenon, <1>0, <1>1, <1>3 DEF AdapterType
<1>5. ThreadInv(t)'
  BY <1>3, IdleThread
<1>6. ASSUME NEW u \in Threads, u # t  PROVE ThreadInv(u)'
  <2>1. run[u].pc # "choosing"
    BY <1>0, NobodyChooses
  <2> QED  BY Zenon, <1>1, <1>3, <1>6, <2>1, OtherThread DEF AdapterInv
<1>7. /\ Open' = Open \ {t} /\ IsFiniteSet(Open') /\ Cardinality(Open') = Cardinality(Open) - 1
      /\ Cardinality(Open) \in Nat \ {0}
  BY Zenon, <1>0, <1>1, CloseOne DEF ContextInv
<1>8. IdInv'
  <2>1. \A u \in Open' : run'[u] = run[u] /\ u \in Open
    BY Zenon, <1>3, <1>7 DEF Open
  <2>2. \A j \in DOMAIN pending_by_job' :
          j \in failed' \/ \E u \in Threads : run'[u].pc = "building" /\ run'[u].id = j
    BY Zenon, <1>0, <1>1, <1>3 DEF IdInv
  <2> QED  BY <1>0, <1>1, <2>1, <2>2 DEF IdInv
<1>9. ContextInv'
  <2>1. Cardinality(failed) \in Nat
    BY <1>0, FS_CardinalityType DEF ContextInv
  <2> QED  BY <1>0, <1>1, <1>2, <1>7, <2>1 DEF ContextInv
<1> QED  BY ZenonT(60), <1>2, <1>4, <1>5, <1>6, <1>8, <1>9 DEF AdapterInv

(* The harness' reports and the passage of time touch no job. *)
LEMMA QuietStep ==
    ASSUME AdapterInv, CoreInv', UNCHANGED <<opt, hot_t2, ctx_stack>>, UNCHANGED adapterVars
    PROVE  AdapterInv'
<1>1. UNCHANGED <<mu, run, pending_by_job, tl_prepop_job, next_job, failed>>
  BY Zenon DEF adapterVars
<1>2. AdapterType'
  BY Zenon, <1>1 DEF AdapterInv, AdapterType
<1>3. ASSUME NEW u \in Threads  PROVE ThreadInv(u)'
  BY Zenon, <1>1, <1>3, OtherThread DEF AdapterInv
<1>4. IdInv' /\ ContextInv'
  BY <1>1 DEF AdapterInv, IdInv, ContextInv, Open
<1> QED  BY <1>2, <1>3, <1>4 DEF AdapterInv

(* The adapter is opened with nothing going on. *)
LEMMA AdapterInit == RInit => AdapterInv
<1> SUFFICES ASSUME RInit PROVE AdapterInv
  OBVIOUS
<1>1. CoreInv /\ ctx_stack = <<>>
  BY Zenon, InitCore DEF RInit, CoreInit
<1>2. \A t \in Threads : run[t] = NotRunning /\ run[t].pc = "idle" /\ run[t].chosen = {}
          /\ run[t].selected = {} /\ run[t].accepted = <<>>
  BY Zenon DEF RInit, NotRunning
<1>3. NoPrepop \in Prepop
  BY DEF NoPrepop, Prepop
<1>4. DOMAIN pending_by_job = {} /\ next_job = 1 /\ failed = {}
  BY DEF RInit
<1>5. run \in [Threads -> Job] /\ tl_prepop_job \in [Threads -> Prepop]
  BY ZenonT(60), <1>3, IdleType DEF RInit
<1>6. AdapterType
  BY <1>4, <1>5 DEF AdapterType
<1>7. \A t \in Threads : ThreadInv(t)
  <2>1. BlockBudget \in Nat
    BY RocksDBAssumption
  <2> QED  BY <1>2, <2>1 DEF ThreadInv
<1>8. Open = {}
  BY ZenonT(60), <1>2 DEF Open
<1>9. IdInv
  BY ZenonT(60), <1>4, <1>8 DEF IdInv
<1>10. ContextInv
  BY <1>1, <1>4, <1>8, FS_EmptySet DEF ContextInv
<1> QED  BY ZenonT(60), <1>1, <1>6, <1>7, <1>9, <1>10 DEF AdapterInv

(* Every step of every thread keeps the invariant. *)
LEMMA AdapterNext ==
    ASSUME AdapterInv, [RNext]_allVars
    PROVE  AdapterInv'
<1>1. ASSUME NEW m \in MissRatios, Health(m), UNCHANGED adapterVars  PROVE AdapterInv'
  <2>1. CoreInv' /\ UNCHANGED <<opt, hot_t2, ctx_stack>>
    BY <1>1, HealthCore DEF AdapterInv, Health, jobVars
  <2> QED  BY Zenon, <1>1, <2>1, QuietStep
<1>2. CASE TimePasses /\ UNCHANGED adapterVars
  <2>1. /\ UNCHANGED <<opt, jobVars>> /\ UNCHANGED ssadVars /\ forecast' \in Forecasts
        /\ UNCHANGED <<opt, hot_t2, ctx_stack, qps>>
    BY <1>2 DEF TimePasses, jobVars
  <2>2. qps' \in Nat /\ SsadTypeOK'
    BY ZenonT(60), <2>1, SameSsad DEF AdapterInv, CoreInv, CoreType
  <2>3. CoreInv'
    BY ZenonT(60), <2>1, <2>2, QuietCore DEF AdapterInv
  <2> QED  BY ZenonT(60), <1>2, <2>1, <2>3, QuietStep
<1>3. CASE UNCHANGED allVars
  <2>1. UNCHANGED vars /\ UNCHANGED adapterVars /\ UNCHANGED <<opt, hot_t2, ctx_stack>>
    BY <1>3 DEF allVars, vars, jobVars
  <2> QED  BY ZenonT(60), <2>1, CoreSame, QuietStep DEF AdapterInv
<1> QED
  BY Zenon, <1>1, <1>2, <1>3, BeginPredictStep, BeginChooseStep, BeginDoneStep, ShouldWarmStep,
     FlushFailsStep, EndTakeStep, EndWarmStep, EndPopStep DEF RNext

-----------------------------------------------------------------------------
(* No End restores an older context in the middle of a Begin: a job        *)
(* selects only ranges its own Begin predicted (Listener::Begin and End).  *)
THEOREM ChoosesOwn == RSpec => []ChoosesOwnPrediction
<1>1. AdapterInv => ChoosesOwnPrediction
  BY Zenon DEF AdapterInv, ThreadInv, ChoosesOwnPrediction, Open
<1> QED  BY AdapterInit, AdapterNext, <1>1, PTL DEF RSpec

(* A job warms at its End what it selected at its Begin, whichever job     *)
(* ends first (pending_by_job_, PrepopFilter::ShouldWarm).                 *)
THEOREM WarmsOwn == RSpec => []WarmsOwnChoice
<1>1. AdapterInv => WarmsOwnChoice
  BY Zenon DEF AdapterInv, ThreadInv, WarmsOwnChoice
<1> QED  BY AdapterInit, AdapterNext, <1>1, PTL DEF RSpec

(* The core's stack holds one context per open job and per failed flush,   *)
(* in whatever order the jobs end, and no pending list outlives its job    *)
(* but a failed flush's.                                                   *)
THEOREM ContextsKept == RSpec => []ContextsAccounted
<1>1. AdapterInv => ContextsAccounted
  <2> SUFFICES ASSUME AdapterInv PROVE ContextsAccounted
    OBVIOUS
  <2>1. Len(ctx_stack) = Cardinality(Open) + Cardinality(failed)
    BY DEF AdapterInv, ContextInv
  <2>2. ASSUME Open = {}, failed = {}  PROVE Context = Idle
    <3>1. Len(ctx_stack) = 0 /\ ctx_stack \in Seq(JobCtx)
      BY <2>1, <2>2, FS_EmptySet DEF AdapterInv, CoreInv, CoreType
    <3>2. ctx_stack = <<>>
      BY <3>1
    <3> QED  BY <3>2 DEF AdapterInv, CoreInv, IdleRestored, BaseContext
  <2>3. DOMAIN pending_by_job \subseteq failed \cup {run[t].id : t \in Open}
    BY DEF AdapterInv, IdInv, Open
  <2> QED  BY <2>1, <2>2, <2>3 DEF ContextsAccounted
<1> QED  BY AdapterInit, AdapterNext, <1>1, PTL DEF RSpec

-----------------------------------------------------------------------------
WarmType ==
    /\ mode \in {"iterator", "sst"} /\ budget \in Nat
    /\ pc \in {"idle", "range", "file", "seek", "scan", "count", "done"}
    /\ file \in Nat /\ range \in Nat /\ n \in Nat
    /\ tl_warm_budget_left \in Nat /\ read \in Nat
    /\ warmed_blocks \in Nat /\ total \in Nat

(* What is read and not yet counted; all of it is counted before the next  *)
(* range, or the end.                                                      *)
CountInv ==
    /\ pc = "idle" => total = 0 /\ read = 0 /\ warmed_blocks = 0
    /\ mode = "iterator" => total = warmed_blocks + read /\ (pc \in {"range", "done"} => read = 0)
    /\ mode = "sst" /\ pc # "idle" => total = read /\ warmed_blocks = IF pc = "done" THEN read ELSE 0

(* Mode iterator: with budget left, it is what the ranges before this one  *)
(* have not read; without, the scans are over.                             *)
IteratorInv ==
    budget # 0 /\ mode = "iterator" =>
        /\ pc \in {"seek", "scan", "count"} => tl_warm_budget_left # 0
        /\ pc \in {"range", "seek", "scan", "count"} /\ tl_warm_budget_left # 0
             => warmed_blocks + tl_warm_budget_left = budget
        /\ pc = "seek" => read = 0
        /\ total < budget + DBReads

(* Mode sst: a move starts only below the budget. *)
SstInv == budget # 0 /\ mode = "sst" => read < budget + TableReads

BudgetInv == WarmType /\ CountInv /\ IteratorInv /\ SstInv

(* What the constants of the warm reads are. *)
LEMMA WarmConstants ==
    /\ DBReads \in Nat \ {0} /\ TableReads \in Nat \ {0}
    /\ Budgets \subseteq Nat /\ Modes \subseteq {"iterator", "sst"}
BY Zenon, WarmAssumption

(* Nothing is read before End. *)
LEMMA WarmStarts == WarmInit => BudgetInv
BY WarmConstants DEF WarmInit, BudgetInv, WarmType, CountInv, IteratorInv, SstInv

(* Every step of Prefetch and WarmFromFiles keeps the budget. *)
LEMMA WarmStep ==
    ASSUME BudgetInv, [WarmNext]_warmVars
    PROVE  BudgetInv'
<1> USE WarmConstants DEF BudgetInv, WarmType, CountInv, IteratorInv, SstInv
<1>1. ASSUME NEW m \in Modes, NEW b \in Budgets, End_Reads(m, b)  PROVE BudgetInv'
  BY <1>1 DEF End_Reads
<1>2. CASE NextRange
  BY Zenon, <1>2 DEF NextRange, Exhausted
<1>3. CASE Prefetch_Seek
  <2>1. PICK k \in 0 .. DBReads : Reads(k)
    BY Zenon, <1>3 DEF Prefetch_Seek, MoveReads
  <2> QED  BY <1>3, <2>1 DEF Prefetch_Seek, Reads, OverAt
<1>4. CASE Prefetch_Scan
  BY <1>4 DEF Prefetch_Scan, Reads, Over, OverAt, MoveReads
<1>5. CASE Prefetch_Count
  BY <1>5 DEF Prefetch_Count, Remaining
<1>6. CASE Sst_File
  BY <1>6 DEF Sst_File
<1>7. CASE Sst_Seek
  BY <1>7 DEF Sst_Seek, Reads, Over, OverAt, MoveReads
<1>8. CASE Sst_Scan
  BY <1>8 DEF Sst_Scan, Reads, Over, OverAt, MoveReads
<1>9. CASE Sst_Count
  BY <1>9 DEF Sst_Count
<1>10. CASE UNCHANGED warmVars
  BY <1>10 DEF warmVars
<1> QED
  BY ZenonT(60), <1>1, <1>2, <1>3, <1>4, <1>5, <1>6, <1>7, <1>8, <1>9, <1>10 DEF WarmNext

(* What the invariant says when the reads are over. *)
LEMMA BudgetSuffices == BudgetInv => ReadsWithinBudget
BY WarmConstants DEF BudgetInv, WarmType, CountInv, IteratorInv, SstInv, ReadsWithinBudget, MoveReads

(* No job passes its budget by as much as one move of an iterator may      *)
(* read, and what it read it reports (CacheBridge::Prefetch,               *)
(* WarmFromFiles).                                                         *)
THEOREM BudgetHolds == WarmSpec => []ReadsWithinBudget
BY WarmStarts, WarmStep, BudgetSuffices, PTL DEF WarmSpec

(* The jobs and the reads together: no job accepts more blocks than its    *)
(* budget in mode prepop, or passes it by a whole move of an iterator in   *)
(* the others, with any number of jobs at a time                           *)
(* (PrepopFilter::ShouldWarm, CacheBridge::Prefetch, WarmFromFiles).       *)
THEOREM WithinBudgetKept == MCSpec => []WithinBudget
<1> DEFINE Both == AdapterInv /\ BudgetInv
<1>1. MCInit => Both
  BY AdapterInit, WarmStarts DEF MCInit
<1>2. Both /\ [JobNext \/ EndNext]_<<allVars, warmVars>> => Both'
  <2> SUFFICES ASSUME AdapterInv, BudgetInv, [JobNext \/ EndNext]_<<allVars, warmVars>>
               PROVE  AdapterInv' /\ BudgetInv'
    OBVIOUS
  <2>1. [RNext]_allVars /\ [WarmNext]_warmVars
    BY DEF JobNext, EndNext
  <2> QED  BY <2>1, AdapterNext, WarmStep
<1>3. Both => WithinBudget
  BY Zenon, BudgetSuffices DEF AdapterInv, ThreadInv, WithinBudget
<1> HIDE DEF Both
<1> QED  BY <1>1, <1>2, <1>3, PTL DEF MCSpec
=============================================================================
