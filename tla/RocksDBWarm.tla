---------------------------- MODULE RocksDBWarm ----------------------------
(***************************************************************************)
(* How a RocksDB job's End warms the ranges it chose, under a budget of    *)
(* data blocks counted while they are read: CacheBridge::Prefetch scanning *)
(* each range with a DB iterator (mode iterator), and WarmFromFiles        *)
(* scanning the job's output files (mode sst).  Everything happens on one  *)
(* thread with thread-local counters.                                      *)
(*                                                                         *)
(* What an iterator reads is external.  A move, a Seek or a Next, reads    *)
(* nothing inside a block or among cached ones.  A DB iterator may enter a *)
(* block in each of the files it merges; a table's iterator enters a       *)
(* second one where the key lies past the last key of the first.           *)
(***************************************************************************)
EXTENDS Integers

CONSTANTS
    Modes,           \* subset of {"iterator", "sst"}
    Budgets,         \* the block budgets a job may have; 0 is no limit
    NumChosen,       \* ranges chosen at Begin
    NumOutputs,      \* output files of the job (mode sst)
    warm_scan_keys,  \* keys scanned in a range (mode iterator)
    MaxKeys,         \* bound on the keys of a range in one file (mode sst)
    DBReads,         \* blocks one move of a DB iterator may read
    TableReads       \* blocks one move of a table's iterator may read

ASSUME WarmAssumption ==
    /\ Modes \subseteq {"iterator", "sst"} /\ Budgets \subseteq Nat
    /\ NumChosen \in Nat /\ NumOutputs \in Nat /\ warm_scan_keys \in Nat /\ MaxKeys \in Nat
    /\ DBReads \in Nat \ {0} /\ TableReads \in Nat \ {0}

VARIABLES
    mode, budget,
    pc,
    file, range,           \* the output file and the range being scanned
    n,                     \* keys scanned in it
    tl_warm_budget_left,   \* mode iterator
    read,                  \* blocks read since blocks0 was taken (iterator)
                           \* or since the counters were reset (sst)
    stopped,               \* the scan was ended by the budget
    warmed_blocks,         \* blocks the adapter says it warmed
    budget_stops,          \* warm_budget_stops_
    total                  \* blocks really read for this job

warmVars == <<mode, budget, pc, file, range, n, tl_warm_budget_left, read, stopped,
          warmed_blocks, budget_stops, total>>

WarmInit ==
    /\ mode = "iterator" /\ budget = 0 /\ pc = "idle"
    /\ file = 1 /\ range = 1 /\ n = 0 /\ stopped = FALSE /\ tl_warm_budget_left = 0
    /\ read = 0 /\ warmed_blocks = 0 /\ budget_stops = 0 /\ total = 0

(* End has the ranges it chose at Begin and turns to the mode's reads. *)
End_Reads(m, b) ==
    /\ pc = "idle"
    /\ mode' = m /\ budget' = b
    /\ pc' = IF m = "iterator" THEN "range"
             ELSE IF NumChosen > 0 /\ NumOutputs > 0 THEN "file" ELSE "done"
    /\ tl_warm_budget_left' = IF m = "iterator" THEN b ELSE 0
    /\ UNCHANGED <<file, range, n, read, stopped, warmed_blocks, budget_stops, total>>

(* The lambda `over` once so many blocks have been read; 0 is no limit. *)
OverAt(blocks) ==
    LET limit == IF mode = "iterator" THEN tl_warm_budget_left ELSE budget
    IN  limit # 0 /\ blocks >= limit

Over == OverAt(read)

MoveReads == IF mode = "sst" THEN TableReads ELSE DBReads

Reads(k) == read' = read + k /\ total' = total + k

-----------------------------------------------------------------------------
(* Mode iterator: End's loop over the chosen ranges, *)
(* A slip: a budget that is used up reads as no budget. *)
ExhaustedNever == FALSE

Exhausted == budget # 0 /\ tl_warm_budget_left = 0

NextRange ==
    /\ mode = "iterator" /\ pc = "range"
    /\ \/ /\ range > NumChosen \/ Exhausted
          /\ pc' = "done" /\ tl_warm_budget_left' = 0 /\ UNCHANGED <<n, read, stopped>>
       \/ /\ range <= NumChosen /\ ~Exhausted
          /\ pc' = "seek" /\ n' = 0 /\ read' = 0 /\ stopped' = FALSE
          /\ UNCHANGED tl_warm_budget_left
    /\ UNCHANGED <<mode, budget, file, range, warmed_blocks, budget_stops, total>>

(* and Prefetch: the seek, the budget after it, *)
Prefetch_Seek ==
    /\ mode = "iterator" /\ pc = "seek"
    /\ \E k \in 0 .. MoveReads : Reads(k)
    /\ stopped' = OverAt(read')
    /\ pc' = IF OverAt(read') THEN "count" ELSE "scan"
    /\ UNCHANGED <<mode, budget, file, range, n, tl_warm_budget_left, warmed_blocks, budget_stops>>

(* the scan, which may find no further key, *)
Prefetch_Scan ==
    /\ mode = "iterator" /\ pc = "scan"
    /\ \/ pc' = "count" /\ UNCHANGED <<n, read, total, stopped>>
       \/ /\ n < warm_scan_keys /\ n' = n + 1
          /\ IF Over THEN pc' = "count" /\ stopped' = TRUE /\ UNCHANGED <<read, total>>
             ELSE pc' = "scan" /\ UNCHANGED stopped /\ \E k \in 0 .. MoveReads : Reads(k)
    /\ UNCHANGED <<mode, budget, file, range, tl_warm_budget_left, warmed_blocks, budget_stops>>

Remaining == IF read < tl_warm_budget_left THEN tl_warm_budget_left - read ELSE 0

(* and the accounting. *)
Prefetch_Count ==
    /\ mode = "iterator" /\ pc = "count"
    /\ tl_warm_budget_left' = IF tl_warm_budget_left # 0 THEN Remaining ELSE 0
    /\ warmed_blocks' = warmed_blocks + read
    /\ budget_stops' = IF stopped THEN budget_stops + 1 ELSE budget_stops
    /\ range' = range + 1 /\ read' = 0
    /\ pc' = "range"
    /\ UNCHANGED <<mode, budget, file, n, stopped, total>>

-----------------------------------------------------------------------------
(* Mode sst: WarmFromFiles.  A file may fail to open. *)
Sst_File ==
    /\ mode = "sst" /\ pc = "file"
    /\ \/ /\ file > NumOutputs
          /\ pc' = "count" /\ UNCHANGED <<file, range, stopped>>
       \/ /\ file <= NumOutputs /\ Over
          /\ stopped' = TRUE /\ pc' = "count" /\ UNCHANGED <<file, range>>
       \/ /\ file <= NumOutputs /\ ~Over
          /\ \/ file' = file + 1 /\ UNCHANGED <<pc, range>>
             \/ pc' = "seek" /\ range' = 1 /\ UNCHANGED file
          /\ UNCHANGED stopped
    /\ UNCHANGED <<mode, budget, n, tl_warm_budget_left, read, warmed_blocks, budget_stops, total>>

(* A seek reads where it lands, also when the range has no key in          *)
(* this file; the budget is checked before it and after it.                *)
Sst_Seek ==
    /\ mode = "sst" /\ pc = "seek"
    /\ \/ /\ range > NumChosen
          /\ file' = file + 1 /\ pc' = "file" /\ UNCHANGED <<n, read, total, stopped>>
       \/ /\ range <= NumChosen /\ Over
          /\ stopped' = TRUE /\ pc' = "count" /\ UNCHANGED <<file, n, read, total>>
       \/ /\ range <= NumChosen /\ ~Over
          /\ \E k \in 0 .. MoveReads : Reads(k)
          /\ stopped' = OverAt(read')
          /\ pc' = IF OverAt(read') THEN "count" ELSE "scan"
          /\ n' = 0 /\ UNCHANGED file
    /\ UNCHANGED <<mode, budget, range, tl_warm_budget_left, warmed_blocks, budget_stops>>

Sst_Scan ==
    /\ mode = "sst" /\ pc = "scan"
    /\ \/ pc' = "seek" /\ range' = range + 1 /\ UNCHANGED <<n, read, total, stopped>>
       \/ /\ n < MaxKeys /\ n' = n + 1 /\ UNCHANGED range
          /\ IF Over THEN pc' = "count" /\ stopped' = TRUE /\ UNCHANGED <<read, total>>
             ELSE pc' = "scan" /\ UNCHANGED stopped /\ \E k \in 0 .. MoveReads : Reads(k)
    /\ UNCHANGED <<mode, budget, file, tl_warm_budget_left, warmed_blocks, budget_stops>>

Sst_Count ==
    /\ mode = "sst" /\ pc = "count"
    /\ warmed_blocks' = warmed_blocks + read
    /\ budget_stops' = IF stopped THEN budget_stops + 1 ELSE budget_stops
    /\ pc' = "done"
    /\ UNCHANGED <<mode, budget, file, range, n, tl_warm_budget_left, read, stopped, total>>

WarmNext ==
    \/ \E m \in Modes, b \in Budgets : End_Reads(m, b)
    \/ NextRange \/ Prefetch_Seek \/ Prefetch_Scan \/ Prefetch_Count
    \/ Sst_File \/ Sst_Seek \/ Sst_Scan \/ Sst_Count

WarmSpec == WarmInit /\ [][WarmNext]_warmVars

-----------------------------------------------------------------------------
(* The budget is passed by less than the last move's reads, over all files *)
(* and chosen ranges together and however many of these have no key in a   *)
(* file (budget_check.cc: "One indivisible read past the budget is         *)
(* allowed; a range's worth is not"); a budget that is exactly used up is  *)
(* not taken for the 0 that means no limit.  What is counted as warmed is  *)
(* what was read.                                                          *)
ReadsWithinBudget ==
    /\ budget # 0 => total < budget + MoveReads
    /\ pc = "done" => warmed_blocks = total
=============================================================================
