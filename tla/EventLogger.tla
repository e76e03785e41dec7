---------------------------- MODULE EventLogger ----------------------------
(***************************************************************************)
(* EventLogger::Logv of bench/include/leaper_bench/event_logger.h: events  *)
(* and counters from the lines LevelDB's background thread logs.  A line   *)
(* is known by its beginning; the rest of it is left out.                  *)
(*                                                                         *)
(* The background thread is LevelDB's, as far as its log shows it: it is   *)
(* idle, or in a compaction, and either may be interrupted by a flush.  A  *)
(* compaction that fails, or that the closing DB cuts short, logs no       *)
(* "Compacted", and a failed one is the last.                              *)
(***************************************************************************)
EXTENDS Naturals, Sequences, FiniteSets

VARIABLES
    MaxEvents,        \* bound on the number of events, fixed at the start
    events, compactions_running, compactions_done, flushes_done, trivial_moves,
    bg                \* what the background thread is doing

logVars == <<events, compactions_running, compactions_done, flushes_done, trivial_moves, bg, MaxEvents>>

LogInit ==
    /\ events = <<>> /\ compactions_running = 0 /\ compactions_done = 0 /\ flushes_done = 0
    /\ trivial_moves = 0 /\ bg = "idle"

Record(e) == Len(events) < MaxEvents /\ events' = Append(events, e)

(* Logv, for each beginning of a line it looks for. *)
LogCompacting ==
    /\ Record("compaction_begin")
    /\ compactions_running' = compactions_running + 1
    /\ UNCHANGED <<compactions_done, flushes_done, trivial_moves>>

(* A slip: the compaction is counted and goes on running. *)
LogCompactedRunning ==
    /\ Record("compaction_end")
    /\ compactions_done' = compactions_done + 1
    /\ UNCHANGED <<compactions_running, flushes_done, trivial_moves>>

LogCompacted ==
    /\ Record("compaction_end")
    /\ compactions_running' = compactions_running - 1
    /\ compactions_done' = compactions_done + 1
    /\ UNCHANGED <<flushes_done, trivial_moves>>

LogStarted ==
    /\ Record("flush_begin")
    /\ UNCHANGED <<compactions_running, compactions_done, flushes_done, trivial_moves>>

LogBytes ==
    /\ Record("flush_end")
    /\ flushes_done' = flushes_done + 1
    /\ UNCHANGED <<compactions_running, compactions_done, trivial_moves>>

LogMoved ==
    /\ Record("trivial_move")
    /\ trivial_moves' = trivial_moves + 1
    /\ UNCHANGED <<compactions_running, compactions_done, flushes_done>>

LogOther == UNCHANGED <<events, compactions_running, compactions_done, flushes_done, trivial_moves>>

-----------------------------------------------------------------------------
(* LevelDB's background thread. *)
BackgroundCompaction ==
    \/ bg = "idle" /\ bg' = "compaction" /\ LogCompacting
    \/ bg = "idle" /\ bg' = "idle" /\ LogMoved
    \/ bg = "compaction" /\ bg' = "idle" /\ LogCompacted
    \/ bg = "compaction" /\ bg' = "failed" /\ LogOther

CompactMemTable ==
    \/ bg = "idle" /\ bg' = "flush" /\ LogStarted
    \/ bg = "flush" /\ bg' = "idle" /\ LogBytes
    \/ bg = "compaction" /\ bg' = "flush_inside" /\ LogStarted
    \/ bg = "flush_inside" /\ bg' = "compaction" /\ LogBytes

LogNext == (BackgroundCompaction \/ CompactMemTable) /\ UNCHANGED MaxEvents

-----------------------------------------------------------------------------
Count(e) == Cardinality({i \in DOMAIN events : events[i] = e})

(* A compaction counts as running from its first line to its last, through *)
(* the flushes inside it, and for good once it has failed; the counters of *)
(* the summary are those of the events file (EventLogger::Logv).           *)
EventsBracketed ==
    /\ compactions_running = IF bg \in {"compaction", "flush_inside", "failed"} THEN 1 ELSE 0
    /\ compactions_running = Count("compaction_begin") - Count("compaction_end")
    /\ compactions_done = Count("compaction_end") /\ flushes_done = Count("flush_end")
=============================================================================
