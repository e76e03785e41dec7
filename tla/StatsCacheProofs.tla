-------------------------- MODULE StatsCacheProofs --------------------------
(***************************************************************************)
(* The instrumented block cache counts what it is meant to count, for any  *)
(* number of threads and blocks, any capacity and any number of slots: the *)
(* live counters (LiveExact) and the precision of the prefetches           *)
(* (PrefetchAccounted); and the event log brackets each compaction         *)
(* (EventsBracketed).                                                      *)
(*                                                                         *)
(* Who refers to an entry is the first half of the invariant (Owned): an   *)
(* entry being inserted has one user and is not in the cache, an entry the *)
(* deleter has to do with has neither, and one thread disposes of it.      *)
(* Every step keeps it so, and moves the entries between the sets the      *)
(* counters count in the way its lemma says.  The second half gives, for   *)
(* each counter, the set of entries it counts at every moment, the moments *)
(* between two of its steps included (Counted).  The event log comes first *)
(* and shares nothing with them.                                           *)
(***************************************************************************)
EXTENDS StatsCache, FiniteSetTheorems, TLAPS

(* The provers that a leaf is tried with in turn, unless it names its own. *)
USE SMT, Zenon, Z3, SMTT(30), Z3T(30)

-----------------------------------------------------------------------------
(* A set that gains one element. *)
LEMMA OneMore ==
    ASSUME NEW S, IsFiniteSet(S), NEW x, x \notin S
    PROVE  Cardinality(S \cup {x}) = Cardinality(S) + 1
BY FS_AddElement

(* A set that loses one. *)
LEMMA OneLess ==
    ASSUME NEW S, IsFiniteSet(S), NEW x \in S
    PROVE  Cardinality(S \ {x}) = Cardinality(S) - 1
BY FS_RemoveElement

-----------------------------------------------------------------------------
(* The event log. *)
Kinds == {"compaction_begin", "compaction_end", "flush_begin", "flush_end", "trivial_move"}

EventsInv == events \in Seq(Kinds) /\ EventsBracketed

(* The events of one kind in the log are finitely many. *)
LEMMA CountTyped ==
    ASSUME events \in Seq(Kinds), NEW e
    PROVE  Count(e) \in Nat
<1>1. IsFiniteSet(DOMAIN events)
  <2>1. DOMAIN events = 1 .. Len(events) /\ Len(events) \in Nat
    OBVIOUS
  <2> QED  BY <2>1, FS_Interval
<1>2. IsFiniteSet({i \in DOMAIN events : events[i] = e})
  BY ZenonT(60), <1>1, FS_Subset
<1> QED  BY ZenonT(60), <1>2, FS_CardinalityType DEF Count

(* A recorded event is one more of its kind. *)
LEMMA RecordCounts ==
    ASSUME events \in Seq(Kinds), NEW k \in Kinds, Record(k)
    PROVE  /\ events' \in Seq(Kinds)
           /\ Count("compaction_begin")' = Count("compaction_begin") + (IF k = "compaction_begin" THEN 1 ELSE 0)
           /\ Count("compaction_end")' = Count("compaction_end") + (IF k = "compaction_end" THEN 1 ELSE 0)
           /\ Count("flush_end")' = Count("flush_end") + (IF k = "flush_end" THEN 1 ELSE 0)
<1>1. events' = Append(events, k)
  BY ZenonT(60) DEF Record
<1>2. /\ events' \in Seq(Kinds) /\ Len(events) \in Nat
      /\ DOMAIN events = 1 .. Len(events) /\ DOMAIN events' = 1 .. (Len(events) + 1)
  BY <1>1
<1>3. events'[Len(events) + 1] = k /\ \A i \in 1 .. Len(events) : events'[i] = events[i]
  BY <1>1, <1>2
<1>4. PICK n \in Nat : n = Len(events)
  BY Zenon, <1>2
<1>5. /\ DOMAIN events = 1 .. n /\ DOMAIN events' = 1 .. (n + 1)
      /\ events'[n + 1] = k /\ \A i \in 1 .. n : events'[i] = events[i]
  BY ZenonT(60), <1>2, <1>3, <1>4
<1>6. ASSUME NEW e \in Kinds  PROVE Count(e)' = Count(e) + (IF k = e THEN 1 ELSE 0)
  <2> DEFINE S == {i \in DOMAIN events : events[i] = e}
             T == {i \in DOMAIN events' : events'[i] = e}
  <2>1. n + 1 \notin DOMAIN events /\ DOMAIN events' = DOMAIN events \cup {n + 1}
    BY <1>5
  <2>2. \A i \in DOMAIN events : events'[i] = events[i]
    BY ZenonT(60), <1>5
  <2>3. T = (IF e = k THEN S \cup {n + 1} ELSE S) /\ n + 1 \notin S
    BY ZenonT(60), <1>5, <2>1, <2>2
  <2>4. IsFiniteSet(DOMAIN events)
    BY <1>5, FS_Interval
  <2>5. IsFiniteSet(S)
    BY <2>4, FS_Subset
  <2>6. Count(e) = Cardinality(S) /\ Count(e)' = Cardinality(T) /\ Count(e) \in Nat
    BY Zenon, CountTyped DEF Count
  <2> HIDE DEF S, T
  <2>7. CASE e = k
    BY ZenonT(60), <2>3, <2>5, <2>6, <2>7, OneMore
  <2>8. CASE e # k
    BY <2>3, <2>6, <2>8
  <2> QED  BY ZenonT(60), <2>7, <2>8
<1>7. Count("compaction_begin")' = Count("compaction_begin") + (IF k = "compaction_begin" THEN 1 ELSE 0)
  BY ZenonT(60), <1>6 DEF Kinds
<1>8. Count("compaction_end")' = Count("compaction_end") + (IF k = "compaction_end" THEN 1 ELSE 0)
  BY ZenonT(60), <1>6 DEF Kinds
<1>9. Count("flush_end")' = Count("flush_end") + (IF k = "flush_end" THEN 1 ELSE 0)
  BY ZenonT(60), <1>6 DEF Kinds
<1> QED  BY ZenonT(60), <1>2, <1>7, <1>8, <1>9

(* A step of the background thread keeps the counters those of the log.    *)
LEMMA LogStep ==
    ASSUME EventsInv, LogNext
    PROVE  EventsInv'
<1>0. /\ events \in Seq(Kinds)
      /\ compactions_running = (IF bg \in {"compaction", "flush_inside", "failed"} THEN 1 ELSE 0)
      /\ compactions_running = Count("compaction_begin") - Count("compaction_end")
      /\ compactions_done = Count("compaction_end") /\ flushes_done = Count("flush_end")
      /\ Count("compaction_begin") \in Nat /\ Count("compaction_end") \in Nat /\ Count("flush_end") \in Nat
  BY ZenonT(60), CountTyped DEF EventsInv, EventsBracketed
<1>1. ASSUME bg = "idle", bg' = "compaction", LogCompacting  PROVE EventsInv'
  BY <1>0, <1>1, RecordCounts DEF Kinds, LogCompacting, EventsInv, EventsBracketed
<1>2. ASSUME bg = "idle", bg' = "idle", LogMoved  PROVE EventsInv'
  BY <1>0, <1>2, RecordCounts DEF Kinds, LogMoved, EventsInv, EventsBracketed
<1>3. ASSUME bg = "compaction", bg' = "idle", LogCompacted  PROVE EventsInv'
  BY <1>0, <1>3, RecordCounts DEF Kinds, LogCompacted, EventsInv, EventsBracketed
<1>4. ASSUME bg = "compaction", bg' = "failed", LogOther  PROVE EventsInv'
  BY Zenon, <1>0, <1>4 DEF LogOther, EventsInv, EventsBracketed, Count
<1>5. ASSUME \/ bg = "idle" /\ bg' = "flush"
             \/ bg = "compaction" /\ bg' = "flush_inside",
             LogStarted
      PROVE  EventsInv'
  BY <1>0, <1>5, RecordCounts DEF Kinds, LogStarted, EventsInv, EventsBracketed
<1>6. ASSUME \/ bg = "flush" /\ bg' = "idle"
             \/ bg = "flush_inside" /\ bg' = "compaction",
             LogBytes
      PROVE  EventsInv'
  BY <1>0, <1>6, RecordCounts DEF Kinds, LogBytes, EventsInv, EventsBracketed
<1> QED  BY ZenonT(60), <1>1, <1>2, <1>3, <1>4, <1>5, <1>6 DEF LogNext, BackgroundCompaction, CompactMemTable

(* A compaction counts as running from its first line in the log to its    *)
(* last, the flushes inside it included, and the counters are those of the *)
(* events recorded (EventLogger::Logv).                                    *)
THEOREM EventsHold ==
    Spec => []EventsBracketed
<1>1. Init => EventsInv
  <2> SUFFICES ASSUME Init  PROVE EventsInv
    BY ZenonT(60)
  <2>1. /\ events = <<>> /\ compactions_running = 0 /\ compactions_done = 0 /\ flushes_done = 0 /\ bg = "idle"
    BY DEF Init, LogInit
  <2>2. \A e : {i \in DOMAIN events : events[i] = e} = {}
    BY <2>1
  <2>3. \A e : Count(e) = 0
    BY ZenonT(60), <2>2, FS_EmptySet DEF Count
  <2> QED  BY <2>1, <2>3 DEF EventsInv, EventsBracketed
<1>2. EventsInv /\ [Next]_vars => EventsInv'
  <2>1. ASSUME EventsInv, UNCHANGED logVars  PROVE EventsInv'
    BY <2>1 DEF EventsInv, EventsBracketed, Count, logVars
  <2> QED  BY Zenon, <2>1, LogStep DEF Next, vars
<1>3. EventsInv => EventsBracketed
  BY DEF EventsInv
<1> QED  BY <1>1, <1>2, <1>3, PTL DEF Spec

-----------------------------------------------------------------------------
(* The instrumented cache. *)
Slots == 0 .. kSlots - 1
Handles == DOMAIN entry

Inserting == {"live", "total", "put"}
Disposing == {"dispatch", "total_down", "precision"}
Dooming == {"total_down", "precision"}
Stops == {"idle", "hit", "first_read", "using", "insert"} \cup Inserting \cup Disposing

ThreadState == [pc : Stops, block : Blocks \cup {NoBlock}, handle : Nat, gone : SUBSET Nat,
                victim : Nat, then : {"idle", "using"}]
Entry == [block : Blocks \cup {NoBlock}, prefetched : BOOLEAN, hits : Nat]

Typed ==
    /\ entry \in Seq(Entry) /\ cache \subseteq Handles
    /\ thread \in [Threads -> ThreadState]
    /\ \A t \in Threads : /\ thread[t].handle \in Handles \cup {None}
                          /\ thread[t].victim \in Handles \cup {None}
                          /\ thread[t].gone \subseteq Handles
    /\ stats \in [Counters -> Int] /\ live \in [Slots -> Int]

(* A thread holds a handle, a victim and a list of blocks to dispose of    *)
(* where its place says so.                                                *)
Placed(t) ==
    /\ thread[t].pc \in {"hit", "first_read"} \cup Inserting => thread[t].handle # None
    /\ thread[t].pc \in {"idle", "insert"} => thread[t].handle = None
    /\ thread[t].pc \in Disposing /\ thread[t].then = "idle" => thread[t].handle = None
    /\ thread[t].pc \in Dooming <=> thread[t].victim # None
    /\ thread[t].pc \notin Disposing => thread[t].gone = {}

Uses(t, h) == thread[t].handle = h
Dooms(t, h) == h \in thread[t].gone \/ h = thread[t].victim

(* An entry on its way into the cache is its inserter's alone. *)
SoleUser(t) ==
    thread[t].pc \in Inserting =>
        /\ thread[t].handle \notin cache /\ entry[thread[t].handle].block = thread[t].block
        /\ \A u \in Threads : Uses(u, thread[t].handle) => u = t

(* An entry on its way out is its disposer's alone. *)
SoleDisposer(t) ==
    /\ thread[t].victim \notin thread[t].gone
    /\ \A h \in Handles : Dooms(t, h) =>
         h \notin cache /\ \A u \in Threads : ~Uses(u, h) /\ (Dooms(u, h) => u = t)

(* One reader settles that a prefetched block was read. *)
SoleFirst(t) ==
    thread[t].pc = "first_read" =>
        /\ entry[thread[t].handle].prefetched /\ entry[thread[t].handle].hits > 0
        /\ \A u \in Threads : thread[u].pc = "first_read" /\ Uses(u, thread[t].handle) => u = t

Owned == Typed /\ \A t \in Threads : Placed(t) /\ SoleUser(t) /\ SoleDisposer(t) /\ SoleFirst(t)

-----------------------------------------------------------------------------
(* What the counters count. *)
Kept == {h \in Handles : h \in cache \/ \E t \in Threads : Uses(t, h) \/ h \in thread[t].gone}
Using(pc) == {h \in Handles : \E t \in Threads : thread[t].pc = pc /\ Uses(t, h)}
Leaving(pc) == {h \in Handles : \E t \in Threads : thread[t].pc = pc /\ thread[t].victim = h}

Raised == Kept \ Using("live")
RaisedIn(s) == {h \in Raised : Slot(entry[h].block) = s}
RaisedTotal == (Kept \cup Leaving("total_down")) \ (Using("live") \cup Using("total"))
Dead == Handles \ (Kept \cup Leaving("total_down") \cup Leaving("precision"))
Evicted == {h \in Dead : entry[h].prefetched}
EvictedRead == {h \in Evicted : entry[h].hits > 0}
ReadOnce == {h \in Prefetched : entry[h].hits > 0} \ Using("first_read")

Counted ==
    /\ \A s \in Slots : live[s] = Cardinality(RaisedIn(s))
    /\ stats.live_total = Cardinality(RaisedTotal)
    /\ stats.pf_inserted = Cardinality(Prefetched)
    /\ stats.pf_evicted = Cardinality(Evicted)
    /\ stats.pf_used = Cardinality(EvictedRead)
    /\ stats.pf_read_once = Cardinality(ReadOnce)

-----------------------------------------------------------------------------
(* What each step does to its thread and to the rest, in the words of the  *)
(* invariant.                                                              *)
Alone(t) == \A u \in Threads \ {t} : thread'[u] = thread[u]

Becomes(t, pc, handle, gone, victim, then) ==
    /\ thread'[t].pc = pc /\ thread'[t].handle = handle /\ thread'[t].gone = gone
    /\ thread'[t].victim = victim /\ thread'[t].then = then

Tracked == {"live_total", "pf_inserted", "pf_evicted", "pf_used", "pf_read_once"}
Steady == \A c \in Tracked : stats'[c] = stats[c]

(* The entries allocated are numbered from 1. *)
LEMMA HandlesNumbered ==
    ASSUME Typed
    PROVE  /\ Len(entry) \in Nat /\ Handles = 1 .. Len(entry)
           /\ None \notin Handles /\ \A h \in Handles : h \in Nat /\ entry[h] \in Entry
<1>1. Len(entry) \in Nat /\ Handles = 1 .. Len(entry) /\ \A h \in Handles : entry[h] \in Entry
  BY DEF Typed, Handles
<1> QED  BY <1>1 DEF None

(* A step that gives one thread a new record leaves the others alone. *)
LEMMA ThreadMoves ==
    ASSUME thread \in [Threads -> ThreadState], NEW t \in Threads, NEW new \in ThreadState,
           thread' = [thread EXCEPT ![t] = new]
    PROVE  /\ thread' \in [Threads -> ThreadState] /\ Alone(t) /\ thread'[t].block = new.block
           /\ Becomes(t, new.pc, new.handle, new.gone, new.victim, new.then)
BY DEF Alone, Becomes

(* Going from one place to another changes nothing else of the thread. *)
LEMMA GotoMoves ==
    ASSUME Typed, NEW t \in Threads, NEW pc \in Stops, Goto(t, pc)
    PROVE  /\ thread' \in [Threads -> ThreadState] /\ Alone(t) /\ thread'[t].block = thread[t].block
           /\ Becomes(t, pc, thread[t].handle, thread[t].gone, thread[t].victim, thread[t].then)
<1>1. thread \in [Threads -> ThreadState] /\ thread[t] \in ThreadState
  BY DEF Typed
<1> DEFINE new == [thread[t] EXCEPT !.pc = pc]
<1>2. /\ new \in ThreadState /\ new.pc = pc /\ new.handle = thread[t].handle
      /\ new.gone = thread[t].gone /\ new.victim = thread[t].victim
      /\ new.then = thread[t].then /\ new.block = thread[t].block
  BY <1>1 DEF ThreadState
<1>3. thread' = [thread EXCEPT ![t] = new]
  BY <1>1 DEF Goto
<1> HIDE DEF new
<1> QED  BY Zenon, <1>1, <1>2, <1>3, ThreadMoves

(* Lookup takes a reference to the block it finds. *)
LEMMA LookupEffect ==
    ASSUME Typed, NEW t \in Threads, NEW b \in Blocks, Lookup(t, b)
    PROVE  /\ Typed' /\ Alone(t) /\ Steady /\ thread[t].pc = "idle"
           /\ entry' = entry /\ cache' = cache /\ live' = live
           /\ \E h \in cache \cup {None}, pc \in {"hit", "using", "insert"} :
                /\ Becomes(t, pc, h, thread[t].gone, thread[t].victim, thread[t].then)
                /\ (pc = "hit" => h # None) /\ (pc = "insert" => h = None)
<1>0. Handles' = Handles /\ None \notin Handles /\ None \in Nat /\ \A h \in Handles : h \in Nat
  BY HandlesNumbered DEF Lookup, Handles, None
<1>1. PICK h \in cache \cup {None} :
        /\ stats' = [stats EXCEPT ![Looked(t)] = @ + 1,
                                  !.hits = IF InForegroundThread(t) /\ h # None THEN @ + 1 ELSE @,
                                  !.misses = IF InForegroundThread(t) /\ h = None THEN @ + 1 ELSE @,
                                  !.bg_hits = IF t = Compactor /\ h # None THEN @ + 1 ELSE @]
        /\ thread' = [thread EXCEPT ![t].block = b, ![t].handle = h,
                        ![t].pc = IF h # None THEN (IF InForegroundThread(t) THEN "hit" ELSE "using")
                                  ELSE IF t = Compactor THEN "using" ELSE "insert"]
  BY DEF Lookup
<1>2. PICK pc \in {"hit", "using", "insert"} :
        /\ pc = IF h # None THEN (IF InForegroundThread(t) THEN "hit" ELSE "using")
                ELSE IF t = Compactor THEN "using" ELSE "insert"
        /\ (pc = "hit" => h # None) /\ (pc = "insert" => h = None)
  OBVIOUS
<1>3. thread' = [thread EXCEPT ![t].block = b, ![t].handle = h, ![t].pc = pc]
  BY <1>1, <1>2
<1>4. thread[t].pc = "idle" /\ entry' = entry /\ cache' = cache /\ live' = live
  BY DEF Lookup, At
<1>5. /\ Becomes(t, pc, h, thread[t].gone, thread[t].victim, thread[t].then) /\ Alone(t)
      /\ thread' \in [Threads -> ThreadState]
  <2>1. h \in Nat /\ pc \in Stops /\ b \in Blocks \cup {NoBlock} /\ thread \in [Threads -> ThreadState]
    BY <1>0 DEF Typed, Stops
  <2>2. thread[t] \in ThreadState
    BY <2>1
  <2> DEFINE new == [thread[t] EXCEPT !.block = b, !.handle = h, !.pc = pc]
  <2>3. new \in ThreadState
    BY Zenon, <2>1, <2>2 DEF ThreadState
  <2>4. /\ new.pc = pc /\ new.handle = h /\ new.gone = thread[t].gone
        /\ new.victim = thread[t].victim /\ new.then = thread[t].then
    BY <2>2 DEF ThreadState
  <2>5. thread' = [thread EXCEPT ![t] = new]
    BY Zenon, <1>3, <2>1
  <2> HIDE DEF new
  <2> QED  BY Zenon, <2>1, <2>3, <2>4, <2>5, ThreadMoves
<1>6. stats' \in [Counters -> Int] /\ Steady
  <2>1. Looked(t) \in {"internal_lookups", "lookups", "bg_lookups"}
    BY DEF Looked
  <2>2. PICK k \in {"internal_lookups", "lookups", "bg_lookups"} : k = Looked(t)
    BY <2>1
  <2>3. PICK f \in BOOLEAN, g \in BOOLEAN, i \in BOOLEAN :
          stats' = [stats EXCEPT ![k] = @ + 1, !.hits = IF f THEN @ + 1 ELSE @,
                                 !.misses = IF g THEN @ + 1 ELSE @, !.bg_hits = IF i THEN @ + 1 ELSE @]
    BY <1>1, <2>2
  <2>4. stats \in [Counters -> Int] /\ k \in Counters
    BY <2>1 DEF Typed, Counters
  <2>5. stats' \in [Counters -> Int]
    <3>1. ASSUME NEW c \in Counters  PROVE stats'[c] \in Int
      <4>1. stats[c] \in Int /\ stats[c] + 1 \in Int /\ stats[c] + 1 + 1 \in Int
        BY <2>4
      <4>2. stats'[c] \in {stats[c], stats[c] + 1, stats[c] + 1 + 1}
        BY <2>2, <2>3, <2>4 DEF Counters
      <4> QED  BY <4>1, <4>2
    <3>2. stats' = [c \in Counters |-> stats'[c]]
      BY <2>3, <2>4
    <3> QED  BY <3>1, <3>2
  <2>6. Steady
    BY <2>2, <2>3, <2>4 DEF Counters, Steady, Tracked
  <2> QED  BY <2>5, <2>6
<1>7. Typed'
  BY Zenon, <1>0, <1>4, <1>5, <1>6 DEF Typed, Becomes, Alone
<1> QED  BY <1>2, <1>4, <1>5, <1>6, <1>7

(* A hit is counted at its entry; the first of a prefetched one goes on to *)
(* settle its precision.                                                   *)
LEMMA HitEffect ==
    ASSUME Typed, NEW t \in Threads, Placed(t), Hit(t), thread[t].pc = "hit"
    PROVE  LET h == thread[t].handle
           IN  /\ Typed' /\ Alone(t) /\ cache' = cache /\ live' = live /\ stats' = stats /\ Handles' = Handles
               /\ Becomes(t, IF FirstRead(h) THEN "first_read" ELSE "using", h, thread[t].gone,
                          thread[t].victim, thread[t].then)
               /\ \A g \in Handles :
                    /\ entry'[g].block = entry[g].block /\ entry'[g].prefetched = entry[g].prefetched
                    /\ entry'[g].hits = IF g = h /\ entry[h].prefetched THEN entry[g].hits + 1 ELSE entry[g].hits
<1> DEFINE h == thread[t].handle
<1>1. h \in Handles /\ entry[h] \in Entry /\ entry \in Seq(Entry)
  BY HandlesNumbered DEF Typed, Placed
<1>2. /\ entry' = IF entry[h].prefetched THEN [entry EXCEPT ![h].hits = @ + 1] ELSE entry
      /\ Goto(t, IF FirstRead(h) THEN "first_read" ELSE "using")
      /\ cache' = cache /\ live' = live /\ stats' = stats
  BY DEF Hit, At
<1>3. PICK pc \in {"first_read", "using"} : pc = IF FirstRead(h) THEN "first_read" ELSE "using"
  OBVIOUS
<1>4. /\ thread' \in [Threads -> ThreadState] /\ Alone(t)
      /\ Becomes(t, pc, h, thread[t].gone, thread[t].victim, thread[t].then)
  BY Zenon, <1>2, <1>3, GotoMoves DEF Stops
<1>5. CASE entry[h].prefetched
  <2> DEFINE new == [entry[h] EXCEPT !.hits = @ + 1]
  <2>1. /\ new \in Entry /\ new.block = entry[h].block /\ new.prefetched = entry[h].prefetched
        /\ new.hits = entry[h].hits + 1
    <3>1. new.hits = entry[h].hits + 1 /\ new.block = entry[h].block
      BY <1>1 DEF Entry
    <3>2. new.prefetched = entry[h].prefetched
      BY <1>1, Zenon DEF Entry
    <3>3. new \in Entry
      <4>1. PICK e \in Entry, k \in Nat : e = entry[h] /\ k = entry[h].hits + 1
        BY <1>1 DEF Entry
      <4>2. [e EXCEPT !.hits = k] \in Entry
        BY Zenon DEF Entry
      <4> QED  BY Zenon, <4>1, <4>2
    <3> QED  BY <3>1, <3>2, <3>3
  <2>2. entry' = [entry EXCEPT ![h] = new]
    BY <1>1, <1>2, <1>5
  <2> HIDE DEF new
  <2>3. entry' \in Seq(Entry) /\ Handles' = Handles
    BY <1>1, <2>1, <2>2 DEF Handles
  <2>4. \A g \in Handles : entry'[g] = IF g = h THEN new ELSE entry[g]
    BY <1>1, <2>2 DEF Handles
  <2>5. Typed'
    BY ZenonT(60), <1>2, <1>4, <2>3 DEF Typed, Becomes, Alone
  <2> QED  BY <1>2, <1>3, <1>4, <1>5, <2>1, <2>3, <2>4, <2>5
<1>6. CASE ~entry[h].prefetched
  <2>1. entry' = entry /\ Handles' = Handles
    BY <1>2, <1>6 DEF Handles
  <2>2. Typed'
    BY Zenon, <1>2, <1>4, <2>1 DEF Typed, Becomes, Alone
  <2> QED  BY <1>2, <1>3, <1>4, <1>6, <2>1, <2>2
<1> QED  BY <1>5, <1>6

(* The first read is counted. *)
LEMMA FirstReadEffect ==
    ASSUME Typed, NEW t \in Threads, Hit(t), thread[t].pc = "first_read"
    PROVE  /\ Typed' /\ Alone(t) /\ cache' = cache /\ live' = live /\ entry' = entry
           /\ Becomes(t, "using", thread[t].handle, thread[t].gone, thread[t].victim, thread[t].then)
           /\ \A c \in Tracked : stats'[c] = IF c = "pf_read_once" THEN stats[c] + 1 ELSE stats[c]
<1>1. /\ Bump("pf_read_once") /\ Goto(t, "using")
      /\ cache' = cache /\ live' = live /\ entry' = entry
  BY DEF Hit, At
<1>2. /\ thread' \in [Threads -> ThreadState] /\ Alone(t)
      /\ Becomes(t, "using", thread[t].handle, thread[t].gone, thread[t].victim, thread[t].then)
  BY <1>1, GotoMoves DEF Stops
<1>3. stats' \in [Counters -> Int] /\ \A c \in Tracked : stats'[c] = IF c = "pf_read_once" THEN stats[c] + 1 ELSE stats[c]
  BY <1>1 DEF Bump, Typed, Counters, Tracked
<1>4. Typed'
  BY Zenon, <1>1, <1>2, <1>3 DEF Typed, Becomes, Alone, Handles
<1> QED  BY <1>1, <1>2, <1>3, <1>4

(* Insert allocates an entry, the next number. *)
LEMMA CountInsertEffect ==
    ASSUME Typed, NEW t \in Threads, CountInsert(t)
    PROVE  LET n == Len(entry) + 1
           IN  /\ Typed' /\ Alone(t) /\ cache' = cache /\ live' = live /\ thread[t].pc = "insert"
               /\ Handles' = Handles \cup {n} /\ n \notin Handles /\ n # None
               /\ Becomes(t, "live", n, thread[t].gone, thread[t].victim, thread[t].then)
               /\ \A g \in Handles : entry'[g] = entry[g]
               /\ entry'[n] = NewEntry(t) /\ NewEntry(t).block = thread'[t].block
               /\ \A c \in Tracked : stats'[c] = IF c = "pf_inserted" /\ NewEntry(t).prefetched
                                                 THEN stats[c] + 1 ELSE stats[c]
<1> DEFINE n == Len(entry) + 1
<1>0. Len(entry) \in Nat /\ Handles = 1 .. Len(entry) /\ entry \in Seq(Entry)
  BY HandlesNumbered DEF Typed
<1>1. /\ stats' = [stats EXCEPT !.inserts = @ + 1,
                                !.pf_inserted = IF InInternalCacheAccess(t) THEN @ + 1 ELSE @]
      /\ entry' = Append(entry, NewEntry(t))
      /\ thread' = [thread EXCEPT ![t].pc = "live", ![t].handle = n]
      /\ cache' = cache /\ live' = live /\ thread[t].pc = "insert"
  BY DEF CountInsert, At, InsertNext
<1>2. /\ thread' \in [Threads -> ThreadState] /\ Alone(t) /\ thread'[t].block = thread[t].block
      /\ Becomes(t, "live", n, thread[t].gone, thread[t].victim, thread[t].then)
  <2>1. thread \in [Threads -> ThreadState] /\ thread[t] \in ThreadState /\ n \in Nat /\ "live" \in Stops
    BY <1>0 DEF Typed, Stops, Inserting
  <2> DEFINE new == [thread[t] EXCEPT !.pc = "live", !.handle = n]
  <2>2. /\ new \in ThreadState /\ new.pc = "live" /\ new.handle = n /\ new.gone = thread[t].gone
        /\ new.victim = thread[t].victim /\ new.then = thread[t].then /\ new.block = thread[t].block
    <3> HIDE DEF n
    <3> QED  BY Zenon, <2>1 DEF ThreadState
  <2>3. thread' = [thread EXCEPT ![t] = new]
    BY Zenon, <1>1, <2>1
  <2> HIDE DEF new, n
  <2> QED  BY Zenon, <2>1, <2>2, <2>3, ThreadMoves
<1>3. NewEntry(t) \in Entry /\ NewEntry(t).block = thread[t].block
  BY DEF NewEntry, Entry, Typed, ThreadState, InInternalCacheAccess
<1>4. /\ entry' \in Seq(Entry) /\ Handles' = Handles \cup {n} /\ n \notin Handles /\ n # None
      /\ entry'[n] = NewEntry(t) /\ \A g \in Handles : entry'[g] = entry[g]
  BY <1>0, <1>1, <1>3 DEF Handles, None
<1>5. NewEntry(t).prefetched = InInternalCacheAccess(t)
  BY DEF NewEntry
<1>6. stats' \in [Counters -> Int]
  <2>1. PICK f \in BOOLEAN : stats' = [stats EXCEPT !.inserts = @ + 1, !.pf_inserted = IF f THEN @ + 1 ELSE @]
    BY Zenon, <1>1
  <2>2. stats \in [Counters -> Int] /\ stats' = [c \in Counters |-> stats'[c]]
    BY Zenon, <2>1 DEF Typed
  <2>3. ASSUME NEW c \in Counters  PROVE stats'[c] \in Int
    <3>1. stats'[c] \in {stats[c], stats[c] + 1}
      BY Zenon, <2>1, <2>2 DEF Counters
    <3> QED  BY <2>2, <3>1
  <2> QED  BY <2>2, <2>3
<1>7. \A c \in Tracked : stats'[c] = IF c = "pf_inserted" /\ NewEntry(t).prefetched
                                    THEN stats[c] + 1 ELSE stats[c]
  BY Zenon, <1>1, <1>5 DEF Tracked, Typed, Counters
<1>8. Typed'
  <2>1. cache' \subseteq Handles'
    BY <1>1, <1>4 DEF Typed
  <2>2. ASSUME NEW u \in Threads
        PROVE  /\ thread'[u].handle \in Handles' \cup {None} /\ thread'[u].victim \in Handles' \cup {None}
               /\ thread'[u].gone \subseteq Handles'
    <3> HIDE DEF n
    <3> QED  BY Zenon, <1>2, <1>4 DEF Typed, Becomes, Alone
  <2> QED  BY <1>1, <1>2, <1>4, <1>6, <2>1, <2>2 DEF Typed
<1> QED  BY Zenon, <1>1, <1>2, <1>3, <1>4, <1>7, <1>8

(* The block's bytes are added to its slot's. *)
LEMMA RaiseLiveEffect ==
    ASSUME Typed, NEW t \in Threads, RaiseLive(t), thread[t].pc = "live"
    PROVE  /\ Typed' /\ Alone(t) /\ cache' = cache /\ entry' = entry /\ stats' = stats
           /\ Becomes(t, "total", thread[t].handle, thread[t].gone, thread[t].victim, thread[t].then)
           /\ thread'[t].block = thread[t].block
           /\ \A s \in Slots : live'[s] = IF s = Slot(thread[t].block) THEN live[s] + 1 ELSE live[s]
<1>1. /\ Goto(t, "total") /\ live' = [live EXCEPT ![Slot(thread[t].block)] = @ + 1]
      /\ cache' = cache /\ entry' = entry /\ stats' = stats
  BY DEF RaiseLive, At, InsertNext
<1>2. /\ thread' \in [Threads -> ThreadState] /\ Alone(t) /\ thread'[t].block = thread[t].block
      /\ Becomes(t, "total", thread[t].handle, thread[t].gone, thread[t].victim, thread[t].then)
  BY <1>1, GotoMoves DEF Stops, Inserting
<1>3. PICK k : k = Slot(thread[t].block)
  OBVIOUS
<1>4. live' \in [Slots -> Int] /\ \A s \in Slots : live'[s] = IF s = k THEN live[s] + 1 ELSE live[s]
  <2>1. live' = [live EXCEPT ![k] = @ + 1] /\ live \in [Slots -> Int]
    BY <1>1, <1>3 DEF Typed
  <2>2. live' = [s \in Slots |-> live'[s]]
    BY Zenon, <2>1
  <2>3. ASSUME NEW s \in Slots
        PROVE  live'[s] = (IF s = k THEN live[s] + 1 ELSE live[s]) /\ live'[s] \in Int
    <3>1. CASE s = k
      BY <2>1, <3>1
    <3>2. CASE s # k
      BY <2>1, <3>2
    <3> QED  BY <3>1, <3>2
  <2> QED  BY <2>2, <2>3
<1>5. Typed'
  BY <1>1, <1>2, <1>4 DEF Typed, Becomes, Alone, Handles
<1> QED  BY <1>1, <1>2, <1>3, <1>4, <1>5

(* The total follows. *)
LEMMA RaiseTotalEffect ==
    ASSUME Typed, NEW t \in Threads, RaiseLive(t), thread[t].pc = "total"
    PROVE  /\ Typed' /\ Alone(t) /\ cache' = cache /\ entry' = entry /\ live' = live
           /\ Becomes(t, "put", thread[t].handle, thread[t].gone, thread[t].victim, thread[t].then)
           /\ thread'[t].block = thread[t].block
           /\ \A c \in Tracked : stats'[c] = IF c = "live_total" THEN stats[c] + 1 ELSE stats[c]
<1>1. /\ Goto(t, "put") /\ Bump("live_total") /\ cache' = cache /\ entry' = entry /\ live' = live
  BY DEF RaiseLive, At, InsertNext
<1>2. /\ thread' \in [Threads -> ThreadState] /\ Alone(t) /\ thread'[t].block = thread[t].block
      /\ Becomes(t, "put", thread[t].handle, thread[t].gone, thread[t].victim, thread[t].then)
  BY <1>1, GotoMoves DEF Stops, Inserting
<1>3. /\ stats' \in [Counters -> Int]
      /\ \A c \in Tracked : stats'[c] = IF c = "live_total" THEN stats[c] + 1 ELSE stats[c]
  <2>1. stats \in [Counters -> Int] /\ Tracked \subseteq Counters
    BY DEF Typed, Counters, Tracked
  <2>2. "live_total" \in Counters
    BY Zenon DEF Counters
  <2> QED  BY <1>1, <2>1, <2>2 DEF Bump
<1>4. Typed'
  BY Zenon, <1>1, <1>2, <1>3 DEF Typed, Becomes, Alone, Handles
<1> QED  BY <1>1, <1>2, <1>3, <1>4

(* Put, Release and Erase hand entries over: what was in the cache or in   *)
(* the thread's use is found, used or disposed of by the thread.           *)
Shifts(t) ==
    /\ Typed' /\ Alone(t) /\ entry' = entry /\ live' = live /\ stats' = stats
    /\ thread[t].pc \in {"put", "using", "idle"} /\ thread'[t].pc \in {"idle", "using", "dispatch"}
    /\ thread'[t].victim = None /\ thread'[t].handle \in {thread[t].handle, None}
    /\ thread'[t].pc # "dispatch" => thread'[t].gone = {}
    /\ "idle" \in {thread'[t].pc, thread'[t].then} /\ thread'[t].pc # "using" => thread'[t].handle = None
    /\ \A h \in Handles :
         /\ h \in cache' \/ h \in thread'[t].gone => h \in cache \/ Uses(t, h)
         /\ h \in thread'[t].gone => h \notin cache' /\ \A u \in Threads : thread'[u].handle # h
         /\ h \in cache \/ Uses(t, h) =>
              h \in cache' \/ h \in thread'[t].gone \/ \E u \in Threads : thread'[u].handle = h

(* The deleter is called in the thread that lets the last reference go. *)
LEMMA DisposeMoves ==
    ASSUME Typed, NEW t \in Threads, NEW gone \in SUBSET Handles, NEW then \in ThreadState,
           then.pc \in {"idle", "using"}, then.gone = {}, then.victim = None, Dispose(t, gone, then)
    PROVE  /\ thread' \in [Threads -> ThreadState] /\ Alone(t)
           /\ thread'[t].handle = then.handle /\ thread'[t].gone = gone /\ thread'[t].victim = None
           /\ thread'[t].pc = IF gone = {} THEN then.pc ELSE "dispatch"
           /\ thread'[t].then = IF gone = {} THEN then.then ELSE then.pc
<1> DEFINE busy == [then EXCEPT !.pc = "dispatch", !.gone = gone, !.then = then.pc]
<1>1. thread \in [Threads -> ThreadState] /\ gone \in SUBSET Nat /\ "dispatch" \in Stops
  BY HandlesNumbered DEF Typed, Stops, Disposing
<1>2. /\ busy \in ThreadState /\ busy.pc = "dispatch" /\ busy.handle = then.handle /\ busy.gone = gone
      /\ busy.victim = None /\ busy.then = then.pc
  BY Zenon, <1>1 DEF ThreadState
<1>3. thread' = [thread EXCEPT ![t] = IF gone = {} THEN then ELSE busy]
  BY DEF Dispose
<1> HIDE DEF busy
<1>4. CASE gone = {}
  <2>1. thread' = [thread EXCEPT ![t] = then]
    BY <1>3, <1>4
  <2> QED  BY Zenon, <1>1, <1>4, <2>1, ThreadMoves DEF Becomes
<1>5. CASE gone # {}
  <2>1. thread' = [thread EXCEPT ![t] = busy]
    BY Zenon, <1>3, <1>5
  <2> QED  BY Zenon, <1>1, <1>2, <1>5, <2>1, ThreadMoves DEF Becomes
<1> QED  BY <1>4, <1>5

(* Put, into the cache underneath, hands over. *)
LEMMA PutShifts ==
    ASSUME Typed, NEW t \in Threads, Placed(t), Put(t)
    PROVE  Shifts(t)
<1> DEFINE h      == thread[t].handle
           same   == {x \in cache : entry[x].block = entry[h].block}
           kept   == (cache \ same) \cup {h}
           unused == {x \in cache : Users(x) = {}}
           then   == [thread[t] EXCEPT !.pc = "using"]
<1>1. PICK out \in SUBSET (kept \cap unused) :
        cache' = kept \ out /\ Dispose(t, out \cup (same \cap unused), then)
  BY Zenon DEF Put, InsertNext
<1>2. /\ thread[t].pc = "put" /\ entry' = entry /\ live' = live /\ stats' = stats
      /\ h \in Handles /\ cache \subseteq Handles /\ thread[t].gone = {} /\ thread[t].victim = None
  BY DEF Put, At, Placed, Typed, Inserting, Disposing, Dooming
<1>3. then \in ThreadState /\ then.pc = "using" /\ then.gone = {} /\ then.victim = None /\ then.handle = h
  <2>1. thread[t] \in ThreadState /\ "using" \in Stops
    BY DEF Typed, Stops
  <2> QED  BY <1>2, <2>1 DEF ThreadState
<1>4. PICK gone \in SUBSET Handles : gone = out \cup (same \cap unused)
  BY Zenon, <1>1, <1>2
<1>5. Dispose(t, gone, then)
  BY <1>1, <1>4
<1> HIDE DEF then
<1>6. /\ thread' \in [Threads -> ThreadState] /\ Alone(t)
      /\ thread'[t].handle = h /\ thread'[t].gone = gone /\ thread'[t].victim = None
      /\ thread'[t].pc = IF gone = {} THEN "using" ELSE "dispatch"
      /\ gone # {} => thread'[t].then = "using"
  BY <1>3, <1>5, DisposeMoves
<1>7. \A u \in Threads : thread'[u].handle = thread[u].handle
  BY <1>6 DEF Alone
<1>8. \A x \in Handles : x \in unused => x # h /\ \A u \in Threads : thread[u].handle # x
  BY <1>2 DEF Users
<1>9. \A x \in cache \ unused : \E u \in Threads : thread[u].handle = x
  BY DEF Users
<1>10. cache' \subseteq Handles
  BY <1>1, <1>2
<1>11. Typed'
  BY Zenon, <1>2, <1>6, <1>10 DEF Typed, Alone, Handles
<1>12. ASSUME NEW x \in Handles
       PROVE  /\ x \in cache' \/ x \in gone => x \in cache \/ x = h
              /\ x \in gone => x \notin cache' /\ x \in unused
              /\ x \in cache => x \in cache' \/ x \in gone \/ x \notin unused
  BY <1>1, <1>4, <1>8
<1> HIDE DEF unused
<1> QED  BY <1>2, <1>6, <1>7, <1>8, <1>9, <1>11, <1>12 DEF Shifts, Uses

(* Idle is a thread without a block. *)
LEMMA IdleTyped ==
    /\ Idle \in ThreadState /\ Idle.pc = "idle" /\ Idle.gone = {} /\ Idle.victim = None
    /\ Idle.handle = None /\ Idle.then = "idle"
BY DEF Idle, ThreadState, Stops, None

(* A thread left without a block, but for those it disposes of. *)
LEMMA IdleMoves ==
    ASSUME Typed, NEW t \in Threads, NEW gone \in SUBSET Handles, Dispose(t, gone, Idle)
    PROVE  /\ thread' \in [Threads -> ThreadState] /\ Alone(t)
           /\ thread'[t].handle = None /\ thread'[t].gone = gone /\ thread'[t].victim = None
           /\ thread'[t].pc = (IF gone = {} THEN "idle" ELSE "dispatch")
           /\ thread'[t].then = "idle"
<1>1. PICK then \in ThreadState : then = Idle
  BY IdleTyped
<1>2. /\ then.pc = "idle" /\ then.gone = {} /\ then.victim = None /\ then.handle = None
      /\ then.then = "idle" /\ Dispose(t, gone, then)
  BY <1>1, IdleTyped
<1> QED  BY <1>2, DisposeMoves

(* Release hands over. *)
LEMMA ReleaseShifts ==
    ASSUME Typed, NEW t \in Threads, Release(t)
    PROVE  Shifts(t)
<1> DEFINE h == thread[t].handle
<1>1. PICK gone : gone = (IF h \notin cache \cup {None} /\ Users(h) = {t} THEN {h} ELSE {}) /\ Dispose(t, gone, Idle)
  BY DEF Release
<1>2. /\ thread[t].pc = "using" /\ entry' = entry /\ live' = live /\ stats' = stats /\ cache' = cache
      /\ h \in Handles \cup {None} /\ cache \subseteq Handles
  BY DEF Release, At, Typed
<1>3. gone \in SUBSET Handles
  BY <1>1, <1>2
<1>4. /\ thread' \in [Threads -> ThreadState] /\ Alone(t)
      /\ thread'[t].handle = None /\ thread'[t].gone = gone /\ thread'[t].victim = None
      /\ thread'[t].pc = IF gone = {} THEN "idle" ELSE "dispatch"
      /\ thread'[t].then = "idle"
  BY <1>1, <1>3, IdleMoves
<1>5. Typed'
  BY Zenon, <1>2, <1>3, <1>4 DEF Typed, Alone, Handles
<1>6. ASSUME NEW x \in Handles
      PROVE  /\ x \in gone => x = h /\ x \notin cache' /\ \A u \in Threads : thread'[u].handle # x
             /\ x = h => x \in cache' \/ x \in gone \/ \E u \in Threads : thread'[u].handle = x
  <2>1. None \notin Handles
    BY HandlesNumbered
  <2>2. Users(h) = {t} => \A u \in Threads : thread[u].handle = h => u = t
    BY DEF Users
  <2>3. Users(h) # {t} => \E u \in Threads \ {t} : thread[u].handle = h
    BY DEF Users
  <2> QED  BY <1>1, <1>2, <1>4, <2>1, <2>2, <2>3 DEF Alone
<1> QED  BY <1>2, <1>4, <1>5, <1>6 DEF Shifts, Uses

(* Erase hands over. *)
LEMMA EraseShifts ==
    ASSUME Typed, NEW t \in Threads, NEW h \in cache, Placed(t), Erase(t, h)
    PROVE  Shifts(t)
<1>1. PICK gone : gone = (IF Users(h) = {} THEN {h} ELSE {}) /\ Dispose(t, gone, Idle)
  BY DEF Erase
<1>2. /\ thread[t].pc = "idle" /\ entry' = entry /\ live' = live /\ stats' = stats /\ cache' = cache \ {h}
      /\ thread[t].handle = None /\ cache \subseteq Handles
  BY DEF Erase, At, Typed, Placed
<1>3. gone \in SUBSET Handles
  BY <1>1, <1>2
<1>4. /\ thread' \in [Threads -> ThreadState] /\ Alone(t)
      /\ thread'[t].handle = None /\ thread'[t].gone = gone /\ thread'[t].victim = None
      /\ thread'[t].pc = IF gone = {} THEN "idle" ELSE "dispatch"
      /\ thread'[t].then = "idle"
  BY <1>1, <1>3, IdleMoves
<1>5. Typed'
  BY Zenon, <1>2, <1>3, <1>4 DEF Typed, Alone, Handles
<1>6. None \notin Handles /\ \A u \in Threads : thread'[u].handle = thread[u].handle
  BY <1>2, <1>4, HandlesNumbered DEF Alone
<1>7. (Users(h) = {} => \A u \in Threads : thread[u].handle # h) /\ (Users(h) # {} => \E u \in Threads : thread[u].handle = h)
  BY DEF Users
<1>8. ASSUME NEW x \in Handles
      PROVE  /\ x \in cache' \/ x \in gone => x \in cache
             /\ x \in gone => x \notin cache' /\ \A u \in Threads : thread'[u].handle # x
             /\ x \in cache => x \in cache' \/ x \in gone \/ \E u \in Threads : thread'[u].handle = x
  BY <1>1, <1>2, <1>6, <1>7
<1> QED  BY <1>2, <1>4, <1>5, <1>6, <1>8 DEF Shifts, Uses

(* The deleter takes a block's bytes off its slot's. *)
LEMMA DispatchEffect ==
    ASSUME Typed, NEW t \in Threads, Dispatch(t), thread[t].pc = "dispatch"
    PROVE  /\ Typed' /\ Alone(t) /\ cache' = cache /\ entry' = entry /\ Steady
           /\ \E v \in thread[t].gone :
                /\ Becomes(t, "total_down", thread[t].handle, thread[t].gone \ {v}, v, thread[t].then)
                /\ \A s \in Slots : live'[s] = IF s = Slot(entry[v].block) THEN live[s] - 1 ELSE live[s]
<1>1. PICK v \in thread[t].gone :
        /\ live' = [live EXCEPT ![Slot(entry[v].block)] = @ - 1]
        /\ thread' = [thread EXCEPT ![t].pc = "total_down", ![t].victim = v, ![t].gone = @ \ {v}]
  BY Zenon DEF Dispatch, At
<1>2. Bump("evictions") /\ cache' = cache /\ entry' = entry
  BY Zenon DEF Dispatch, At
<1>3. thread[t] \in ThreadState /\ thread \in [Threads -> ThreadState] /\ v \in Nat /\ v \in Handles /\ "total_down" \in Stops
  BY HandlesNumbered DEF Typed, Stops, Disposing
<1>4. /\ thread' \in [Threads -> ThreadState] /\ Alone(t)
      /\ Becomes(t, "total_down", thread[t].handle, thread[t].gone \ {v}, v, thread[t].then)
  <2> DEFINE new == [thread[t] EXCEPT !.pc = "total_down", !.victim = v, !.gone = @ \ {v}]
  <2>1. /\ new \in ThreadState /\ new.pc = "total_down" /\ new.handle = thread[t].handle
        /\ new.gone = thread[t].gone \ {v} /\ new.victim = v /\ new.then = thread[t].then
    BY Zenon, <1>3 DEF ThreadState
  <2>2. thread' = [thread EXCEPT ![t] = new]
    BY Zenon, <1>1, <1>3
  <2> HIDE DEF new
  <2>3. /\ thread' \in [Threads -> ThreadState] /\ Alone(t)
        /\ Becomes(t, new.pc, new.handle, new.gone, new.victim, new.then)
    BY Zenon, <1>3, <2>1, <2>2, ThreadMoves
  <2> QED  BY <2>1, <2>3 DEF Becomes
<1>5. PICK k : k = Slot(entry[v].block)
  OBVIOUS
<1>6. live' \in [Slots -> Int] /\ \A s \in Slots : live'[s] = IF s = k THEN live[s] - 1 ELSE live[s]
  <2>1. live' = [live EXCEPT ![k] = @ - 1] /\ live \in [Slots -> Int]
    BY <1>1, <1>5 DEF Typed
  <2>2. live' = [s \in Slots |-> live'[s]]
    BY Zenon, <2>1
  <2>3. ASSUME NEW s \in Slots
        PROVE  live'[s] = (IF s = k THEN live[s] - 1 ELSE live[s]) /\ live'[s] \in Int
    <3>1. CASE s = k
      BY <2>1, <3>1
    <3>2. CASE s # k
      BY <2>1, <3>2
    <3> QED  BY <3>1, <3>2
  <2> QED  BY <2>2, <2>3
<1>7. stats' \in [Counters -> Int] /\ Steady
  <2>1. stats \in [Counters -> Int] /\ Tracked \subseteq Counters /\ "evictions" \in Counters
    BY DEF Typed, Counters, Tracked
  <2>2. "evictions" \notin Tracked
    BY DEF Tracked
  <2> QED  BY <1>2, <2>1, <2>2 DEF Bump, Steady
<1>8. Typed'
  BY Zenon, <1>2, <1>3, <1>4, <1>6, <1>7 DEF Typed, Becomes, Alone, Handles
<1> QED  BY ZenonT(60), <1>2, <1>4, <1>5, <1>6, <1>7, <1>8

(* The total follows. *)
LEMMA TotalDownEffect ==
    ASSUME Typed, NEW t \in Threads, Dispatch(t), thread[t].pc = "total_down"
    PROVE  /\ Typed' /\ Alone(t) /\ cache' = cache /\ entry' = entry /\ live' = live
           /\ Becomes(t, "precision", thread[t].handle, thread[t].gone, thread[t].victim, thread[t].then)
           /\ \A c \in Tracked : stats'[c] = IF c = "live_total" THEN stats[c] - 1 ELSE stats[c]
<1>1. /\ Goto(t, "precision") /\ stats' = [stats EXCEPT !.live_total = @ - 1]
      /\ cache' = cache /\ entry' = entry /\ live' = live
  BY DEF Dispatch, At
<1>2. /\ thread' \in [Threads -> ThreadState] /\ Alone(t)
      /\ Becomes(t, "precision", thread[t].handle, thread[t].gone, thread[t].victim, thread[t].then)
  BY <1>1, GotoMoves DEF Stops, Disposing
<1>3. /\ stats' \in [Counters -> Int]
      /\ \A c \in Tracked : stats'[c] = IF c = "live_total" THEN stats[c] - 1 ELSE stats[c]
  <2>1. stats \in [Counters -> Int] /\ stats' = [c \in Counters |-> stats'[c]]
    BY Zenon, <1>1 DEF Typed
  <2>2. \A c \in Counters : stats'[c] = IF c = "live_total" THEN stats[c] - 1 ELSE stats[c]
    BY <1>1, <2>1 DEF Counters
  <2>3. \A c \in Counters : stats'[c] \in Int
    BY <2>1, <2>2
  <2>4. Tracked \subseteq Counters
    BY DEF Tracked, Counters
  <2> QED  BY <2>1, <2>2, <2>3, <2>4
<1>4. Typed'
  BY <1>1, <1>2, <1>3 DEF Typed, Becomes, Alone, Handles
<1> QED  BY <1>1, <1>2, <1>3, <1>4

(* The precision of a prefetched block is settled when it has gone; the    *)
(* thread takes the next one, or carries on.                               *)
LEMMA PrecisionEffect ==
    ASSUME Typed, NEW t \in Threads, Dispatch(t), thread[t].pc = "precision"
    PROVE  LET v    == thread[t].victim
               left == thread[t].gone
           IN  /\ Typed' /\ Alone(t) /\ cache' = cache /\ entry' = entry /\ live' = live
               /\ Becomes(t, IF left = {} THEN thread[t].then ELSE "dispatch", thread[t].handle, left, None,
                          IF left = {} THEN "idle" ELSE thread[t].then)
               /\ \A c \in Tracked :
                    stats'[c] = IF entry[v].prefetched /\ (c = "pf_evicted" \/ (c = "pf_used" /\ entry[v].hits > 0))
                                THEN stats[c] + 1 ELSE stats[c]
<1> DEFINE v    == thread[t].victim
           left == thread[t].gone
<1>1. /\ stats' = IF ~entry[v].prefetched THEN stats
                  ELSE [stats EXCEPT !.pf_evicted = @ + 1,
                                     !.pf_used = IF entry[v].hits > 0 THEN @ + 1 ELSE @]
      /\ thread' = [thread EXCEPT ![t].victim = None,
                       ![t].pc = IF left = {} THEN thread[t].then ELSE "dispatch",
                       ![t].then = IF left = {} THEN "idle" ELSE @]
      /\ cache' = cache /\ entry' = entry /\ live' = live
  BY Zenon DEF Dispatch, At
<1>2. thread[t] \in ThreadState /\ thread \in [Threads -> ThreadState] /\ None \in Nat
  BY DEF Typed, None
<1>3. PICK pc \in Stops, then \in {"idle", "using"} :
        /\ pc = IF left = {} THEN thread[t].then ELSE "dispatch"
        /\ then = IF left = {} THEN "idle" ELSE thread[t].then
  BY <1>2 DEF ThreadState, Stops, Disposing
<1>4. /\ thread' \in [Threads -> ThreadState] /\ Alone(t)
      /\ Becomes(t, pc, thread[t].handle, left, None, then)
  <2> DEFINE new == [thread[t] EXCEPT !.victim = None, !.pc = pc, !.then = then]
  <2>1. /\ new \in ThreadState /\ new.pc = pc /\ new.handle = thread[t].handle
        /\ new.gone = left /\ new.victim = None /\ new.then = then
    BY Zenon, <1>2 DEF ThreadState
  <2>2. thread' = [thread EXCEPT ![t] = new]
    BY Zenon, <1>1, <1>2, <1>3 DEF ThreadState
  <2> HIDE DEF new
  <2> QED  BY Zenon, <1>2, <2>1, <2>2, ThreadMoves
<1>5. PICK p \in BOOLEAN, r \in BOOLEAN : (p <=> entry[v].prefetched) /\ (r <=> entry[v].hits > 0)
  BY Zenon
<1>6. stats' = IF ~p THEN stats ELSE [stats EXCEPT !.pf_evicted = @ + 1, !.pf_used = IF r THEN @ + 1 ELSE @]
  BY Zenon, <1>1, <1>5
<1>7. stats \in [Counters -> Int] /\ stats' = [c \in Counters |-> stats'[c]]
  BY Zenon, <1>6 DEF Typed
<1>8. \A c \in Counters : stats'[c] = IF p /\ (c = "pf_evicted" \/ (c = "pf_used" /\ r)) THEN stats[c] + 1 ELSE stats[c]
  BY Zenon, <1>6, <1>7 DEF Counters
<1>9. stats' \in [Counters -> Int]
  <2>1. \A c \in Counters : stats'[c] \in Int
    BY <1>7, <1>8
  <2> QED  BY <1>7, <2>1
<1>10. Tracked \subseteq Counters
  BY DEF Tracked, Counters
<1>11. Typed'
  BY Zenon, <1>1, <1>2, <1>4, <1>9 DEF Typed, Becomes, Alone, Handles
<1> QED  BY ZenonT(60), <1>1, <1>3, <1>4, <1>5, <1>8, <1>10, <1>11

-----------------------------------------------------------------------------
(* Ownership is kept by each step. *)
(* Lookup shares a block of the cache, which nobody inserts or disposes of. *)
LEMMA LookupOwned ==
    ASSUME Owned, NEW t \in Threads, NEW b \in Blocks, Lookup(t, b)
    PROVE  Owned'
<1>0. Typed /\ None \notin Handles /\ \A u \in Threads : thread[u] \in ThreadState
  BY HandlesNumbered DEF Owned, Typed
<1>1. /\ Typed' /\ Alone(t) /\ thread[t].pc = "idle" /\ entry' = entry /\ cache' = cache /\ Handles' = Handles
  BY <1>0, LookupEffect DEF Handles
<1>2. PICK h \in cache \cup {None}, pc \in {"hit", "using", "insert"} :
        /\ Becomes(t, pc, h, thread[t].gone, thread[t].victim, thread[t].then)
        /\ (pc = "hit" => h # None) /\ (pc = "insert" => h = None)
  BY <1>0, LookupEffect
<1> SUFFICES ASSUME NEW u \in Threads
             PROVE  Placed(u)' /\ SoleUser(u)' /\ SoleDisposer(u)' /\ SoleFirst(u)'
  BY <1>1 DEF Owned
<1>3. Placed(u)'
  BY <1>1, <1>2 DEF Owned, Placed, Alone, Becomes, Inserting, Disposing, Dooming
<1>4. SoleUser(u)'
  <2>1. CASE u = t
    BY Zenon, <1>2, <2>1 DEF SoleUser, Becomes, Inserting
  <2>2. CASE u # t
    <3>1. thread'[u] = thread[u] /\ SoleUser(u) /\ Placed(u) /\ thread[u].handle \in Handles \cup {None}
      BY Zenon, <1>0, <1>1, <2>2 DEF Alone, Owned, Typed
    <3>2. \A w \in Threads : Uses(w, thread[u].handle)' /\ thread[u].pc \in Inserting => w = u
      BY ZenonT(60), <1>0, <1>1, <1>2, <3>1 DEF Uses, Alone, Becomes, SoleUser, Placed
    <3> QED  BY Zenon, <1>0, <1>1, <3>1, <3>2 DEF SoleUser, Placed
  <2> QED  BY <2>1, <2>2
<1>5. SoleDisposer(u)'
  <2>1. \A w \in Threads : thread'[w].gone = thread[w].gone /\ thread'[w].victim = thread[w].victim
    BY ZenonT(60), <1>1, <1>2 DEF Alone, Becomes
  <2>2. \A w \in Threads, g \in Handles : Dooms(w, g)' <=> Dooms(w, g)
    BY ZenonT(60), <2>1 DEF Dooms
  <2>3. \A w \in Threads, g \in Handles : Uses(w, g)' => Uses(w, g) \/ g \in cache
    BY ZenonT(60), <1>0, <1>1, <1>2 DEF Uses, Alone, Becomes
  <2>4. SoleDisposer(u)
    BY Zenon DEF Owned
  <2>5. thread'[u].victim \notin thread'[u].gone
    BY Zenon, <2>1, <2>4 DEF SoleDisposer
  <2> QED  BY ZenonT(60), <1>1, <2>2, <2>3, <2>4, <2>5 DEF SoleDisposer
<1>6. SoleFirst(u)'
  BY <1>1, <1>2 DEF Owned, SoleFirst, Uses, Alone, Becomes
<1> QED  BY <1>3, <1>4, <1>5, <1>6

(* A hit leaves the references alone; a first read finds no read before. *)
LEMMA HitOwned ==
    ASSUME Owned, NEW t \in Threads, Hit(t), thread[t].pc = "hit"
    PROVE  Owned'
<1> DEFINE h == thread[t].handle
<1>0. Typed /\ Placed(t) /\ h \in Handles /\ entry[h].hits \in Nat
  BY HandlesNumbered DEF Owned, Typed, Placed, Entry
<1>1. /\ Typed' /\ Alone(t) /\ cache' = cache /\ Handles' = Handles
      /\ Becomes(t, IF FirstRead(h) THEN "first_read" ELSE "using", h, thread[t].gone, thread[t].victim, thread[t].then)
      /\ \A g \in Handles :
           /\ entry'[g].block = entry[g].block /\ entry'[g].prefetched = entry[g].prefetched
           /\ entry'[g].hits = IF g = h /\ entry[h].prefetched THEN entry[g].hits + 1 ELSE entry[g].hits
  BY Zenon, <1>0, HitEffect
<1> SUFFICES ASSUME NEW u \in Threads
             PROVE  Placed(u)' /\ SoleUser(u)' /\ SoleDisposer(u)' /\ SoleFirst(u)'
  BY Zenon, <1>1 DEF Owned
<1>3. Placed(u)'
  BY <1>0, <1>1 DEF Owned, Placed, Alone, Becomes, Inserting, Disposing, Dooming
<1>4. SoleUser(u)'
  <2>1. CASE u = t
    BY Zenon, <1>1, <2>1 DEF SoleUser, Becomes, Inserting
  <2>2. CASE u # t
    <3>1. thread'[u] = thread[u] /\ SoleUser(u) /\ Placed(u) /\ thread[u].handle \in Handles \cup {None}
      BY Zenon, <1>0, <1>1, <2>2 DEF Alone, Owned, Typed
    <3>2. \A w \in Threads : Uses(w, thread[u].handle)' /\ thread[u].pc \in Inserting => w = u
      BY ZenonT(60), <1>0, <1>1, <3>1 DEF Uses, Alone, Becomes, SoleUser, Placed
    <3> QED  BY Zenon, <1>0, <1>1, <3>1, <3>2 DEF SoleUser, Placed
  <2> QED  BY <2>1, <2>2
<1>5. SoleDisposer(u)'
  <2>1. \A w \in Threads : /\ thread'[w].handle = thread[w].handle /\ thread'[w].gone = thread[w].gone
                           /\ thread'[w].victim = thread[w].victim
    BY ZenonT(60), <1>1 DEF Alone, Becomes
  <2>2. \A w \in Threads, g \in Handles : (Uses(w, g)' <=> Uses(w, g)) /\ (Dooms(w, g)' <=> Dooms(w, g))
    BY ZenonT(60), <2>1 DEF Uses, Dooms
  <2>3. SoleDisposer(u)
    BY Zenon DEF Owned
  <2>4. thread'[u].victim \notin thread'[u].gone
    BY Zenon, <2>1, <2>3 DEF SoleDisposer
  <2> QED  BY ZenonT(60), <1>1, <2>2, <2>3, <2>4 DEF SoleDisposer
<1>6. SoleFirst(u)'
  <2>1. CASE u = t
    <3>1. ASSUME FirstRead(h)  PROVE entry[h].prefetched /\ entry[h].hits = 0
      BY Zenon, <3>1 DEF FirstRead
    <3>2. ASSUME FirstRead(h), NEW w \in Threads, thread[w].pc = "first_read", Uses(w, h)  PROVE FALSE
      BY <1>0, <3>1, <3>2 DEF Owned, SoleFirst, Uses
    <3> QED  BY <1>0, <1>1, <2>1, <3>1, <3>2 DEF SoleFirst, Uses, Alone, Becomes
  <2>2. CASE u # t
    <3>1. thread'[u] = thread[u] /\ SoleFirst(u) /\ Placed(u) /\ thread[u].handle \in Handles \cup {None}
      BY Zenon, <1>0, <1>1, <2>2 DEF Alone, Owned, Typed
    <3>2. ASSUME thread[u].pc = "first_read"
          PROVE  /\ thread[u].handle \in Handles /\ entry'[thread[u].handle].prefetched
                 /\ entry'[thread[u].handle].hits > 0 /\ (thread[u].handle = h => ~FirstRead(h))
      <4>1. thread[u].handle \in Handles /\ entry[thread[u].handle].hits \in Nat
        BY Zenon, <1>0, <3>1, <3>2, HandlesNumbered DEF Placed, Entry
      <4> QED  BY <1>0, <1>1, <3>1, <3>2, <4>1 DEF SoleFirst, FirstRead
    <3> QED  BY <1>1, <2>2, <3>1, <3>2 DEF SoleFirst, Uses, Alone, Becomes
  <2> QED  BY <2>1, <2>2
<1> QED  BY Zenon, <1>3, <1>4, <1>5, <1>6

(* A step that moves its thread between places alike leaves the references *)
(* alone.                                                                  *)
LEMMA MoveOwned ==
    ASSUME Owned, NEW t \in Threads, Typed', Alone(t), cache' = cache, entry' = entry, NEW pc \in Stops,
           thread'[t].block = thread[t].block,
           Becomes(t, pc, thread[t].handle, thread[t].gone, thread[t].victim, thread[t].then),
           \/ thread[t].pc = "first_read" /\ pc = "using"
           \/ thread[t].pc \in Inserting /\ pc \in Inserting
           \/ thread[t].pc \in Dooming /\ pc \in Dooming
    PROVE  Owned'
<1>1. Handles' = Handles /\ \A u \in Threads : /\ thread'[u].handle = thread[u].handle /\ thread'[u].gone = thread[u].gone
                                              /\ thread'[u].victim = thread[u].victim /\ thread'[u].then = thread[u].then
  BY DEF Alone, Becomes, Handles
<1>2. thread'[t].pc = pc /\ \A u \in Threads \ {t} : thread'[u] = thread[u]
  BY ZenonT(60) DEF Alone, Becomes
<1> SUFFICES ASSUME NEW u \in Threads
             PROVE  Placed(u)' /\ SoleUser(u)' /\ SoleDisposer(u)' /\ SoleFirst(u)'
  BY DEF Owned
<1>3. Placed(u) /\ SoleUser(u) /\ SoleDisposer(u) /\ SoleFirst(u)
  BY Zenon DEF Owned
<1>4. Placed(u)'
  BY Zenon, <1>1, <1>2, <1>3 DEF Placed, Inserting, Disposing, Dooming
<1>5. SoleUser(u)'
  BY ZenonT(60), <1>1, <1>2, <1>3 DEF SoleUser, Uses, Inserting, Dooming
<1>6. SoleDisposer(u)'
  <2>1. \A w \in Threads, g \in Handles : (Uses(w, g)' <=> Uses(w, g)) /\ (Dooms(w, g)' <=> Dooms(w, g))
    BY ZenonT(60), <1>1 DEF Uses, Dooms
  <2>2. thread'[u].victim \notin thread'[u].gone
    BY Zenon, <1>1, <1>3 DEF SoleDisposer
  <2> QED  BY ZenonT(60), <1>1, <1>3, <2>1, <2>2 DEF SoleDisposer
<1>7. SoleFirst(u)'
  BY <1>1, <1>2, <1>3 DEF SoleFirst, Uses, Inserting, Dooming
<1> QED  BY ZenonT(60), <1>4, <1>5, <1>6, <1>7

(* A new entry is its inserter's alone. *)
LEMMA CountInsertOwned ==
    ASSUME Owned, NEW t \in Threads, CountInsert(t)
    PROVE  Owned'
<1>0. Typed
  BY DEF Owned
<1>1. PICK n : n = Len(entry) + 1
  OBVIOUS
<1>2. /\ Typed' /\ Alone(t) /\ cache' = cache /\ thread[t].pc = "insert"
      /\ Handles' = Handles \cup {n} /\ n \notin Handles /\ n # None
      /\ Becomes(t, "live", n, thread[t].gone, thread[t].victim, thread[t].then)
      /\ \A g \in Handles : entry'[g] = entry[g]
      /\ entry'[n] = NewEntry(t) /\ NewEntry(t).block = thread'[t].block
  BY <1>0, <1>1, CountInsertEffect
<1>3. \A u \in Threads : /\ thread[u].handle \in Handles \cup {None} /\ thread[u].victim \in Handles \cup {None}
                         /\ thread[u].gone \subseteq Handles
  BY ZenonT(60), <1>0 DEF Typed
<1>4. n \notin cache
  BY ZenonT(60), <1>0, <1>2 DEF Typed
<1> SUFFICES ASSUME NEW u \in Threads
             PROVE  Placed(u)' /\ SoleUser(u)' /\ SoleDisposer(u)' /\ SoleFirst(u)'
  BY <1>2 DEF Owned
<1>5. Placed(u) /\ SoleUser(u) /\ SoleDisposer(u) /\ SoleFirst(u)
  BY Zenon DEF Owned
<1>6. Placed(u)'
  BY <1>2, <1>5 DEF Placed, Alone, Becomes, Inserting, Disposing, Dooming
<1>7. SoleUser(u)'
  <2>1. CASE u = t
    BY <1>2, <1>3, <1>4, <2>1 DEF SoleUser, Uses, Alone, Becomes
  <2>2. CASE u # t
    BY ZenonT(100), <1>2, <1>3, <1>5, <2>2 DEF SoleUser, Uses, Alone, Becomes, Placed
  <2> QED  BY <2>1, <2>2
<1>8. SoleDisposer(u)'
  <2>1. thread'[u].gone = thread[u].gone /\ thread'[u].victim = thread[u].victim
    BY <1>2 DEF Alone, Becomes
  <2>2. ASSUME NEW h \in Handles', Dooms(u, h)'
        PROVE  h \in Handles /\ Dooms(u, h) /\ h # n
    BY Zenon, <1>2, <1>3, <2>1, <2>2 DEF Dooms
  <2>3. ASSUME NEW h \in Handles', Dooms(u, h)', NEW w \in Threads
        PROVE  h \notin cache' /\ ~Uses(w, h)' /\ (Dooms(w, h)' => w = u)
    <3>1. h \in Handles /\ Dooms(u, h) /\ h # n
      BY <2>2, <2>3
    <3> QED  BY <1>2, <1>5, <3>1 DEF SoleDisposer, Uses, Dooms, Alone, Becomes
  <2> QED  BY Zenon, <1>5, <2>1, <2>3 DEF SoleDisposer
<1>9. SoleFirst(u)'
  <2>1. CASE u = t
    BY ZenonT(60), <1>2, <2>1 DEF SoleFirst, Becomes
  <2>2. CASE u # t
    BY <1>2, <1>3, <1>5, <2>2 DEF SoleFirst, Uses, Alone, Becomes, Placed
  <2> QED  BY <2>1, <2>2
<1> QED  BY <1>6, <1>7, <1>8, <1>9

(* Handing over keeps each entry with one inserter or one disposer. *)
LEMMA ShiftsOwned ==
    ASSUME Owned, NEW t \in Threads, Shifts(t)
    PROVE  Owned'
<1>0. Typed /\ None \notin Handles /\ Typed' /\ Alone(t) /\ entry' = entry /\ Handles' = Handles
  BY Zenon, HandlesNumbered DEF Owned, Shifts, Handles
<1>1. \A u \in Threads : /\ thread[u].handle \in Handles \cup {None} /\ thread[u].victim \in Handles \cup {None}
                         /\ thread[u].gone \subseteq Handles
  BY Zenon, <1>0 DEF Typed
<1>2. thread[t].gone = {} /\ thread[t].victim = None /\ Placed(t)
  BY Zenon DEF Owned, Placed, Shifts, Disposing, Dooming
<1>3. cache' \subseteq Handles /\ thread'[t].gone \subseteq Handles
  BY <1>0 DEF Typed
<1> SUFFICES ASSUME NEW u \in Threads
             PROVE  Placed(u)' /\ SoleUser(u)' /\ SoleDisposer(u)' /\ SoleFirst(u)'
  BY <1>0 DEF Owned
<1>5. Placed(u) /\ SoleUser(u) /\ SoleDisposer(u) /\ SoleFirst(u)
  BY DEF Owned
<1>6. CASE u # t
  <2>1. thread'[u] = thread[u]
    BY <1>0, <1>6 DEF Alone
  <2>2. Placed(u)'
    BY ZenonT(60), <1>5, <2>1 DEF Placed
  <2>3. SoleUser(u)'
    <3>1. SUFFICES ASSUME thread[u].pc \in Inserting
                   PROVE  /\ thread[u].handle \notin cache' /\ entry[thread[u].handle].block = thread[u].block
                          /\ \A w \in Threads : thread'[w].handle = thread[u].handle => w = u
      BY <1>0, <2>1 DEF SoleUser, Uses
    <3>2. thread[u].handle \in Handles /\ thread[u].handle \notin cache /\ ~Uses(t, thread[u].handle)
      BY Zenon, <1>1, <1>5, <1>6, <3>1 DEF Placed, SoleUser
    <3>3. thread[u].handle \notin cache'
      BY Zenon, <3>2 DEF Shifts
    <3>4. \A w \in Threads : thread'[w].handle = thread[u].handle => w = u
      BY ZenonT(100), <1>0, <1>5, <3>1, <3>2 DEF SoleUser, Uses, Alone, Shifts
    <3> QED  BY Zenon, <1>5, <3>1, <3>3, <3>4 DEF SoleUser
  <2>4. SoleDisposer(u)'
    <3>1. SUFFICES ASSUME NEW h \in Handles, Dooms(u, h), NEW w \in Threads
                   PROVE  h \notin cache' /\ thread'[w].handle # h /\ (Dooms(w, h)' => w = u)
      BY Zenon, <1>0, <1>5, <2>1 DEF SoleDisposer, Uses, Dooms
    <3>2. h \notin cache /\ ~Uses(w, h) /\ ~Uses(t, h) /\ (Dooms(w, h) => w = u) /\ h # None
      BY Zenon, <1>0, <1>5, <3>1 DEF SoleDisposer
    <3>3. h \notin cache' /\ h \notin thread'[t].gone /\ h # thread'[t].victim
      BY Zenon, <3>2 DEF Shifts
    <3> QED  BY <1>0, <3>2, <3>3 DEF Uses, Dooms, Alone, Shifts
  <2>5. SoleFirst(u)'
    BY <1>0, <1>5, <2>1 DEF SoleFirst, Uses, Alone, Shifts
  <2> QED  BY <2>2, <2>3, <2>4, <2>5
<1>7. CASE u = t
  <2>1. Placed(u)'
    BY Zenon, <1>7 DEF Placed, Shifts, Inserting, Disposing, Dooming
  <2>2. SoleUser(u)' /\ SoleFirst(u)'
    BY <1>7 DEF SoleUser, SoleFirst, Shifts, Inserting
  <2>3. SoleDisposer(u)'
    <3>1. SUFFICES ASSUME NEW h \in Handles, h \in thread'[t].gone, NEW w \in Threads
                   PROVE  h \notin cache' /\ thread'[w].handle # h /\ (Dooms(w, h)' => w = t)
      BY ZenonT(100), <1>0, <1>3, <1>7 DEF SoleDisposer, Uses, Dooms, Shifts
    <3>2. h \notin cache' /\ thread'[w].handle # h /\ (h \in cache \/ Uses(t, h))
      BY ZenonT(60), <3>1 DEF Shifts
    <3>3. ~Dooms(w, h)
      BY <3>2 DEF Owned, SoleDisposer
    <3> QED  BY Zenon, <1>0, <3>2, <3>3 DEF Dooms, Alone
  <2> QED  BY Zenon, <2>1, <2>2, <2>3
<1> QED  BY <1>6, <1>7

(* The deleter goes from one of the blocks a thread disposes of to another. *)
LEMMA DispatchOwned ==
    ASSUME Owned, NEW t \in Threads, Dispatch(t)
    PROVE  Owned'
<1>0. Typed /\ None \notin Handles
  BY HandlesNumbered DEF Owned
<1>1. CASE thread[t].pc = "total_down"
  BY ZenonT(60), <1>0, <1>1, TotalDownEffect, MoveOwned, GotoMoves DEF Stops, Dooming, Disposing, Dispatch, At
<1>2. CASE thread[t].pc # "total_down"
  <2>0. thread[t].pc \in {"dispatch", "precision"}
    BY Zenon, <1>2 DEF Dispatch, At
  <2>1. Typed' /\ Alone(t) /\ cache' = cache /\ entry' = entry /\ Handles' = Handles
    BY Zenon, <1>0, <2>0, DispatchEffect, PrecisionEffect DEF Handles
  <2>2. /\ thread'[t].handle = thread[t].handle
        /\ \A h \in Handles : h \in thread'[t].gone \/ h = thread'[t].victim => Dooms(t, h)
        /\ thread'[t].victim \notin thread'[t].gone
    <3>1. CASE thread[t].pc = "dispatch"
      BY <1>0, <3>1, DispatchEffect DEF Becomes, Dooms
    <3>2. CASE thread[t].pc = "precision"
      <4>1. thread'[t].handle = thread[t].handle /\ thread'[t].gone = thread[t].gone /\ thread'[t].victim = None
        BY ZenonT(60), <1>0, <3>2, PrecisionEffect DEF Becomes
      <4>2. thread[t].gone \subseteq Handles
        BY <1>0 DEF Typed
      <4> QED  BY Zenon, <1>0, <4>1, <4>2 DEF Dooms
    <3> QED  BY ZenonT(60), <2>0, <3>1, <3>2
  <2>3. Placed(t)' /\ thread'[t].pc \notin {"first_read"} \cup Inserting
    <3>0. Placed(t) /\ thread[t] \in ThreadState
      BY Zenon, <1>0 DEF Owned, Typed
    <3>1. CASE thread[t].pc = "dispatch"
      <4>1. PICK v \in thread[t].gone :
              Becomes(t, "total_down", thread[t].handle, thread[t].gone \ {v}, v, thread[t].then)
        BY <1>0, <3>1, DispatchEffect
      <4>2. v # None
        BY Zenon, <1>0 DEF Typed
      <4> QED  BY Zenon, <3>0, <3>1, <4>1, <4>2 DEF Becomes, Placed, Inserting, Disposing, Dooming
    <3>2. CASE thread[t].pc = "precision"
      <4>1. Becomes(t, IF thread[t].gone = {} THEN thread[t].then ELSE "dispatch", thread[t].handle, thread[t].gone,
                    None, IF thread[t].gone = {} THEN "idle" ELSE thread[t].then)
        BY Zenon, <1>0, <3>2, PrecisionEffect
      <4>2. thread[t].then \in {"idle", "using"}
        BY <3>0 DEF ThreadState
      <4> QED  BY Zenon, <3>0, <3>2, <4>1, <4>2 DEF Becomes, Placed, Inserting, Disposing, Dooming
    <3> QED  BY ZenonT(60), <2>0, <3>1, <3>2
  <2> SUFFICES ASSUME NEW u \in Threads
               PROVE  Placed(u)' /\ SoleUser(u)' /\ SoleDisposer(u)' /\ SoleFirst(u)'
    BY <2>1 DEF Owned
  <2>4. Placed(u) /\ SoleUser(u) /\ SoleDisposer(u) /\ SoleFirst(u)
    BY DEF Owned
  <2>5. \A w \in Threads : thread'[w].handle = thread[w].handle /\ \A h \in Handles : Dooms(w, h)' => Dooms(w, h)
    BY Zenon, <2>1, <2>2 DEF Alone, Dooms
  <2>6. Placed(u)'
    BY ZenonT(60), <2>1, <2>3, <2>4 DEF Placed, Alone
  <2>7. SoleUser(u)'
    BY Zenon, <2>1, <2>3, <2>4, <2>5 DEF SoleUser, Uses, Alone
  <2>8. SoleDisposer(u)'
    <3>1. thread'[u].victim \notin thread'[u].gone
      BY ZenonT(60), <2>1, <2>2, <2>4 DEF SoleDisposer, Alone
    <3> QED  BY ZenonT(60), <2>1, <2>4, <2>5, <3>1 DEF SoleDisposer, Uses
  <2>9. SoleFirst(u)'
    BY ZenonT(60), <2>1, <2>3, <2>4, <2>5 DEF SoleFirst, Uses, Alone
  <2> QED  BY <2>6, <2>7, <2>8, <2>9
<1> QED  BY <1>1, <1>2

(* Ownership is kept by every step of a thread. *)
LEMMA AccessOwned ==
    ASSUME Owned, NEW t \in Threads, Access(t)
    PROVE  Owned'
<1>0. Typed /\ Placed(t)
  BY DEF Owned
<1>1. ASSUME NEW b \in Blocks, Lookup(t, b)  PROVE Owned'
  BY <1>1, LookupOwned
<1>2. CASE Hit(t)
  <2>1. CASE thread[t].pc = "hit"
    BY <1>2, <2>1, HitOwned
  <2>2. CASE thread[t].pc = "first_read"
    BY ZenonT(60), <1>0, <1>2, <2>2, FirstReadEffect, MoveOwned, GotoMoves DEF Stops, Hit, At
  <2> QED  BY ZenonT(60), <1>2, <2>1, <2>2 DEF Hit, At
<1>3. CASE CountInsert(t)
  BY Zenon, <1>3, CountInsertOwned
<1>4. CASE RaiseLive(t)
  <2>1. CASE thread[t].pc = "live"
    BY Zenon, <1>0, <1>4, <2>1, RaiseLiveEffect, MoveOwned DEF Stops, Inserting
  <2>2. CASE thread[t].pc = "total"
    BY ZenonT(60), <1>0, <1>4, <2>2, RaiseTotalEffect, MoveOwned DEF Stops, Inserting
  <2> QED  BY Zenon, <1>4, <2>1, <2>2 DEF RaiseLive, At
<1>5. CASE Put(t)
  BY ZenonT(60), <1>0, <1>5, PutShifts, ShiftsOwned
<1>6. CASE Release(t)
  BY ZenonT(60), <1>0, <1>6, ReleaseShifts, ShiftsOwned
<1>7. CASE Dispatch(t)
  BY <1>7, DispatchOwned
<1>8. ASSUME NEW h \in cache, Erase(t, h)  PROVE Owned'
  BY ZenonT(60), <1>0, <1>8, EraseShifts, ShiftsOwned
<1> QED  BY ZenonT(60), <1>1, <1>2, <1>3, <1>4, <1>5, <1>6, <1>7, <1>8 DEF Access

-----------------------------------------------------------------------------
(* Which entries each step moves from one set to another. *)

(* An entry being inserted is kept, and one being disposed of is kept only *)
(* until the deleter has taken it up.                                      *)
LEMMA SetsApart ==
    ASSUME Owned
    PROVE  /\ Using("live") \subseteq Kept /\ Using("total") \subseteq Kept
           /\ Using("live") \cap Using("total") = {}
           /\ (Leaving("total_down") \cup Leaving("precision")) \cap Kept = {}
           /\ Leaving("total_down") \cap Leaving("precision") = {}
           /\ (Using("live") \cup Using("total")) \cap cache = {}
<1>1. Using("live") \subseteq Kept /\ Using("total") \subseteq Kept
  BY DEF Using, Kept
<1>2. Using("live") \cap Using("total") = {} /\ (Using("live") \cup Using("total")) \cap cache = {}
  BY DEF Using, Owned, SoleUser, Uses, Inserting
<1>3. ASSUME NEW h \in Handles, NEW t \in Threads, thread[t].victim = h  PROVE h \notin Kept
  BY ZenonT(60), <1>3 DEF Kept, Owned, SoleDisposer, Dooms
<1>4. Leaving("total_down") \cap Leaving("precision") = {}
  BY DEF Leaving, Owned, SoleDisposer, Dooms
<1> QED  BY ZenonT(60), <1>1, <1>2, <1>3, <1>4 DEF Leaving

(* Handing over moves none. *)
LEMMA ShiftsSets ==
    ASSUME Owned, NEW t \in Threads, Shifts(t)
    PROVE  /\ Kept' = Kept
           /\ \A pc \in {"live", "total", "first_read"} : Using(pc)' = Using(pc)
           /\ \A pc \in Dooming : Leaving(pc)' = Leaving(pc)
<1>1. Alone(t) /\ Handles' = Handles /\ thread[t].gone = {}
  BY DEF Owned, Placed, Shifts, Disposing, Handles
<1>2. ASSUME NEW h \in Handles  PROVE h \in Kept' <=> h \in Kept
  <2>1. h \in Kept <=> (h \in cache \/ Uses(t, h) \/ \E u \in Threads \ {t} : Uses(u, h) \/ h \in thread[u].gone)
    BY <1>1 DEF Kept
  <2>2. h \in Kept' <=> (h \in cache' \/ \E u \in Threads : thread'[u].handle = h \/ h \in thread'[u].gone)
    BY Zenon, <1>1 DEF Kept, Uses
  <2>3. ASSUME h \in Kept  PROVE h \in Kept'
    BY ZenonT(60), <1>1, <2>1, <2>2, <2>3 DEF Shifts, Alone, Uses
  <2>4. ASSUME h \in Kept'  PROVE h \in Kept
    <3>1. CASE h \in cache' \/ h \in thread'[t].gone
      BY Zenon, <2>1, <3>1 DEF Shifts
    <3>2. CASE thread'[t].handle = h
      <4>1. h # None
        BY ZenonT(60), HandlesNumbered DEF Owned
      <4> QED  BY ZenonT(60), <2>1, <3>2, <4>1 DEF Shifts, Uses
    <3>3. CASE \E u \in Threads \ {t} : thread'[u].handle = h \/ h \in thread'[u].gone
      BY ZenonT(60), <1>1, <2>1, <3>3 DEF Alone, Uses
    <3> QED  BY Zenon, <2>2, <2>4, <3>1, <3>2, <3>3
  <2> QED  BY ZenonT(60), <2>3, <2>4
<1>3. ASSUME NEW pc \in {"live", "total", "first_read"}  PROVE Using(pc)' = Using(pc)
  <2>1. thread[t].pc # pc /\ thread'[t].pc # pc
    BY DEF Shifts
  <2> QED  BY Zenon, <1>1, <2>1 DEF Using, Uses, Alone
<1>4. ASSUME NEW pc \in Dooming  PROVE Leaving(pc)' = Leaving(pc)
  <2>1. thread[t].pc # pc /\ thread'[t].pc # pc
    BY DEF Shifts, Dooming
  <2> QED  BY Zenon, <1>1, <2>1 DEF Leaving, Alone
<1>5. Kept \subseteq Handles /\ Kept' \subseteq Handles
  BY <1>1 DEF Kept
<1> QED  BY ZenonT(60), <1>2, <1>3, <1>4, <1>5

(* A lookup moves none either: what it finds is in the cache. *)
LEMMA LookupSets ==
    ASSUME Owned, NEW t \in Threads, NEW b \in Blocks, Lookup(t, b)
    PROVE  /\ Kept' = Kept
           /\ \A pc \in {"live", "total", "first_read"} : Using(pc)' = Using(pc)
           /\ \A pc \in Dooming : Leaving(pc)' = Leaving(pc)
<1>0. Typed /\ None \notin Handles /\ thread[t].handle = None
  BY HandlesNumbered DEF Owned, Placed, Lookup, At
<1>1. Alone(t) /\ thread[t].pc = "idle" /\ entry' = entry /\ cache' = cache /\ Handles' = Handles
  BY Zenon, <1>0, LookupEffect DEF Handles
<1>2. PICK h \in cache \cup {None}, at \in {"hit", "using", "insert"} :
        Becomes(t, at, h, thread[t].gone, thread[t].victim, thread[t].then)
  BY <1>0, LookupEffect
<1>3. ASSUME NEW g \in Handles  PROVE g \in Kept' <=> g \in Kept
  <2>1. \A u \in Threads : thread'[u].gone = thread[u].gone /\ (u # t => thread'[u].handle = thread[u].handle)
    BY ZenonT(60), <1>1, <1>2 DEF Alone, Becomes
  <2>2. thread'[t].handle = h
    BY ZenonT(60), <1>2 DEF Becomes
  <2> QED  BY ZenonT(60), <1>0, <1>1, <2>1, <2>2 DEF Kept, Uses
<1>4. ASSUME NEW pc \in {"live", "total", "first_read"}  PROVE Using(pc)' = Using(pc)
  <2>1. thread[t].pc # pc /\ thread'[t].pc # pc
    BY ZenonT(60), <1>1, <1>2 DEF Becomes
  <2> QED  BY ZenonT(60), <1>1, <2>1 DEF Using, Uses, Alone
<1>5. ASSUME NEW pc \in Dooming  PROVE Leaving(pc)' = Leaving(pc)
  <2>1. thread[t].pc # pc /\ thread'[t].pc # pc
    BY ZenonT(60), <1>1, <1>2 DEF Becomes, Dooming
  <2> QED  BY ZenonT(60), <1>1, <2>1 DEF Leaving, Alone
<1>6. Kept \subseteq Handles /\ Kept' \subseteq Handles
  BY ZenonT(60), <1>1 DEF Kept
<1> QED  BY Zenon, <1>3, <1>4, <1>5, <1>6

(* A step from one place to another moves the thread's handle and victim.  *)
LEMMA MoveSets ==
    ASSUME NEW t \in Threads, Alone(t), cache' = cache, Handles' = Handles, NEW from, NEW to,
           thread[t].pc = from, Becomes(t, to, thread[t].handle, thread[t].gone, thread[t].victim, thread[t].then)
    PROVE  /\ Kept' = Kept
           /\ \A pc : pc \notin {from, to} => Using(pc)' = Using(pc) /\ Leaving(pc)' = Leaving(pc)
<1>1. \A u \in Threads : thread'[u].handle = thread[u].handle /\ thread'[u].gone = thread[u].gone
  BY DEF Alone, Becomes
<1>2. Kept' = Kept
  BY Zenon, <1>1 DEF Kept, Uses
<1>3. ASSUME NEW pc, pc \notin {from, to}  PROVE Using(pc)' = Using(pc) /\ Leaving(pc)' = Leaving(pc)
  <2>1. thread[t].pc # pc /\ thread'[t].pc # pc
    BY <1>3 DEF Becomes
  <2> QED  BY <2>1 DEF Using, Leaving, Uses, Alone
<1> QED  BY ZenonT(60), <1>2, <1>3

(* The handle of a sole user at its place. *)
LEMMA UsingMoves ==
    ASSUME NEW t \in Threads, Alone(t), Handles' = Handles, NEW from, NEW to, from # to,
           thread[t].pc = from, Becomes(t, to, thread[t].handle, thread[t].gone, thread[t].victim, thread[t].then),
           thread[t].handle \in Handles,
           \A u \in Threads : thread[u].pc = from /\ Uses(u, thread[t].handle) => u = t
    PROVE  /\ Using(from)' = Using(from) \ {thread[t].handle} /\ thread[t].handle \in Using(from)
           /\ Using(to)' = Using(to) \cup {thread[t].handle}
<1>1. PICK h \in Handles : h = thread[t].handle
  BY Zenon
<1>2. thread'[t].pc = to /\ thread'[t].handle = h
  BY Zenon, <1>1 DEF Becomes
<1>3. \A u \in Threads : u # t => thread'[u] = thread[u]
  BY DEF Alone
<1>4. Using(from)' = Using(from) \ {h}
  BY ZenonT(100), <1>1, <1>2, <1>3 DEF Using, Uses
<1>5. Using(to)' = Using(to) \cup {h} /\ h \in Using(from)
  BY ZenonT(60), <1>1, <1>2, <1>3 DEF Using, Uses
<1> QED  BY <1>1, <1>4, <1>5

(* The victim of a sole disposer at its place. *)
LEMMA LeavingMoves ==
    ASSUME NEW t \in Threads, Alone(t), Handles' = Handles, NEW from, NEW to, from # to, NEW v \in Handles,
           thread[t].pc = from, thread[t].victim = v, thread'[t].pc = to,
           \A u \in Threads : thread[u].pc = from /\ thread[u].victim = v => u = t
    PROVE  /\ Leaving(from)' = Leaving(from) \ {v} /\ v \in Leaving(from)
           /\ thread'[t].victim = v => Leaving(to)' = Leaving(to) \cup {v}
<1>3. \A u \in Threads : u # t => thread'[u] = thread[u]
  BY ZenonT(60) DEF Alone
<1>4. Leaving(from)' = Leaving(from) \ {v}
  BY ZenonT(60), <1>3 DEF Leaving
<1>5. v \in Leaving(from) /\ (thread'[t].victim = v => Leaving(to)' = Leaving(to) \cup {v})
  BY <1>3 DEF Leaving
<1> QED  BY ZenonT(60), <1>4, <1>5

-----------------------------------------------------------------------------
(* The counters, step by step.  The counted sets are finite. *)
LEMMA CountedFinite ==
    ASSUME Typed
    PROVE  /\ \A s : IsFiniteSet(RaisedIn(s)) /\ RaisedIn(s) \subseteq Handles
           /\ IsFiniteSet(RaisedTotal) /\ IsFiniteSet(Prefetched) /\ IsFiniteSet(Evicted)
           /\ IsFiniteSet(EvictedRead) /\ IsFiniteSet(ReadOnce)
<1>1. IsFiniteSet(Handles)
  BY HandlesNumbered, FS_Interval
<1>2. /\ \A s : RaisedIn(s) \subseteq Handles
      /\ RaisedTotal \subseteq Handles /\ Prefetched \subseteq Handles /\ Evicted \subseteq Handles
      /\ EvictedRead \subseteq Handles /\ ReadOnce \subseteq Handles
  BY ZenonT(60) DEF RaisedIn, Raised, RaisedTotal, Prefetched, Evicted, EvictedRead, ReadOnce, Dead, Kept, Leaving, Handles
<1> QED  BY ZenonT(60), <1>1, <1>2, FS_Subset

(* No entry changes sets. *)
Alike ==
    /\ Kept' = Kept /\ \A pc \in {"live", "total", "first_read"} : Using(pc)' = Using(pc)
    /\ \A pc \in Dooming : Leaving(pc)' = Leaving(pc)

(* A step that moves no entry and counts nothing. *)
LEMMA AlikeCounted ==
    ASSUME Counted, Alike, entry' = entry, live' = live, Steady
    PROVE  Counted'
<1>1. Handles' = Handles /\ Raised' = Raised /\ RaisedTotal' = RaisedTotal /\ Dead' = Dead
  BY DEF Alike, Handles, Raised, RaisedTotal, Dead, Dooming
<1>2. \A s \in Slots : RaisedIn(s)' = RaisedIn(s)
  BY <1>1 DEF RaisedIn
<1>3. Prefetched' = Prefetched /\ Evicted' = Evicted
  BY <1>1 DEF Prefetched, Evicted
<1>4. EvictedRead' = EvictedRead /\ ReadOnce' = ReadOnce
  BY Zenon, <1>3 DEF EvictedRead, ReadOnce, Alike
<1> QED  BY ZenonT(60), <1>1, <1>2, <1>3, <1>4 DEF Counted, Steady, Tracked

(* A hit changes the count of an entry in use, and not yet whether it was  *)
(* read.                                                                   *)
LEMMA HitCounted ==
    ASSUME Owned, Counted, NEW t \in Threads, Hit(t), thread[t].pc = "hit"
    PROVE  Counted'
<1>0. Typed /\ Placed(t)
  BY ZenonT(60) DEF Owned
<1>1. PICK h \in Handles : h = thread[t].handle
  BY <1>0 DEF Typed, Placed
<1>2. PICK to \in {"first_read", "using"} : to = IF FirstRead(h) THEN "first_read" ELSE "using"
  BY Zenon
<1>3. /\ Alone(t) /\ cache' = cache /\ live' = live /\ stats' = stats /\ Handles' = Handles
      /\ Becomes(t, to, thread[t].handle, thread[t].gone, thread[t].victim, thread[t].then)
      /\ \A g \in Handles :
           /\ entry'[g].block = entry[g].block /\ entry'[g].prefetched = entry[g].prefetched
           /\ entry'[g].hits = IF g = h /\ entry[h].prefetched THEN entry[g].hits + 1 ELSE entry[g].hits
  BY ZenonT(100), <1>0, <1>1, <1>2, HitEffect
<1>4. Kept' = Kept /\ \A pc : pc \notin {"hit", to} => Using(pc)' = Using(pc) /\ Leaving(pc)' = Leaving(pc)
  BY Zenon, <1>3, MoveSets
<1>5. Using("first_read")' = IF FirstRead(h) THEN Using("first_read") \cup {h} ELSE Using("first_read")
  <2>1. thread'[t].pc = to /\ thread'[t].handle = h /\ \A u \in Threads : u # t => thread'[u] = thread[u]
    BY Zenon, <1>1, <1>3 DEF Becomes, Alone
  <2>2. CASE FirstRead(h)
    <3>1. to = "first_read"
      BY ZenonT(60), <1>2, <2>2
    <3> QED  BY ZenonT(60), <1>3, <2>1, <2>2, <3>1 DEF Using, Uses
  <2>3. CASE ~FirstRead(h)
    BY ZenonT(60), <1>2, <1>4, <2>3
  <2> QED  BY <2>2, <2>3
<1>6. \A pc \in Dooming : Leaving(pc)' = Leaving(pc)
  BY Zenon, <1>4 DEF Dooming
<1>7. Raised' = Raised /\ RaisedTotal' = RaisedTotal /\ Dead' = Dead
  BY Zenon, <1>3, <1>4, <1>6 DEF Raised, RaisedTotal, Dead, Dooming
<1>8. \A s \in Slots : RaisedIn(s)' = RaisedIn(s)
  <2>1. Raised \subseteq Handles
    BY DEF Raised, Kept
  <2> QED  BY ZenonT(60), <1>3, <1>7, <2>1 DEF RaisedIn, Slot
<1>9. Prefetched' = Prefetched /\ Evicted' = Evicted
  BY Zenon, <1>3, <1>7 DEF Prefetched, Evicted, Handles, Dead
<1>10. h \notin Dead /\ Evicted \subseteq Dead /\ Dead \subseteq Handles /\ Prefetched \subseteq Handles
  BY ZenonT(60), <1>1 DEF Dead, Kept, Uses, Evicted, Prefetched, Handles
<1>11. EvictedRead' = EvictedRead
  BY ZenonT(60), <1>3, <1>9, <1>10 DEF EvictedRead
<1>12. ReadOnce' = ReadOnce
  <2>1. entry[h].hits \in Nat
    BY ZenonT(60), <1>0, HandlesNumbered DEF Entry
  <2>2. ASSUME NEW g \in Prefetched  PROVE g \in ReadOnce' <=> g \in ReadOnce
    <3>1. CASE g # h
      BY ZenonT(60), <1>3, <1>5, <1>9, <1>10, <2>2, <3>1 DEF ReadOnce
    <3>2. CASE g = h
      <4>1. entry[h].prefetched /\ entry'[h].hits = entry[h].hits + 1
        BY ZenonT(60), <1>3, <2>2, <3>2 DEF Prefetched
      <4>2. h \in ReadOnce' <=> h \notin Using("first_read")'
        <5>1. entry'[h].hits > 0
          BY <2>1, <4>1
        <5> QED  BY ZenonT(60), <1>9, <2>2, <3>2, <5>1 DEF ReadOnce
      <4>3. CASE FirstRead(h)
        <5>1. ~(entry[h].hits > 0)
          BY <4>3 DEF FirstRead
        <5> QED  BY ZenonT(60), <1>5, <3>2, <4>2, <4>3, <5>1 DEF ReadOnce
      <4>4. CASE ~FirstRead(h)
        <5>1. entry[h].hits > 0
          BY <2>1, <4>1, <4>4 DEF FirstRead
        <5> QED  BY ZenonT(60), <1>5, <2>2, <3>2, <4>2, <4>4, <5>1 DEF ReadOnce
      <4> QED  BY Zenon, <4>3, <4>4
    <3> QED  BY ZenonT(60), <3>1, <3>2
  <2>3. ReadOnce \subseteq Prefetched /\ ReadOnce' \subseteq Prefetched
    BY ZenonT(60), <1>9 DEF ReadOnce
  <2> QED  BY ZenonT(60), <2>2, <2>3
<1> QED  BY Zenon, <1>3, <1>7, <1>8, <1>9, <1>11, <1>12 DEF Counted

(* The first read of a prefetched block is counted, once. *)
LEMMA FirstReadCounted ==
    ASSUME Owned, Counted, NEW t \in Threads, Hit(t), thread[t].pc = "first_read"
    PROVE  Counted'
<1>0. Typed /\ Placed(t) /\ SoleFirst(t)
  BY ZenonT(60) DEF Owned
<1>1. PICK h \in Handles : h = thread[t].handle
  BY <1>0 DEF Typed, Placed
<1>2. /\ Alone(t) /\ cache' = cache /\ live' = live /\ entry' = entry /\ Handles' = Handles
      /\ Becomes(t, "using", thread[t].handle, thread[t].gone, thread[t].victim, thread[t].then)
      /\ \A c \in Tracked : stats'[c] = IF c = "pf_read_once" THEN stats[c] + 1 ELSE stats[c]
  BY Zenon, <1>0, FirstReadEffect DEF Handles
<1>3. Kept' = Kept /\ \A pc : pc \notin {"first_read", "using"} => Using(pc)' = Using(pc) /\ Leaving(pc)' = Leaving(pc)
  BY ZenonT(60), <1>2, MoveSets
<1>4. Using("first_read")' = Using("first_read") \ {h} /\ h \in Using("first_read")
  BY ZenonT(60), <1>0, <1>1, <1>2, UsingMoves DEF SoleFirst
<1>5. Raised' = Raised /\ RaisedTotal' = RaisedTotal /\ Dead' = Dead
  BY <1>2, <1>3 DEF Raised, RaisedTotal, Dead
<1>6. \A s \in Slots : RaisedIn(s)' = RaisedIn(s)
  BY ZenonT(60), <1>2, <1>5 DEF RaisedIn
<1>7. Prefetched' = Prefetched /\ Evicted' = Evicted /\ EvictedRead' = EvictedRead
  BY Zenon, <1>2, <1>5 DEF Prefetched, Evicted, EvictedRead
<1>8. ReadOnce' = ReadOnce \cup {h} /\ h \notin ReadOnce
  <2>1. h \in Prefetched /\ entry[h].hits > 0
    BY <1>0, <1>1 DEF SoleFirst, Prefetched, Handles
  <2> QED  BY ZenonT(60), <1>2, <1>4, <1>7, <2>1 DEF ReadOnce
<1>9. Cardinality(ReadOnce') = Cardinality(ReadOnce) + 1
  BY Zenon, <1>0, <1>8, CountedFinite, OneMore
<1> QED  BY ZenonT(60), <1>2, <1>5, <1>6, <1>7, <1>9 DEF Counted, Tracked

(* A new entry counts as inserted, and as nothing else yet. *)
LEMMA CountInsertCounted ==
    ASSUME Owned, Counted, NEW t \in Threads, CountInsert(t)
    PROVE  Counted'
<1>0. Typed /\ Placed(t)
  BY DEF Owned
<1>1. PICK n : n = Len(entry) + 1
  BY Zenon
<1>2. /\ Alone(t) /\ cache' = cache /\ live' = live /\ thread[t].pc = "insert" /\ thread[t].handle = None
      /\ Handles' = Handles \cup {n} /\ n \notin Handles /\ n # None
      /\ Becomes(t, "live", n, thread[t].gone, thread[t].victim, thread[t].then)
      /\ \A g \in Handles : entry'[g] = entry[g]
      /\ entry'[n] = NewEntry(t)
      /\ \A c \in Tracked : stats'[c] = IF c = "pf_inserted" /\ NewEntry(t).prefetched
                                        THEN stats[c] + 1 ELSE stats[c]
  BY Zenon, <1>0, <1>1, CountInsertEffect DEF Placed
<1>3. /\ thread'[t].pc = "live" /\ thread'[t].handle = n /\ \A u \in Threads : u # t => thread'[u] = thread[u]
      /\ thread'[t].gone = thread[t].gone /\ thread'[t].victim = thread[t].victim
  BY ZenonT(60), <1>2 DEF Becomes, Alone
<1>4. \A u \in Threads : /\ thread[u].handle \in Handles \cup {None} /\ thread[u].victim \in Handles \cup {None}
                         /\ thread[u].gone \subseteq Handles
  BY <1>0 DEF Typed
<1>5. cache \subseteq Handles /\ None \notin Handles
  BY Zenon, <1>0, HandlesNumbered DEF Typed
<1>6. Kept' = Kept \cup {n}
  <2>1. \A g \in Handles : (\E u \in Threads : Uses(u, g) \/ g \in thread[u].gone)'
                           <=> \E u \in Threads : Uses(u, g) \/ g \in thread[u].gone
    BY ZenonT(60), <1>2, <1>3, <1>5 DEF Uses
  <2>2. n \in Handles' /\ (\E u \in Threads : Uses(u, n))'
    BY Zenon, <1>2, <1>3 DEF Uses
  <2> QED  BY ZenonT(60), <1>2, <2>1, <2>2 DEF Kept
<1>7. Using("live")' = Using("live") \cup {n}
  <2>1. \A g \in Handles : (\E u \in Threads : thread[u].pc = "live" /\ Uses(u, g))'
                           <=> \E u \in Threads : thread[u].pc = "live" /\ Uses(u, g)
    BY ZenonT(60), <1>2, <1>3 DEF Uses
  <2>2. n \in Handles' /\ (\E u \in Threads : thread[u].pc = "live" /\ Uses(u, n))'
    BY Zenon, <1>2, <1>3 DEF Uses
  <2> QED  BY ZenonT(60), <1>2, <2>1, <2>2 DEF Using
<1>8. \A pc \in {"total", "first_read"} : Using(pc)' = Using(pc)
  <2> TAKE pc \in {"total", "first_read"}
  <2>1. \A g \in Handles : (\E u \in Threads : thread[u].pc = pc /\ Uses(u, g))'
                           <=> \E u \in Threads : thread[u].pc = pc /\ Uses(u, g)
    BY ZenonT(60), <1>2, <1>3 DEF Uses
  <2>2. \A u \in Threads : ~(thread[u].pc = pc /\ Uses(u, n))'
    BY ZenonT(60), <1>2, <1>3, <1>4 DEF Uses
  <2> QED  BY ZenonT(60), <1>2, <2>1, <2>2 DEF Using
<1>9. \A pc \in Dooming : Leaving(pc)' = Leaving(pc)
  BY <1>2, <1>3, <1>4 DEF Leaving, Dooming
<1>10. Kept \subseteq Handles /\ Prefetched \subseteq Handles /\ Dead \subseteq Handles
  BY Zenon DEF Kept, Prefetched, Handles, Dead
<1>11. Raised' = Raised /\ Dead' = Dead
  BY Zenon, <1>2, <1>6, <1>7, <1>9, <1>10 DEF Raised, Dead, Dooming
<1>12. RaisedTotal' = RaisedTotal
  <2>1. n \notin Leaving("total_down")
    BY Zenon, <1>2 DEF Leaving
  <2> QED  BY Zenon, <1>2, <1>6, <1>7, <1>8, <1>9, <1>10, <2>1 DEF RaisedTotal, Dooming
<1>13. \A s \in Slots : RaisedIn(s)' = RaisedIn(s)
  BY Zenon, <1>2, <1>10, <1>11 DEF RaisedIn, Raised
<1>14. Evicted' = Evicted /\ EvictedRead' = EvictedRead
  BY ZenonT(60), <1>2, <1>10, <1>11 DEF Evicted, EvictedRead
<1>15. Prefetched' = (IF NewEntry(t).prefetched THEN Prefetched \cup {n} ELSE Prefetched) /\ n \notin Prefetched
  BY Zenon, <1>2, <1>10 DEF Prefetched, Handles
<1>16. NewEntry(t).hits = 0
  BY ZenonT(60) DEF NewEntry
<1>17. ReadOnce' = ReadOnce
  BY <1>2, <1>8, <1>10, <1>15, <1>16 DEF ReadOnce
<1>18. Cardinality(Prefetched') = IF NewEntry(t).prefetched THEN Cardinality(Prefetched) + 1 ELSE Cardinality(Prefetched)
  BY Zenon, <1>0, <1>15, CountedFinite, OneMore
<1> QED  BY ZenonT(60), <1>2, <1>11, <1>12, <1>13, <1>14, <1>17, <1>18 DEF Counted, Tracked

(* The slot's bytes are raised by the block's. *)
LEMMA RaiseLiveCounted ==
    ASSUME Owned, Counted, NEW t \in Threads, RaiseLive(t), thread[t].pc = "live"
    PROVE  Counted'
<1>0. Typed /\ Placed(t) /\ SoleUser(t)
  BY Zenon DEF Owned
<1>1. PICK h \in Handles : h = thread[t].handle
  BY Zenon, <1>0 DEF Typed, Placed, Inserting
<1>2. /\ Alone(t) /\ cache' = cache /\ stats' = stats /\ entry' = entry /\ Handles' = Handles
      /\ Becomes(t, "total", thread[t].handle, thread[t].gone, thread[t].victim, thread[t].then)
      /\ \A s \in Slots : live'[s] = IF s = Slot(thread[t].block) THEN live[s] + 1 ELSE live[s]
  BY ZenonT(60), <1>0, RaiseLiveEffect DEF Handles
<1>3. Kept' = Kept /\ \A pc : pc \notin {"live", "total"} => Using(pc)' = Using(pc) /\ Leaving(pc)' = Leaving(pc)
  BY ZenonT(60), <1>2, MoveSets
<1>4. /\ Using("live")' = Using("live") \ {h} /\ h \in Using("live")
      /\ Using("total")' = Using("total") \cup {h}
  <2>1. \A u \in Threads : thread[u].pc = "live" /\ Uses(u, thread[t].handle) => u = t
    BY ZenonT(60), <1>0 DEF SoleUser, Inserting
  <2> QED  BY ZenonT(60), <1>1, <1>2, <2>1, UsingMoves
<1>5. h \in Kept /\ entry[h].block = thread[t].block
  BY <1>0, <1>1 DEF Kept, Uses, SoleUser, Inserting
<1>6. Raised' = Raised \cup {h} /\ h \notin Raised
  BY Zenon, <1>3, <1>4, <1>5 DEF Raised
<1>7. RaisedTotal' = RaisedTotal /\ Dead' = Dead
  <2>1. Leaving("total_down")' = Leaving("total_down") /\ Leaving("precision")' = Leaving("precision")
    BY Zenon, <1>3
  <2> QED  BY Zenon, <1>2, <1>3, <1>4, <2>1 DEF RaisedTotal, Dead
<1>8. Prefetched' = Prefetched /\ Evicted' = Evicted /\ EvictedRead' = EvictedRead /\ ReadOnce' = ReadOnce
  BY ZenonT(60), <1>2, <1>3, <1>7 DEF Prefetched, Evicted, EvictedRead, ReadOnce
<1>9. ASSUME NEW s \in Slots  PROVE live'[s] = Cardinality(RaisedIn(s)')
  <2>1. RaisedIn(s)' = (IF s = Slot(thread[t].block) THEN RaisedIn(s) \cup {h} ELSE RaisedIn(s)) /\ h \notin RaisedIn(s)
    BY ZenonT(60), <1>2, <1>5, <1>6 DEF RaisedIn
  <2>2. IsFiniteSet(RaisedIn(s)) /\ live[s] = Cardinality(RaisedIn(s))
    BY ZenonT(60), <1>0, CountedFinite DEF Counted
  <2> QED  BY ZenonT(100), <1>2, <2>1, <2>2, OneMore
<1> QED  BY Zenon, <1>2, <1>7, <1>8, <1>9 DEF Counted

(* The total is raised by the block's bytes. *)
LEMMA RaiseTotalCounted ==
    ASSUME Owned, Counted, NEW t \in Threads, RaiseLive(t), thread[t].pc = "total"
    PROVE  Counted'
<1>0. Typed /\ Placed(t) /\ SoleUser(t)
  BY DEF Owned
<1>1. PICK h \in Handles : h = thread[t].handle
  BY ZenonT(60), <1>0 DEF Typed, Placed, Inserting
<1>2. /\ Alone(t) /\ cache' = cache /\ live' = live /\ entry' = entry /\ Handles' = Handles
      /\ Becomes(t, "put", thread[t].handle, thread[t].gone, thread[t].victim, thread[t].then)
      /\ \A c \in Tracked : stats'[c] = IF c = "live_total" THEN stats[c] + 1 ELSE stats[c]
  BY ZenonT(60), <1>0, RaiseTotalEffect DEF Handles
<1>3. Kept' = Kept /\ \A pc : pc \notin {"total", "put"} => Using(pc)' = Using(pc) /\ Leaving(pc)' = Leaving(pc)
  BY ZenonT(60), <1>2, MoveSets
<1>4. Using("total")' = Using("total") \ {h} /\ h \in Using("total")
  <2>1. \A u \in Threads : thread[u].pc = "total" /\ Uses(u, thread[t].handle) => u = t
    BY ZenonT(60), <1>0 DEF SoleUser, Inserting
  <2> QED  BY ZenonT(60), <1>1, <1>2, <2>1, UsingMoves
<1>5. h \in Kept /\ h \notin Using("live")
  BY ZenonT(60), <1>4, SetsApart
<1>6. RaisedTotal' = RaisedTotal \cup {h} /\ h \notin RaisedTotal
  BY Zenon, <1>3, <1>4, <1>5 DEF RaisedTotal
<1>7. Raised' = Raised /\ Dead' = Dead
  BY <1>2, <1>3 DEF Raised, Dead
<1>8. Prefetched' = Prefetched /\ Evicted' = Evicted /\ EvictedRead' = EvictedRead /\ ReadOnce' = ReadOnce
  BY Zenon, <1>2, <1>3, <1>7 DEF Prefetched, Evicted, EvictedRead, ReadOnce
<1>9. \A s \in Slots : RaisedIn(s)' = RaisedIn(s)
  BY ZenonT(60), <1>2, <1>7 DEF RaisedIn
<1>10. Cardinality(RaisedTotal') = Cardinality(RaisedTotal) + 1
  BY ZenonT(60), <1>0, <1>6, CountedFinite, OneMore
<1> QED  BY ZenonT(60), <1>2, <1>7, <1>8, <1>9, <1>10 DEF Counted, Tracked

(* The slot's bytes are lowered by those of the block the deleter takes    *)
(* up.                                                                     *)
LEMMA DispatchCounted ==
    ASSUME Owned, Counted, NEW t \in Threads, Dispatch(t), thread[t].pc = "dispatch"
    PROVE  Counted'
<1>0. Typed /\ SoleDisposer(t) /\ thread[t].victim = None
  BY DEF Owned, Placed, Dooming
<1>1. Alone(t) /\ cache' = cache /\ entry' = entry /\ Steady /\ Handles' = Handles
  BY Zenon, <1>0, DispatchEffect DEF Handles
<1>2. PICK v \in thread[t].gone :
        /\ Becomes(t, "total_down", thread[t].handle, thread[t].gone \ {v}, v, thread[t].then)
        /\ \A s \in Slots : live'[s] = IF s = Slot(entry[v].block) THEN live[s] - 1 ELSE live[s]
  BY Zenon, <1>0, DispatchEffect
<1>3. /\ thread'[t].pc = "total_down" /\ thread'[t].handle = thread[t].handle
      /\ thread'[t].gone = thread[t].gone \ {v} /\ thread'[t].victim = v
      /\ \A u \in Threads : u # t => thread'[u] = thread[u]
  BY ZenonT(60), <1>1, <1>2 DEF Becomes, Alone
<1>4. v \in Handles /\ v \notin cache /\ \A u \in Threads : ~Uses(u, v) /\ (u # t => v \notin thread[u].gone)
  <2>1. v \in Handles
    BY Zenon, <1>0 DEF Typed
  <2> QED  BY ZenonT(60), <1>0, <2>1 DEF SoleDisposer, Dooms
<1>5. Kept' = Kept \ {v} /\ v \in Kept
  BY ZenonT(100), <1>1, <1>3, <1>4 DEF Kept, Uses
<1>6. \A pc \in {"live", "total", "first_read"} : Using(pc)' = Using(pc) /\ v \notin Using(pc)
  BY ZenonT(100), <1>1, <1>3, <1>4 DEF Using, Uses
<1>7. Leaving("total_down")' = Leaving("total_down") \cup {v}
  BY ZenonT(100), <1>1, <1>3, <1>4 DEF Leaving
<1>8. Leaving("precision")' = Leaving("precision")
  BY <1>1, <1>3 DEF Leaving
<1>9. Raised' = Raised \ {v} /\ v \in Raised
  BY <1>5, <1>6 DEF Raised
<1>10. RaisedTotal' = RaisedTotal /\ Dead' = Dead
  BY Zenon, <1>1, <1>5, <1>6, <1>7, <1>8 DEF RaisedTotal, Dead
<1>11. Prefetched' = Prefetched /\ Evicted' = Evicted /\ EvictedRead' = EvictedRead /\ ReadOnce' = ReadOnce
  BY Zenon, <1>1, <1>6, <1>10 DEF Prefetched, Evicted, EvictedRead, ReadOnce
<1>12. ASSUME NEW s \in Slots  PROVE live'[s] = Cardinality(RaisedIn(s)')
  <2>1. RaisedIn(s)' = (IF s = Slot(entry[v].block) THEN RaisedIn(s) \ {v} ELSE RaisedIn(s))
    BY Zenon, <1>1, <1>9 DEF RaisedIn
  <2>2. s = Slot(entry[v].block) => v \in RaisedIn(s)
    BY Zenon, <1>9 DEF RaisedIn
  <2>3. IsFiniteSet(RaisedIn(s)) /\ live[s] = Cardinality(RaisedIn(s))
    BY ZenonT(60), <1>0, CountedFinite DEF Counted
  <2> QED  BY ZenonT(60), <1>2, <2>1, <2>2, <2>3, OneLess
<1> QED  BY ZenonT(60), <1>1, <1>10, <1>11, <1>12 DEF Counted, Steady, Tracked

(* The total is lowered by the victim's bytes. *)
LEMMA TotalDownCounted ==
    ASSUME Owned, Counted, NEW t \in Threads, Dispatch(t), thread[t].pc = "total_down"
    PROVE  Counted'
<1>0. Typed /\ SoleDisposer(t) /\ Placed(t)
  BY Zenon DEF Owned
<1>1. PICK v \in Handles : v = thread[t].victim
  BY <1>0 DEF Typed, Placed, Dooming
<1>2. /\ Alone(t) /\ cache' = cache /\ live' = live /\ entry' = entry /\ Handles' = Handles
      /\ Becomes(t, "precision", thread[t].handle, thread[t].gone, thread[t].victim, thread[t].then)
      /\ \A c \in Tracked : stats'[c] = IF c = "live_total" THEN stats[c] - 1 ELSE stats[c]
  BY Zenon, <1>0, TotalDownEffect DEF Handles
<1>3. Kept' = Kept /\ \A pc : pc \notin {"total_down", "precision"} => Using(pc)' = Using(pc)
  BY ZenonT(60), <1>2, MoveSets
<1>4. /\ Leaving("total_down")' = Leaving("total_down") \ {v} /\ v \in Leaving("total_down")
      /\ Leaving("precision")' = Leaving("precision") \cup {v}
  <2>1. \A u \in Threads : thread[u].pc = "total_down" /\ thread[u].victim = v => u = t
    BY ZenonT(60), <1>0, <1>1 DEF SoleDisposer, Dooms
  <2>2. thread'[t].pc = "precision" /\ thread'[t].victim = v
    BY ZenonT(60), <1>1, <1>2 DEF Becomes
  <2>3. Alone(t) /\ Handles' = Handles /\ thread[t].victim = v /\ "total_down" # "precision"
    BY ZenonT(60), <1>1, <1>2
  <2>4. thread[t].pc = "total_down"
    BY Zenon DEF At
  <2>5. Leaving("total_down")' = Leaving("total_down") \ {v} /\ v \in Leaving("total_down")
    BY <2>1, <2>2, <2>3, <2>4, LeavingMoves
  <2>6. Leaving("precision")' = Leaving("precision") \cup {v}
    BY <2>1, <2>2, <2>3, <2>4, LeavingMoves
  <2> QED  BY Zenon, <2>5, <2>6
<1>5. v \notin Kept /\ v \notin Using("live") /\ v \notin Using("total")
  BY <1>4, SetsApart
<1>6. RaisedTotal' = RaisedTotal \ {v} /\ v \in RaisedTotal
  BY Zenon, <1>3, <1>4, <1>5 DEF RaisedTotal
<1>7. Raised' = Raised /\ Dead' = Dead
  BY Zenon, <1>2, <1>3, <1>4 DEF Raised, Dead
<1>8. Prefetched' = Prefetched /\ Evicted' = Evicted /\ EvictedRead' = EvictedRead /\ ReadOnce' = ReadOnce
  BY Zenon, <1>2, <1>3, <1>7 DEF Prefetched, Evicted, EvictedRead, ReadOnce
<1>9. \A s \in Slots : RaisedIn(s)' = RaisedIn(s)
  BY ZenonT(60), <1>2, <1>7 DEF RaisedIn
<1>10. Cardinality(RaisedTotal') = Cardinality(RaisedTotal) - 1
  BY ZenonT(60), <1>0, <1>6, CountedFinite, OneLess
<1> QED  BY ZenonT(60), <1>2, <1>7, <1>8, <1>9, <1>10 DEF Counted, Tracked

(* A prefetched block that has gone counts as evicted, and as used if it   *)
(* was read.                                                               *)
LEMMA PrecisionCounted ==
    ASSUME Owned, Counted, NEW t \in Threads, Dispatch(t), thread[t].pc = "precision"
    PROVE  Counted'
<1>0. Typed /\ SoleDisposer(t) /\ Placed(t)
  BY DEF Owned
<1>1. PICK v \in Handles : v = thread[t].victim
  BY Zenon, <1>0 DEF Typed, Placed, Dooming
<1>2. PICK to \in {"idle", "using", "dispatch"} :
        to = IF thread[t].gone = {} THEN thread[t].then ELSE "dispatch"
  BY <1>0 DEF Typed, ThreadState
<1>3. /\ Alone(t) /\ cache' = cache /\ live' = live /\ entry' = entry /\ Handles' = Handles
      /\ thread'[t].pc = to /\ thread'[t].handle = thread[t].handle /\ thread'[t].gone = thread[t].gone
      /\ \A c \in Tracked :
           stats'[c] = IF entry[v].prefetched /\ (c = "pf_evicted" \/ (c = "pf_used" /\ entry[v].hits > 0))
                       THEN stats[c] + 1 ELSE stats[c]
  BY ZenonT(60), <1>0, <1>1, <1>2, PrecisionEffect DEF Handles, Becomes
<1>4. Kept' = Kept
  BY ZenonT(100), <1>3 DEF Kept, Uses, Alone
<1>5. \A pc \in {"live", "total", "first_read"} : Using(pc)' = Using(pc)
  BY <1>3 DEF Using, Uses, Alone
<1>6. Leaving("total_down")' = Leaving("total_down")
  BY ZenonT(100), <1>3 DEF Leaving, Alone
<1>7. Leaving("precision")' = Leaving("precision") \ {v} /\ v \in Leaving("precision")
  <2>1. \A u \in Threads : thread[u].pc = "precision" /\ thread[u].victim = v => u = t
    BY <1>0, <1>1 DEF SoleDisposer, Dooms
  <2>2. to # "precision"
    BY ZenonT(60)
  <2> QED  BY <1>1, <1>3, <2>1, <2>2, LeavingMoves
<1>8. v \notin Kept /\ v \notin Leaving("total_down")
  BY ZenonT(60), <1>7, SetsApart
<1>9. Raised' = Raised /\ RaisedTotal' = RaisedTotal
  BY ZenonT(60), <1>4, <1>5, <1>6 DEF Raised, RaisedTotal
<1>10. Dead' = Dead \cup {v} /\ v \notin Dead
  BY Zenon, <1>3, <1>4, <1>6, <1>7, <1>8 DEF Dead
<1>11. Prefetched' = Prefetched /\ ReadOnce' = ReadOnce /\ \A s \in Slots : RaisedIn(s)' = RaisedIn(s)
  BY Zenon, <1>3, <1>5, <1>9 DEF Prefetched, ReadOnce, RaisedIn
<1>12. Evicted' = (IF entry[v].prefetched THEN Evicted \cup {v} ELSE Evicted) /\ v \notin Evicted
  BY Zenon, <1>3, <1>10 DEF Evicted
<1>13. EvictedRead' = (IF entry[v].prefetched /\ entry[v].hits > 0 THEN EvictedRead \cup {v} ELSE EvictedRead) /\ v \notin EvictedRead
  BY Zenon, <1>3, <1>12 DEF EvictedRead
<1>14. Cardinality(Evicted') = IF entry[v].prefetched THEN Cardinality(Evicted) + 1 ELSE Cardinality(Evicted)
  BY Zenon, <1>0, <1>12, CountedFinite, OneMore
<1>15. Cardinality(EvictedRead') = IF entry[v].prefetched /\ entry[v].hits > 0 THEN Cardinality(EvictedRead) + 1 ELSE Cardinality(EvictedRead)
  BY ZenonT(60), <1>0, <1>13, CountedFinite, OneMore
<1> QED  BY ZenonT(60), <1>3, <1>9, <1>11, <1>14, <1>15 DEF Counted, Tracked

(* The counters are right after every step of a thread. *)
LEMMA AccessCounted ==
    ASSUME Owned, Counted, NEW t \in Threads, Access(t)
    PROVE  Counted'
<1>0. Typed /\ Placed(t)
  BY DEF Owned
<1>1. ASSUME Shifts(t)  PROVE Counted'
  <2>1. Alike /\ entry' = entry /\ live' = live /\ Steady
    BY ZenonT(60), <1>1, ShiftsSets DEF Alike, Shifts, Steady
  <2> QED  BY Zenon, <2>1, AlikeCounted
<1>2. ASSUME NEW b \in Blocks, Lookup(t, b)  PROVE Counted'
  <2>1. Alike /\ entry' = entry /\ live' = live /\ Steady
    BY Zenon, <1>0, <1>2, LookupSets, LookupEffect DEF Alike
  <2> QED  BY Zenon, <2>1, AlikeCounted
<1>3. CASE Hit(t)
  BY ZenonT(60), <1>3, HitCounted, FirstReadCounted DEF Hit, At
<1>4. CASE CountInsert(t)
  BY Zenon, <1>4, CountInsertCounted
<1>5. CASE RaiseLive(t)
  BY ZenonT(60), <1>5, RaiseLiveCounted, RaiseTotalCounted DEF RaiseLive, At
<1>6. CASE Put(t)
  BY ZenonT(60), <1>0, <1>1, <1>6, PutShifts
<1>7. CASE Release(t)
  BY ZenonT(60), <1>0, <1>1, <1>7, ReleaseShifts
<1>8. CASE Dispatch(t)
  BY Zenon, <1>8, DispatchCounted, TotalDownCounted, PrecisionCounted DEF Dispatch, At
<1>9. ASSUME NEW h \in cache, Erase(t, h)  PROVE Counted'
  BY ZenonT(60), <1>0, <1>1, <1>9, EraseShifts
<1> QED  BY ZenonT(60), <1>2, <1>3, <1>4, <1>5, <1>6, <1>7, <1>8, <1>9 DEF Access

(* At first there is nothing to count. *)
LEMMA StatsStart ==
    ASSUME Init
    PROVE  Owned /\ Counted
<1>1. /\ cache = {} /\ entry = <<>> /\ thread = [t \in Threads |-> Idle]
      /\ stats = [c \in Counters |-> 0] /\ live = [s \in Slots |-> 0]
  BY DEF Init, StatsInit, Slots
<1>2. Handles = {} /\ entry \in Seq(Entry)
  BY <1>1 DEF Handles
<1>3. \A t \in Threads : thread[t] = Idle
  BY Zenon, <1>1
<1>4. Typed
  <2>1. thread \in [Threads -> ThreadState]
    BY Zenon, <1>1, IdleTyped
  <2> QED  BY <1>1, <1>2, <1>3, <2>1, IdleTyped DEF Typed
<1>5. \A t \in Threads : Placed(t) /\ SoleUser(t) /\ SoleDisposer(t) /\ SoleFirst(t)
  BY Zenon, <1>2, <1>3, IdleTyped DEF Placed, SoleUser, SoleDisposer, SoleFirst, Inserting, Disposing, Dooming
<1>6. /\ \A s : RaisedIn(s) = {}
      /\ RaisedTotal = {} /\ Prefetched = {} /\ Evicted = {} /\ EvictedRead = {} /\ ReadOnce = {}
  BY ZenonT(60), <1>2 DEF RaisedIn, Raised, RaisedTotal, Prefetched, Evicted, EvictedRead, ReadOnce, Dead, Kept, Leaving, Handles
<1>7. Cardinality({}) = 0
  BY FS_EmptySet
<1>8. Counted
  BY Zenon, <1>1, <1>6, <1>7 DEF Counted, Counters
<1> QED  BY ZenonT(60), <1>4, <1>5, <1>8 DEF Owned

(* Ownership and the counters are invariant. *)
LEMMA StatsInvariance ==
    Spec => [](Owned /\ Counted)
<1>1. Init => Owned /\ Counted
  BY ZenonT(60), StatsStart
<1>2. Owned /\ Counted /\ [Next]_vars => (Owned /\ Counted)'
  <2> SUFFICES ASSUME Owned, Counted, [Next]_vars  PROVE (Owned /\ Counted)'
    BY ZenonT(60)
  <2>1. ASSUME NEW t \in Threads, Access(t)  PROVE (Owned /\ Counted)'
    BY ZenonT(60), <2>1, AccessOwned, AccessCounted
  <2>2. ASSUME UNCHANGED <<cache, entry, thread, stats, live>>  PROVE (Owned /\ Counted)'
    <3>1. Owned'
      <4>1. Typed'
        BY ZenonT(60), <2>2 DEF Owned, Typed, Handles
      <4>2. ASSUME NEW t \in Threads  PROVE Placed(t)' /\ SoleUser(t)'
        BY Zenon, <2>2, <4>2 DEF Owned, Placed, SoleUser, Uses
      <4>3. ASSUME NEW t \in Threads  PROVE SoleDisposer(t)' /\ SoleFirst(t)'
        BY Zenon, <2>2, <4>3 DEF Owned, SoleDisposer, SoleFirst, Uses, Dooms, Handles
      <4> QED  BY Zenon, <4>1, <4>2, <4>3 DEF Owned
    <3>2. Alike /\ Steady
      BY Zenon, <2>2 DEF Alike, Steady, Kept, Using, Leaving, Handles, Uses
    <3> QED  BY ZenonT(60), <2>2, <3>1, <3>2, AlikeCounted
  <2> QED  BY ZenonT(60), <2>1, <2>2 DEF Next, vars, statsVars
<1> QED  BY <1>1, <1>2, PTL DEF Spec

(* The live counters never lose a block that can be found or used, and are *)
(* exact when nobody is at work (StatsCache::Insert raises them before the *)
(* cache has the block, Dispatch lowers them once nobody can find it).     *)
THEOREM LiveHolds ==
    Spec => []LiveExact
<1>1. Owned /\ Counted => LiveExact
  <2> SUFFICES ASSUME Owned, Counted  PROVE LiveExact
    OBVIOUS
  <2>0. Typed
    BY ZenonT(60) DEF Owned
  <2>1. ASSUME NEW h \in Held  PROVE h \in Raised /\ h \in RaisedTotal
    <3>1. h \in Handles /\ h \in Kept
      BY ZenonT(60), <2>1 DEF Held, Kept, Users, Uses, Handles
    <3>2. h \notin Using("live") /\ h \notin Using("total")
      <4>1. CASE h \in cache
        BY Zenon, <4>1, SetsApart
      <4>2. CASE \E t \in Users(h) : At(t, "using")
        BY <4>2 DEF Users, At, Using, Owned, SoleUser, Uses, Inserting
      <4> QED  BY ZenonT(60), <2>1, <4>1, <4>2 DEF Held
    <3> QED  BY ZenonT(60), <3>1, <3>2 DEF Raised, RaisedTotal
  <2>2. ASSUME Quiet  PROVE Raised = Held /\ RaisedTotal = Held
    <3>1. \A t \in Threads : thread[t].pc = "idle" /\ thread[t].handle = None /\ thread[t].gone = {}
      BY ZenonT(60), <2>2 DEF Quiet, At, Owned, Placed, Disposing
    <3>2. Kept = cache /\ cache \subseteq Handles
      BY ZenonT(60), <2>0, <3>1, HandlesNumbered DEF Kept, Uses, Typed
    <3>3. Leaving("total_down") = {}
      BY ZenonT(60), <3>1 DEF Leaving
    <3>4. cache \subseteq Held
      BY ZenonT(60), <3>2 DEF Held, Handles
    <3> QED  BY ZenonT(60), <2>1, <3>2, <3>3, <3>4 DEF Raised, RaisedTotal
  <2>3. ASSUME NEW s \in DOMAIN live
        PROVE  live[s] >= Cardinality(HeldIn(s)) /\ (Quiet => live[s] = Cardinality(HeldIn(s)))
    <3>1. s \in Slots /\ IsFiniteSet(RaisedIn(s)) /\ live[s] = Cardinality(RaisedIn(s))
      BY ZenonT(60), <2>0, <2>3, CountedFinite DEF Typed, Counted
    <3>2. HeldIn(s) \subseteq RaisedIn(s) /\ (Quiet => RaisedIn(s) = HeldIn(s))
      BY ZenonT(60), <2>1, <2>2 DEF HeldIn, RaisedIn
    <3>3. Cardinality(HeldIn(s)) <= Cardinality(RaisedIn(s)) /\ Cardinality(RaisedIn(s)) \in Nat /\ Cardinality(HeldIn(s)) \in Nat
      BY ZenonT(60), <3>1, <3>2, FS_Subset, FS_CardinalityType
    <3> QED  BY ZenonT(100), <3>1, <3>2, <3>3
  <2>4. stats.live_total >= Cardinality(Held) /\ (Quiet => stats.live_total = Cardinality(Held))
    <3>1. Held \subseteq RaisedTotal /\ IsFiniteSet(RaisedTotal)
      BY ZenonT(60), <2>0, <2>1, CountedFinite
    <3>2. Cardinality(Held) <= Cardinality(RaisedTotal) /\ Cardinality(RaisedTotal) \in Nat /\ Cardinality(Held) \in Nat
      BY ZenonT(60), <3>1, FS_Subset, FS_CardinalityType
    <3> QED  BY ZenonT(60), <2>2, <3>2 DEF Counted
  <2> QED  BY ZenonT(60), <2>3, <2>4 DEF LiveExact
<1> QED  BY <1>1, StatsInvariance, PTL

(* A prefetched block counts as read once, while it is resident, and as    *)
(* used if it was when it leaves: no more used than read or evicted, and   *)
(* no more of those than inserted (Lookup's fetch_add on the entry's hits, *)
(* Dispatch's load of it).                                                 *)
THEOREM PrefetchHolds ==
    Spec => []PrefetchAccounted
<1>1. Owned /\ Counted => PrefetchAccounted
  <2> SUFFICES ASSUME Owned, Counted  PROVE PrefetchAccounted
    OBVIOUS
  <2>0. Typed
    BY DEF Owned
  <2>1. EvictedRead \subseteq ReadOnce
    <3>1. EvictedRead \subseteq Dead /\ Dead \cap Using("first_read") = {}
      BY ZenonT(60) DEF EvictedRead, Evicted, Dead, Using, Kept
    <3>2. EvictedRead \subseteq {h \in Prefetched : entry[h].hits > 0}
      BY ZenonT(60) DEF EvictedRead, Evicted, Dead, Prefetched, Handles
    <3> QED  BY ZenonT(60), <3>1, <3>2 DEF ReadOnce
  <2>2. ReadOnce \subseteq Prefetched /\ EvictedRead \subseteq Evicted /\ Evicted \subseteq Prefetched
    BY ZenonT(60) DEF ReadOnce, EvictedRead, Evicted, Dead, Prefetched, Handles
  <2>3. /\ IsFiniteSet(Prefetched) /\ IsFiniteSet(Evicted) /\ IsFiniteSet(EvictedRead) /\ IsFiniteSet(ReadOnce)
    BY ZenonT(60), <2>0, CountedFinite
  <2>4. /\ Cardinality(EvictedRead) <= Cardinality(ReadOnce) /\ Cardinality(ReadOnce) <= Cardinality(Prefetched)
        /\ Cardinality(EvictedRead) <= Cardinality(Evicted) /\ Cardinality(Evicted) <= Cardinality(Prefetched)
    BY ZenonT(60), <2>1, <2>2, <2>3, FS_Subset
  <2>5. ASSUME Quiet
        PROVE  ReadOnce = {h \in Prefetched : entry[h].hits > 0} /\ Evicted = Prefetched \ cache
    <3>1. \A t \in Threads : /\ thread[t].pc = "idle" /\ thread[t].handle = None
                             /\ thread[t].gone = {} /\ thread[t].victim = None
      BY ZenonT(60), <2>5 DEF Quiet, At, Owned, Placed, Disposing, Dooming
    <3>2. Kept = cache
      BY ZenonT(60), <2>0, <3>1, HandlesNumbered DEF Kept, Uses, Typed
    <3>3. Using("first_read") = {} /\ Leaving("total_down") = {} /\ Leaving("precision") = {}
      BY ZenonT(60), <3>1 DEF Using, Leaving
    <3> QED  BY Zenon, <3>2, <3>3 DEF ReadOnce, Evicted, Dead, Prefetched, Handles
  <2> QED  BY Zenon, <2>4, <2>5 DEF PrefetchAccounted, Counted
<1> QED  BY <1>1, StatsInvariance, PTL
=============================================================================
