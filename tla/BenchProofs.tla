---------------------------- MODULE BenchProofs ----------------------------
(***************************************************************************)
(* The benchmark harnesses for any number of threads, any rates and any    *)
(* length of the warm-up and of the window: types and what each step does, *)
(* then one section for each result.                                       *)
(***************************************************************************)
EXTENDS Bench, FiniteSetTheorems, TLAPS

(* The provers that a leaf is tried with in turn, unless it names its own. *)
USE SMT, Zenon, Z3, SMTT(30), Z3T(30)

WorkerPcs ==
    {"new", "loop", "issue", "flag_read", "flag_write", "read", "write", "looked", "written", "exit"}

Worker == [pc: WorkerPcs, t0: Nat, measuring: BOOLEAN, perf: Nat]

MainPcs ==
    {"remove", "prepare", "fill", "start", "second", "reset", "health", "sleep", "load", "row",
     "stop", "join", "events", "summary", "failed", "done"}

Loads == [Counters -> Nat]

Main == [pc: MainPcs, sec: Nat, i: {1, 2}, prev: Loads, cur: Loads, base: Loads]

BenchType ==
    /\ engine \in {"leveldb", "rocksdb"}
    /\ now \in Nat /\ running \in BOOLEAN /\ measuring \in BOOLEAN
    /\ ops_issued \in Nat /\ writes_issued \in Nat
    /\ count \in Loads
    /\ worker \in [Threads -> Worker]
    /\ trace \in [Threads -> [buf: Nat, file: Nat]]
    /\ main \in Main
    /\ files \in [events: {"none", "earlier", "this"}, timeseries: {"none", "earlier", "this"}]
    /\ rows \in [n: Nat, look: Int, bg: Int, invalidated: Int] /\ health \in Int
    /\ seen \in [window: Nat, bg: Nat, unmeasured: Nat, early: Nat, ops: [Threads -> Nat]]

(* Adding a record to a TraceWriter, or closing it, leaves it one. *)
LEMMA WriterType ==
    ASSUME NEW w \in [buf: Nat, file: Nat]
    PROVE  /\ Add(w) \in [buf: Nat, file: Nat] /\ Close(w) \in [buf: Nat, file: Nat]
           /\ Add(w).file + Add(w).buf = w.file + w.buf + 1
           /\ Close(w).file = w.file + w.buf /\ Close(w).buf = 0
BY DEF Add, Close, FlushBuffer

(* A load of some counters is a load. *)
LEMMA LoadedType ==
    ASSUME BenchType, NEW known \in Loads, NEW group
    PROVE  Loaded(known, group) \in Loads
BY DEF BenchType, Loaded, Loads

(* The effect of each step of the loop on the thread's locals. *)
Effect(t, pc, t0, flag, perf) ==
    /\ worker' \in [Threads -> Worker]
    /\ \A u \in Threads \ {t} : worker'[u] = worker[u]
    /\ worker'[t].pc = pc /\ worker'[t].t0 = t0 /\ worker'[t].measuring = flag /\ worker'[t].perf = perf

(* What each step of WorkerLoop does to its own thread and to no other. *)
LEMMA WorkerEffects ==
    ASSUME BenchType, NEW t \in Threads
    PROVE  LET w == worker[t]
           IN  /\ Loop(t) => \/ Effect(t, "exit", w.t0, w.measuring, w.perf)
                             \/ Effect(t, "issue", now, w.measuring, w.perf)
               /\ Issue(t) => \E kind \in {"flag_read", "flag_write"} : Effect(t, kind, 0, w.measuring, w.perf)
               /\ Flag(t) => Effect(t, IF At(t, "flag_read") THEN "read" ELSE "write", w.t0, measuring, w.perf)
               /\ Read(t) => Effect(t, "looked", now, w.measuring, w.perf)
               /\ Get(t) => Effect(t, "looked", now, w.measuring, w.perf + 1)
               /\ Looked(t) \/ Count(t) => Effect(t, "loop", 0, FALSE, 0)
               /\ Write(t) => Effect(t, "written", now, w.measuring, w.perf)
               /\ Written(t) => Effect(t, "loop", 0, FALSE, w.perf)
<1> USE DEF Effect
<1> DEFINE w == worker[t]
<1>0. /\ worker \in [Threads -> Worker] /\ w \in Worker /\ now \in Nat /\ measuring \in BOOLEAN
      /\ w.perf \in Nat
  BY DEF BenchType, Worker
<1>1. ASSUME Loop(t)
      PROVE  \/ Effect(t, "exit", w.t0, w.measuring, w.perf)
             \/ Effect(t, "issue", now, w.measuring, w.perf)
  <2>1. CASE worker' = [worker EXCEPT ![t].pc = "exit"]
    BY <1>0, <2>1 DEF Worker, WorkerPcs
  <2>2. CASE worker' = [worker EXCEPT ![t].pc = "issue", ![t].t0 = now]
    <3> DEFINE x == [w EXCEPT !.pc = "issue", !.t0 = now]
    <3>1. x \in Worker /\ x.pc = "issue" /\ x.t0 = now /\ x.measuring = w.measuring /\ x.perf = w.perf
      BY Zenon, <1>0 DEF Worker, WorkerPcs
    <3>2. worker' = [worker EXCEPT ![t] = x]
      BY Zenon, <1>0, <2>2
    <3> QED  BY <1>0, <3>1, <3>2
  <2> QED  BY <1>1, <2>1, <2>2 DEF Loop, Goto
<1>2. ASSUME Issue(t)
      PROVE  \E kind \in {"flag_read", "flag_write"} : Effect(t, kind, 0, w.measuring, w.perf)
  <2>1. PICK kind \in {"flag_read", "flag_write"} : worker' = [worker EXCEPT ![t].pc = kind, ![t].t0 = 0]
    BY Zenon, <1>2 DEF Issue
  <2> DEFINE x == [w EXCEPT !.pc = kind, !.t0 = 0]
  <2>2. x \in Worker /\ x.pc = kind /\ x.t0 = 0 /\ x.measuring = w.measuring /\ x.perf = w.perf
    BY Zenon, <1>0 DEF Worker, WorkerPcs
  <2>3. worker' = [worker EXCEPT ![t] = x]
    BY Zenon, <1>0, <2>1
  <2>4. Effect(t, kind, 0, w.measuring, w.perf)
    BY <1>0, <2>2, <2>3
  <2> QED  BY <2>4
<1>3. ASSUME Flag(t)
      PROVE  Effect(t, IF At(t, "flag_read") THEN "read" ELSE "write", w.t0, measuring, w.perf)
  <2> DEFINE pc == IF At(t, "flag_read") THEN "read" ELSE "write"
             x == [w EXCEPT !.measuring = measuring, !.pc = pc]
  <2>1. pc \in WorkerPcs
    BY DEF WorkerPcs
  <2> HIDE DEF pc
  <2>2. x \in Worker /\ x.pc = pc /\ x.t0 = w.t0 /\ x.measuring = measuring /\ x.perf = w.perf
    BY Zenon, <1>0, <2>1 DEF Worker
  <2>3. worker' = [worker EXCEPT ![t] = x]
    BY Zenon, <1>0, <1>3 DEF Flag, pc
  <2>4. Effect(t, pc, w.t0, measuring, w.perf)
    BY <1>0, <2>2, <2>3
  <2> QED  BY <2>4 DEF pc
<1>4. ASSUME Read(t)  PROVE Effect(t, "looked", now, w.measuring, w.perf)
  <2> DEFINE x == [w EXCEPT !.pc = "looked", !.t0 = now]
  <2>1. x \in Worker /\ x.pc = "looked" /\ x.t0 = now /\ x.measuring = w.measuring /\ x.perf = w.perf
    BY Zenon, <1>0 DEF Worker, WorkerPcs
  <2>2. worker' = [worker EXCEPT ![t] = x]
    BY Zenon, <1>0, <1>4 DEF Read
  <2> QED  BY <1>0, <2>1, <2>2
<1>5. ASSUME Get(t)  PROVE Effect(t, "looked", now, w.measuring, w.perf + 1)
  <2> DEFINE k == w.perf + 1
             x == [w EXCEPT !.pc = "looked", !.t0 = now, !.perf = k]
  <2>1. k \in Nat
    BY <1>0
  <2>2. worker' = [worker EXCEPT ![t] = x]
    BY Zenon, <1>0, <1>5 DEF Get
  <2> HIDE DEF k
  <2>3. x \in Worker /\ x.pc = "looked" /\ x.t0 = now /\ x.measuring = w.measuring /\ x.perf = k
    BY Zenon, <1>0, <2>1 DEF Worker, WorkerPcs
  <2>4. Effect(t, "looked", now, w.measuring, k)
    BY <1>0, <2>2, <2>3
  <2> QED  BY <2>4 DEF k
<1>6. ASSUME Looked(t) \/ Count(t)  PROVE Effect(t, "loop", 0, FALSE, 0)
  <2>1. worker' = [worker EXCEPT ![t] = Top]
    BY <1>6 DEF Looked, Count, Taken
  <2> QED  BY <1>0, <2>1 DEF Top, Worker, WorkerPcs
<1>7. ASSUME Write(t)  PROVE Effect(t, "written", now, w.measuring, w.perf)
  <2> DEFINE x == [w EXCEPT !.pc = "written", !.t0 = now]
  <2>1. x \in Worker /\ x.pc = "written" /\ x.t0 = now /\ x.measuring = w.measuring /\ x.perf = w.perf
    BY Zenon, <1>0 DEF Worker, WorkerPcs
  <2>2. worker' = [worker EXCEPT ![t] = x]
    BY Zenon, <1>0, <1>7 DEF Write
  <2> QED  BY <1>0, <2>1, <2>2
<1>8. ASSUME Written(t)  PROVE Effect(t, "loop", 0, FALSE, w.perf)
  <2> DEFINE x == [w EXCEPT !.pc = "loop", !.t0 = 0, !.measuring = FALSE]
  <2>1. x \in Worker /\ x.pc = "loop" /\ x.t0 = 0 /\ x.measuring = FALSE /\ x.perf = w.perf
    BY Zenon, <1>0 DEF Worker, WorkerPcs
  <2>2. worker' = [worker EXCEPT ![t] = x]
    BY Zenon, <1>0, <1>8 DEF Written
  <2> QED  BY <1>0, <2>1, <2>2
<1> QED  BY Zenon, <1>1, <1>2, <1>3, <1>4, <1>5, <1>6, <1>7, <1>8

(* The threads' part of the types. *)
LEMMA WorkerTypes ==
    ASSUME BenchType, NEW t \in Threads, WorkerLoop(t)
    PROVE  BenchType'
<1>1. worker' \in [Threads -> Worker]
  BY Zenon, WorkerEffects DEF WorkerLoop, Effect
<1>2. worker[t] \in Worker /\ worker[t].perf \in Nat
  BY DEF BenchType, Worker
<1>3. ASSUME NEW c \in Counters, NEW n \in Nat  PROVE [count EXCEPT ![c] = @ + n] \in Loads
  BY DEF BenchType, Loads
<1> USE DEF BenchType, history, issued, Counters
<1>4. ASSUME Trace(t)
      PROVE  /\ trace' \in [Threads -> [buf: Nat, file: Nat]]
             /\ seen' \in [window: Nat, bg: Nat, unmeasured: Nat, early: Nat, ops: [Threads -> Nat]]
  <2>1. Add(trace[t]) \in [buf: Nat, file: Nat]
    BY WriterType
  <2>2. [seen EXCEPT !.ops[t] = @ + 1]
          \in [window: Nat, bg: Nat, unmeasured: Nat, early: Nat, ops: [Threads -> Nat]]
    OBVIOUS
  <2> QED  BY ZenonT(60), <1>4, <2>1, <2>2 DEF Trace
<1>5. CASE Loop(t) \/ Issue(t) \/ Flag(t) \/ Write(t)
  BY <1>1, <1>5 DEF Loop, Issue, Flag, Write
<1>6. CASE Read(t)
  <2>1. count' \in Loads
    BY Zenon, <1>3, <1>6 DEF Read, Raise
  <2>2. seen' \in [window: Nat, bg: Nat, unmeasured: Nat, early: Nat, ops: [Threads -> Nat]]
    BY <1>6 DEF Read
  <2> QED  BY <1>1, <1>6, <2>1, <2>2 DEF Read
<1>7. CASE Get(t)
  <2>1. count' \in Loads
    BY Zenon, <1>3, <1>7 DEF Get, Raise
  <2>2. seen' \in [window: Nat, bg: Nat, unmeasured: Nat, early: Nat, ops: [Threads -> Nat]]
    <3> DEFINE a == IF measuring THEN seen.window + 1 ELSE seen.window
               b == IF worker[t].measuring THEN seen.unmeasured ELSE seen.unmeasured + 1
    <3>1. seen' = [seen EXCEPT !.window = a, !.unmeasured = b]
      BY <1>7 DEF Get
    <3>2. a \in Nat /\ b \in Nat
      OBVIOUS
    <3> HIDE DEF a, b
    <3> QED  BY Zenon, <3>1, <3>2
  <2> QED  BY <1>1, <1>7, <2>1, <2>2 DEF Get
<1>8. CASE Looked(t)
  BY <1>1, <1>3, <1>4, <1>8 DEF Looked, Raise
<1>9. CASE Count(t)
  BY <1>1, <1>2, <1>3, <1>4, <1>9 DEF Count
<1>10. CASE Written(t)
  BY <1>1, <1>4, <1>10 DEF Written
<1> QED  BY <1>5, <1>6, <1>7, <1>8, <1>9, <1>10 DEF WorkerLoop

(* The main thread's part. *)
LEMMA MainTypes ==
    ASSUME BenchType, Run
    PROVE  BenchType'
<1> USE DEF BenchType, history, issued
<1>1. ASSUME NEW i \in {1, 2}, NEW p \in MainPcs, NEW n \in Nat, NEW a \in Loads, NEW b \in Loads
      PROVE  /\ [main EXCEPT !.pc = p] \in Main /\ [main EXCEPT !.i = i] \in Main
             /\ [main EXCEPT !.i = i, !.pc = p] \in Main
             /\ [main EXCEPT !.sec = n, !.pc = p] \in Main
             /\ [main EXCEPT !.i = i, !.pc = p, !.prev = a, !.base = b] \in Main
             /\ [main EXCEPT !.i = i, !.pc = p, !.cur = a] \in Main
             /\ [main EXCEPT !.prev = a, !.cur = b, !.sec = n, !.pc = p] \in Main
             /\ [main EXCEPT !.pc = p, !.cur = a] \in Main
  BY Zenon DEF Main
<1>2. /\ main.pc \in MainPcs /\ main.i \in {1, 2} /\ main.sec \in Nat /\ main.sec + 1 \in Nat
      /\ main.prev \in Loads /\ main.cur \in Loads /\ main.base \in Loads /\ NoCounts \in Loads
  BY DEF Main, NoCounts, Loads
<1>3. CASE Remove
  <2>1. RemoveOrder[1] = "events" /\ RemoveOrder[2] = "timeseries" /\ Len(RemoveOrder) = 2
    BY DEF RemoveOrder
  <2>2. main' \in Main
    <3>1. CASE main.i = 1
      BY <1>3, <2>1, <3>1 DEF Remove, Main
    <3>2. CASE main.i = 2
      BY Zenon, <1>3, <2>1, <3>2 DEF Remove, Main, MainPcs
    <3> QED  BY <1>2, <3>1, <3>2
  <2>3. files' \in [events: {"none", "earlier", "this"}, timeseries: {"none", "earlier", "this"}]
    BY <1>2, <1>3, <2>1 DEF Remove
  <2> QED  BY Zenon, <1>3, <2>2, <2>3 DEF Remove
<1>4. CASE Prepare
  BY ZenonT(60), <1>1, <1>4 DEF Prepare, MainPcs
<1>5. CASE Outputs
  BY ZenonT(60), <1>1, <1>5 DEF Outputs, MainPcs
<1>6. CASE Start
  BY Zenon, <1>1, <1>6 DEF Start, MainPcs, Top, Worker, WorkerPcs
<1>7. CASE Second
  BY <1>7 DEF Second, Main, MainPcs
<1>8. CASE Reset
  <2>1. /\ Loaded(main.prev, ResetOrder[main.i]) \in Loads
        /\ (IF engine = "leveldb" THEN Base(ResetOrder[main.i]) ELSE main.base) \in Loads
    BY <1>2, LoadedType DEF Base
  <2>2. /\ (IF main.i = Len(ResetOrder) THEN 1 ELSE main.i + 1) \in {1, 2}
        /\ (IF main.i = Len(ResetOrder) THEN "health" ELSE main.pc) \in MainPcs
    BY <1>2 DEF ResetOrder, MainPcs
  <2>3. main' \in Main
    <3> DEFINE i == IF main.i = Len(ResetOrder) THEN 1 ELSE main.i + 1
               pc == IF main.i = Len(ResetOrder) THEN "health" ELSE main.pc
               prev == Loaded(main.prev, ResetOrder[main.i])
               base == IF engine = "leveldb" THEN Base(ResetOrder[main.i]) ELSE main.base
    <3>1. main' = [main EXCEPT !.i = i, !.pc = pc, !.prev = prev, !.base = base]
      BY <1>8 DEF Reset, Main
    <3> HIDE DEF i, pc, prev, base
    <3>2. i \in {1, 2} /\ pc \in MainPcs /\ prev \in Loads /\ base \in Loads
      BY <2>1, <2>2 DEF i, pc, prev, base
    <3> QED  BY Zenon, <3>1, <3>2 DEF Main
  <2> QED  BY <1>8, <2>3 DEF Reset
<1>9. CASE Health
  BY <1>9 DEF Health, Main, MainPcs
<1>10. CASE Sleep
  <2>1. main' \in Main
    BY Zenon, <1>1, <1>2, <1>10 DEF Sleep, MainPcs
  <2> QED  BY <1>10, <2>1 DEF Sleep
<1>11. CASE Load
  <2>1. Loaded(main.cur, LoadOrder[main.i]) \in Loads
    BY <1>2, LoadedType
  <2>2. /\ (IF main.i = Len(LoadOrder) THEN 1 ELSE main.i + 1) \in {1, 2}
        /\ (IF main.i = Len(LoadOrder) THEN "row" ELSE main.pc) \in MainPcs
    BY <1>2 DEF LoadOrder, MainPcs
  <2>3. main' \in Main
    BY ZenonT(60), <1>1, <1>11, <2>1, <2>2 DEF Load
  <2> QED  BY <1>11, <2>3 DEF Load
<1>12. CASE Row
  <2>1. (IF main.sec = total_secs THEN "stop" ELSE "second") \in MainPcs
    BY DEF MainPcs
  <2>2. main' \in Main
    BY Zenon, <1>1, <1>2, <1>12, <2>1 DEF Row
  <2>3. /\ Lookups(main.cur) \in Nat /\ Lookups(main.prev) \in Nat /\ BgLookups(main.cur) \in Int
        /\ main.cur["invalidated"] \in Nat /\ main.prev["invalidated"] \in Nat
    BY <1>2 DEF Lookups, BgLookups, Beyond, Counters, Loads
  <2>4. rows' \in [n: Nat, look: Int, bg: Int, invalidated: Int] /\ health' \in Int
    BY <1>12, <2>3 DEF Row
  <2> QED  BY <1>12, <2>2, <2>4 DEF Row
<1>13. CASE Stop
  BY Zenon, <1>1, <1>13 DEF Stop, MainPcs
<1>14. CASE Join
  <2>1. trace' \in [Threads -> [buf: Nat, file: Nat]]
    BY <1>14, WriterType DEF Join
  <2>2. (IF engine = "leveldb" THEN "events" ELSE "summary") \in MainPcs
    BY DEF MainPcs
  <2>3. main' \in Main
    BY <1>14, <2>2 DEF Join, Main
  <2> QED  BY <1>14, <2>1, <2>3 DEF Join
<1>15. CASE Events
  BY ZenonT(60), <1>1, <1>15 DEF Events, MainPcs
<1>16. CASE Summary
  BY Zenon, <1>1, <1>16 DEF Summary, MainPcs
<1> QED
  BY <1>3, <1>4, <1>5, <1>6, <1>7, <1>8, <1>9, <1>10, <1>11, <1>12, <1>13, <1>14, <1>15, <1>16 DEF Run

(* The counters stay natural numbers, the threads at a place of the loop.  *)
THEOREM BenchTyped == Spec => []BenchType
<1>1. Init => BenchType
  <2> SUFFICES ASSUME Init  PROVE BenchType
    OBVIOUS
  <2>1. NoCounts \in Loads
    BY DEF NoCounts, Loads
  <2>2. main \in Main
    BY <2>1 DEF Init, Main, MainPcs
  <2>3. worker \in [Threads -> Worker]
    BY Zenon DEF Init, Top, Worker, WorkerPcs
  <2>4. engine \in {"leveldb", "rocksdb"} /\ count \in Loads
    BY <2>1, BenchAssumption DEF Init
  <2>5. files \in [events: {"none", "earlier", "this"}, timeseries: {"none", "earlier", "this"}]
    BY DEF Init, Left
  <2>6. /\ trace \in [Threads -> [buf: Nat, file: Nat]]
        /\ rows \in [n: Nat, look: Int, bg: Int, invalidated: Int] /\ health \in Int
        /\ seen \in [window: Nat, bg: Nat, unmeasured: Nat, early: Nat, ops: [Threads -> Nat]]
    BY DEF Init
  <2> QED  BY Zenon, <2>2, <2>3, <2>4, <2>5, <2>6 DEF Init, BenchType
<1>2. BenchType /\ [Next]_vars => BenchType'
  <2> SUFFICES ASSUME BenchType, [Next]_vars  PROVE BenchType'
    OBVIOUS
  <2>1. CASE Tick
    BY <2>1 DEF Tick, BenchType, history, issued
  <2>2. CASE Background
    BY <2>2 DEF Background, BenchType, history, issued, Raise, Counters, Loads
  <2>3. CASE UNCHANGED vars
    BY <2>3 DEF vars, BenchType, history, issued
  <2> QED  BY <2>1, <2>2, <2>3, WorkerTypes, MainTypes DEF Next
<1> QED  BY <1>1, <1>2, PTL DEF Spec

-----------------------------------------------------------------------------
(* The effect of each step of Run on the main thread's locals *)
MainEffect(pc, sec, i, prev, cur) ==
    main'.pc = pc /\ main'.sec = sec /\ main'.i = i /\ main'.prev = prev /\ main'.cur = cur

To(pc) == MainEffect(pc, main.sec, main.i, main.prev, main.cur)

(* Where each step of Run leads and which of its locals it moves. *)
LEMMA MainEffects ==
    ASSUME BenchType
    PROVE  /\ Remove => \/ main.i = 1 /\ MainEffect("remove", main.sec, 2, main.prev, main.cur)
                        \/ main.i = 2 /\ MainEffect("prepare", main.sec, 1, main.prev, main.cur)
           /\ Prepare => To("fill") \/ To("failed")
           /\ Outputs => To("start") \/ To("failed")
           /\ Start => To("second")
           /\ Second => To(IF main.sec = warmup + 1 THEN "reset" ELSE "health")
           /\ Reset => LET prev == Loaded(main.prev, ResetOrder[main.i])
                       IN  \/ main.i = 1 /\ MainEffect("reset", main.sec, 2, prev, main.cur)
                           \/ main.i = 2 /\ MainEffect("health", main.sec, 1, prev, main.cur)
           /\ Health => To("sleep")
           /\ Sleep => \/ /\ main.sec <= warmup
                          /\ MainEffect("second", main.sec + 1, main.i, main.prev, main.cur)
                       \/ ~(main.sec <= warmup) /\ To("load")
           /\ Load => LET cur == Loaded(main.cur, LoadOrder[main.i])
                      IN  \/ main.i = 1 /\ MainEffect("load", main.sec, 2, main.prev, cur)
                          \/ main.i = 2 /\ MainEffect("row", main.sec, 1, main.prev, cur)
           /\ Row => MainEffect(IF main.sec = total_secs THEN "stop" ELSE "second", main.sec + 1, main.i,
                                main.cur, NoCounts)
           /\ Stop => To("join")
           /\ Join => To(IF engine = "leveldb" THEN "events" ELSE "summary")
           /\ Events => To("summary")
           /\ Summary => MainEffect("done", main.sec, main.i, main.prev, count)
<1> USE DEF To, MainEffect
<1>0. main \in Main /\ main.i \in {1, 2}
  BY DEF BenchType, Main
<1>1. ASSUME Remove
      PROVE  \/ main.i = 1 /\ MainEffect("remove", main.sec, 2, main.prev, main.cur)
             \/ main.i = 2 /\ MainEffect("prepare", main.sec, 1, main.prev, main.cur)
  <2>1. Len(RemoveOrder) = 2
    BY DEF RemoveOrder
  <2>2. CASE main.i = 1
    BY <1>0, <1>1, <2>1, <2>2 DEF Remove, Main
  <2>3. CASE main.i = 2
    BY <1>0, <1>1, <2>1, <2>3 DEF Remove, Main
  <2> QED  BY <1>0, <2>2, <2>3
<1>2. /\ Prepare => To("fill") \/ To("failed")
      /\ Outputs => To("start") \/ To("failed")
      /\ Start => To("second")
      /\ Health => To("sleep")
      /\ Stop => To("join")
      /\ Events => To("summary")
      /\ Summary => MainEffect("done", main.sec, main.i, main.prev, count)
  BY Zenon, <1>0 DEF Prepare, Outputs, Start, Health, Stop, Events, Summary, Main
<1>3. Second => To(IF main.sec = warmup + 1 THEN "reset" ELSE "health")
  BY <1>0 DEF Second, Main
<1>4. Join => To(IF engine = "leveldb" THEN "events" ELSE "summary")
  BY <1>0 DEF Join, Main
<1>5. ASSUME Reset
      PROVE  LET prev == Loaded(main.prev, ResetOrder[main.i])
             IN  \/ main.i = 1 /\ MainEffect("reset", main.sec, 2, prev, main.cur)
                 \/ main.i = 2 /\ MainEffect("health", main.sec, 1, prev, main.cur)
  <2> DEFINE i == IF main.i = Len(ResetOrder) THEN 1 ELSE main.i + 1
             pc == IF main.i = Len(ResetOrder) THEN "health" ELSE main.pc
             prev == Loaded(main.prev, ResetOrder[main.i])
             base == IF engine = "leveldb" THEN Base(ResetOrder[main.i]) ELSE main.base
  <2>1. Len(ResetOrder) = 2 /\ main.pc = "reset"
    BY <1>5 DEF ResetOrder, Reset
  <2>2. main' = [main EXCEPT !.i = i, !.pc = pc, !.prev = prev, !.base = base]
    BY <1>5 DEF Reset, Main
  <2>3. \/ main.i = 1 /\ i = 2 /\ pc = "reset"
        \/ main.i = 2 /\ i = 1 /\ pc = "health"
    BY <1>0, <2>1
  <2> HIDE DEF i, pc, prev, base
  <2>4. MainEffect(pc, main.sec, i, prev, main.cur)
    BY <1>0, <2>2 DEF Main
  <2>5. \/ main.i = 1 /\ MainEffect("reset", main.sec, 2, prev, main.cur)
        \/ main.i = 2 /\ MainEffect("health", main.sec, 1, prev, main.cur)
    BY <2>3, <2>4
  <2> QED  BY <2>5 DEF prev
<1>6. ASSUME Load
      PROVE  LET cur == Loaded(main.cur, LoadOrder[main.i])
             IN  \/ main.i = 1 /\ MainEffect("load", main.sec, 2, main.prev, cur)
                 \/ main.i = 2 /\ MainEffect("row", main.sec, 1, main.prev, cur)
  <2> DEFINE i == IF main.i = Len(LoadOrder) THEN 1 ELSE main.i + 1
             pc == IF main.i = Len(LoadOrder) THEN "row" ELSE main.pc
             cur == Loaded(main.cur, LoadOrder[main.i])
  <2>1. Len(LoadOrder) = 2 /\ main.pc = "load"
    BY <1>6 DEF LoadOrder, Load
  <2>2. main' = [main EXCEPT !.i = i, !.pc = pc, !.cur = cur]
    BY <1>6 DEF Load, Main
  <2>3. \/ main.i = 1 /\ i = 2 /\ pc = "load"
        \/ main.i = 2 /\ i = 1 /\ pc = "row"
    BY <1>0, <2>1
  <2> HIDE DEF i, pc, cur
  <2>4. MainEffect(pc, main.sec, i, main.prev, cur)
    BY <1>0, <2>2 DEF Main
  <2>5. \/ main.i = 1 /\ MainEffect("load", main.sec, 2, main.prev, cur)
        \/ main.i = 2 /\ MainEffect("row", main.sec, 1, main.prev, cur)
    BY <2>3, <2>4
  <2> QED  BY <2>5 DEF cur
<1>7. ASSUME Sleep
      PROVE  \/ main.sec <= warmup /\ MainEffect("second", main.sec + 1, main.i, main.prev, main.cur)
             \/ ~(main.sec <= warmup) /\ To("load")
  BY <1>0, <1>7 DEF Sleep, Main
<1>8. Row => MainEffect(IF main.sec = total_secs THEN "stop" ELSE "second", main.sec + 1, main.i,
                        main.cur, NoCounts)
  BY <1>0 DEF Row, Main
<1> QED  BY <1>1, <1>2, <1>3, <1>4, <1>5, <1>6, <1>7, <1>8


-----------------------------------------------------------------------------
(* Pacing *)
Issuing == {t \in Threads : worker[t].pc = "issue"}
Writing == {t \in Threads : worker[t].pc \in {"flag_write", "write"}}

OpsPaced(n, at) == op_rate > 0 => \E t \in 0 .. at : n <= OpsAllowed(t) + Cardinality(Threads)
WritesPaced(n, at) == write_rate > 0 /\ read_ratio > 0 => n <= WritesAllowed(at) + Cardinality(Threads)

(* A thread between a budget's check and the counter it raises has a place *)
(* of its own; the time a write's budget is checked at has passed.         *)
PacedInv ==
    /\ now \in 0 .. MaxTime
    /\ OpsPaced(ops_issued + Cardinality(Issuing), now)
    /\ WritesPaced(writes_issued + Cardinality(Writing), now)
    /\ \A t \in Threads : worker[t].pc = "issue" => worker[t].t0 <= now

(* Division by a positive number keeps the order. *)
LEMMA DivMonotone ==
    ASSUME NEW a \in Nat, NEW b \in Nat, NEW p \in Nat \ {0}, a <= b
    PROVE  a \div p \in Nat /\ a \div p <= b \div p
<1> DEFINE q == a \div p
           r == b \div p
<1>1. q \in Nat /\ r \in Nat /\ p * q <= a /\ b < p * r + p
  OBVIOUS
<1> HIDE DEF q, r
<1>2. ASSUME q > r  PROVE FALSE
  <2>1. q >= r + 1
    BY <1>1, <1>2
  <2>2. p * q >= p * (r + 1)
    BY <1>1, <2>1
  <2>3. p * (r + 1) = p * r + p
    BY <1>1
  <2> QED  BY <1>1, <2>2, <2>3
<1>3. q \in Nat /\ q <= r
  BY <1>1, <1>2
<1> QED  BY <1>3 DEF q, r

(* The writes' budget only grows; the operations' may not. *)
LEMMA WritesAllowedGrows ==
    ASSUME NEW t \in Nat, NEW u \in Nat, t <= u
    PROVE  WritesAllowed(t) \in Nat /\ WritesAllowed(t) <= WritesAllowed(u)
<1>1. write_rate \in Nat /\ Per \in Nat \ {0}
  BY BenchAssumption
<1>2. write_rate * t \in Nat /\ write_rate * u \in Nat /\ write_rate * t <= write_rate * u
  BY <1>1
<1> QED  BY <1>1, <1>2, DivMonotone DEF WritesAllowed

LEMMA AllowedType ==
    ASSUME NEW t \in 0 .. MaxTime
    PROVE  OpsAllowed(t) \in Nat /\ WritesAllowed(t) \in Nat
<1>1. t \in Nat /\ t <= t /\ Per \in Nat \ {0} /\ op_rate \in Nat /\ wave[t] \in Nat
  BY BenchAssumption
<1>2. op_rate * t + wave[t] \in Nat /\ op_rate * t + wave[t] <= op_rate * t + wave[t]
  BY <1>1
<1>3. OpsAllowed(t) \in Nat
  BY Zenon, <1>1, <1>2, DivMonotone DEF OpsAllowed
<1> QED  BY Zenon, <1>1, <1>3, WritesAllowedGrows

(* Sets of threads have at most as many members as there are threads.      *)
LEMMA ThreadSets ==
    ASSUME NEW S \in SUBSET Threads
    PROVE  /\ IsFiniteSet(S) /\ Cardinality(S) \in Nat /\ Cardinality(Threads) \in Nat
           /\ Cardinality(S) <= Cardinality(Threads)
           /\ \A t \in S : Cardinality(S \ {t}) = Cardinality(S) - 1
BY BenchAssumption, FS_Subset, FS_CardinalityType, FS_RemoveElement

(* Fewer operations, or a later time, are as well paced. *)
LEMMA PacedStays ==
    ASSUME NEW n \in Int, NEW m \in Int, NEW at \in 0 .. MaxTime, NEW then \in 0 .. MaxTime, m <= n, at <= then
    PROVE  (OpsPaced(n, at) => OpsPaced(m, then)) /\ (WritesPaced(n, at) => WritesPaced(m, then))
<1>0. Cardinality(Threads) \in Nat /\ at \in Nat /\ then \in Nat /\ MaxTime \in Nat /\ at <= MaxTime
  <2>1. MaxTime \in Nat /\ Cardinality(Threads) \in Nat
    BY ThreadSets, BenchAssumption
  <2> QED  BY <2>1
<1>1. ASSUME OpsPaced(n, at), op_rate > 0
      PROVE  \E t \in 0 .. then : m <= OpsAllowed(t) + Cardinality(Threads)
  <2>1. PICK t \in 0 .. at : n <= OpsAllowed(t) + Cardinality(Threads)
    BY Zenon, <1>1 DEF OpsPaced
  <2>2. t \in 0 .. MaxTime /\ t \in 0 .. then
    BY <1>0
  <2>3. OpsAllowed(t) \in Nat
    BY Zenon, <2>2, AllowedType
  <2>4. m <= OpsAllowed(t) + Cardinality(Threads)
    BY <1>0, <2>1, <2>3
  <2> QED  BY Zenon, <2>2, <2>4
<1>2. ASSUME WritesPaced(n, at), write_rate > 0 /\ read_ratio > 0
      PROVE  m <= WritesAllowed(then) + Cardinality(Threads)
  <2>1. n <= WritesAllowed(at) + Cardinality(Threads)
    BY Zenon, <1>2 DEF WritesPaced
  <2>2. WritesAllowed(at) \in Nat /\ WritesAllowed(then) \in Nat /\ WritesAllowed(at) <= WritesAllowed(then)
    BY Zenon, <1>0, WritesAllowedGrows, AllowedType
  <2> QED  BY <1>0, <2>1, <2>2
<1>3. OpsPaced(n, at) => OpsPaced(m, then)
  BY Zenon, <1>1 DEF OpsPaced
<1>4. WritesPaced(n, at) => WritesPaced(m, then)
  BY Zenon, <1>2 DEF WritesPaced
<1> QED  BY Zenon, <1>3, <1>4

(* A thread that finds a counter within its budget leaves it well paced,   *)
(* however many threads are between their check and the counter.           *)
LEMMA PacedByCheck ==
    ASSUME NEW n \in Nat, NEW S \in SUBSET Threads, NEW t \in 0 .. MaxTime, NEW at \in 0 .. MaxTime, t <= at
    PROVE  /\ ~OverBudget(n, op_rate, OpsAllowed(t)) => OpsPaced(n + Cardinality(S), at)
           /\ (read_ratio > 0 => ~OverBudget(n, write_rate, WritesAllowed(t)))
                => WritesPaced(n + Cardinality(S), at)
<1>1. /\ Cardinality(S) \in Nat /\ Cardinality(Threads) \in Nat /\ Cardinality(S) <= Cardinality(Threads)
      /\ t \in 0 .. at
  BY ThreadSets
<1>2. OpsAllowed(t) \in Nat /\ WritesAllowed(t) \in Nat
  BY Zenon, AllowedType
<1>3. ASSUME ~OverBudget(n, op_rate, OpsAllowed(t)), op_rate > 0
      PROVE  n + Cardinality(S) <= OpsAllowed(t) + Cardinality(Threads)
  BY <1>1, <1>2, <1>3 DEF OverBudget
<1>4. ASSUME read_ratio > 0 => ~OverBudget(n, write_rate, WritesAllowed(t)), write_rate > 0 /\ read_ratio > 0
      PROVE  n + Cardinality(S) <= WritesAllowed(at) + Cardinality(Threads)
  <2>1. WritesAllowed(at) \in Nat /\ WritesAllowed(t) <= WritesAllowed(at)
    <3>1. t \in Nat /\ at \in Nat
      OBVIOUS
    <3> QED  BY Zenon, <3>1, WritesAllowedGrows, AllowedType
  <2> QED  BY <1>1, <1>2, <1>4, <2>1 DEF OverBudget
<1>5. ~OverBudget(n, op_rate, OpsAllowed(t)) => OpsPaced(n + Cardinality(S), at)
  BY Zenon, <1>1, <1>3 DEF OpsPaced
<1>6. (read_ratio > 0 => ~OverBudget(n, write_rate, WritesAllowed(t))) => WritesPaced(n + Cardinality(S), at)
  BY Zenon, <1>4 DEF WritesPaced
<1> QED  BY Zenon, <1>5, <1>6

(* A step that neither passes a check nor raises a counter without one. *)
LEMMA PacedAgain ==
    ASSUME BenchType, BenchType', PacedInv, now' \in 0 .. MaxTime, now <= now',
           ops_issued' + Cardinality(Issuing') <= ops_issued + Cardinality(Issuing),
           writes_issued' + Cardinality(Writing') <= writes_issued + Cardinality(Writing),
           \A t \in Threads : worker'[t].pc = "issue" => worker'[t].t0 <= now'
    PROVE  PacedInv'
<1>1. /\ Issuing \in SUBSET Threads /\ Writing \in SUBSET Threads
      /\ Issuing' \in SUBSET Threads /\ Writing' \in SUBSET Threads
  BY Zenon DEF Issuing, Writing
<1>2. /\ ops_issued + Cardinality(Issuing) \in Int /\ writes_issued + Cardinality(Writing) \in Int
      /\ ops_issued' + Cardinality(Issuing') \in Int /\ writes_issued' + Cardinality(Writing') \in Int
  <2>1. /\ Cardinality(Issuing) \in Nat /\ Cardinality(Issuing') \in Nat
        /\ Cardinality(Writing) \in Nat /\ Cardinality(Writing') \in Nat
    BY <1>1, ThreadSets
  <2> QED  BY <2>1 DEF BenchType
<1>3. /\ OpsPaced(ops_issued' + Cardinality(Issuing'), now')
      /\ WritesPaced(writes_issued' + Cardinality(Writing'), now')
  BY Zenon, <1>2, PacedStays DEF PacedInv
<1> QED  BY Zenon, <1>3 DEF PacedInv, OpsPaced, WritesPaced, OpsAllowed, WritesAllowed

(* Workers pass the budgets together, but never by more than one operation *)
(* each (WorkerLoop, --op_rate, --sine_a and --write_rate), for any rates, *)
(* any modulation of the operations' rate and any number of threads.       *)
THEOREM PacingKept == Spec => []PacedTogether
<1>1. Init => PacedInv
  <2> SUFFICES ASSUME Init  PROVE PacedInv
    OBVIOUS
  <2>1. Issuing = {} /\ Writing = {}
    BY DEF Init, Issuing, Writing, Top
  <2>2. now = 0 /\ ops_issued = 0 /\ writes_issued = 0 /\ \A t \in Threads : worker[t].pc # "issue"
    BY DEF Init, Top
  <2>3. 0 \in 0 .. MaxTime /\ 0 <= 0 /\ 0 \in Nat
    BY BenchAssumption
  <2>4. OpsAllowed(0) \in Nat /\ WritesAllowed(0) \in Nat
    BY Zenon, <2>3, AllowedType
  <2>5. ~OverBudget(0, op_rate, OpsAllowed(0)) /\ ~OverBudget(0, write_rate, WritesAllowed(0))
    BY <2>4 DEF OverBudget
  <2>6. OpsPaced(0 + Cardinality({}), 0) /\ WritesPaced(0 + Cardinality({}), 0)
    BY Zenon, <2>3, <2>5, PacedByCheck
  <2> QED  BY Zenon, <2>1, <2>2, <2>3, <2>6 DEF PacedInv
<1>2. BenchType /\ BenchType' /\ PacedInv /\ [Next]_vars => PacedInv'
  <2> SUFFICES ASSUME BenchType, BenchType', PacedInv, [Next]_vars  PROVE PacedInv'
    OBVIOUS
  <2>0. /\ now \in 0 .. MaxTime /\ now \in Nat /\ now <= now
        /\ ops_issued \in Nat /\ writes_issued \in Nat
        /\ Issuing \in SUBSET Threads /\ Writing \in SUBSET Threads
        /\ Issuing' \in SUBSET Threads /\ Writing' \in SUBSET Threads
    BY DEF BenchType, PacedInv, Issuing, Writing
  <2>1. /\ Cardinality(Issuing) \in Nat /\ Cardinality(Issuing') \in Nat
        /\ Cardinality(Writing) \in Nat /\ Cardinality(Writing') \in Nat
    BY <2>0, ThreadSets
  <2>2. ASSUME NEW t \in Threads, Loop(t)  PROVE PacedInv'
    <3>1. /\ worker[t].pc = "loop" /\ UNCHANGED <<now, ops_issued, writes_issued>>
          /\ \A u \in Threads \ {t} : worker'[u] = worker[u]
          /\ \/ worker'[t].pc = "exit"
             \/ worker'[t].pc = "issue" /\ worker'[t].t0 = now
      BY Zenon, <2>2, WorkerEffects DEF Loop, At, issued, Effect
    <3>2. Writing' = Writing
      BY <3>1 DEF Writing
    <3>3. \A u \in Threads : worker'[u].pc = "issue" => worker'[u].t0 <= now'
      BY <2>0, <3>1 DEF PacedInv
    <3>4. CASE worker'[t].pc = "exit"
      <4>1. Issuing' = Issuing
        BY <3>1, <3>4 DEF Issuing
      <4> QED  BY <2>0, <2>1, <3>1, <3>2, <3>3, <4>1, PacedAgain
    <3>5. CASE worker'[t].pc = "issue"
      <4>1. worker' # [worker EXCEPT ![t].pc = "exit"]
        BY <3>5 DEF BenchType, Worker
      <4>2. ~OverBudget(ops_issued, op_rate, OpsAllowed(now))
        BY Zenon, <2>2, <4>1 DEF Loop, Goto
      <4>3. OpsPaced(ops_issued + Cardinality(Issuing'), now)
        BY Zenon, <2>0, <4>2, PacedByCheck
      <4>4. WritesPaced(writes_issued + Cardinality(Writing), now)
        BY Zenon DEF PacedInv
      <4> QED  BY Zenon, <2>0, <3>1, <3>2, <3>3, <4>3, <4>4
               DEF PacedInv, OpsPaced, WritesPaced, OpsAllowed, WritesAllowed
    <3> QED  BY <3>1, <3>4, <3>5
  <2>3. ASSUME NEW t \in Threads, Issue(t)  PROVE PacedInv'
    <3>1. /\ worker[t].pc = "issue" /\ ops_issued' = ops_issued + 1 /\ UNCHANGED <<now, writes_issued>>
      BY <2>3 DEF Issue, At
    <3>2. PICK kind \in {"flag_read", "flag_write"} :
             /\ kind = "flag_write" =>
                  (read_ratio > 0 => ~OverBudget(writes_issued, write_rate, WritesAllowed(worker[t].t0)))
             /\ worker' = [worker EXCEPT ![t].pc = kind, ![t].t0 = 0]
      BY Zenon, <2>3 DEF Issue
    <3>3. worker'[t].pc = kind /\ \A u \in Threads \ {t} : worker'[u] = worker[u]
      BY <3>2 DEF BenchType, Worker
    <3>4. t \in Issuing /\ Issuing' = Issuing \ {t}
      BY <3>1, <3>3 DEF Issuing
    <3>5. Cardinality(Issuing') = Cardinality(Issuing) - 1
      BY <2>0, <3>4, ThreadSets
    <3>6. \A u \in Threads : worker'[u].pc = "issue" => worker'[u].t0 <= now'
      BY <3>1, <3>3 DEF PacedInv
    <3>7. ops_issued' + Cardinality(Issuing') = ops_issued + Cardinality(Issuing)
      BY <2>0, <2>1, <3>1, <3>5
    <3>8. CASE kind = "flag_read"
      <4>1. Writing' = Writing
        BY <3>1, <3>3, <3>8 DEF Writing
      <4>2. /\ ops_issued' + Cardinality(Issuing') <= ops_issued + Cardinality(Issuing)
            /\ writes_issued' + Cardinality(Writing') <= writes_issued + Cardinality(Writing)
        BY <2>0, <2>1, <3>1, <3>7, <4>1
      <4> QED  BY Zenon, <2>0, <3>1, <3>6, <4>2, PacedAgain
    <3>9. CASE kind = "flag_write"
      <4>1. worker[t].t0 \in 0 .. MaxTime /\ worker[t].t0 <= now
        <5>1. worker[t].t0 \in Nat /\ worker[t].t0 <= now
          BY <3>1 DEF BenchType, Worker, PacedInv
        <5>2. MaxTime \in Nat
          BY Zenon, BenchAssumption
        <5> QED  BY <2>0, <5>1, <5>2
      <4>2. WritesPaced(writes_issued + Cardinality(Writing'), now)
        BY Zenon, <2>0, <3>2, <3>9, <4>1, PacedByCheck
      <4>3. OpsPaced(ops_issued' + Cardinality(Issuing'), now)
        BY Zenon, <3>7 DEF PacedInv
      <4> QED  BY Zenon, <2>0, <3>1, <3>6, <4>2, <4>3
               DEF PacedInv, OpsPaced, WritesPaced, OpsAllowed, WritesAllowed
    <3> QED  BY <3>8, <3>9
  <2>4. ASSUME NEW t \in Threads, Write(t)  PROVE PacedInv'
    <3>1. /\ worker[t].pc = "write" /\ writes_issued' = writes_issued + 1 /\ UNCHANGED <<now, ops_issued>>
          /\ worker'[t].pc = "written" /\ \A u \in Threads \ {t} : worker'[u] = worker[u]
      BY Zenon, <2>4, WorkerEffects DEF Write, At, Effect
    <3>2. t \in Writing /\ Writing' = Writing \ {t} /\ Issuing' = Issuing
      BY <3>1 DEF Writing, Issuing
    <3>3. Cardinality(Writing') = Cardinality(Writing) - 1
      BY <2>0, <3>2, ThreadSets
    <3>4. \A u \in Threads : worker'[u].pc = "issue" => worker'[u].t0 <= now'
      BY <3>1 DEF PacedInv
    <3> QED  BY <2>0, <2>1, <3>1, <3>2, <3>3, <3>4, PacedAgain
  <2>5. ASSUME NEW t \in Threads, Flag(t) \/ Read(t) \/ Looked(t) \/ Get(t) \/ Count(t) \/ Written(t)
        PROVE  PacedInv'
    <3>1. /\ worker[t].pc \in {"flag_read", "flag_write", "read", "looked", "written"}
          /\ UNCHANGED <<now, ops_issued, writes_issued>>
          /\ worker'[t].pc \in {"read", "write", "looked", "loop"}
          /\ worker'[t].pc = "write" <=> worker[t].pc = "flag_write"
          /\ \A u \in Threads \ {t} : worker'[u] = worker[u]
      <4>1. CASE Flag(t)
        <5>1. Effect(t, IF At(t, "flag_read") THEN "read" ELSE "write", worker[t].t0, measuring,
                     worker[t].perf)
          BY Zenon, <4>1, WorkerEffects
        <5> QED  BY <4>1, <5>1 DEF Flag, At, issued, Effect
      <4>2. CASE Read(t)
        BY Zenon, <4>2, WorkerEffects DEF Read, At, issued, Effect
      <4>3. CASE Looked(t)
        BY Zenon, <4>3, WorkerEffects DEF Looked, At, issued, Effect
      <4>4. CASE Get(t)
        BY Zenon, <4>4, WorkerEffects DEF Get, At, issued, Effect
      <4>5. CASE Count(t)
        BY Zenon, <4>5, WorkerEffects DEF Count, At, issued, Effect
      <4>6. CASE Written(t)
        BY Zenon, <4>6, WorkerEffects DEF Written, At, issued, Effect
      <4> QED  BY <2>5, <4>1, <4>2, <4>3, <4>4, <4>5, <4>6
    <3>2. Issuing' = Issuing /\ Writing' = Writing
      BY <3>1 DEF Issuing, Writing
    <3>3. \A u \in Threads : worker'[u].pc = "issue" => worker'[u].t0 <= now'
      BY <3>1 DEF PacedInv
    <3> QED  BY <2>0, <2>1, <3>1, <3>2, <3>3, PacedAgain
  <2>6. CASE Start
    <3>1. Issuing' = {} /\ Writing' = {} /\ UNCHANGED <<now, ops_issued, writes_issued>>
      BY <2>6 DEF Start, Issuing, Writing, Top, issued
    <3>2. Cardinality({}) = 0
      BY FS_EmptySet
    <3>3. \A u \in Threads : worker'[u].pc # "issue"
      BY <2>6 DEF Start, Top
    <3> QED  BY <2>0, <2>1, <3>1, <3>2, <3>3, PacedAgain
  <2>7. CASE Tick
    <3>1. now' = now + 1 /\ now < MaxTime /\ UNCHANGED <<ops_issued, writes_issued, worker>>
      BY <2>7 DEF Tick, issued
    <3>2. now' \in 0 .. MaxTime /\ now <= now'
      BY <2>0, <3>1, BenchAssumption
    <3>3. Issuing' = Issuing /\ Writing' = Writing
      BY <3>1 DEF Issuing, Writing
    <3>4. \A u \in Threads : worker'[u].pc = "issue" => worker'[u].t0 <= now'
      BY <2>0, <3>1 DEF BenchType, Worker, PacedInv
    <3> QED  BY <2>0, <2>1, <3>1, <3>2, <3>3, <3>4, PacedAgain
  <2>8. CASE (Run /\ ~Start) \/ Background \/ UNCHANGED vars
    <3>1. UNCHANGED <<now, ops_issued, writes_issued, worker>>
      BY <2>8 DEF Run, Remove, Prepare, Outputs, Second, Reset, Health, Sleep, Load, Row, Stop, Join,
                  Events, Summary, Background, vars, issued
    <3> QED  BY Zenon, <3>1 DEF PacedInv, Issuing, Writing, OpsPaced, WritesPaced, OpsAllowed, WritesAllowed
  <2> QED  BY <2>2, <2>3, <2>4, <2>5, <2>6, <2>7, <2>8 DEF Next, WorkerLoop
<1>3. BenchType /\ PacedInv => PacedTogether
  <2> SUFFICES ASSUME BenchType, PacedInv  PROVE PacedTogether
    OBVIOUS
  <2>1. /\ Cardinality(Issuing) \in Nat /\ Cardinality(Writing) \in Nat /\ Cardinality(Threads) \in Nat
        /\ now \in 0 .. MaxTime /\ now <= now /\ ops_issued \in Nat /\ writes_issued \in Nat
    BY ThreadSets DEF Issuing, Writing, BenchType, PacedInv
  <2>2. /\ ops_issued \in Int /\ ops_issued + Cardinality(Issuing) \in Int
        /\ writes_issued \in Int /\ writes_issued + Cardinality(Writing) \in Int
        /\ ops_issued <= ops_issued + Cardinality(Issuing)
        /\ writes_issued <= writes_issued + Cardinality(Writing)
    BY <2>1
  <2>3. OpsPaced(ops_issued, now) /\ WritesPaced(writes_issued, now)
    BY Zenon, <2>1, <2>2, PacedStays DEF PacedInv
  <2> QED  BY Zenon, <2>3 DEF PacedTogether, OpsPaced, WritesPaced
<1> QED  BY <1>1, <1>2, <1>3, BenchTyped, PTL DEF Spec

-----------------------------------------------------------------------------
(* Output files *)
(* The timeline of an earlier run goes before its timeseries, none is left *)
(* when this run opens its files, and this run's timeline is the last.     *)
OutputsInv ==
    /\ main.pc = "remove" => /\ files.events = "none" \/ files.events = files.timeseries
                             /\ main.i = 2 => files.events = "none"
    /\ main.pc \in {"prepare", "fill", "failed"} => files.events = "none"
    /\ main.pc \notin {"remove", "prepare", "fill", "failed"}
         => files.timeseries = "this" /\ files.events \in {"none", "this"}

(* "A crash cannot fake a complete result set": in every state of a run,   *)
(* an event timeline on disk is of the run its timeseries is of.           *)
THEOREM OutputsKept == Spec => []OutputsPaired
<1>1. Init => OutputsInv
  <2> SUFFICES ASSUME Init  PROVE OutputsInv
    OBVIOUS
  <2>1. /\ main.pc = (IF engine = "leveldb" THEN "remove" ELSE "prepare") /\ main.i = 1
        /\ files.events \in {"none", "earlier"}
        /\ files.events = "earlier" => engine = "leveldb" /\ files.timeseries = "earlier"
    BY DEF Init, Left
  <2> QED  BY <2>1 DEF OutputsInv
<1>2. BenchType /\ BenchType' /\ OutputsInv /\ [Next]_vars => OutputsInv'
  <2> SUFFICES ASSUME BenchType, BenchType', OutputsInv, [Next]_vars  PROVE OutputsInv'
    OBVIOUS
  <2>0. main.i \in {1, 2} /\ main'.i \in {1, 2} /\ main.pc \in MainPcs
    BY Zenon DEF BenchType, Main
  <2>1. CASE Remove
    <3>1. RemoveOrder[1] = "events" /\ RemoveOrder[2] = "timeseries"
      BY DEF RemoveOrder
    <3>2. main.pc = "remove" /\ files' = [files EXCEPT ![RemoveOrder[main.i]] = "none"]
      BY <2>1 DEF Remove
    <3>3. /\ main.i = 1 => files'.events = "none"
          /\ main.i = 2 => files'.events = files.events
      BY <3>1, <3>2 DEF BenchType
    <3> QED  BY <2>1, <3>2, <3>3, MainEffects DEF OutputsInv, MainEffect
  <2>2. CASE Outputs
    <3>1. /\ main.pc = "fill"
          /\ \/ files'.timeseries = "this" /\ files'.events = files.events /\ main'.pc = "start"
             \/ files' = files /\ main'.pc = "failed"
      BY <2>2 DEF Outputs, BenchType, Main
    <3> QED  BY <3>1 DEF OutputsInv
  <2>3. CASE Events
    <3>1. /\ main.pc = "events" /\ main'.pc = "summary"
          /\ files'.events = "this" /\ files'.timeseries = files.timeseries
      BY <2>3, MainEffects DEF Events, BenchType, MainEffect, To
    <3> QED  BY <3>1 DEF OutputsInv
  <2>4. CASE Prepare
    BY <2>4, MainEffects DEF Prepare, OutputsInv, MainEffect, To, history
  <2>5. CASE Start \/ Second \/ Reset \/ Health \/ Sleep \/ Load \/ Row \/ Stop \/ Join \/ Summary
    <3>1. /\ main.pc \notin {"remove", "prepare", "fill", "failed"} /\ files' = files
      BY ZenonT(60), <2>5 DEF Start, Second, Reset, Health, Sleep, Load, Row, Stop, Join, Summary, history
    <3>2. main'.pc \notin {"remove", "prepare", "fill", "failed"}
      BY <2>5, MainEffects DEF MainEffect, To
    <3> QED  BY <3>1, <3>2 DEF OutputsInv
  <2>6. CASE Tick \/ Background \/ (\E t \in Threads : WorkerLoop(t)) \/ UNCHANGED vars
    <3>1. UNCHANGED <<main, files>>
      BY Zenon, <2>6 DEF Tick, Background, WorkerLoop, Loop, Issue, Flag, Read, Looked, Get, Count, Write, Written,
                  vars, history
    <3> QED  BY <3>1 DEF OutputsInv
  <2> QED  BY <2>1, <2>2, <2>3, <2>4, <2>5, <2>6 DEF Next, Run
<1>3. BenchType /\ OutputsInv => OutputsPaired
  BY DEF BenchType, OutputsInv, OutputsPaired
<1> QED  BY <1>1, <1>2, <1>3, BenchTyped, PTL DEF Spec

-----------------------------------------------------------------------------
(* Traces *)
(* The window opens when the warm-up is over; a thread measures only when  *)
(* it is open; what a TraceWriter buffers and what it has written are the  *)
(* thread's measured operations, and a joined thread buffers nothing.      *)
TraceInv ==
    /\ now >= main.sec - 1 /\ (main.pc \in {"load", "row"} => now >= main.sec)
    /\ measuring => now >= warmup
    /\ \A t \in Threads :
         /\ worker[t].measuring => measuring
         /\ trace[t].file + trace[t].buf = seen.ops[t]
         /\ worker[t].pc \in {"looked", "written"} /\ worker[t].measuring => worker[t].t0 >= warmup
    /\ main.pc \in {"events", "summary", "done"} =>
         \A t \in Threads : worker[t].pc = "exit" /\ trace[t].buf = 0

(* A measured operation is in the trace exactly once when the run is over, *)
(* and none is stamped before the window (WorkerLoop, TraceWriter).        *)
THEOREM TracesKept == Spec => []TraceComplete
<1>1. Init => TraceInv
  <2> SUFFICES ASSUME Init  PROVE TraceInv
    OBVIOUS
  <2>1. /\ now = 0 /\ measuring = FALSE /\ main.sec = 1 /\ main.pc \in {"remove", "prepare"}
        /\ \A t \in Threads : /\ worker[t].measuring = FALSE
                              /\ trace[t].file = 0 /\ trace[t].buf = 0 /\ seen.ops[t] = 0
    BY DEF Init, Top
  <2> QED  BY <2>1 DEF TraceInv
<1>2. BenchType /\ BenchType' /\ TraceInv /\ [Next]_vars => TraceInv'
  <2> SUFFICES ASSUME BenchType, BenchType', TraceInv, [Next]_vars  PROVE TraceInv'
    OBVIOUS
  <2>0. /\ now \in Nat /\ warmup \in Nat /\ main.sec \in Nat /\ measuring \in BOOLEAN
        /\ \A t \in Threads : /\ worker[t].t0 \in Nat /\ worker[t].measuring \in BOOLEAN
                              /\ trace[t] \in [buf: Nat, file: Nat] /\ seen.ops[t] \in Nat
    BY ZenonT(60), BenchAssumption DEF BenchType, Main, Worker
  <2>1. ASSUME NEW t \in Threads, Loop(t) \/ Issue(t) \/ Flag(t) \/ Read(t) \/ Get(t) \/ Write(t)
        PROVE  TraceInv'
    <3>1. /\ UNCHANGED <<now, measuring, main, trace>> /\ worker[t].pc # "exit"
          /\ seen'.ops = seen.ops
      BY ZenonT(60), <2>1 DEF Loop, Issue, Flag, Read, Get, Write, At, BenchType
    <3>2. /\ \A u \in Threads \ {t} : worker'[u] = worker[u]
          /\ worker'[t].measuring = worker[t].measuring \/ worker'[t].measuring = measuring
          /\ worker'[t].pc \in {"looked", "written"} =>
                worker'[t].measuring = worker[t].measuring /\ worker'[t].t0 = now
      <4>1. CASE Flag(t)
        <5>1. Effect(t, IF At(t, "flag_read") THEN "read" ELSE "write", worker[t].t0, measuring,
                     worker[t].perf)
          BY Zenon, <4>1, WorkerEffects
        <5> QED  BY Zenon, <5>1 DEF Effect
      <4>2. CASE Loop(t) \/ Issue(t) \/ Read(t) \/ Get(t) \/ Write(t)
        BY Zenon, <4>2, WorkerEffects DEF Effect
      <4> QED  BY <2>1, <4>1, <4>2
    <3> QED  BY <2>0, <3>1, <3>2 DEF TraceInv
  <2>2. ASSUME NEW t \in Threads, Looked(t) \/ Count(t) \/ Written(t)
        PROVE  TraceInv'
    <3>1. UNCHANGED <<now, measuring, main>> /\ worker[t].pc # "exit" /\ Trace(t)
      BY <2>2 DEF Looked, Count, Written, At
    <3>2. /\ \A u \in Threads \ {t} : worker'[u] = worker[u]
          /\ worker'[t].measuring = FALSE /\ worker'[t].pc = "loop"
      BY Zenon, <2>2, WorkerEffects DEF Effect
    <3>3. \A u \in Threads : trace'[u].file + trace'[u].buf = seen'.ops[u]
      <4>1. Add(trace[t]).file + Add(trace[t]).buf = trace[t].file + trace[t].buf + 1
        BY <2>0, WriterType
      <4>2. CASE UNCHANGED <<trace, seen>>
        BY ZenonT(60), <4>2 DEF TraceInv
      <4>3. CASE ~UNCHANGED <<trace, seen>>
        <5>1. trace' = [trace EXCEPT ![t] = Add(trace[t])] /\ seen' = [seen EXCEPT !.ops[t] = @ + 1]
          BY ZenonT(60), <3>1, <4>3 DEF Trace
        <5>2. trace'[t] = Add(trace[t]) /\ \A u \in Threads \ {t} : trace'[u] = trace[u]
          BY <5>1 DEF BenchType
        <5>3. seen'.ops[t] = seen.ops[t] + 1 /\ \A u \in Threads \ {t} : seen'.ops[u] = seen.ops[u]
          BY <5>1 DEF BenchType
        <5> QED  BY <2>0, <4>1, <5>2, <5>3 DEF TraceInv
      <4> QED  BY <4>2, <4>3
    <3>4. main.pc \notin {"events", "summary", "done"}
      BY ZenonT(60), <3>1 DEF TraceInv
    <3> QED  BY <3>1, <3>2, <3>3, <3>4 DEF TraceInv
  <2>3. CASE Tick \/ Background \/ UNCHANGED vars
    <3>1. /\ now' = now \/ now' = now + 1
          /\ UNCHANGED <<measuring, main, worker, trace>> /\ seen'.ops = seen.ops
      BY <2>3 DEF Tick, Background, vars, BenchType
    <3> QED  BY <2>0, <3>1 DEF TraceInv
  <2>4. CASE Start
    <3>1. /\ UNCHANGED <<now, measuring, trace, seen>> /\ main'.pc = "second" /\ main'.sec = main.sec
          /\ \A t \in Threads : worker'[t].measuring = FALSE
      BY <2>4, MainEffects DEF Start, Top, history, MainEffect, To
    <3> QED  BY <3>1 DEF TraceInv
  <2>5. CASE Second
    <3>1. /\ UNCHANGED <<now, trace, seen, worker>> /\ main'.pc \in {"reset", "health"}
          /\ main'.sec = main.sec /\ measuring' = (measuring \/ main.sec = warmup + 1)
      BY <2>5, MainEffects DEF Second, history, MainEffect, To
    <3> QED  BY <2>0, <3>1 DEF TraceInv
  <2>6. CASE Sleep
    <3>1. /\ UNCHANGED <<now, measuring, trace, seen, worker>> /\ now >= main.sec
          /\ \/ main'.pc = "second" /\ main'.sec = main.sec + 1
             \/ main'.pc = "load" /\ main'.sec = main.sec
      BY ZenonT(60), <2>6, MainEffects DEF Sleep, history, MainEffect, To
    <3> QED  BY <2>0, <3>1 DEF TraceInv
  <2>7. CASE Row
    <3>1. /\ UNCHANGED <<now, measuring, trace, seen, worker>> /\ main.pc = "row"
          /\ main'.pc \in {"stop", "second"} /\ main'.sec = main.sec + 1
      BY <2>7, MainEffects DEF Row, MainEffect
    <3> QED  BY <2>0, <3>1 DEF TraceInv
  <2>8. CASE Load
    <3>1. /\ UNCHANGED <<now, measuring, trace, seen, worker>> /\ main.pc = "load"
          /\ main'.pc \in {"load", "row"} /\ main'.sec = main.sec
      BY <2>8, MainEffects DEF Load, history, MainEffect
    <3> QED  BY <2>0, <3>1 DEF TraceInv
  <2>9. CASE Join
    <3>1. /\ UNCHANGED <<now, measuring, seen, worker>> /\ main'.pc \in {"events", "summary"}
          /\ main'.sec = main.sec /\ \A t \in Threads : worker[t].pc = "exit" /\ trace'[t] = Close(trace[t])
      BY <2>9, MainEffects DEF Join, history, At, MainEffect, To
    <3>2. \A t \in Threads : trace'[t].file = trace[t].file + trace[t].buf /\ trace'[t].buf = 0
      BY <2>0, <3>1, WriterType
    <3> QED  BY <2>0, <3>1, <3>2 DEF TraceInv
  <2>10. CASE Remove \/ Prepare \/ Outputs \/ Reset \/ Health \/ Stop \/ Events \/ Summary
    <3>1. /\ UNCHANGED <<now, measuring, trace, seen, worker>>
          /\ main'.sec = main.sec /\ main'.pc \notin {"load", "row"}
          /\ main'.pc \in {"summary", "done"} => main.pc \in {"events", "summary"}
          /\ main'.pc # "events"
      <4>1. CASE Remove \/ Prepare \/ Outputs \/ Reset
        BY ZenonT(60), <4>1, MainEffects DEF Remove, Prepare, Outputs, Reset, history, MainEffect, To
      <4>2. CASE Health \/ Stop \/ Events \/ Summary
        BY <4>2, MainEffects DEF Health, Stop, Events, Summary, history, MainEffect, To
      <4> QED  BY ZenonT(60), <2>10, <4>1, <4>2
    <3> QED  BY <3>1 DEF TraceInv
  <2> QED
    BY ZenonT(60), <2>1, <2>2, <2>3, <2>4, <2>5, <2>6, <2>7, <2>8, <2>9, <2>10 DEF Next, Run, WorkerLoop
<1>3. BenchType /\ TraceInv => TraceComplete
  BY DEF BenchType, TraceInv, TraceComplete, measure_start
<1> QED  BY <1>1, <1>2, <1>3, BenchTyped, PTL DEF Spec

-----------------------------------------------------------------------------
(* The measured window *)
(* RocksDB's reads that are measured, looked up and not yet counted. *)
Reading == {t \in Threads : worker[t].pc = "looked" /\ worker[t].measuring}

(* The main thread has loaded what the rows' lookups start from. *)
Opened == measuring /\ ~(main.pc = "reset" /\ main.i = 1)

(* Rows are written in the window only; every later second has had one.    *)
WindowInv ==
    /\ main.pc \notin {"remove", "reset", "load"} => main.i = 1
    /\ main.sec > warmup + 1 => measuring /\ rows.n >= 1
    /\ main.pc \in {"health", "sleep"} /\ main.sec > warmup => measuring
    /\ main.pc \in {"reset", "load", "row"} => measuring
    /\ \A t \in Threads : worker[t].measuring => measuring
    /\ ~measuring => rows.look = 0
    /\ health # 0

(* LevelDB: the rows so far and what the next one could still add. *)
LevelInv ==
    engine = "leveldb" =>
        /\ ~Opened => rows.look <= seen.window
        /\ Opened => /\ main.prev["lookups"] <= count["lookups"]
                     /\ rows.look + count["lookups"] - main.prev["lookups"] <= seen.window
        /\ (main.pc = "load" /\ main.i = 2) \/ main.pc = "row" => main.cur["lookups"] <= count["lookups"]

(* RocksDB: the rows are within the workers' own counts, and those, with   *)
(* the reads still to be counted, within the lookups of the window.        *)
RocksInv ==
    engine = "rocksdb" =>
        /\ \A t \in Threads : worker[t].perf = IF worker[t].pc = "looked" THEN 1 ELSE 0
        /\ count["fg"] + Cardinality(Reading) <= seen.window
        /\ rows.look <= main.prev["fg"] /\ main.prev["fg"] <= count["fg"]
        /\ main.pc = "row" => main.cur["fg"] <= count["fg"]

(* What Run loads of a counter is never above the counter. *)
LEMMA LoadedCounts ==
    ASSUME BenchType, NEW known \in Loads
    PROVE  /\ engine = "leveldb" =>
                /\ Loaded(known, ResetOrder[1])["lookups"] = count["lookups"]
                /\ Loaded(known, ResetOrder[2])["lookups"] = known["lookups"]
                /\ Loaded(known, LoadOrder[1])["lookups"] = count["lookups"]
                /\ Loaded(known, LoadOrder[2])["lookups"] = known["lookups"]
           /\ engine = "rocksdb" =>
                /\ Loaded(known, ResetOrder[1])["fg"] = known["fg"]
                /\ Loaded(known, ResetOrder[2])["fg"] = count["fg"]
                /\ Loaded(known, LoadOrder[1])["fg"] = known["fg"]
                /\ Loaded(known, LoadOrder[2])["fg"] = count["fg"]
BY ZenonT(60) DEF Loaded, ResetOrder, LoadOrder, Counters

(* A step that moves no window, row or counter and no thread to or from a  *)
(* lookup keeps the three.                                                 *)
LEMMA WindowIdle ==
    ASSUME BenchType, WindowInv, LevelInv, RocksInv,
           UNCHANGED <<engine, measuring, main, rows, health>>,
           count'["lookups"] = count["lookups"], count'["fg"] = count["fg"], seen'.window = seen.window,
           \A t \in Threads : /\ worker'[t].measuring => measuring
                              /\ \/ worker'[t] = worker[t]
                                 \/ /\ worker[t].pc # "looked" /\ worker'[t].pc # "looked"
                                    /\ worker'[t].perf = worker[t].perf
    PROVE  (WindowInv /\ LevelInv /\ RocksInv)'
<1>1. Reading' = Reading
  BY DEF Reading
<1> QED  BY <1>1 DEF WindowInv, LevelInv, RocksInv, Opened

(* A step of the main thread that loads nothing. *)
LEMMA WindowMove ==
    ASSUME BenchType, WindowInv', LevelInv, RocksInv,
           UNCHANGED <<engine, measuring, count, worker, seen>>, rows'.look = rows.look,
           main'.prev = main.prev, main.pc # "reset", main'.pc \notin {"reset", "row", "load"}
    PROVE  (LevelInv /\ RocksInv)'
<1>1. Reading' = Reading /\ Opened' = Opened
  BY DEF Reading, Opened
<1> QED  BY <1>1 DEF LevelInv, RocksInv

(* The threads' steps keep the window. *)
LEMMA WorkersKeepWindow ==
    ASSUME BenchType, BenchType', WindowInv, LevelInv, RocksInv, NEW t \in Threads, WorkerLoop(t)
    PROVE  (WindowInv /\ LevelInv /\ RocksInv)'
<1>0. /\ count["lookups"] \in Nat /\ count["fg"] \in Nat /\ seen.window \in Nat /\ rows.look \in Int
      /\ main.prev["lookups"] \in Nat /\ main.cur["lookups"] \in Nat /\ main.cur["fg"] \in Nat
      /\ main.prev["fg"] \in Nat
      /\ Reading \in SUBSET Threads /\ Reading' \in SUBSET Threads
  BY DEF BenchType, Main, Loads, Counters, Reading
<1>1. Cardinality(Reading) \in Nat /\ Cardinality(Reading') \in Nat
  BY ZenonT(60), <1>0, ThreadSets
<1>2. CASE Loop(t) \/ Issue(t) \/ Flag(t) \/ Write(t) \/ Written(t)
  <2>1. UNCHANGED <<engine, measuring, main, rows, health, count>> /\ seen'.window = seen.window
    <3>1. CASE Written(t)
      BY <3>1 DEF Written, Trace, history, BenchType
    <3> QED  BY <1>2, <3>1 DEF Loop, Issue, Flag, Write, history
  <2>2. worker[t].pc # "looked"
    BY Zenon, <1>2 DEF Loop, Issue, Flag, Write, Written, At
  <2>3. /\ \A u \in Threads \ {t} : worker'[u] = worker[u]
        /\ worker'[t].pc # "looked" /\ worker'[t].perf = worker[t].perf
        /\ worker'[t].measuring => measuring
    <3>1. CASE Flag(t)
      <4>1. Effect(t, IF At(t, "flag_read") THEN "read" ELSE "write", worker[t].t0, measuring, worker[t].perf)
        BY ZenonT(60), <3>1, WorkerEffects
      <4> QED  BY <4>1 DEF Effect
    <3>2. CASE Loop(t) \/ Issue(t) \/ Write(t) \/ Written(t)
      BY ZenonT(60), <3>2, WorkerEffects DEF Effect, WindowInv
    <3> QED  BY <1>2, <3>1, <3>2
  <2> QED  BY <2>1, <2>2, <2>3, WindowIdle DEF WindowInv
<1>3. CASE Read(t)
  <2>1. /\ engine = "leveldb" /\ UNCHANGED <<engine, measuring, main, rows, health>>
        /\ count'["lookups"] = count["lookups"] + 1
        /\ seen'.window = IF measuring THEN seen.window + 1 ELSE seen.window
    BY <1>3 DEF Read, Raise, history, BenchType, Loads, Counters
  <2>2. \A u \in Threads : worker'[u].measuring = worker[u].measuring
    BY ZenonT(60), <1>3, WorkerEffects DEF Effect
  <2>3. WindowInv'
    BY Zenon, <2>1, <2>2 DEF WindowInv
  <2>4. LevelInv'
    BY <1>0, <2>1 DEF LevelInv, Opened
  <2> QED  BY Zenon, <2>1, <2>3, <2>4 DEF RocksInv
<1>4. CASE Get(t)
  <2>1. /\ engine = "rocksdb" /\ UNCHANGED <<engine, measuring, main, rows, health>> /\ worker[t].pc = "read"
        /\ count'["fg"] = count["fg"]
        /\ seen'.window = IF measuring THEN seen.window + 1 ELSE seen.window
    BY <1>4 DEF Get, Raise, history, BenchType, Loads, Counters, At
  <2>2. /\ \A u \in Threads \ {t} : worker'[u] = worker[u]
        /\ worker'[t].pc = "looked" /\ worker'[t].measuring = worker[t].measuring
        /\ worker'[t].perf = worker[t].perf + 1
    BY ZenonT(60), <1>4, WorkerEffects DEF Effect
  <2>3. WindowInv'
    BY Zenon, <2>1, <2>2 DEF WindowInv
  <2>4. count'["fg"] + Cardinality(Reading') <= seen'.window
    <3>1. CASE worker[t].measuring
      <4>1. t \in Reading' /\ Reading = Reading' \ {t}
        BY ZenonT(60), <2>1, <2>2, <3>1 DEF Reading
      <4>2. Cardinality(Reading) = Cardinality(Reading') - 1
        BY Zenon, <1>0, <4>1, ThreadSets
      <4> QED  BY <1>0, <1>1, <2>1, <3>1, <4>2 DEF RocksInv, WindowInv
    <3>2. CASE ~worker[t].measuring
      <4>1. Reading' = Reading
        BY <2>1, <2>2, <3>2 DEF Reading
      <4> QED  BY <1>0, <1>1, <2>1, <4>1 DEF RocksInv
    <3> QED  BY ZenonT(60), <3>1, <3>2
  <2>5. worker'[t].perf = 1
    BY <2>1, <2>2 DEF RocksInv
  <2> QED  BY <2>1, <2>2, <2>3, <2>4, <2>5 DEF RocksInv, LevelInv
<1>5. CASE Looked(t)
  <2>1. /\ engine = "leveldb" /\ UNCHANGED <<engine, measuring, main, rows, health>>
        /\ count'["lookups"] = count["lookups"] /\ seen'.window = seen.window
    BY <1>5 DEF Looked, Raise, Trace, history, BenchType, Loads, Counters
  <2>2. \A u \in Threads : worker'[u].measuring => worker[u].measuring
    BY ZenonT(60), <1>5, WorkerEffects DEF Effect
  <2> QED  BY <2>1, <2>2 DEF WindowInv, LevelInv, RocksInv, Opened
<1>6. CASE Count(t)
  <2>1. /\ engine = "rocksdb" /\ UNCHANGED <<engine, measuring, main, rows, health>> /\ worker[t].pc = "looked"
        /\ count' = (IF worker[t].measuring THEN [count EXCEPT !["fg"] = @ + worker[t].perf] ELSE count)
        /\ seen'.window = seen.window
    BY <1>6 DEF Count, Trace, history, BenchType, At
  <2>2. /\ \A u \in Threads \ {t} : worker'[u] = worker[u]
        /\ worker'[t].pc = "loop" /\ worker'[t].measuring = FALSE /\ worker'[t].perf = 0
    BY ZenonT(60), <1>6, WorkerEffects DEF Effect
  <2>3. WindowInv'
    BY Zenon, <2>1, <2>2 DEF WindowInv
  <2>4. worker[t].perf = 1
    BY <2>1 DEF RocksInv
  <2>5. count["fg"] <= count'["fg"] /\ count'["fg"] + Cardinality(Reading') <= seen'.window /\ count'["fg"] \in Nat
    <3>1. CASE worker[t].measuring
      <4>1. t \in Reading /\ Reading' = Reading \ {t}
        BY <2>1, <2>2, <3>1 DEF Reading
      <4>2. Cardinality(Reading') = Cardinality(Reading) - 1
        BY <1>0, <4>1, ThreadSets
      <4>3. count'["fg"] = count["fg"] + 1
        BY ZenonT(60), <2>1, <2>4, <3>1 DEF BenchType, Loads, Counters
      <4> QED  BY <1>0, <1>1, <2>1, <4>2, <4>3 DEF RocksInv
    <3>2. CASE ~worker[t].measuring
      <4>1. Reading' = Reading
        BY <2>1, <2>2, <3>2 DEF Reading
      <4> QED  BY <1>0, <1>1, <2>1, <3>2, <4>1 DEF RocksInv
    <3> QED  BY ZenonT(60), <3>1, <3>2
  <2>6. \A u \in Threads : worker'[u].perf = IF worker'[u].pc = "looked" THEN 1 ELSE 0
    BY <2>1, <2>2 DEF RocksInv
  <2>7. main'.prev["fg"] <= count'["fg"] /\ (main'.pc = "row" => main'.cur["fg"] <= count'["fg"])
    BY <1>0, <2>1, <2>5 DEF RocksInv
  <2>8. RocksInv'
    BY <2>1, <2>5, <2>6, <2>7 DEF RocksInv
  <2> QED  BY Zenon, <2>1, <2>3, <2>8 DEF LevelInv
<1> QED  BY ZenonT(60), <1>2, <1>3, <1>4, <1>5, <1>6 DEF WorkerLoop

(* The window is what the three say, in every state of a run. *)
LEMMA WindowInvariance == Spec => [](WindowInv /\ LevelInv /\ RocksInv)
<1>1. Init => WindowInv /\ LevelInv /\ RocksInv
  <2> SUFFICES ASSUME Init  PROVE WindowInv /\ LevelInv /\ RocksInv
    OBVIOUS
  <2>1. /\ measuring = FALSE /\ main.sec = 1 /\ main.i = 1 /\ main.pc \in {"remove", "prepare"}
        /\ main.prev["fg"] = 0 /\ count["fg"] = 0 /\ rows.look = 0 /\ seen.window = 0 /\ health = -1
        /\ \A t \in Threads : worker[t].measuring = FALSE /\ worker[t].pc = "new" /\ worker[t].perf = 0
    BY DEF Init, Top, NoCounts, Counters
  <2>2. Reading = {} /\ Cardinality({}) = 0
    BY <2>1, FS_EmptySet DEF Reading
  <2>3. ~(main.sec > warmup + 1)
    BY <2>1, BenchAssumption
  <2> QED  BY <2>1, <2>2, <2>3 DEF WindowInv, LevelInv, RocksInv, Opened
<1>2. BenchType /\ BenchType' /\ (WindowInv /\ LevelInv /\ RocksInv) /\ [Next]_vars
        => (WindowInv /\ LevelInv /\ RocksInv)'
  <2> SUFFICES ASSUME BenchType, BenchType', WindowInv, LevelInv, RocksInv, [Next]_vars
               PROVE  (WindowInv /\ LevelInv /\ RocksInv)'
    OBVIOUS
  <2>0. /\ count["lookups"] \in Nat /\ count["fg"] \in Nat /\ seen.window \in Nat /\ rows.look \in Int
        /\ main.prev["lookups"] \in Nat /\ main.cur["lookups"] \in Nat /\ main.cur["fg"] \in Nat
        /\ main.prev["fg"] \in Nat /\ main.sec \in Nat /\ warmup \in Nat /\ rows.n \in Nat
        /\ main.prev \in Loads /\ main.cur \in Loads /\ measuring \in BOOLEAN
    BY BenchAssumption DEF BenchType, Main, Loads, Counters
  <2>1. CASE \E t \in Threads : WorkerLoop(t)
    BY Zenon, <2>1, WorkersKeepWindow
  <2>2. CASE Tick \/ Background \/ UNCHANGED vars
    <3>1. /\ UNCHANGED <<engine, measuring, main, rows, health, worker>>
          /\ count'["lookups"] = count["lookups"] /\ count'["fg"] = count["fg"] /\ seen'.window = seen.window
      BY <2>2 DEF Tick, Background, vars, history, Raise, BenchType, Loads, Counters
    <3> QED  BY <3>1, WindowIdle DEF WindowInv
  <2>3. CASE Remove \/ Prepare \/ Outputs
    <3>1. /\ UNCHANGED <<engine, measuring, count, worker, seen, rows, health>>
          /\ main.pc \in {"remove", "prepare", "fill"}
      BY <2>3 DEF Remove, Prepare, Outputs, history
    <3>2. /\ main'.pc \in {"remove", "prepare", "fill", "failed", "start"}
          /\ main'.prev = main.prev /\ main'.sec = main.sec
          /\ main'.i = 1 \/ main'.pc = "remove"
      BY <2>3, MainEffects DEF MainEffect, To, Prepare, Outputs, WindowInv
    <3>3. WindowInv'
      BY Zenon, <3>1, <3>2 DEF WindowInv
    <3> QED  BY <3>1, <3>2, <3>3, WindowMove
  <2>4. CASE Start
    <3>1. /\ UNCHANGED <<engine, measuring, count, seen, rows, health>> /\ main.pc = "start"
          /\ \A t \in Threads : /\ worker'[t].measuring = FALSE /\ worker'[t].pc = "loop"
                                /\ worker'[t].perf = 0
      BY Zenon, <2>4 DEF Start, history, Top
    <3>2. /\ main'.pc = "second" /\ main'.prev = main.prev /\ main'.sec = main.sec /\ main'.i = main.i
      BY Zenon, <2>4, MainEffects DEF MainEffect, To
    <3>3. Reading' = {} /\ Cardinality({}) = 0 /\ Cardinality(Reading) \in Nat
      BY Zenon, <3>1, FS_EmptySet, ThreadSets DEF Reading
    <3>4. WindowInv'
      BY Zenon, <3>1, <3>2 DEF WindowInv
    <3> QED  BY <2>0, <3>1, <3>2, <3>3, <3>4 DEF LevelInv, RocksInv, Opened
  <2>5. CASE Second
    <3>1. /\ UNCHANGED <<engine, count, worker, seen, rows, health>> /\ main.pc = "second"
          /\ measuring' = (measuring \/ main.sec = warmup + 1)
      BY <2>5 DEF Second, history
    <3>2. /\ main'.pc = (IF main.sec = warmup + 1 THEN "reset" ELSE "health")
          /\ main'.prev = main.prev /\ main'.sec = main.sec /\ main'.i = 1
      BY ZenonT(60), <2>5, <3>1, MainEffects DEF MainEffect, To, WindowInv
    <3>3. WindowInv'
      <4>1. measuring => measuring'
        BY Zenon, <3>1
      <4>2. main.sec = warmup + 1 => measuring'
        BY Zenon, <3>1
      <4>3. main.sec > warmup => main.sec = warmup + 1 \/ main.sec > warmup + 1
        BY <2>0
      <4> QED  BY <3>1, <3>2, <4>1, <4>2, <4>3 DEF WindowInv
    <3>4. Reading' = Reading
      BY Zenon, <3>1 DEF Reading
    <3>5. LevelInv'
      BY <2>0, <3>1, <3>2 DEF LevelInv, Opened
    <3> QED  BY <3>1, <3>2, <3>3, <3>4, <3>5 DEF RocksInv
  <2>6. CASE Reset
    <3>1. /\ UNCHANGED <<engine, measuring, count, worker, seen, rows, health>> /\ main.pc = "reset"
          /\ measuring
      BY Zenon, <2>6 DEF Reset, history, WindowInv
    <3>2. /\ main'.sec = main.sec
          /\ \/ main.i = 1 /\ main'.i = 2 /\ main'.pc = "reset"
             \/ main.i = 2 /\ main'.i = 1 /\ main'.pc = "health"
      BY <2>6, MainEffects DEF MainEffect
    <3>3. WindowInv'
      BY <3>1, <3>2 DEF WindowInv
    <3>4. Reading' = Reading
      BY Zenon, <3>1 DEF Reading
    <3>5. main'.prev = Loaded(main.prev, ResetOrder[main.i])
      BY Zenon, <2>6, MainEffects DEF MainEffect
    <3>6. LevelInv'
      <4>1. engine = "leveldb" => /\ main.i = 1 => main'.prev["lookups"] = count["lookups"]
                                  /\ main.i = 2 => main'.prev["lookups"] = main.prev["lookups"]
        BY <2>0, <3>5, LoadedCounts
      <4> QED  BY <2>0, <3>1, <3>2, <4>1 DEF LevelInv, Opened
    <3>7. RocksInv'
      <4>1. engine = "rocksdb" => main'.prev["fg"] = main.prev["fg"] \/ main'.prev["fg"] = count["fg"]
        BY ZenonT(60), <2>0, <3>2, <3>5, LoadedCounts
      <4>2. engine = "rocksdb" => rows.look <= main'.prev["fg"] /\ main'.prev["fg"] <= count["fg"]
        BY <2>0, <4>1 DEF RocksInv
      <4> QED  BY Zenon, <3>1, <3>2, <3>4, <4>2 DEF RocksInv
    <3> QED  BY <3>3, <3>6, <3>7
  <2>7. CASE Health
    <3>1. /\ UNCHANGED <<engine, measuring, count, worker, seen, rows>> /\ main.pc = "health"
          /\ health' = health \/ (main.sec > warmup + 1 /\ health' = rows.n)
      BY Zenon, <2>7 DEF Health, HasSample
    <3>2. To("sleep")
      BY Zenon, <2>7, MainEffects
    <3>3. WindowInv'
      BY <2>0, <3>1, <3>2 DEF WindowInv, To, MainEffect
    <3> QED  BY <3>1, <3>2, <3>3, WindowMove DEF To, MainEffect
  <2>8. CASE Sleep
    <3>1. UNCHANGED <<engine, measuring, count, worker, seen, rows, health>> /\ main.pc = "sleep"
      BY <2>8 DEF Sleep, history
    <3>2. /\ main'.prev = main.prev /\ main'.i = 1
          /\ \/ main.sec <= warmup /\ main'.pc = "second" /\ main'.sec = main.sec + 1
             \/ ~(main.sec <= warmup) /\ main'.pc = "load" /\ main'.sec = main.sec
      BY ZenonT(60), <2>8, <3>1, MainEffects DEF MainEffect, To, WindowInv
    <3>3. WindowInv'
      <4>1. main'.sec > warmup + 1 => main.sec > warmup + 1
        BY <2>0, <3>2
      <4>2. main'.pc = "load" => main.sec > warmup
        BY <2>0, <3>2
      <4> QED  BY Zenon, <3>1, <3>2, <4>1, <4>2 DEF WindowInv
    <3>4. Reading' = Reading
      BY <3>1 DEF Reading
    <3> QED  BY <3>1, <3>2, <3>3, <3>4 DEF LevelInv, RocksInv, Opened
  <2>9. CASE Load
    <3>1. UNCHANGED <<engine, measuring, count, worker, seen, rows, health>> /\ main.pc = "load"
      BY ZenonT(60), <2>9 DEF Load, history
    <3>2. /\ main'.sec = main.sec /\ main'.prev = main.prev
          /\ \/ main.i = 1 /\ main'.i = 2 /\ main'.pc = "load"
             \/ main.i = 2 /\ main'.i = 1 /\ main'.pc = "row"
      BY ZenonT(60), <2>9, MainEffects DEF MainEffect
    <3>3. WindowInv'
      BY <3>1, <3>2 DEF WindowInv
    <3>4. Reading' = Reading /\ Opened' = Opened
      BY ZenonT(60), <3>1, <3>2 DEF Reading, Opened
    <3>5. main'.cur = Loaded(main.cur, LoadOrder[main.i])
      BY <2>9, MainEffects DEF MainEffect
    <3>6. LevelInv'
      <4>1. engine = "leveldb" => main'.cur["lookups"] <= count["lookups"]
        BY <2>0, <3>1, <3>2, <3>5, LoadedCounts DEF LevelInv
      <4> QED  BY ZenonT(60), <3>1, <3>2, <3>4, <4>1 DEF LevelInv
    <3>7. RocksInv'
      <4>1. engine = "rocksdb" /\ main'.pc = "row" => main'.cur["fg"] <= count["fg"]
        BY <2>0, <3>2, <3>5, LoadedCounts
      <4> QED  BY Zenon, <3>1, <3>2, <3>4, <4>1 DEF RocksInv
    <3> QED  BY <3>3, <3>6, <3>7
  <2>10. CASE Row
    <3>1. /\ UNCHANGED <<engine, measuring, count, worker, seen>> /\ main.pc = "row" /\ measuring
          /\ rows'.n = rows.n + 1 /\ rows'.look = rows.look + Lookups(main.cur) - Lookups(main.prev)
          /\ health' = health \/ health' = rows.n + 1
      BY Zenon, <2>10 DEF Row, WindowInv
    <3>2. /\ main'.pc \in {"stop", "second"} /\ main'.prev = main.cur /\ main'.sec = main.sec + 1 /\ main'.i = 1
      BY Zenon, <2>10, <3>1, MainEffects DEF MainEffect, WindowInv
    <3>3. WindowInv'
      BY <2>0, <3>1, <3>2 DEF WindowInv
    <3>4. Reading' = Reading
      BY Zenon, <3>1 DEF Reading
    <3>5. LevelInv'
      BY <2>0, <3>1, <3>2 DEF LevelInv, Opened, Lookups
    <3>6. RocksInv'
      BY <2>0, <3>1, <3>2, <3>4 DEF RocksInv, Lookups
    <3> QED  BY <3>3, <3>5, <3>6
  <2>11. CASE Stop \/ Join \/ Events \/ Summary
    <3>1. /\ UNCHANGED <<engine, measuring, count, worker, seen, rows, health>>
          /\ main.pc \in {"stop", "join", "events", "summary"}
      BY <2>11 DEF Stop, Join, Events, Summary, history
    <3>2. /\ main'.pc \in {"join", "events", "summary", "done"}
          /\ main'.prev = main.prev /\ main'.sec = main.sec /\ main'.i = main.i
      BY ZenonT(60), <2>11, MainEffects DEF MainEffect, To
    <3>3. WindowInv'
      BY Zenon, <3>1, <3>2 DEF WindowInv
    <3> QED  BY <3>1, <3>2, <3>3, WindowMove
  <2> QED
    BY ZenonT(60), <2>1, <2>2, <2>3, <2>4, <2>5, <2>6, <2>7, <2>8, <2>9, <2>10, <2>11 DEF Next, Run
<1> QED  BY <1>1, <1>2, BenchTyped, PTL DEF Spec

(* "Reset the per-second deltas so warmup does not leak into second 1":    *)
(* the rows add up to no more than the lookups made since the window       *)
(* opened, and set_health is never fed before there is a row.              *)
THEOREM WarmupKeptOut == Spec => []NoWarmupLeak
<1>1. BenchType /\ (WindowInv /\ LevelInv /\ RocksInv) => NoWarmupLeak
  <2> SUFFICES ASSUME BenchType, WindowInv, LevelInv, RocksInv  PROVE NoWarmupLeak
    OBVIOUS
  <2>0. /\ count["lookups"] \in Nat /\ count["fg"] \in Nat /\ seen.window \in Nat /\ rows.look \in Int
        /\ main.prev["lookups"] \in Nat /\ main.prev["fg"] \in Nat /\ engine \in {"leveldb", "rocksdb"}
    BY DEF BenchType, Main, Loads, Counters
  <2>1. Cardinality(Reading) \in Nat
    BY ZenonT(60), ThreadSets DEF Reading
  <2> QED  BY <2>0, <2>1 DEF WindowInv, LevelInv, RocksInv, NoWarmupLeak
<1> QED  BY <1>1, WindowInvariance, BenchTyped, PTL

-----------------------------------------------------------------------------
(* The summary and the background's column *)
Looking == {t \in Threads : worker[t].pc = "looked"}

(* LevelDB: lookups that have missed. *)
Missed == count["lookups"] - count["hits"] - Cardinality(Looking)

(* RocksDB: what the tickers count and the workers' own counts never will. *)
Unowned == seen.bg + seen.unmeasured

(* base_lookups is loaded before base_hits: what the two leave is what had *)
(* missed by then, and the reads between their two counts.                 *)
SummaryInv ==
    /\ engine = "leveldb" =>
         LET known == IF main.pc = "reset" /\ main.i = 2 THEN count["hits"] ELSE main.base["hits"]
         IN  /\ 0 <= Missed
             /\ main.base["lookups"] <= Missed + known + Cardinality(Threads)
    /\ engine = "rocksdb" =>
         /\ count["lookups"] = 0 /\ count["hits"] = 0
         /\ main.base["lookups"] = 0 /\ main.base["hits"] = 0
    /\ SummaryAddsUp

(* LevelDB: the warm-up's lookups are within base_bg_lookups.  RocksDB:    *)
(* the tickers are within the workers' counts, the reads those still miss  *)
(* and what they never see; a load of the tickers is older than one of the *)
(* counts.                                                                 *)
ColumnInv ==
    /\ main.pc \in {"remove", "prepare", "fill", "start"} => \A t \in Threads : worker[t].pc = "new"
    /\ engine = "leveldb" =>
         /\ seen.early <= count["bg_lookups"]
         /\ measuring /\ main.pc # "reset" => seen.early <= main.base["bg_lookups"]
         /\ main.pc = "row" => main.cur["bg_lookups"] <= count["bg_lookups"]
    /\ engine = "rocksdb" =>
         /\ count["tickers"] <= Unowned + count["fg"] + Cardinality(Reading)
         /\ main.pc = "load" /\ main.i = 2
              => main.cur["tickers"] <= Unowned + count["fg"] + Cardinality(Threads)
         /\ main.pc = "row" => main.cur["tickers"] <= Unowned + main.cur["fg"] + Cardinality(Threads)
    /\ BgAccounted

(* Everything the two compare is a number. *)
Numbers ==
    /\ \A c \in {"lookups", "hits", "bg_lookups", "tickers", "fg"} :
         count[c] \in Nat /\ main.base[c] \in Nat /\ main.cur[c] \in Nat
    /\ seen.early \in Nat /\ seen.bg \in Nat /\ seen.unmeasured \in Nat /\ rows.bg \in Int
    /\ Unowned \in Nat /\ Missed \in Int /\ engine \in {"leveldb", "rocksdb"}
    /\ Looking \in SUBSET Threads /\ Reading \in SUBSET Looking /\ Cardinality(Threads) \in Nat
    /\ Cardinality(Looking) \in 0 .. Cardinality(Threads)
    /\ Cardinality(Reading) \in 0 .. Cardinality(Threads)

(* It is, in a typed state; *)
LEMMA NumbersTyped == BenchType => Numbers
<1> SUFFICES ASSUME BenchType  PROVE Numbers
  OBVIOUS
<1>1. /\ \A c \in {"lookups", "hits", "bg_lookups", "tickers", "fg"} :
           count[c] \in Nat /\ main.base[c] \in Nat /\ main.cur[c] \in Nat
      /\ seen.early \in Nat /\ seen.bg \in Nat /\ seen.unmeasured \in Nat /\ rows.bg \in Int
      /\ engine \in {"leveldb", "rocksdb"}
  BY DEF BenchType, Main, Loads, Counters
<1>2. Looking \in SUBSET Threads /\ Reading \in SUBSET Looking
  BY DEF Looking, Reading
<1>3. /\ Cardinality(Threads) \in Nat
      /\ Cardinality(Looking) \in Nat /\ Cardinality(Looking) <= Cardinality(Threads)
      /\ Cardinality(Reading) \in Nat /\ Cardinality(Reading) <= Cardinality(Threads)
  BY ZenonT(60), <1>2, ThreadSets
<1>4. Unowned \in Nat /\ Missed \in Int
  BY <1>1, <1>3 DEF Unowned, Missed
<1> QED  BY <1>1, <1>2, <1>3, <1>4 DEF Numbers

(* and in the next. *)
LEMMA NumbersNext == BenchType' => Numbers'
BY NumbersTyped, PTL

(* How the counters move while the main thread loads none. *)
Grown ==
    /\ engine' = engine
    /\ engine = "leveldb" =>
         /\ Missed' >= Missed /\ count'["hits"] >= count["hits"]
         /\ count'["bg_lookups"] >= count["bg_lookups"]
         /\ count'["bg_lookups"] - seen'.early >= count["bg_lookups"] - seen.early
         /\ measuring => seen'.early = seen.early
    /\ engine = "rocksdb" =>
         /\ count'["lookups"] = count["lookups"] /\ count'["hits"] = count["hits"]
         /\ count'["fg"] >= count["fg"] /\ Unowned' >= Unowned
         /\ count'["tickers"] - Unowned' - count'["fg"] - Cardinality(Reading')
              <= count["tickers"] - Unowned - count["fg"] - Cardinality(Reading)

(* They keep both. *)
LEMMA GrownKeeps ==
    ASSUME BenchType, BenchType', SummaryInv, ColumnInv, Grown, UNCHANGED <<main, rows, measuring>>,
           main.pc \in {"remove", "prepare", "fill", "start"} => UNCHANGED worker
    PROVE  (SummaryInv /\ ColumnInv)'
<1>0. Numbers /\ Numbers'
  BY ZenonT(60), NumbersTyped, NumbersNext
<1>1. engine' = engine /\ main' = main /\ rows' = rows /\ engine \in {"leveldb", "rocksdb"}
  BY Zenon, <1>0 DEF Grown, Numbers
<1>2. SummaryInv'
  <2>1. SummaryAddsUp'
    BY Zenon, <1>1 DEF SummaryInv, SummaryAddsUp
  <2>2. CASE engine = "leveldb"
    <3> DEFINE known == IF main.pc = "reset" /\ main.i = 2 THEN count["hits"] ELSE main.base["hits"]
    <3>1. 0 <= Missed /\ main.base["lookups"] <= Missed + known + Cardinality(Threads)
      BY Zenon, <2>2 DEF SummaryInv
    <3>2. Missed' >= Missed /\ count'["hits"] >= count["hits"]
      BY Zenon, <2>2 DEF Grown
    <3>3. /\ Missed \in Int /\ Missed' \in Int /\ count["hits"] \in Nat /\ count'["hits"] \in Nat
          /\ main.base["hits"] \in Nat /\ main.base["lookups"] \in Nat /\ Cardinality(Threads) \in Nat
      BY Zenon, <1>0 DEF Numbers
    <3>4. known' \in Nat /\ known \in Nat /\ known' >= known
      BY <1>1, <3>2, <3>3
    <3> HIDE DEF known
    <3>5. 0 <= Missed' /\ main.base["lookups"] <= Missed' + known' + Cardinality(Threads)
      BY <3>1, <3>2, <3>3, <3>4
    <3> QED  BY Zenon, <1>1, <2>1, <2>2, <3>5 DEF SummaryInv, known
  <2>3. CASE engine = "rocksdb"
    BY Zenon, <1>1, <2>1, <2>3 DEF SummaryInv, Grown
  <2> QED  BY Zenon, <1>1, <2>2, <2>3
<1>3. CASE engine = "leveldb"
  <2>1. rows.bg <= count["bg_lookups"] - seen.early /\ seen.early <= count["bg_lookups"]
    BY Zenon, <1>3 DEF ColumnInv, BgAccounted
  <2>2. /\ count'["bg_lookups"] >= count["bg_lookups"]
        /\ count'["bg_lookups"] - seen'.early >= count["bg_lookups"] - seen.early
        /\ measuring => seen'.early = seen.early
    BY Zenon, <1>3 DEF Grown
  <2>3. /\ count["bg_lookups"] \in Nat /\ count'["bg_lookups"] \in Nat /\ main.cur["bg_lookups"] \in Nat
        /\ seen.early \in Nat /\ seen'.early \in Nat /\ rows.bg \in Int
    BY Zenon, <1>0 DEF Numbers
  <2>4. rows.bg <= count'["bg_lookups"] - seen'.early /\ seen'.early <= count'["bg_lookups"]
    BY <2>1, <2>2, <2>3
  <2>5. main.cur["bg_lookups"] <= count["bg_lookups"] => main.cur["bg_lookups"] <= count'["bg_lookups"]
    BY <2>2, <2>3
  <2>6. BgAccounted'
    BY Zenon, <1>1, <1>3, <2>4 DEF BgAccounted
  <2> QED  BY ZenonT(60), <1>1, <1>2, <1>3, <2>2, <2>4, <2>5, <2>6 DEF ColumnInv
<1>4. CASE engine = "rocksdb"
  <2>1. rows.bg \in 0 .. Unowned + Cardinality(Threads) /\ count["tickers"] <= Unowned + count["fg"] + Cardinality(Reading)
    BY Zenon, <1>4 DEF ColumnInv, BgAccounted, Unowned
  <2>2. /\ count'["fg"] >= count["fg"] /\ Unowned' >= Unowned
        /\ count'["tickers"] - Unowned' - count'["fg"] - Cardinality(Reading')
             <= count["tickers"] - Unowned - count["fg"] - Cardinality(Reading)
    BY Zenon, <1>4 DEF Grown
  <2>3. /\ count["tickers"] \in Nat /\ count'["tickers"] \in Nat /\ count["fg"] \in Nat /\ count'["fg"] \in Nat
        /\ main.cur["tickers"] \in Nat /\ main.cur["fg"] \in Nat /\ rows.bg \in Int
        /\ Unowned \in Nat /\ Unowned' \in Nat /\ Cardinality(Threads) \in Nat
    BY Zenon, <1>0 DEF Numbers
  <2>4. Cardinality(Reading) \in Nat /\ Cardinality(Reading') \in Nat
    BY <1>0 DEF Numbers
  <2>5. rows.bg \in 0 .. Unowned' + Cardinality(Threads)
    BY <2>1, <2>2, <2>3
  <2>6. count'["tickers"] <= Unowned' + count'["fg"] + Cardinality(Reading')
    BY <2>1, <2>2, <2>3, <2>4
  <2>7. /\ main.cur["tickers"] <= Unowned + count["fg"] + Cardinality(Threads)
             => main.cur["tickers"] <= Unowned' + count'["fg"] + Cardinality(Threads)
        /\ main.cur["tickers"] <= Unowned + main.cur["fg"] + Cardinality(Threads)
             => main.cur["tickers"] <= Unowned' + main.cur["fg"] + Cardinality(Threads)
    BY <2>2, <2>3
  <2>8. BgAccounted'
    BY Zenon, <1>1, <1>4, <2>5 DEF BgAccounted, Unowned
  <2> QED  BY ZenonT(60), <1>1, <1>2, <1>4, <2>6, <2>7, <2>8 DEF ColumnInv
<1> QED  BY Zenon, <1>1, <1>2, <1>3, <1>4

(* The threads' steps: a lookup is counted before its outcome.             *)
LEMMA WorkersGrow ==
    ASSUME BenchType, BenchType', RocksInv, ColumnInv, NEW t \in Threads, WorkerLoop(t)
    PROVE  Grown /\ worker[t].pc # "new"
<1>0. Numbers /\ Numbers' /\ worker \in [Threads -> Worker]
  BY ZenonT(60), NumbersTyped, NumbersNext DEF BenchType
<1>1. CASE Loop(t) \/ Issue(t) \/ Flag(t) \/ Write(t) \/ Written(t)
  <2>1. engine' = engine /\ count' = count
    BY <1>1 DEF Loop, Issue, Flag, Write, Written
  <2>2. seen'.early = seen.early /\ seen'.bg = seen.bg /\ seen'.unmeasured = seen.unmeasured
    <3>1. CASE Written(t)
      BY <3>1 DEF Written, Trace, BenchType
    <3> QED  BY <1>1, <3>1 DEF Loop, Issue, Flag, Write
  <2>3. worker[t].pc # "looked" /\ worker[t].pc # "new"
    BY <1>1 DEF Loop, Issue, Flag, Write, Written, At
  <2>4. worker'[t].pc # "looked" /\ \A u \in Threads \ {t} : worker'[u] = worker[u]
    <3>1. CASE Flag(t)
      <4>1. Effect(t, IF At(t, "flag_read") THEN "read" ELSE "write", worker[t].t0, measuring, worker[t].perf)
        BY Zenon, <3>1, WorkerEffects
      <4> QED  BY ZenonT(60), <4>1 DEF Effect
    <3> QED  BY ZenonT(60), <1>1, <3>1, WorkerEffects DEF Effect
  <2>5. Looking' = Looking /\ Reading' = Reading
    BY <2>3, <2>4 DEF Looking, Reading
  <2>6. Missed' = Missed /\ Unowned' = Unowned
    BY ZenonT(60), <2>1, <2>2, <2>5 DEF Missed, Unowned
  <2>7. /\ count["hits"] \in Nat /\ count["bg_lookups"] \in Nat /\ count["fg"] \in Nat /\ count["tickers"] \in Nat
        /\ seen.early \in Nat /\ Missed \in Int /\ Unowned \in Nat
        /\ Cardinality(Reading) \in 0 .. Cardinality(Threads) /\ Cardinality(Threads) \in Nat
    BY Zenon, <1>0 DEF Numbers
  <2>8. /\ count["hits"] >= count["hits"] /\ count["bg_lookups"] >= count["bg_lookups"] /\ count["fg"] >= count["fg"]
        /\ count["bg_lookups"] - seen.early >= count["bg_lookups"] - seen.early
        /\ Missed >= Missed /\ Unowned >= Unowned
        /\ count["tickers"] - Unowned - count["fg"] - Cardinality(Reading)
             <= count["tickers"] - Unowned - count["fg"] - Cardinality(Reading)
    BY <2>7
  <2> QED  BY ZenonT(60), <2>1, <2>2, <2>3, <2>5, <2>6, <2>8 DEF Grown
<1>2. CASE Read(t)
  <2>1. /\ engine = "leveldb" /\ engine' = engine /\ worker[t].pc = "read"
        /\ count'["lookups"] = count["lookups"] + 1 /\ count'["hits"] = count["hits"]
        /\ count'["bg_lookups"] = count["bg_lookups"] /\ seen'.early = seen.early
    BY <1>2 DEF Read, Raise, BenchType, Loads, Counters, At
  <2>2. worker'[t].pc = "looked" /\ \A u \in Threads \ {t} : worker'[u] = worker[u]
    BY ZenonT(60), <1>2, WorkerEffects DEF Effect
  <2>3. t \in Looking' /\ Looking = Looking' \ {t}
    BY ZenonT(60), <2>1, <2>2 DEF Looking
  <2>4. Cardinality(Looking) = Cardinality(Looking') - 1
    BY ZenonT(60), <1>0, <2>3, ThreadSets DEF Numbers
  <2>5. Missed' = Missed
    BY <1>0, <2>1, <2>4 DEF Missed, Numbers
  <2> QED  BY <1>0, <2>1, <2>5 DEF Grown, Numbers
<1>3. CASE Looked(t)
  <2>1. /\ engine = "leveldb" /\ engine' = engine /\ worker[t].pc = "looked"
        /\ count'["lookups"] = count["lookups"] /\ count'["hits"] \in {count["hits"], count["hits"] + 1}
        /\ count'["bg_lookups"] = count["bg_lookups"]
    BY <1>3 DEF Looked, Raise, BenchType, Loads, Counters, At
  <2>2. seen'.early = seen.early
    BY <1>3 DEF Looked, Trace, BenchType
  <2>3. worker'[t].pc = "loop" /\ \A u \in Threads \ {t} : worker'[u] = worker[u]
    BY ZenonT(60), <1>3, WorkerEffects DEF Effect
  <2>4. t \in Looking /\ Looking' = Looking \ {t}
    BY ZenonT(60), <2>1, <2>3 DEF Looking
  <2>5. Cardinality(Looking') = Cardinality(Looking) - 1
    BY ZenonT(60), <1>0, <2>4, ThreadSets DEF Numbers
  <2>6. Missed' >= Missed
    BY <1>0, <2>1, <2>5 DEF Missed, Numbers
  <2> QED  BY <1>0, <2>1, <2>2, <2>4, <2>6 DEF Grown, Numbers
<1>4. CASE Get(t)
  <2>1. /\ engine = "rocksdb" /\ engine' = engine /\ worker[t].pc = "read"
        /\ count'["tickers"] = count["tickers"] + 1 /\ count'["fg"] = count["fg"]
        /\ count'["lookups"] = count["lookups"] /\ count'["hits"] = count["hits"]
    BY <1>4 DEF Get, Raise, BenchType, Loads, Counters, At
  <2>2. /\ seen'.bg = seen.bg
        /\ seen'.unmeasured = IF worker[t].measuring THEN seen.unmeasured ELSE seen.unmeasured + 1
    BY <1>4 DEF Get, BenchType
  <2>3. /\ worker'[t].pc = "looked" /\ worker'[t].measuring = worker[t].measuring
        /\ \A u \in Threads \ {t} : worker'[u] = worker[u]
    BY ZenonT(60), <1>4, WorkerEffects DEF Effect
  <2>4. CASE worker[t].measuring
    <3>1. t \in Reading' /\ Reading = Reading' \ {t}
      BY ZenonT(60), <2>1, <2>3, <2>4 DEF Reading
    <3>2. Cardinality(Reading) = Cardinality(Reading') - 1
      BY <1>0, <3>1, ThreadSets DEF Numbers
    <3>3. Unowned' = Unowned
      BY Zenon, <2>2, <2>4 DEF Unowned
    <3>4. count'["tickers"] - Unowned' - count'["fg"] - Cardinality(Reading')
            <= count["tickers"] - Unowned - count["fg"] - Cardinality(Reading)
      BY <1>0, <2>1, <3>2, <3>3 DEF Numbers
    <3>5. count'["fg"] >= count["fg"] /\ Unowned' >= Unowned
      BY <1>0, <2>1, <3>3 DEF Numbers
    <3> QED  BY <2>1, <3>4, <3>5 DEF Grown
  <2>5. CASE ~worker[t].measuring
    <3>1. Reading' = Reading
      BY ZenonT(60), <2>1, <2>3, <2>5 DEF Reading
    <3>2. Unowned' = Unowned + 1
      BY <1>0, <2>2, <2>5 DEF Unowned, Numbers
    <3> QED  BY <1>0, <2>1, <3>1, <3>2 DEF Grown, Numbers
  <2> QED  BY <2>1, <2>4, <2>5
<1>5. CASE Count(t)
  <2>1. /\ engine = "rocksdb" /\ engine' = engine /\ worker[t].pc = "looked"
        /\ count' = (IF worker[t].measuring THEN [count EXCEPT !["fg"] = @ + worker[t].perf] ELSE count)
    BY <1>5 DEF Count, At
  <2>2. seen'.bg = seen.bg /\ seen'.unmeasured = seen.unmeasured
    BY <1>5 DEF Count, Trace, BenchType
  <2>3. /\ worker'[t].pc = "loop" /\ \A u \in Threads \ {t} : worker'[u] = worker[u]
    BY ZenonT(60), <1>5, WorkerEffects DEF Effect
  <2>4. worker[t].perf = 1
    BY <2>1 DEF RocksInv
  <2>5. Unowned' = Unowned
    BY ZenonT(60), <2>2 DEF Unowned
  <2>6. CASE worker[t].measuring
    <3>1. t \in Reading /\ Reading' = Reading \ {t}
      BY ZenonT(60), <2>1, <2>3, <2>6 DEF Reading
    <3>2. Cardinality(Reading') = Cardinality(Reading) - 1
      BY <1>0, <3>1, ThreadSets DEF Numbers
    <3>3. /\ count'["fg"] = count["fg"] + 1 /\ count'["tickers"] = count["tickers"]
          /\ count'["lookups"] = count["lookups"] /\ count'["hits"] = count["hits"]
      BY ZenonT(60), <2>1, <2>4, <2>6 DEF BenchType, Loads, Counters
    <3>4. count'["tickers"] - Unowned' - count'["fg"] - Cardinality(Reading')
            <= count["tickers"] - Unowned - count["fg"] - Cardinality(Reading)
      BY <1>0, <2>5, <3>2, <3>3 DEF Numbers
    <3>5. count'["fg"] >= count["fg"] /\ Unowned' >= Unowned
      BY <1>0, <2>5, <3>3 DEF Numbers
    <3> QED  BY <2>1, <3>3, <3>4, <3>5 DEF Grown
  <2>7. CASE ~worker[t].measuring
    <3>1. Reading' = Reading
      BY ZenonT(60), <2>1, <2>3, <2>7 DEF Reading
    <3> QED  BY <1>0, <2>1, <2>5, <2>7, <3>1 DEF Grown, Numbers
  <2> QED  BY <2>6, <2>7
<1> QED  BY ZenonT(60), <1>1, <1>2, <1>3, <1>4, <1>5 DEF WorkerLoop

(* So does a background job, whose lookups in the warm-up are the early ones. *)
LEMMA BackgroundGrows ==
    ASSUME BenchType, BenchType', Background
    PROVE  Grown
<1>0. Numbers /\ Numbers'
  BY NumbersTyped, NumbersNext
<1>1. Looking' = Looking /\ Reading' = Reading /\ engine' = engine
  BY Zenon DEF Background, Looking, Reading
<1>2. CASE engine = "leveldb"
  <2>1. /\ count'["bg_lookups"] = count["bg_lookups"] + 1
        /\ count'["lookups"] = count["lookups"] /\ count'["hits"] = count["hits"]
        /\ seen'.early = IF measuring THEN seen.early ELSE seen.early + 1
    BY <1>2 DEF Background, BenchType, Loads, Counters
  <2>2. Missed' = Missed
    BY Zenon, <1>1, <2>1 DEF Missed
  <2> QED  BY <1>0, <1>1, <1>2, <2>1, <2>2 DEF Grown, Numbers
<1>3. CASE engine = "rocksdb"
  <2>1. /\ count'["tickers"] = count["tickers"] + 1 /\ count'["fg"] = count["fg"]
        /\ count'["lookups"] = count["lookups"] /\ count'["hits"] = count["hits"]
        /\ seen'.bg = seen.bg + 1 /\ seen'.unmeasured = seen.unmeasured
    BY ZenonT(60), <1>3 DEF Background, Raise, BenchType, Loads, Counters
  <2>2. Unowned' = Unowned + 1
    BY <1>0, <2>1 DEF Unowned, Numbers
  <2> QED  BY <1>0, <1>1, <1>3, <2>1, <2>2 DEF Grown, Numbers
<1> QED  BY <1>0, <1>2, <1>3 DEF Numbers

(* What Run loads of each counter, and when. *)
LEMMA LoadedColumns ==
    ASSUME BenchType, NEW known \in Loads
    PROVE  /\ engine = "leveldb" =>
                /\ Loaded(known, ResetOrder[1])["hits"] = known["hits"]
                /\ Loaded(known, ResetOrder[2])["hits"] = count["hits"]
                /\ Loaded(known, ResetOrder[2])["bg_lookups"] = count["bg_lookups"]
                /\ Loaded(known, LoadOrder[2])["bg_lookups"] = count["bg_lookups"]
           /\ engine = "rocksdb" =>
                /\ Loaded(known, LoadOrder[1])["tickers"] = count["tickers"]
                /\ Loaded(known, LoadOrder[2])["tickers"] = known["tickers"]
BY ZenonT(60) DEF Loaded, ResetOrder, LoadOrder, Counters

(* Run sets what the summary subtracts when the window opens, and never    *)
(* again.                                                                  *)
LEMMA BaseKept ==
    ASSUME BenchType, Run
    PROVE  /\ ~Reset => main'.base = main.base
           /\ Reset => main'.base = IF engine = "leveldb" THEN Loaded(main.base, ResetOrder[main.i]) ELSE main.base
<1>0. main \in Main
  BY DEF BenchType
<1>1. CASE Reset
  <2> DEFINE i == IF main.i = Len(ResetOrder) THEN 1 ELSE main.i + 1
             pc == IF main.i = Len(ResetOrder) THEN "health" ELSE main.pc
             prev == Loaded(main.prev, ResetOrder[main.i])
             base == IF engine = "leveldb" THEN Loaded(main.base, ResetOrder[main.i]) ELSE main.base
  <2>1. main' = [main EXCEPT !.i = i, !.pc = pc, !.prev = prev, !.base = base]
    BY <1>1 DEF Reset, Base, Main
  <2> HIDE DEF i, pc, prev, base
  <2>2. main'.base = base
    BY <1>0, <2>1 DEF Main
  <2> QED  BY <1>1, <2>2 DEF base
<1>2. CASE Remove \/ Prepare \/ Outputs \/ Start \/ Second \/ Health \/ Sleep
  BY Zenon, <1>0, <1>2 DEF Remove, Prepare, Outputs, Start, Second, Health, Sleep, Main, Reset
<1>3. CASE Load
  BY <1>0, <1>3 DEF Load, Main, Reset
<1>4. CASE Row \/ Stop \/ Join \/ Events \/ Summary
  BY Zenon, <1>0, <1>4 DEF Row, Stop, Join, Events, Summary, Main, Reset
<1> QED  BY <1>1, <1>2, <1>3, <1>4 DEF Run

(* A step of the main thread that loads nothing and writes no row. *)
LEMMA ColumnIdle ==
    ASSUME BenchType, SummaryInv, ColumnInv, UNCHANGED <<engine, count, worker, seen, rows>>,
           main'.base = main.base, main.pc # "reset",
           main'.pc \notin {"row", "done"}, main'.pc \in {"reset", "load"} => main'.i = 1,
           main'.pc = "reset" \/ measuring' = measuring,
           main'.pc \in {"remove", "prepare", "fill", "start"}
             => main.pc \in {"remove", "prepare", "fill", "start"}
    PROVE  (SummaryInv /\ ColumnInv)'
<1>1. Looking' = Looking /\ Reading' = Reading
  BY DEF Looking, Reading
<1>2. Missed' = Missed /\ Unowned' = Unowned
  BY Zenon, <1>1 DEF Missed, Unowned
<1>3. SummaryInv'
  BY <1>1, <1>2 DEF SummaryInv, SummaryAddsUp
<1>4. BgAccounted'
  BY Zenon DEF ColumnInv, BgAccounted
<1>5. ColumnInv'
  BY <1>1, <1>2, <1>4 DEF ColumnInv
<1> QED  BY Zenon, <1>3, <1>5

(* The main thread's steps. *)
LEMMA RunKeepsColumns ==
    ASSUME BenchType, BenchType', WindowInv, SummaryInv, ColumnInv, Run
    PROVE  (SummaryInv /\ ColumnInv)'
<1>0. Numbers /\ Numbers' /\ main.base \in Loads /\ main.cur \in Loads /\ main.i \in {1, 2}
  BY NumbersTyped, NumbersNext DEF BenchType, Main
<1>1. CASE Remove \/ Prepare \/ Outputs \/ Second \/ Health \/ Sleep \/ Stop \/ Join \/ Events
  <2>1. /\ UNCHANGED <<engine, count, worker, seen, rows>>
        /\ main.pc \in {"remove", "prepare", "fill", "second", "health", "sleep", "stop", "join", "events"}
    BY <1>1 DEF Remove, Prepare, Outputs, Second, Health, Sleep, Stop, Join, Events, history
  <2>2. main'.base = main.base
    BY Zenon, <1>1, <2>1, BaseKept DEF Reset
  <2>3. CASE Remove \/ Prepare \/ Outputs
    <3>1. measuring' = measuring /\ main.pc \in {"remove", "prepare", "fill"}
      BY <2>3 DEF Remove, Prepare, Outputs
    <3>2. main'.pc \in {"remove", "prepare", "fill", "failed", "start"}
      BY ZenonT(60), <2>3, MainEffects DEF MainEffect, To
    <3> QED  BY ZenonT(60), <2>1, <2>2, <3>1, <3>2, ColumnIdle
  <2>4. CASE Second
    <3>1. /\ main'.pc = (IF main.sec = warmup + 1 THEN "reset" ELSE "health") /\ main'.i = main.i
          /\ main.i = 1 /\ measuring' = (measuring \/ main.sec = warmup + 1)
      BY ZenonT(60), <2>4, MainEffects DEF MainEffect, To, Second, WindowInv
    <3>2. main'.pc = "reset" \/ measuring' = measuring
      BY ZenonT(60), <3>1 DEF BenchType
    <3> QED  BY Zenon, <2>1, <2>2, <3>1, <3>2, ColumnIdle
  <2>5. CASE Health \/ Sleep \/ Stop \/ Join \/ Events
    <3>1. measuring' = measuring /\ main.pc \in {"health", "sleep", "stop", "join", "events"}
      BY <2>5 DEF Health, Sleep, Stop, Join, Events
    <3>2. main.i = 1
      BY <3>1 DEF WindowInv
    <3>3. main'.pc \in {"sleep", "second", "load", "join", "events", "summary"} /\ main'.i = main.i
      BY ZenonT(60), <2>5, MainEffects DEF MainEffect, To
    <3> QED  BY ZenonT(60), <2>1, <2>2, <3>1, <3>2, <3>3, ColumnIdle
  <2> QED  BY <1>1, <2>3, <2>4, <2>5
<1>2. CASE Start
  <2>1. /\ UNCHANGED <<engine, measuring, count, seen, rows>> /\ main.pc = "start"
        /\ \A t \in Threads : worker'[t].pc = "loop"
    BY <1>2 DEF Start, history, Top
  <2>2. main'.pc = "second" /\ main'.base = main.base
    BY Zenon, <1>2, <2>1, BaseKept, MainEffects DEF MainEffect, To, Reset
  <2>3. Looking = {} /\ Looking' = {} /\ Reading = {} /\ Reading' = {}
    BY <2>1 DEF Looking, Reading, ColumnInv
  <2>4. Missed' = Missed /\ Unowned' = Unowned
    BY Zenon, <2>1, <2>3 DEF Missed, Unowned
  <2>5. SummaryInv'
    BY Zenon, <2>1, <2>2, <2>4 DEF SummaryInv, SummaryAddsUp
  <2>6. BgAccounted'
    BY Zenon, <2>1 DEF ColumnInv, BgAccounted
  <2> QED  BY <2>1, <2>2, <2>3, <2>4, <2>5, <2>6 DEF ColumnInv
<1>3. CASE Reset
  <2>1. UNCHANGED <<engine, measuring, count, worker, seen, rows>> /\ main.pc = "reset"
    BY ZenonT(60), <1>3 DEF Reset, history
  <2>2. \/ main.i = 1 /\ main'.i = 2 /\ main'.pc = "reset"
        \/ main.i = 2 /\ main'.i = 1 /\ main'.pc = "health"
    BY <1>3, MainEffects DEF MainEffect
  <2>3. main'.base = IF engine = "leveldb" THEN Loaded(main.base, ResetOrder[main.i]) ELSE main.base
    BY <1>3, BaseKept
  <2>4. Looking' = Looking /\ Reading' = Reading
    BY <2>1 DEF Looking, Reading
  <2>5. Missed' = Missed /\ Unowned' = Unowned
    BY Zenon, <2>1, <2>4 DEF Missed, Unowned
  <2>6. engine = "leveldb" =>
          /\ main.i = 1 => main'.base["lookups"] = count["lookups"]
          /\ main.i = 2 => /\ main'.base["lookups"] = main.base["lookups"]
                           /\ main'.base["hits"] = count["hits"]
                           /\ main'.base["bg_lookups"] = count["bg_lookups"]
    BY <1>0, <2>3, LoadedCounts, LoadedColumns
  <2>7. SummaryInv'
    <3>1. CASE engine = "leveldb" /\ main.i = 1
      <4>1. count["lookups"] <= Missed + count["hits"] + Cardinality(Threads)
        BY <1>0 DEF Missed, Numbers
      <4> QED  BY ZenonT(60), <1>0, <2>1, <2>2, <2>5, <2>6, <3>1, <4>1 DEF SummaryInv, SummaryAddsUp, Numbers
    <3>2. CASE engine = "leveldb" /\ main.i = 2
      BY Zenon, <1>0, <2>1, <2>2, <2>5, <2>6, <3>2 DEF SummaryInv, SummaryAddsUp, Numbers
    <3>3. CASE engine = "rocksdb"
      BY Zenon, <2>1, <2>2, <2>3, <3>3 DEF SummaryInv, SummaryAddsUp
    <3> QED  BY Zenon, <1>0, <3>1, <3>2, <3>3 DEF Numbers
  <2>8. BgAccounted'
    BY ZenonT(60), <2>1 DEF ColumnInv, BgAccounted
  <2> QED  BY ZenonT(60), <1>0, <2>1, <2>2, <2>4, <2>5, <2>6, <2>7, <2>8 DEF ColumnInv
<1>4. CASE Load
  <2>1. UNCHANGED <<engine, measuring, count, worker, seen, rows>> /\ main.pc = "load"
    BY <1>4 DEF Load, history
  <2>2. /\ \/ main.i = 1 /\ main'.i = 2 /\ main'.pc = "load"
           \/ main.i = 2 /\ main'.i = 1 /\ main'.pc = "row"
        /\ main'.cur = Loaded(main.cur, LoadOrder[main.i])
    BY Zenon, <1>4, MainEffects DEF MainEffect
  <2>3. main'.base = main.base
    BY <1>4, <2>1, BaseKept DEF Reset
  <2>4. Looking' = Looking /\ Reading' = Reading
    BY <2>1 DEF Looking, Reading
  <2>5. Missed' = Missed /\ Unowned' = Unowned
    BY Zenon, <2>1, <2>4 DEF Missed, Unowned
  <2>6. /\ engine = "leveldb" /\ main.i = 2 => main'.cur["bg_lookups"] = count["bg_lookups"]
        /\ engine = "rocksdb" => /\ main.i = 1 => main'.cur["tickers"] = count["tickers"]
                                 /\ main.i = 2 => /\ main'.cur["tickers"] = main.cur["tickers"]
                                                  /\ main'.cur["fg"] = count["fg"]
    <3>1. BenchType /\ main.cur \in Loads
      BY <1>0 DEF BenchType, Main
    <3>2. PICK i \in {1, 2} : i = main.i /\ main'.cur = Loaded(main.cur, LoadOrder[i])
      BY Zenon, <2>2
    <3>3. CASE i = 1
      <4>1. engine = "rocksdb" => Loaded(main.cur, LoadOrder[1])["tickers"] = count["tickers"]
        BY Zenon, <3>1, LoadedColumns
      <4>2. main.i # 2
        BY <3>2, <3>3
      <4> QED  BY Zenon, <3>2, <3>3, <4>1, <4>2
    <3>4. CASE i = 2
      <4>1. /\ engine = "leveldb" => Loaded(main.cur, LoadOrder[2])["bg_lookups"] = count["bg_lookups"]
            /\ engine = "rocksdb" => Loaded(main.cur, LoadOrder[2])["tickers"] = main.cur["tickers"]
        BY Zenon, <3>1, LoadedColumns
      <4>2. engine = "rocksdb" => Loaded(main.cur, LoadOrder[2])["fg"] = count["fg"]
        BY Zenon, <3>1, LoadedCounts
      <4>3. main.i # 1
        BY <3>2, <3>4
      <4> QED  BY Zenon, <3>2, <3>4, <4>1, <4>2, <4>3
    <3> QED  BY Zenon, <3>3, <3>4
  <2>7. SummaryInv'
    BY <2>1, <2>2, <2>3, <2>5 DEF SummaryInv, SummaryAddsUp
  <2>8. BgAccounted'
    BY ZenonT(60), <2>1 DEF ColumnInv, BgAccounted
  <2>9. CASE engine = "leveldb"
    <3>1. /\ seen'.early <= count'["bg_lookups"]
          /\ measuring' => seen'.early <= main'.base["bg_lookups"]
      BY ZenonT(60), <2>1, <2>3, <2>9 DEF ColumnInv
    <3>2. main'.pc = "row" => main'.cur["bg_lookups"] <= count'["bg_lookups"]
      <4>1. main'.pc = "row" => main'.cur["bg_lookups"] = count'["bg_lookups"]
        BY Zenon, <2>1, <2>2, <2>6, <2>9
      <4>2. count'["bg_lookups"] \in Nat
        BY Zenon, <1>0 DEF Numbers
      <4> QED  BY <4>1, <4>2
    <3> QED  BY Zenon, <2>1, <2>2, <2>7, <2>8, <2>9, <3>1, <3>2 DEF ColumnInv
  <2>10. CASE engine = "rocksdb"
    <3>1. count["tickers"] <= Unowned + count["fg"] + Cardinality(Reading)
      BY Zenon, <2>10 DEF ColumnInv
    <3>2. main.i = 1 => main'.cur["tickers"] <= Unowned + count["fg"] + Cardinality(Threads)
      BY <1>0, <2>6, <2>10, <3>1 DEF Numbers
    <3>3. main.i = 2 => main'.cur["tickers"] <= Unowned + main'.cur["fg"] + Cardinality(Threads)
      BY Zenon, <2>1, <2>6, <2>10 DEF ColumnInv
    <3>4. /\ main'.pc = "load" /\ main'.i = 2 => main'.cur["tickers"] <= Unowned' + count'["fg"] + Cardinality(Threads)
          /\ main'.pc = "row" => main'.cur["tickers"] <= Unowned' + main'.cur["fg"] + Cardinality(Threads)
          /\ count'["tickers"] <= Unowned' + count'["fg"] + Cardinality(Reading')
      BY ZenonT(60), <2>1, <2>2, <2>4, <2>5, <3>1, <3>2, <3>3
    <3> QED  BY Zenon, <2>1, <2>2, <2>7, <2>8, <2>10, <3>4 DEF ColumnInv
  <2> QED  BY Zenon, <1>0, <2>9, <2>10 DEF Numbers
<1>5. CASE Row
  <2>1. /\ UNCHANGED <<engine, measuring, count, worker, seen>> /\ main.pc = "row" /\ measuring
        /\ rows'.bg = BgLookups(main.cur)
    BY <1>5 DEF Row, WindowInv
  <2>2. main'.pc \in {"stop", "second"}
    BY Zenon, <1>5, MainEffects DEF MainEffect
  <2>3. main'.base = main.base
    BY Zenon, <1>5, <2>1, BaseKept DEF Reset
  <2>4. Looking' = Looking /\ Reading' = Reading
    BY <2>1 DEF Looking, Reading
  <2>5. Missed' = Missed /\ Unowned' = Unowned
    BY Zenon, <2>1, <2>4 DEF Missed, Unowned
  <2>6. SummaryInv'
    BY Zenon, <2>1, <2>2, <2>3, <2>5 DEF SummaryInv, SummaryAddsUp
  <2>7. BgAccounted'
    <3>1. CASE engine = "leveldb"
      <4>1. seen.early <= main.base["bg_lookups"] /\ main.cur["bg_lookups"] <= count["bg_lookups"]
        BY Zenon, <2>1, <3>1 DEF ColumnInv
      <4>2. rows'.bg = main.cur["bg_lookups"] - main.base["bg_lookups"]
        BY <2>1, <3>1 DEF BgLookups
      <4>3. /\ seen.early \in Nat /\ main.base["bg_lookups"] \in Nat
            /\ main.cur["bg_lookups"] \in Nat /\ count["bg_lookups"] \in Nat
        BY Zenon, <1>0 DEF Numbers
      <4>4. rows'.bg <= count["bg_lookups"] - seen.early
        BY <4>1, <4>2, <4>3
      <4> QED  BY Zenon, <2>1, <3>1, <4>4 DEF BgAccounted
    <3>2. CASE engine = "rocksdb"
      <4>1. main.cur["tickers"] <= Unowned + main.cur["fg"] + Cardinality(Threads)
        BY Zenon, <2>1, <3>2 DEF ColumnInv
      <4>2. rows'.bg = Beyond(main.cur["tickers"], main.cur["fg"])
        BY <2>1, <3>2 DEF BgLookups
      <4>3. /\ main.cur["tickers"] \in Nat /\ main.cur["fg"] \in Nat
            /\ Unowned \in Nat /\ Cardinality(Threads) \in Nat
        BY Zenon, <1>0 DEF Numbers
      <4>4. rows'.bg \in 0 .. Unowned + Cardinality(Threads)
        BY <4>1, <4>2, <4>3 DEF Beyond
      <4> QED  BY Zenon, <2>1, <3>2, <4>4 DEF BgAccounted, Unowned
    <3> QED  BY <1>0, <3>1, <3>2 DEF Numbers
  <2> QED  BY <2>1, <2>2, <2>3, <2>4, <2>5, <2>6, <2>7 DEF ColumnInv
<1>6. CASE Summary
  <2>1. UNCHANGED <<engine, measuring, count, worker, seen, rows>> /\ main.pc = "summary"
    BY <1>6 DEF Summary, history
  <2>2. main'.pc = "done" /\ main'.cur = count
    BY Zenon, <1>6, MainEffects DEF MainEffect
  <2>3. main'.base = main.base
    BY Zenon, <1>6, <2>1, BaseKept DEF Reset
  <2>4. Looking' = Looking /\ Reading' = Reading
    BY <2>1 DEF Looking, Reading
  <2>5. Missed' = Missed /\ Unowned' = Unowned
    BY ZenonT(60), <2>1, <2>4 DEF Missed, Unowned
  <2>6. SummaryAddsUp'
    <3>1. CASE engine = "leveldb"
      <4>1. main.base["lookups"] <= Missed + main.base["hits"] + Cardinality(Threads)
        BY ZenonT(60), <2>1, <3>1 DEF SummaryInv
      <4> QED  BY <1>0, <2>2, <2>3, <4>1 DEF SummaryAddsUp, Missed, Numbers
    <3>2. CASE engine = "rocksdb"
      BY <1>0, <2>2, <2>3, <3>2 DEF SummaryAddsUp, SummaryInv, Numbers
    <3> QED  BY <1>0, <3>1, <3>2 DEF Numbers
  <2>7. SummaryInv'
    BY ZenonT(60), <2>1, <2>2, <2>3, <2>5, <2>6 DEF SummaryInv
  <2>8. BgAccounted'
    BY Zenon, <2>1 DEF ColumnInv, BgAccounted
  <2> QED  BY <2>1, <2>2, <2>3, <2>4, <2>5, <2>7, <2>8 DEF ColumnInv
<1> QED  BY Zenon, <1>1, <1>2, <1>3, <1>4, <1>5, <1>6 DEF Run

(* The two hold in every state of a run. *)
LEMMA ColumnInvariance == Spec => [](SummaryInv /\ ColumnInv)
<1>1. Init => SummaryInv /\ ColumnInv
  <2> SUFFICES ASSUME Init  PROVE SummaryInv /\ ColumnInv
    OBVIOUS
  <2>1. /\ main.pc \in {"remove", "prepare"} /\ main.base = NoCounts /\ count = NoCounts
        /\ measuring = FALSE /\ rows.bg = 0 /\ seen.early = 0 /\ seen.bg = 0 /\ seen.unmeasured = 0
        /\ \A t \in Threads : worker[t].pc = "new"
    BY DEF Init, Top
  <2>2. \A c \in {"lookups", "hits", "bg_lookups", "tickers", "fg"} : NoCounts[c] = 0
    BY ZenonT(60) DEF NoCounts, Counters
  <2>3. Looking = {} /\ Reading = {} /\ Cardinality({}) = 0 /\ Cardinality(Threads) \in Nat
    BY <2>1, FS_EmptySet, ThreadSets DEF Looking, Reading
  <2>4. Missed = 0 /\ Unowned = 0
    BY <2>1, <2>2, <2>3 DEF Missed, Unowned
  <2>5. SummaryInv
    BY <2>1, <2>2, <2>3, <2>4 DEF SummaryInv, SummaryAddsUp
  <2> QED  BY <2>1, <2>2, <2>3, <2>4, <2>5 DEF ColumnInv, BgAccounted
<1>2. BenchType /\ BenchType' /\ (WindowInv /\ LevelInv /\ RocksInv) /\ (SummaryInv /\ ColumnInv) /\ [Next]_vars
        => (SummaryInv /\ ColumnInv)'
  <2> SUFFICES ASSUME BenchType, BenchType', WindowInv, RocksInv, SummaryInv, ColumnInv, [Next]_vars
               PROVE  (SummaryInv /\ ColumnInv)'
    OBVIOUS
  <2>1. ASSUME NEW t \in Threads, WorkerLoop(t)  PROVE (SummaryInv /\ ColumnInv)'
    <3>1. Grown /\ main.pc \notin {"remove", "prepare", "fill", "start"}
      BY Zenon, <2>1, WorkersGrow DEF ColumnInv
    <3>2. UNCHANGED <<main, rows, measuring>>
      BY <2>1 DEF WorkerLoop, Loop, Issue, Flag, Read, Looked, Get, Count, Write, Written, history
    <3> QED  BY Zenon, <3>1, <3>2, GrownKeeps
  <2>2. CASE Background
    <3>1. UNCHANGED <<main, rows, measuring, worker>>
      BY Zenon, <2>2 DEF Background, history
    <3> QED  BY <2>2, <3>1, BackgroundGrows, GrownKeeps
  <2>3. CASE Tick \/ UNCHANGED vars
    <3>1. UNCHANGED <<engine, measuring, count, worker, main, seen, rows>>
      BY Zenon, <2>3 DEF Tick, vars, history
    <3>2. Looking' = Looking /\ Reading' = Reading
      BY <3>1 DEF Looking, Reading
    <3>3. Missed' = Missed /\ Unowned' = Unowned
      BY Zenon, <3>1, <3>2 DEF Missed, Unowned
    <3>4. SummaryInv'
      BY <3>1, <3>3 DEF SummaryInv, SummaryAddsUp
    <3> QED  BY Zenon, <3>1, <3>2, <3>3, <3>4 DEF ColumnInv, BgAccounted
  <2> QED  BY <2>1, <2>2, <2>3, RunKeepsColumns DEF Next
<1> QED  BY <1>1, <1>2, WindowInvariance, BenchTyped, PTL DEF Spec

(* The background's column counts no lookup of the warm-up on LevelDB; on  *)
(* RocksDB, where it is the difference of two loads, it passes what it is  *)
(* meant to count by at most one read a thread and never wraps (Run,       *)
(* bg_lookups), for any number of threads.                                 *)
THEOREM BackgroundAccounted == Spec => []BgAccounted
<1>1. SummaryInv /\ ColumnInv => BgAccounted
  BY DEF ColumnInv
<1> QED  BY <1>1, ColumnInvariance, PTL

(* The summary's hits pass its lookups by at most one read a thread, those *)
(* that were between their two counts when base_lookups was loaded (Run,   *)
(* the totals after the join), for any number of threads.                  *)
THEOREM SummaryHolds == Spec => []SummaryAddsUp
<1>1. SummaryInv /\ ColumnInv => SummaryAddsUp
  BY DEF SummaryInv
<1> QED  BY <1>1, ColumnInvariance, PTL
=============================================================================
