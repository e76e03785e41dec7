-------------------------- MODULE WarmQueueProofs --------------------------
(***************************************************************************)
(* For any number of files and any batch size: the warm thread is gone     *)
(* before the DB is, and no warm call fails for a file that can be read.   *)
(***************************************************************************)
EXTENDS WarmQueue, TLAPS

(* The provers that a leaf is tried with in turn, unless it names its own. *)
USE SMT, Zenon, Z3, SMTT(30), Z3T(30)

Batch == [file: Files, left: Nat \ {0}]

(* A thread that is not warming has no batch, and Shutdown passes Join     *)
(* only after the thread has exited, which is for good.                    *)
ExitInv ==
    /\ t_pc \notin {"size", "warm"} => batch = NoBatch
    /\ main_pc \in {"closing", "closed"} => t_pc = "exited"

(* A batch, waiting or taken, is of a file that has been written; the size *)
(* of an open file is remembered, so what FileSize found is right as long  *)
(* as the file is open.                                                    *)
FailInv ==
    /\ state \in [Files -> {"unwritten", "open", "failed", "evicting", "evicted", "forgotten", "dropped",
                            "unlinked"}]
    /\ \A f \in Files : state[f] = "open" => f \in file_sizes
    /\ warm_queue \in Seq(Batch)
    /\ \A i \in 1 .. Len(warm_queue) : state[warm_queue[i].file] # "unwritten"
    /\ t_pc \in {"size", "warm"} => batch \in Batch /\ state[batch.file] # "unwritten"
    /\ t_pc = "warm" /\ state[batch.file] = "open" => known
    /\ warm_failed \in SUBSET Files
    /\ FailsOnlyIfGone

(* Every step of the threads keeps ExitInv. *)
LEMMA ExitStep ==
    ASSUME ExitInv, [Next]_vars
    PROVE  ExitInv'
<1> USE DEF ExitInv
<1>1. ASSUME NEW f \in Files, NEW built \in BOOLEAN, OnOutputFileFinished(f, built)  PROVE ExitInv'
  BY <1>1 DEF OnOutputFileFinished
<1>2. ASSUME NEW f \in Files, RemoveObsoleteFiles(f)  PROVE ExitInv'
  BY <1>2 DEF RemoveObsoleteFiles
<1>3. ASSUME NEW f \in Files, DropTable(f)  PROVE ExitInv'
  BY <1>3 DEF DropTable
<1>4. CASE NotifyOne
  BY <1>4 DEF NotifyOne, Wake
<1>5. CASE CheckQueue
  BY <1>5 DEF CheckQueue
<1>6. CASE FileSize
  BY <1>6 DEF FileSize
<1>7. CASE WarmBlock
  BY <1>7 DEF WarmBlock
<1>8. CASE Stop
  BY <1>8 DEF Stop
<1>9. CASE NotifyAll
  BY <1>9 DEF NotifyAll, Wake
<1>10. CASE Join
  BY <1>10 DEF Join, Joined
<1>11. CASE CloseDB
  BY <1>11 DEF CloseDB
<1>12. CASE UNCHANGED vars
  BY <1>12 DEF vars
<1> QED
  BY <1>1, <1>2, <1>3, <1>4, <1>5, <1>6, <1>7, <1>8, <1>9, <1>10, <1>11, <1>12
  DEF Next, WarmThread, Shutdown

(* The warm thread never reads through a DB that Shutdown's caller has     *)
(* deleted: Join waits for WarmLoop to return.                             *)
THEOREM NeverUsedAfterClose == Spec => []NoUseAfterClose
<1>1. Init => ExitInv
  BY DEF Init, ExitInv
<1>2. ExitInv /\ [Next]_vars => ExitInv'
  BY ExitStep
<1>3. ExitInv => NoUseAfterClose
  BY DEF ExitInv, NoUseAfterClose
<1> QED  BY <1>1, <1>2, <1>3, PTL DEF Spec

(* The life of a file only goes forward from "unwritten". *)
LEMMA NeverUnwritten ==
    ASSUME FailInv, NEW g \in Files, NEW s \in {"open", "failed", "evicting", "evicted", "forgotten", "dropped",
                                                "unlinked"},
           state' = [state EXCEPT ![g] = s]
    PROVE  /\ state' \in [Files -> {"unwritten", "open", "failed", "evicting", "evicted", "forgotten", "dropped",
                                    "unlinked"}]
           /\ \A f \in Files : state[f] # "unwritten" => state'[f] # "unwritten"
           /\ \A f \in Files : f # g => state'[f] = state[f]
           /\ state'[g] = s
BY DEF FailInv

(* Every waiting batch names one of the files. *)
LEMMA QueuedFiles ==
    ASSUME FailInv, NEW i \in 1 .. Len(warm_queue)
    PROVE  warm_queue[i].file \in Files
<1>1. warm_queue \in Seq(Batch)
  BY DEF FailInv
<1>2. warm_queue[i] \in Batch
  BY <1>1
<1> QED  BY <1>2 DEF Batch

(* Every step of the threads keeps FailInv. *)
LEMMA FailStep ==
    ASSUME FailInv, [Next]_vars
    PROVE  FailInv'
<1>1. ASSUME NEW f \in Files, NEW built \in BOOLEAN, OnOutputFileFinished(f, built)  PROVE FailInv'
  <2>0. PICK s \in {"open", "failed"} : state' = [state EXCEPT ![f] = s]
    BY <1>1 DEF OnOutputFileFinished, Finish
  <2>1. /\ state[f] = "unwritten" /\ state' = [state EXCEPT ![f] = s]
        /\ file_sizes' = file_sizes \cup {f}
        /\ UNCHANGED <<batch, known, t_pc, warm_failed>>
    BY <1>1, <2>0 DEF OnOutputFileFinished, Finish, Remember
  <2>2. /\ warm_queue' \in Seq(Batch)
        /\ \A i \in 1 .. Len(warm_queue') : state'[warm_queue'[i].file] # "unwritten"
    <3>1. CASE UNCHANGED warm_queue
      <4>1. \A i \in 1 .. Len(warm_queue) : warm_queue[i].file \in Files
        BY QueuedFiles
      <4> QED  BY <2>1, <3>1, <4>1, NeverUnwritten DEF FailInv
    <3>2. ASSUME NEW n \in 1 .. BatchSize, warm_queue' = Append(warm_queue, [file |-> f, left |-> n])
          PROVE  /\ warm_queue' \in Seq(Batch)
                 /\ \A i \in 1 .. Len(warm_queue') : state'[warm_queue'[i].file] # "unwritten"
      <4>1. n \in Int /\ [file |-> f, left |-> n] \in Batch
        BY QueueAssumption DEF Batch
      <4>2. warm_queue \in Seq(Batch) /\ Len(warm_queue) \in Nat
        BY DEF FailInv
      <4>3. /\ warm_queue' \in Seq(Batch) /\ Len(warm_queue') = Len(warm_queue) + 1
            /\ \A i \in 1 .. Len(warm_queue) : warm_queue'[i] = warm_queue[i]
            /\ warm_queue'[Len(warm_queue) + 1] = [file |-> f, left |-> n]
        BY <3>2, <4>1, <4>2
      <4>4. \A i \in 1 .. Len(warm_queue) : warm_queue[i].file \in Files
        BY QueuedFiles
      <4>5. ASSUME NEW i \in 1 .. Len(warm_queue')  PROVE state'[warm_queue'[i].file] # "unwritten"
        <5>1. CASE i \in 1 .. Len(warm_queue)
          BY <2>1, <4>3, <4>4, <5>1, NeverUnwritten DEF FailInv
        <5>2. CASE i = Len(warm_queue) + 1
          <6>1. warm_queue'[i].file = f
            BY <4>3, <5>2
          <6> QED  BY Zenon, <2>1, <6>1, NeverUnwritten
        <5> QED  BY <4>2, <4>3, <5>1, <5>2
      <4> QED  BY <4>3, <4>5
    <3> QED  BY Zenon, <1>1, <3>1, <3>2 DEF OnOutputFileFinished
  <2>3. t_pc \in {"size", "warm"} => batch.file \in Files /\ batch.file # f
    BY <2>1 DEF FailInv, Batch
  <2>4. f \notin warm_failed
    BY <2>1 DEF FailInv, FailsOnlyIfGone
  <2> QED  BY <2>1, <2>2, <2>3, <2>4, NeverUnwritten DEF FailInv, FailsOnlyIfGone
<1>2. ASSUME NEW f \in Files, RemoveObsoleteFiles(f)  PROVE FailInv'
  <2>1. /\ state[f] \notin {"unwritten"}
        /\ \E s \in {"evicting", "evicted", "forgotten", "dropped", "unlinked"} :
             state' = [state EXCEPT ![f] = s]
        /\ file_sizes' = file_sizes \/ file_sizes' = file_sizes \cup {f}
           \/ file_sizes' = file_sizes \ {f}
        /\ UNCHANGED <<warm_queue, batch, known, t_pc, warm_failed>>
    BY <1>2 DEF RemoveObsoleteFiles, Drop
  <2>2. PICK s \in {"evicting", "evicted", "forgotten", "dropped", "unlinked"} :
           state' = [state EXCEPT ![f] = s]
    BY Zenon, <2>1
  <2>3. \A i \in 1 .. Len(warm_queue) : warm_queue[i].file \in Files
    BY QueuedFiles
  <2>4. t_pc \in {"size", "warm"} => batch.file \in Files
    BY DEF FailInv, Batch
  <2>5. \A g \in Files : state'[g] = "open" => state[g] = "open" /\ g # f
    BY Zenon, <2>2, NeverUnwritten
  <2> QED  BY <2>1, <2>2, <2>3, <2>4, <2>5, NeverUnwritten DEF FailInv, FailsOnlyIfGone
<1>3. ASSUME NEW f \in Files, DropTable(f)  PROVE FailInv'
  BY <1>3 DEF DropTable, FailInv, FailsOnlyIfGone
<1>4. CASE NotifyOne
  BY <1>4 DEF NotifyOne, Wake, fileVars, FailInv, FailsOnlyIfGone
<1>5. CASE CheckQueue
  <2>1. CASE Stops \/ warm_queue = <<>>
    BY <1>5, <2>1 DEF CheckQueue, fileVars, FailInv, FailsOnlyIfGone
  <2>2. CASE ~Stops /\ warm_queue # <<>>
    <3>1. /\ batch' = Head(warm_queue) /\ warm_queue' = Tail(warm_queue) /\ t_pc' = "size"
          /\ UNCHANGED <<known, state, file_sizes, warm_failed>>
      BY <1>5, <2>2 DEF CheckQueue, fileVars
    <3>2. warm_queue \in Seq(Batch) /\ Len(warm_queue) \in Nat \ {0}
      BY <2>2 DEF FailInv
    <3>3. /\ warm_queue' \in Seq(Batch) /\ Len(warm_queue') = Len(warm_queue) - 1
          /\ \A i \in 1 .. Len(warm_queue') : warm_queue'[i] = warm_queue[i + 1]
          /\ batch' = warm_queue[1]
      BY <2>2, <3>1, <3>2
    <3>4. \A i \in 1 .. Len(warm_queue') : state[warm_queue[i + 1].file] # "unwritten"
      BY <3>2, <3>3 DEF FailInv
    <3>5. batch' \in Batch /\ state[batch'.file] # "unwritten"
      BY <3>2, <3>3 DEF FailInv
    <3> QED  BY <3>1, <3>3, <3>4, <3>5 DEF FailInv, FailsOnlyIfGone
  <2> QED  BY <2>1, <2>2
<1>6. CASE FileSize
  <2>1. batch \in Batch /\ batch.file \in Files
    BY <1>6 DEF FileSize, FailInv, Batch
  <2> QED  BY Zenon, <1>6, <2>1 DEF FileSize, fileVars, FailInv, FailsOnlyIfGone
<1>7. CASE WarmBlock
  <2>1. batch \in Batch /\ batch.file \in Files /\ state[batch.file] # "unwritten"
    BY <1>7 DEF WarmBlock, FailInv, Batch
  <2>2. /\ UNCHANGED <<warm_queue, state, file_sizes>>
        /\ warm_failed' # warm_failed => warm_failed' = warm_failed \cup {batch.file} /\ ~Reopens(batch.file)
        /\ \/ batch' = NoBatch /\ t_pc' = "check"
           \/ batch.left # 1 /\ batch' = [batch EXCEPT !.left = @ - 1] /\ t_pc' = "size"
    BY <1>7 DEF WarmBlock, LastBlock
  <2>3. state[batch.file] = "open" => known
    BY <1>7 DEF WarmBlock, FailInv
  <2>4. FailsOnlyIfGone' /\ warm_failed' \in SUBSET Files
    BY <2>1, <2>2, <2>3 DEF Reopens, FailInv, FailsOnlyIfGone
  <2>5. t_pc' \in {"size", "warm"} => batch' \in Batch /\ batch'.file = batch.file
    <3>1. batch.left # 1 => batch.left - 1 \in Nat \ {0}
      BY <2>1 DEF Batch
    <3> QED  BY <2>1, <2>2, <3>1 DEF Batch
  <2> QED  BY <2>1, <2>2, <2>4, <2>5 DEF FailInv
<1>8. CASE Stop
  BY <1>8 DEF Stop, fileVars, FailInv, FailsOnlyIfGone
<1>9. CASE NotifyAll
  BY <1>9 DEF NotifyAll, Wake, fileVars, FailInv, FailsOnlyIfGone
<1>10. CASE Join
  BY <1>10 DEF Join, fileVars, FailInv, FailsOnlyIfGone
<1>11. CASE CloseDB
  BY <1>11 DEF CloseDB, fileVars, FailInv, FailsOnlyIfGone
<1>12. CASE UNCHANGED vars
  BY <1>12 DEF vars, fileVars, FailInv, FailsOnlyIfGone
<1> QED
  BY <1>1, <1>2, <1>3, <1>4, <1>5, <1>6, <1>7, <1>8, <1>9, <1>10, <1>11, <1>12
  DEF Next, WarmThread, Shutdown

(* A warm call fails only for a file that is being deleted or whose flush  *)
(* failed: from OnOutputFileFinished until OnFileObsolete, FileSize finds  *)
(* the size of a file that was built, and its table can be opened again.   *)
THEOREM FailuresAreGone == Spec => []FailsOnlyIfGone
<1>1. Init => FailInv
  BY DEF Init, FailInv, FailsOnlyIfGone
<1>2. FailInv /\ [Next]_vars => FailInv'
  BY FailStep
<1>3. FailInv => FailsOnlyIfGone
  BY DEF FailInv
<1> QED  BY <1>1, <1>2, <1>3, PTL DEF Spec

-----------------------------------------------------------------------------
Gone(f) == state[f] \in {"evicted", "forgotten", "dropped", "unlinked"}

(* A file has at most one batch, waiting or taken.  What an evicted file   *)
(* has in the cache, together with what its batch may still put there, was *)
(* accounted for when it was evicted.                                      *)
GarbageInv ==
    /\ cached \in [Files -> Nat] /\ orphans \in [Files -> Nat] /\ owed \in [Files -> Nat]
    /\ \A i, k \in 1 .. Len(warm_queue) : warm_queue[i].file = warm_queue[k].file => i = k
    /\ t_pc \in {"size", "warm"} => \A i \in 1 .. Len(warm_queue) : warm_queue[i].file # batch.file
    /\ GarbageWasWaiting
    /\ \A i \in 1 .. Len(warm_queue) :
          LET f == warm_queue[i].file
          IN  Gone(f) => cached[f] + orphans[f] + warm_queue[i].left <= owed[f]
    /\ t_pc \in {"size", "warm"} /\ Gone(batch.file) =>
          cached[batch.file] + orphans[batch.file] + batch.left <= owed[batch.file]

(* The blocks of f that wait are those of its only batch. *)
LEMMA WaitingBounds ==
    ASSUME ExitInv, FailInv, GarbageInv, NEW f \in Files
    PROVE  /\ Waiting(f) \in Nat
           /\ \A i \in 1 .. Len(warm_queue) : warm_queue[i].file = f => warm_queue[i].left <= Waiting(f)
           /\ t_pc \in {"size", "warm"} /\ batch.file = f => batch.left <= Waiting(f)
<1> DEFINE b == IF batch.file = f THEN batch.left ELSE 0
           q == IF Queued(f) = {} THEN 0 ELSE warm_queue[CHOOSE i \in Queued(f) : TRUE].left
<1>1. b \in Nat
  <2>1. CASE t_pc \in {"size", "warm"}
    BY <2>1 DEF FailInv, Batch
  <2>2. CASE t_pc \notin {"size", "warm"}
    BY <2>2 DEF ExitInv, NoBatch
  <2> QED  BY <2>1, <2>2
<1>2. \A i \in 1 .. Len(warm_queue) : warm_queue[i].left \in Nat
  <2>1. \A i \in 1 .. Len(warm_queue) : warm_queue[i] \in Batch
    BY DEF FailInv
  <2> QED  BY <2>1 DEF Batch
<1>3. DOMAIN warm_queue = 1 .. Len(warm_queue)
  BY DEF FailInv
<1>4. q \in Nat
  BY <1>2, <1>3 DEF Queued
<1>5. ASSUME NEW i \in 1 .. Len(warm_queue), warm_queue[i].file = f  PROVE q = warm_queue[i].left
  <2>1. i \in Queued(f)
    BY <1>3, <1>5 DEF Queued
  <2>2. \A k \in Queued(f) : k = i
    BY <1>3, <1>5 DEF Queued, GarbageInv
  <2> QED  BY Zenon, <2>1, <2>2
<1>6. Waiting(f) = b + q
  BY DEF Waiting
<1>7. t_pc \in {"size", "warm"} /\ batch.file = f => b = batch.left
  OBVIOUS
<1> HIDE DEF b, q
<1>8. b + q \in Nat /\ b <= b + q /\ q <= b + q
  BY <1>1, <1>4
<1> QED  BY <1>5, <1>6, <1>7, <1>8

(* A step that leaves the batches alone and no evicted file better off. *)
LEMMA SameGarbage ==
    ASSUME FailInv, GarbageInv, UNCHANGED <<warm_queue, batch>>,
           t_pc' \in {"size", "warm"} => t_pc \in {"size", "warm"},
           cached' \in [Files -> Nat], orphans' \in [Files -> Nat], owed' \in [Files -> Nat],
           \A f \in Files : Gone(f)' => /\ Gone(f) /\ owed'[f] = owed[f]
                                       /\ cached'[f] + orphans'[f] = cached[f] + orphans[f]
    PROVE  GarbageInv'
<1>1. \A i \in 1 .. Len(warm_queue) : warm_queue[i].file \in Files
  BY QueuedFiles
<1>2. t_pc \in {"size", "warm"} => batch.file \in Files
  BY DEF FailInv, Batch
<1>3. GarbageWasWaiting'
  BY DEF GarbageInv, GarbageWasWaiting, Gone
<1>4. ASSUME NEW i \in 1 .. Len(warm_queue), Gone(warm_queue[i].file)'
      PROVE  LET f == warm_queue[i].file IN cached'[f] + orphans'[f] + warm_queue[i].left <= owed'[f]
  <2>1. PICK f \in Files : f = warm_queue[i].file
    BY <1>1
  <2>2. Gone(f) /\ owed'[f] = owed[f] /\ cached'[f] + orphans'[f] = cached[f] + orphans[f]
    BY <1>4, <2>1
  <2>3. cached[f] + orphans[f] + warm_queue[i].left <= owed[f]
    BY <2>1, <2>2 DEF GarbageInv
  <2> QED  BY <2>1, <2>2, <2>3
<1>5. ASSUME t_pc' \in {"size", "warm"}, Gone(batch.file)'
      PROVE  LET f == batch.file IN cached'[f] + orphans'[f] + batch.left <= owed'[f]
  <2>1. PICK f \in Files : f = batch.file
    BY <1>2, <1>5
  <2>2. Gone(f) /\ owed'[f] = owed[f] /\ cached'[f] + orphans'[f] = cached[f] + orphans[f]
    BY <1>5, <2>1
  <2>3. cached[f] + orphans[f] + batch.left <= owed[f]
    BY <1>5, <2>1, <2>2 DEF GarbageInv
  <2> QED  BY <2>1, <2>2, <2>3
<1> QED  BY <1>3, <1>4, <1>5 DEF GarbageInv

(* Dropping a table moves its blocks out of reach. *)
LEMMA DropMoves ==
    ASSUME GarbageInv, NEW f \in Files, Drop(f)
    PROVE  /\ cached' \in [Files -> Nat] /\ orphans' \in [Files -> Nat]
           /\ \A g \in Files : cached'[g] + orphans'[g] = cached[g] + orphans[g]
<1>1. /\ cached' = [cached EXCEPT ![f] = 0] /\ orphans' = [orphans EXCEPT ![f] = orphans[f] + cached[f]]
      /\ cached \in [Files -> Nat] /\ orphans \in [Files -> Nat]
  BY DEF Drop, GarbageInv
<1>2. cached[f] \in Nat /\ orphans[f] \in Nat /\ orphans[f] + cached[f] \in Nat
  BY <1>1
<1> QED  BY <1>1, <1>2

(* Only a batch of blocks, waiting or taken, and only the blocks it holds  *)
(* can follow an eviction.                                                 *)
LEMMA GarbageStep ==
    ASSUME ExitInv, FailInv, GarbageInv, [Next]_vars
    PROVE  GarbageInv'
<1>0. /\ \A i \in 1 .. Len(warm_queue) : /\ warm_queue[i] \in Batch /\ warm_queue[i].file \in Files
                                          /\ warm_queue[i].left \in Nat \ {0}
                                          /\ state[warm_queue[i].file] # "unwritten"
      /\ t_pc \in {"size", "warm"} => /\ batch.file \in Files /\ batch.left \in Nat \ {0}
                                      /\ state[batch.file] # "unwritten"
      /\ warm_queue \in Seq(Batch) /\ Len(warm_queue) \in Nat
  <2>1. \A i \in 1 .. Len(warm_queue) : warm_queue[i] \in Batch
    BY DEF FailInv
  <2>2. \A x \in Batch : x.file \in Files /\ x.left \in Nat \ {0}
    BY DEF Batch
  <2> QED  BY <2>1, <2>2 DEF FailInv
<1>1. ASSUME NEW f \in Files, NEW built \in BOOLEAN, OnOutputFileFinished(f, built)  PROVE GarbageInv'
  <2>0. PICK s \in {"open", "failed"} : state' = [state EXCEPT ![f] = s]
    BY <1>1 DEF OnOutputFileFinished, Finish
  <2>1. /\ state[f] = "unwritten" /\ state' = [state EXCEPT ![f] = s]
        /\ UNCHANGED <<batch, t_pc, cached, orphans, owed>>
    BY <1>1, <2>0 DEF OnOutputFileFinished, Finish, blocks
  <2>2. \A g \in Files : Gone(g)' => Gone(g) /\ g # f
    BY <2>1, NeverUnwritten DEF Gone
  <2>3. GarbageWasWaiting'
    BY <2>1, <2>2 DEF GarbageInv, GarbageWasWaiting, Gone
  <2>4. t_pc \in {"size", "warm"} => batch.file # f
    BY <1>0, <2>1
  <2>5. \A i \in 1 .. Len(warm_queue) : warm_queue[i].file # f
    BY <1>0, <2>1
  <2>6. CASE UNCHANGED warm_queue
    BY <1>0, <2>1, <2>2, <2>3, <2>6 DEF GarbageInv
  <2>7. ASSUME NEW n \in 1 .. BatchSize, warm_queue' = Append(warm_queue, [file |-> f, left |-> n])
        PROVE  GarbageInv'
    <3>1. [file |-> f, left |-> n] \in Batch
      BY QueueAssumption DEF Batch
    <3>2. PICK m \in Nat : m = Len(warm_queue)
      BY <1>0
    <3>3. /\ Len(warm_queue') = m + 1 /\ warm_queue'[m + 1].file = f
          /\ \A i \in 1 .. m : warm_queue'[i] = warm_queue[i]
      BY <1>0, <2>7, <3>1, <3>2
    <3>4. \A i \in 1 .. m + 1 : i \in 1 .. m \/ i = m + 1
      OBVIOUS
    <3>5. \A i, k \in 1 .. m + 1 : warm_queue'[i].file = warm_queue'[k].file => i = k
      BY <2>5, <3>2, <3>3, <3>4 DEF GarbageInv
    <3>6. t_pc \in {"size", "warm"} => \A i \in 1 .. m + 1 : warm_queue'[i].file # batch.file
      BY <2>4, <3>2, <3>3, <3>4 DEF GarbageInv
    <3>7. ASSUME NEW i \in 1 .. m + 1, Gone(warm_queue[i].file)'
          PROVE  LET g == warm_queue'[i].file IN cached[g] + orphans[g] + warm_queue'[i].left <= owed[g]
      <4>1. PICK g : g = warm_queue'[i].file
        OBVIOUS
      <4>2. Gone(g)'
        BY <3>7, <4>1
      <4>3. g # f
        BY <2>1, <4>2, NeverUnwritten DEF Gone
      <4>4. i \in 1 .. m /\ warm_queue'[i] = warm_queue[i]
        BY <3>3, <3>4, <4>1, <4>3
      <4>5. Gone(g)
        BY <1>0, <2>2, <3>2, <4>1, <4>2, <4>4
      <4> QED  BY <3>2, <4>1, <4>4, <4>5 DEF GarbageInv
    <3> QED  BY <1>0, <2>1, <2>2, <2>3, <3>3, <3>5, <3>6, <3>7 DEF GarbageInv
  <2> QED  BY Zenon, <1>1, <2>6, <2>7 DEF OnOutputFileFinished
<1>2. ASSUME NEW f \in Files, RemoveObsoleteFiles(f)  PROVE GarbageInv'
  <2>1. UNCHANGED <<warm_queue, batch, t_pc>>
    BY <1>2 DEF RemoveObsoleteFiles
  <2>2. cached \in [Files -> Nat] /\ orphans \in [Files -> Nat] /\ owed \in [Files -> Nat]
    BY DEF GarbageInv
  <2>3. ASSUME state[f] = "open", state' = [state EXCEPT ![f] = "evicting"], UNCHANGED blocks
        PROVE  GarbageInv'
    <3>1. \A g \in Files : Gone(g)' => Gone(g)
      BY <2>3, NeverUnwritten DEF Gone
    <3> QED  BY <2>1, <2>2, <2>3, <3>1, SameGarbage DEF blocks
  <2>4. ASSUME state[f] = "evicting", state' = [state EXCEPT ![f] = "evicted"],
               cached' = [cached EXCEPT ![f] = 0], owed' = [owed EXCEPT ![f] = Waiting(f) + orphans[f]],
               UNCHANGED orphans
        PROVE  GarbageInv'
    <3>1. /\ Waiting(f) \in Nat
          /\ \A i \in 1 .. Len(warm_queue) : warm_queue[i].file = f => warm_queue[i].left <= Waiting(f)
          /\ t_pc \in {"size", "warm"} /\ batch.file = f => batch.left <= Waiting(f)
      BY WaitingBounds
    <3>2. PICK w \in Nat : w = Waiting(f)
      BY <3>1
    <3>3. PICK o \in Nat : o = orphans[f]
      BY <2>2
    <3>4. /\ cached' \in [Files -> Nat] /\ owed' \in [Files -> Nat] /\ orphans' \in [Files -> Nat]
          /\ cached'[f] = 0 /\ orphans'[f] = o /\ owed'[f] = w + o
          /\ \A g \in Files : g # f => cached'[g] = cached[g] /\ orphans'[g] = orphans[g] /\ owed'[g] = owed[g]
      BY <2>2, <2>4, <3>2, <3>3
    <3>5. \A g \in Files : g # f /\ Gone(g)' => Gone(g)
      BY <2>4, NeverUnwritten DEF Gone
    <3>6. GarbageWasWaiting'
      <4>1. cached'[f] + orphans'[f] <= owed'[f]
        BY <3>4
      <4>2. \A g \in Files : g # f /\ Gone(g)' => cached'[g] + orphans'[g] <= owed'[g]
        BY <3>4, <3>5 DEF GarbageInv, GarbageWasWaiting, Gone
      <4> QED  BY <4>1, <4>2 DEF GarbageWasWaiting, Gone
    <3>7. ASSUME NEW i \in 1 .. Len(warm_queue), Gone(warm_queue[i].file)'
          PROVE  LET g == warm_queue[i].file IN cached'[g] + orphans'[g] + warm_queue[i].left <= owed'[g]
      <4>1. CASE warm_queue[i].file = f
        <5>1. warm_queue[i].left \in Nat /\ warm_queue[i].left <= w
          BY <1>0, <3>1, <3>2, <4>1
        <5> QED  BY <3>4, <4>1, <5>1
      <4>2. CASE warm_queue[i].file # f
        <5>1. warm_queue[i].file \in Files /\ Gone(warm_queue[i].file)
          BY <1>0, <2>1, <3>5, <3>7, <4>2
        <5> QED  BY Zenon, <3>4, <4>2, <5>1 DEF GarbageInv
      <4> QED  BY <4>1, <4>2
    <3>8. ASSUME t_pc \in {"size", "warm"}, Gone(batch.file)'
          PROVE  LET g == batch.file IN cached'[g] + orphans'[g] + batch.left <= owed'[g]
      <4>1. CASE batch.file = f
        <5>1. batch.left \in Nat /\ batch.left <= w
          BY <1>0, <3>1, <3>2, <3>8, <4>1
        <5> QED  BY <3>4, <4>1, <5>1
      <4>2. CASE batch.file # f
        <5>1. batch.file \in Files /\ Gone(batch.file)
          BY <1>0, <2>1, <3>5, <3>8, <4>2
        <5> QED  BY <3>4, <3>8, <4>2, <5>1 DEF GarbageInv
      <4> QED  BY <4>1, <4>2
    <3> QED  BY <2>1, <3>4, <3>6, <3>7, <3>8 DEF GarbageInv
  <2>5. ASSUME Gone(f), NEW s \in {"forgotten", "dropped", "unlinked"}, state' = [state EXCEPT ![f] = s],
               UNCHANGED blocks \/ (Drop(f) /\ UNCHANGED owed)
        PROVE  GarbageInv'
    <3>1. \A g \in Files : Gone(g)' => Gone(g)
      BY <2>5, NeverUnwritten DEF Gone
    <3>2. CASE UNCHANGED blocks
      BY <2>1, <2>2, <3>1, <3>2, SameGarbage DEF blocks
    <3>3. CASE Drop(f) /\ UNCHANGED owed
      BY <2>1, <2>2, <3>1, <3>3, DropMoves, SameGarbage
    <3> QED  BY <2>5, <3>2, <3>3
  <2> QED  BY <1>2, <2>3, <2>4, <2>5 DEF RemoveObsoleteFiles, Evict, Gone
<1>3. ASSUME NEW f \in Files, DropTable(f)  PROVE GarbageInv'
  <2>1. Drop(f) /\ UNCHANGED <<warm_queue, batch, t_pc, state, owed>>
    BY <1>3 DEF DropTable
  <2>2. owed' \in [Files -> Nat] /\ \A g \in Files : Gone(g)' => Gone(g)
    BY <2>1 DEF GarbageInv, Gone
  <2> QED  BY <2>1, <2>2, DropMoves, SameGarbage
<1>4. ASSUME NotifyOne \/ FileSize \/ NotifyAll \/ Join \/ CloseDB \/ UNCHANGED vars  PROVE GarbageInv'
  <2>1. /\ UNCHANGED <<warm_queue, batch, state, cached, orphans, owed>>
        /\ t_pc' \in {"size", "warm"} => t_pc \in {"size", "warm"}
    BY <1>4 DEF NotifyOne, FileSize, NotifyAll, Join, CloseDB, Wake, vars, fileVars, blocks
  <2>2. /\ cached' \in [Files -> Nat] /\ orphans' \in [Files -> Nat] /\ owed' \in [Files -> Nat]
        /\ \A g \in Files : Gone(g)' => Gone(g)
    BY <2>1 DEF GarbageInv, Gone
  <2> QED  BY <2>1, <2>2, SameGarbage
<1>5. ASSUME CheckQueue  PROVE GarbageInv'
  <2>1. UNCHANGED <<state, cached, orphans, owed>>
    BY <1>5 DEF CheckQueue, fileVars, blocks
  <2>2. \A g : Gone(g)' <=> Gone(g)
    BY <2>1 DEF Gone
  <2>3. GarbageWasWaiting'
    BY <2>1 DEF GarbageInv, GarbageWasWaiting
  <2>4. CASE UNCHANGED <<warm_queue, batch>> /\ t_pc' \notin {"size", "warm"}
    BY <2>1, <2>2, <2>3, <2>4 DEF GarbageInv
  <2>5. CASE warm_queue # <<>> /\ batch' = Head(warm_queue) /\ warm_queue' = Tail(warm_queue)
    <3>1. PICK m \in Nat : m + 1 = Len(warm_queue)
      BY <1>0, <2>5
    <3>2. /\ Len(warm_queue') = m /\ batch' = warm_queue[1] /\ 1 \in 1 .. Len(warm_queue)
          /\ \A i \in 1 .. m : warm_queue'[i] = warm_queue[i + 1]
      BY <1>0, <2>5, <3>1
    <3>3. \A i \in 1 .. m : i + 1 \in 1 .. Len(warm_queue) /\ i + 1 # 1
      BY <3>1
    <3>4. \A i, k \in 1 .. m : warm_queue'[i].file = warm_queue'[k].file => i = k
      <4> SUFFICES ASSUME NEW i \in 1 .. m, NEW k \in 1 .. m, warm_queue'[i].file = warm_queue'[k].file
                   PROVE  i = k
        OBVIOUS
      <4>1. PICK a \in 1 .. Len(warm_queue), b \in 1 .. Len(warm_queue) : a = i + 1 /\ b = k + 1
        BY <3>3
      <4>2. warm_queue[a].file = warm_queue[b].file
        BY <3>2, <4>1
      <4>3. a = b
        BY <4>2 DEF GarbageInv
      <4> QED  BY <4>1, <4>3
    <3>5. \A i \in 1 .. m : warm_queue'[i].file # batch'.file
      BY <3>2, <3>3 DEF GarbageInv
    <3>6. ASSUME NEW i \in 1 .. m, Gone(warm_queue[i].file)'
          PROVE  LET g == warm_queue'[i].file IN cached[g] + orphans[g] + warm_queue'[i].left <= owed[g]
      BY <2>2, <3>2, <3>3, <3>6 DEF GarbageInv
    <3>7. ASSUME Gone(batch.file)'
          PROVE  LET g == batch'.file IN cached[g] + orphans[g] + batch'.left <= owed[g]
      BY <2>2, <3>2, <3>7 DEF GarbageInv
    <3> QED  BY <2>1, <2>3, <3>2, <3>4, <3>5, <3>6, <3>7 DEF GarbageInv
  <2> QED  BY <1>5, <2>4, <2>5 DEF CheckQueue
<1>6. ASSUME WarmBlock  PROVE GarbageInv'
  <2>1. PICK f \in Files : f = batch.file
    BY <1>0, <1>6 DEF WarmBlock
  <2>2. /\ UNCHANGED <<warm_queue, state, orphans, owed>> /\ t_pc = "warm"
        /\ cached' = cached \/ cached' = [cached EXCEPT ![f] = cached[f] + 1]
        /\ \/ batch' = NoBatch /\ t_pc' = "check"
           \/ batch' = [batch EXCEPT !.left = batch.left - 1]
    BY <1>6, <2>1 DEF WarmBlock
  <2>3. cached \in [Files -> Nat] /\ orphans \in [Files -> Nat] /\ owed \in [Files -> Nat]
        /\ batch.left \in Nat \ {0}
    BY <1>0, <2>2 DEF GarbageInv
  <2>4. PICK c \in Nat, o \in Nat, w \in Nat, n \in Nat \ {0} :
             c = cached[f] /\ o = orphans[f] /\ w = owed[f] /\ n = batch.left
    BY <2>3
  <2>5. cached' \in [Files -> Nat] /\ (\A g \in Files : g # f => cached'[g] = cached[g])
        /\ cached'[f] \in {c, c + 1}
    BY <2>2, <2>3, <2>4
  <2>6. Gone(f) => c + o + n <= w
    BY <2>1, <2>2, <2>4 DEF GarbageInv
  <2>7. Gone(f) => cached'[f] + o <= w /\ cached'[f] + o + (n - 1) <= w
    BY <2>5, <2>6
  <2>8. \A g : Gone(g)' <=> Gone(g)
    BY <2>2 DEF Gone
  <2>9. GarbageWasWaiting'
    <3>1. Gone(f) => cached'[f] + orphans'[f] <= owed'[f]
      BY <2>2, <2>4, <2>7
    <3>2. \A g \in Files : g # f /\ Gone(g) => cached'[g] + orphans'[g] <= owed'[g]
      BY <2>2, <2>5 DEF GarbageInv, GarbageWasWaiting, Gone
    <3> QED  BY <2>2, <3>1, <3>2 DEF GarbageWasWaiting, Gone
  <2>10. ASSUME NEW i \in 1 .. Len(warm_queue), Gone(warm_queue[i].file)
         PROVE  LET g == warm_queue[i].file IN cached'[g] + orphans'[g] + warm_queue[i].left <= owed'[g]
    <3>1. warm_queue[i].file \in Files /\ warm_queue[i].file # f
      BY <1>0, <2>1, <2>2 DEF GarbageInv
    <3> QED  BY <2>2, <2>5, <2>10, <3>1 DEF GarbageInv
  <2>11. CASE batch' = NoBatch /\ t_pc' = "check"
    BY <2>2, <2>3, <2>5, <2>8, <2>9, <2>10, <2>11 DEF GarbageInv
  <2>12. CASE batch' = [batch EXCEPT !.left = batch.left - 1]
    <3>1. batch'.file = f /\ batch'.left = n - 1
      <4>1. batch \in Batch
        BY <2>2 DEF FailInv
      <4> QED  BY <2>1, <2>4, <2>12, <4>1 DEF Batch
    <3>2. \A i \in 1 .. Len(warm_queue) : warm_queue[i].file # f
      BY <2>1, <2>2 DEF GarbageInv
    <3>3. Gone(f)' => cached'[f] + orphans'[f] + (n - 1) <= owed'[f]
      BY <2>2, <2>4, <2>7, <2>8
    <3> QED  BY <2>2, <2>3, <2>5, <2>8, <2>9, <2>10, <3>1, <3>2, <3>3 DEF GarbageInv
  <2> QED  BY <2>2, <2>11, <2>12
<1>7. ASSUME Stop  PROVE GarbageInv'
  <2>1. UNCHANGED <<batch, t_pc, state, cached, orphans, owed>> /\ warm_queue' = <<>>
    BY <1>7 DEF Stop, fileVars, blocks
  <2>2. Len(warm_queue') = 0 /\ 1 .. 0 = {}
    BY <2>1
  <2> QED  BY <2>1, <2>2 DEF GarbageInv, GarbageWasWaiting, Gone
<1> QED  BY <1>1, <1>2, <1>3, <1>4, <1>5, <1>6, <1>7 DEF Next, WarmThread, Shutdown

(* What a deleted file leaves in the cache was waiting or out of reach     *)
(* when it was evicted: only a late batch puts blocks of it back           *)
(* (Adapter::OnFileObsolete, WarmBatch).                                   *)
THEOREM GarbageBounded == Spec => []GarbageWasWaiting
<1> DEFINE AllInv == ExitInv /\ FailInv /\ GarbageInv
<1>1. Init => AllInv
  <2> SUFFICES ASSUME Init PROVE AllInv
    OBVIOUS
  <2>1. ExitInv
    BY DEF Init, ExitInv
  <2>2. FailInv
    BY DEF Init, FailInv, FailsOnlyIfGone
  <2>3. GarbageInv
    BY DEF Init, GarbageInv, GarbageWasWaiting, Gone
  <2> QED  BY <2>1, <2>2, <2>3
<1>2. AllInv /\ [Next]_vars => AllInv'
  BY ExitStep, FailStep, GarbageStep
<1>3. AllInv => GarbageWasWaiting
  BY DEF GarbageInv
<1> QED  BY <1>1, <1>2, <1>3, PTL DEF Spec
=============================================================================
