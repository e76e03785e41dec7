-------------------------- MODULE CollectorProofs --------------------------
(***************************************************************************)
(* The lock-free collector shows no access that did not happen, for any    *)
(* number of threads, ranges and slots, any ring, and calls overtaken by   *)
(* any number of slots.                                                    *)
(***************************************************************************)
EXTENDS Predictor, FiniteSetTheorems, TLAPS

(* The provers that a leaf is tried with in turn, unless it names its own. *)
USE SMT, Zenon, Z3, SMTT(30), Z3T(30)

(* Division and remainder, for a divisor that is not a numeral. *)

(* Division by a positive number keeps the order. *)
LEMMA DivMonotone ==
    ASSUME NEW a \in Nat, NEW b \in Nat, NEW p \in Nat \ {0}, a <= b
    PROVE  a \div p \in Nat /\ a \div p <= b \div p
<1> DEFINE q == a \div p
           r == b \div p
<1>1. q \in Nat /\ r \in Nat /\ p * q <= a /\ b < p * r + p
  OBVIOUS
<1> HIDE DEF q, r
<1>2. ASSUME q > r  PROVE FALSE
  <2>1. q >= r + 1
    BY <1>1, <1>2
  <2>2. p * q >= p * (r + 1)
    BY <1>1, <2>1
  <2>3. p * (r + 1) = p * r + p
    BY <1>1
  <2> QED  BY <1>1, <2>2, <2>3
<1>3. q \in Nat /\ q <= r
  BY <1>1, <1>2
<1> QED  BY <1>3 DEF q, r

(* A remainder is below the divisor. *)
LEMMA ModRange ==
    ASSUME NEW a \in Nat, NEW p \in Nat \ {0}
    PROVE  a % p \in 0 .. p - 1
OBVIOUS

(* Two numbers with the same remainder, both less than the divisor below   *)
(* a third, are equal.                                                     *)
LEMMA ModUnique ==
    ASSUME NEW a \in Nat, NEW b \in Nat, NEW n \in Nat, NEW p \in Nat \ {0},
           a <= n, b <= n, n - a < p, n - b < p, a % p = b % p
    PROVE  a = b
<1>1. a \div p \in Nat /\ a % p \in Nat /\ a = p * (a \div p) + (a % p)
  OBVIOUS
<1>2. b \div p \in Nat /\ b = p * (b \div p) + (b % p)
  OBVIOUS
<1>3. PICK q \in Nat, r \in Nat, c \in Nat : q = a \div p /\ r = b \div p /\ c = a % p
  BY Zenon, <1>1, <1>2
<1>4. a = p * q + c /\ b = p * r + c
  BY <1>1, <1>2, <1>3, Zenon
<1>5. ASSUME NEW x \in Nat, NEW y \in Nat, x > y  PROVE p * x >= p * y + p
  <2>1. p * x >= p * (y + 1)
    BY <1>5
  <2>2. p * (y + 1) = p * y + p
    OBVIOUS
  <2> QED  BY <2>1, <2>2
<1>6. ASSUME q > r  PROVE FALSE
  <2>1. p * q >= p * r + p
    BY <1>5, <1>6
  <2>2. p * q \in Nat /\ p * r \in Nat
    OBVIOUS
  <2> QED  BY <1>4, <2>1, <2>2
<1>7. ASSUME r > q  PROVE FALSE
  <2>1. p * r >= p * q + p
    BY <1>5, <1>7
  <2> QED  BY <1>4, <2>1
<1>8. q = r
  BY <1>6, <1>7
<1> QED  BY <1>4, <1>8

-----------------------------------------------------------------------------

Places == Kinds \X (0 .. TableSize - 1) \X (0 .. ring - 1)
Slots == Kinds \X (0 .. TableSize - 1) \X Epochs
Word == [epoch: Epochs, count: Nat]
Calls == [pc: {"load", "cas", "reload", "add"}, cell: Places, epoch: Epochs, v: Word]

CollectorType ==
    /\ now \in 0 .. MaxTime
    /\ cells \in [Places -> Word]
    /\ call \in [Threads -> {Idle} \cup Calls]
    /\ begun \in [Slots -> Nat]
    /\ reset_slot \in Int

(* The slot of this clock that a call, or a cell, counts for. *)
CallSlot(t) == <<call[t].cell[1], call[t].cell[2], call[t].epoch>>
CellSlot(c) == <<c[1], c[2], cells[c].epoch>>

Accessed(d) == begun[d] > 0 \/ (d[3] <= reset_slot /\ d \in before)

(* A call in flight has begun in its slot; one about to add found its slot *)
(* in the cell, and if the cell has gone to another since, that slot was   *)
(* claimed with a count of one.                                            *)
PhantomInv ==
    /\ CollectorType
    /\ \A t \in Threads : call[t] # Idle => begun[CallSlot(t)] > 0
    /\ \A t \in Threads : call[t].pc = "add" /\ cells[call[t].cell].count = 0
                            => cells[call[t].cell].epoch = call[t].epoch
    /\ \A c \in Places : cells[c].count > 0 => Accessed(CellSlot(c))
    /\ \A d \in Slots : begun[d] > 0 => d[3] <= SlotOf(now)

(* The slot of a time within the bound is one of the slots. *)
LEMMA SlotType ==
    ASSUME NEW x \in 0 .. MaxTime
    PROVE  SlotOf(x) \in Epochs /\ SlotOf(x) \in Nat
<1>1. x \in Nat /\ MaxTime \in Nat /\ x <= MaxTime /\ SlotTicks \in Nat \ {0}
  BY CollectorAssumption
<1> QED  BY <1>1, DivMonotone DEF SlotOf, Epochs

(* What the index of a call's cell and slot are. *)
LEMMA CallTypes ==
    ASSUME CollectorType, NEW t \in Threads, call[t] # Idle
    PROVE  /\ call[t] \in Calls /\ call[t].cell \in Places /\ call[t].epoch \in Epochs
           /\ cells[call[t].cell] \in Word /\ CallSlot(t) \in Slots
BY DEF CollectorType, Calls, Places, Slots, CallSlot

(* The sizes are positive, and the first slot is one of the slots. *)
LEMMA SizeTypes ==
    /\ TableSize \in Nat \ {0} /\ ring \in Nat \ {0} /\ MaxTime \in Nat
    /\ Epochs \subseteq Nat /\ 0 \in Epochs
<1>1. history \in Nat \ {0} /\ MaxTime \in Nat /\ TableSize \in Nat \ {0}
  BY CollectorAssumption
<1>2. SlotOf(MaxTime) \in Nat
  BY <1>1, SlotType
<1> QED  BY <1>1, <1>2 DEF ring, Epochs

(* Predictions leave the collector alone. *)
LEMMA CollectorSteps ==
    ASSUME [Next]_vars
    PROVE  CollectorNext \/ UNCHANGED collectorVars
BY Zenon DEF Next, Predicts, TakeTime, PredictHot, Score, HookReturns, vars

(* A cell that was never used shows no access. *)
LEMMA PhantomInit == Init => PhantomInv
<1> SUFFICES ASSUME Init  PROVE PhantomInv
  OBVIOUS
<1>1. /\ now = 0 /\ cells = [c \in Places |-> Zero] /\ call = [t \in Threads |-> Idle]
      /\ begun = [d \in Slots |-> 0] /\ reset_slot \in Int
  BY DEF Init, CollectorInit, Places, Slots, Loading
<1> QED  BY SizeTypes, <1>1 DEF PhantomInv, CollectorType, Word, Zero, Idle

(* Neither a late update nor a new clock makes one up. *)
LEMMA PhantomStep == PhantomInv /\ [Next]_vars => PhantomInv'
<1> SUFFICES ASSUME PhantomInv, [Next]_vars  PROVE PhantomInv'
  OBVIOUS
<1>0. CollectorType
  BY DEF PhantomInv
<1>1. ASSUME NEW t \in Threads, NEW kind \in Kinds, NEW r \in Ranges, Call(t, kind, r)  PROVE PhantomInv'
  <2> DEFINE e == SlotOf(now)
             d == <<kind, Slot(r), e>>
             x == [pc |-> "load", cell |-> <<kind, Slot(r), Cell(e)>>, epoch |-> e, v |-> Zero]
  <2>1. e \in Epochs /\ e \in Nat
    BY <1>0, SlotType DEF CollectorType
  <2>2. Slot(r) \in 0 .. TableSize - 1 /\ Cell(e) \in 0 .. ring - 1
    BY SizeTypes, <2>1, CollectorAssumption, ModRange DEF Slot, Cell
  <2>3. d \in Slots /\ x \in Calls /\ x # Idle
    BY SizeTypes, <2>1, <2>2 DEF Slots, Calls, Places, Word, Zero, Idle
  <2>4. /\ call' = [call EXCEPT ![t] = x] /\ begun' = [begun EXCEPT ![d] = begun[d] + 1]
        /\ UNCHANGED <<now, cells, reset_slot, before>>
    BY <1>1 DEF Call
  <2>5. CollectorType'
    BY <1>0, <2>3, <2>4 DEF CollectorType
  <2>6. /\ \A c \in Slots : begun'[c] >= begun[c] /\ (c # d => begun'[c] = begun[c])
        /\ begun'[d] > 0
    BY <1>0, <2>3, <2>4 DEF CollectorType
  <2>7. /\ \A u \in Threads \ {t} : call'[u] = call[u]
        /\ call'[t] = x
    BY <1>0, <2>4 DEF CollectorType
  <2>8. CallSlot(t)' = d
    BY <2>7 DEF CallSlot
  <2>9. \A u \in Threads : call'[u] # Idle => begun'[CallSlot(u)'] > 0
    <3> SUFFICES ASSUME NEW u \in Threads, call'[u] # Idle, u # t  PROVE begun'[CallSlot(u)'] > 0
      BY <2>6, <2>8
    <3>1. CallSlot(u)' = CallSlot(u) /\ call[u] # Idle
      BY <2>7 DEF CallSlot
    <3>2. CallSlot(u) \in Slots /\ begun[CallSlot(u)] > 0
      BY <1>0, <3>1, CallTypes DEF PhantomInv
    <3> QED  BY <1>0, <2>5, <2>6, <3>1, <3>2 DEF CollectorType
  <2>10. \A c \in Places : cells'[c].count > 0 => Accessed(CellSlot(c))'
    <3> SUFFICES ASSUME NEW c \in Places, cells[c].count > 0  PROVE Accessed(CellSlot(c))'
      BY <2>4
    <3>1. CellSlot(c) \in Slots /\ CellSlot(c)' = CellSlot(c)
      BY <1>0, <2>4 DEF CollectorType, CellSlot, Places, Slots, Word
    <3>2. Accessed(CellSlot(c))
      BY DEF PhantomInv
    <3> QED  BY <1>0, <2>4, <2>5, <2>6, <3>1, <3>2 DEF CollectorType, Accessed
  <2>11. \A c \in Slots : begun'[c] > 0 => c[3] <= SlotOf(now)'
    <3>1. SlotOf(now)' = e /\ d[3] = e
      BY <2>4 DEF SlotOf
    <3> QED  BY <2>1, <2>6, <3>1 DEF PhantomInv
  <2>12. \A u \in Threads : call'[u].pc = "add" /\ cells'[call'[u].cell].count = 0
                              => cells'[call'[u].cell].epoch = call'[u].epoch
    BY <2>4, <2>7 DEF PhantomInv
  <2> QED  BY <2>5, <2>9, <2>10, <2>11, <2>12 DEF PhantomInv
<1>2. ASSUME NEW t \in Threads, Record(t)  PROVE PhantomInv'
  <2>1. call[t] # Idle
    BY <1>2 DEF Record, Load, CompareExchange, Reload, SampleAndAdd, Idle
  <2>2. UNCHANGED <<now, begun, reset_slot, before>>
    BY <1>2 DEF Record, Load, CompareExchange, Reload, SampleAndAdd
  <2>3. /\ call[t] \in Calls /\ call[t].cell \in Places /\ call[t].epoch \in Epochs
        /\ cells[call[t].cell] \in Word /\ CallSlot(t) \in Slots /\ begun[CallSlot(t)] > 0
    BY ZenonT(60), <1>0, <2>1, CallTypes DEF PhantomInv
  <2>4. \/ /\ cells' = cells /\ call' = [call EXCEPT ![t] = Idle]
        \/ /\ cells' = cells
           /\ \E y \in Calls : /\ call' = [call EXCEPT ![t] = y]
                               /\ y.cell = call[t].cell /\ y.epoch = call[t].epoch
                               /\ y.pc = "add" => cells[y.cell].epoch = y.epoch
        \/ /\ call' = [call EXCEPT ![t] = Idle]
           /\ \E w \in Word : /\ cells' = [cells EXCEPT ![call[t].cell] = w] /\ w.count > 0
                              /\ \/ w.epoch = call[t].epoch
                                 \/ w.epoch = cells[call[t].cell].epoch /\ cells[call[t].cell].count > 0
    <3>1. CASE Load(t)
      <4> DEFINE v == cells[call[t].cell]
                 p == IF v.epoch # call[t].epoch THEN "cas" ELSE "add"
                 y == [call[t] EXCEPT !.v = v, !.pc = p]
      <4>1. p \in {"cas", "add"} /\ (p = "add" => v.epoch = call[t].epoch)
        OBVIOUS
      <4>2. call' = [call EXCEPT ![t] = y] /\ cells' = cells
        BY Zenon, <1>0, <3>1 DEF Load, CollectorType
      <4> HIDE DEF p
      <4>3. y \in Calls /\ y.cell = call[t].cell /\ y.epoch = call[t].epoch /\ y.pc = p
        BY Zenon, <2>3, <4>1 DEF Calls
      <4> QED  BY Zenon, <4>1, <4>2, <4>3
    <3>2. CASE CompareExchange(t)
      <4>1. CASE Claims(t)
        <5> DEFINE w == [epoch |-> call[t].epoch, count |-> 1]
        <5>1. w \in Word /\ w.count > 0 /\ w.epoch = call[t].epoch
          BY <2>3 DEF Word
        <5>2. cells' = [cells EXCEPT ![call[t].cell] = w] /\ call' = [call EXCEPT ![t] = Idle]
          BY <3>2, <4>1 DEF CompareExchange
        <5> QED  BY Zenon, <5>1, <5>2
      <4>2. CASE ~Claims(t)
        <5> DEFINE y == [call[t] EXCEPT !.pc = "reload"]
        <5>1. y \in Calls /\ y.cell = call[t].cell /\ y.epoch = call[t].epoch /\ y.pc = "reload"
          BY <2>3 DEF Calls
        <5>2. call' = [call EXCEPT ![t] = y] /\ cells' = cells
          BY <1>0, <3>2, <4>2 DEF CompareExchange, CollectorType
        <5> QED  BY Zenon, <5>1, <5>2
      <4> QED  BY <4>1, <4>2
    <3>3. CASE Reload(t)
      <4>1. CASE KeepsTrying(t)
        <5> DEFINE y == [call[t] EXCEPT !.pc = "add"]
        <5>1. y \in Calls /\ y.cell = call[t].cell /\ y.epoch = call[t].epoch
          BY <2>3 DEF Calls
        <5>2. call' = [call EXCEPT ![t] = y] /\ cells' = cells
          BY <3>3, <4>1 DEF Reload
        <5>3. cells[y.cell].epoch = y.epoch
          BY <4>1, <5>1 DEF KeepsTrying
        <5> QED  BY Zenon, <5>1, <5>2, <5>3
      <4>2. CASE ~KeepsTrying(t)
        BY ZenonT(60), <3>3, <4>2 DEF Reload
      <4> QED  BY <4>1, <4>2
    <3>4. CASE SampleAndAdd(t)
      <4>1. CASE cells' = cells
        BY <3>4, <4>1 DEF SampleAndAdd
      <4>2. CASE cells' = [cells EXCEPT ![call[t].cell].count = @ + 1]
        <5> DEFINE w == [cells[call[t].cell] EXCEPT !.count = cells[call[t].cell].count + 1]
        <5>1. w \in Word /\ w.count > 0 /\ w.epoch = cells[call[t].cell].epoch
          BY SizeTypes, <2>3 DEF Word
        <5>2. cells' = [cells EXCEPT ![call[t].cell] = w] /\ call' = [call EXCEPT ![t] = Idle]
          BY <1>0, <2>3, <3>4, <4>2 DEF SampleAndAdd, CollectorType
        <5>3. cells[call[t].cell].count > 0 \/ cells[call[t].cell].epoch = call[t].epoch
          BY <2>3, <3>4 DEF SampleAndAdd, PhantomInv, Word
        <5> QED  BY Zenon, <5>1, <5>2, <5>3
      <4> QED  BY <3>4, <4>1, <4>2 DEF SampleAndAdd
    <3> QED  BY <1>2, <3>1, <3>2, <3>3, <3>4 DEF Record
  <2>5. CASE cells' = cells /\ call' = [call EXCEPT ![t] = Idle]
    <3>1. CollectorType'
      BY <1>0, <2>2, <2>5 DEF CollectorType
    <3>2. call'[t] = Idle /\ \A u \in Threads \ {t} : call'[u] = call[u]
      BY ZenonT(60), <1>0, <2>5 DEF CollectorType
    <3>3. \A u \in Threads : call'[u] # Idle => begun'[CallSlot(u)'] > 0
      BY <2>2, <3>2 DEF PhantomInv, CallSlot
    <3>4. \A u \in Threads : call'[u].pc = "add" => u # t
      BY <3>2 DEF Idle
    <3> QED  BY <2>2, <2>5, <3>1, <3>2, <3>3, <3>4 DEF PhantomInv, CellSlot, Accessed, SlotOf
  <2>6. ASSUME NEW y \in Calls, cells' = cells, call' = [call EXCEPT ![t] = y],
               y.cell = call[t].cell, y.epoch = call[t].epoch, y.pc = "add" => cells[y.cell].epoch = y.epoch
        PROVE  PhantomInv'
    <3>1. CollectorType'
      BY <1>0, <2>2, <2>6 DEF CollectorType
    <3>2. call'[t] = y /\ \A u \in Threads \ {t} : call'[u] = call[u]
      BY <1>0, <2>6 DEF CollectorType
    <3>3. \A u \in Threads : call'[u] # Idle => begun'[CallSlot(u)'] > 0
      BY ZenonT(60), <2>2, <2>3, <2>6, <3>2 DEF PhantomInv, CallSlot
    <3> QED  BY <2>2, <2>6, <3>1, <3>2, <3>3 DEF PhantomInv, CellSlot, Accessed, SlotOf
  <2>7. ASSUME NEW w \in Word, call' = [call EXCEPT ![t] = Idle],
               cells' = [cells EXCEPT ![call[t].cell] = w], w.count > 0,
               \/ w.epoch = call[t].epoch
               \/ w.epoch = cells[call[t].cell].epoch /\ cells[call[t].cell].count > 0
        PROVE  PhantomInv'
    <3>1. CollectorType'
      BY Zenon, <1>0, <2>2, <2>7 DEF CollectorType
    <3>2. call'[t] = Idle /\ \A u \in Threads \ {t} : call'[u] = call[u]
      BY <1>0, <2>7 DEF CollectorType
    <3>3. /\ cells'[call[t].cell] = w
          /\ \A c \in Places : c # call[t].cell => cells'[c] = cells[c]
      BY <1>0, <2>3, <2>7 DEF CollectorType
    <3>4. \A u \in Threads : call'[u] # Idle => begun'[CallSlot(u)'] > 0
      BY <2>2, <3>2 DEF PhantomInv, CallSlot
    <3>5. ASSUME NEW u \in Threads, call'[u].pc = "add", cells'[call'[u].cell].count = 0
          PROVE  cells'[call'[u].cell].epoch = call'[u].epoch
      <4>1. u # t /\ call'[u] = call[u] /\ call[u] # Idle
        BY <3>2, <3>5 DEF Idle
      <4>2. call[u].cell \in Places
        BY <1>0, <4>1, CallTypes
      <4>3. call[u].cell # call[t].cell
        BY <2>7, <3>3, <3>5, <4>1
      <4> QED  BY <3>3, <3>5, <4>1, <4>2, <4>3 DEF PhantomInv
    <3>6. ASSUME NEW c \in Places, cells'[c].count > 0  PROVE Accessed(CellSlot(c))'
      <4>1. CASE c # call[t].cell
        BY <2>2, <3>3, <3>6, <4>1 DEF PhantomInv, CellSlot, Accessed
      <4>2. CASE c = call[t].cell /\ w.epoch = call[t].epoch
        <5>1. CellSlot(c)' = CallSlot(t)
          BY <3>3, <4>2 DEF CellSlot, CallSlot
        <5> QED  BY <2>2, <2>3, <5>1 DEF Accessed
      <4>3. CASE c = call[t].cell /\ w.epoch = cells[c].epoch /\ cells[c].count > 0
        BY ZenonT(60), <2>2, <3>3, <4>3 DEF PhantomInv, CellSlot, Accessed
      <4> QED  BY <2>7, <4>1, <4>2, <4>3
    <3> QED  BY <2>2, <3>1, <3>4, <3>5, <3>6 DEF PhantomInv, SlotOf
  <2> QED  BY <2>4, <2>5, <2>6, <2>7
<1>3. CASE Tick
  <2>1. now' = now + 1 /\ UNCHANGED <<cells, call, begun, reset_slot, before>>
    BY <1>3 DEF Tick
  <2>2. now' \in 0 .. MaxTime /\ now <= now'
    BY SizeTypes, <1>0, <1>3, CollectorAssumption DEF Tick, CollectorType
  <2>3. SlotOf(now) <= SlotOf(now') /\ SlotOf(now) \in Nat /\ SlotOf(now') \in Nat
    <3>1. now \in Nat /\ now' \in Nat /\ SlotTicks \in Nat \ {0}
      BY <1>0, <2>2, CollectorAssumption DEF CollectorType
    <3>2. now \div SlotTicks \in Nat /\ now \div SlotTicks <= now' \div SlotTicks
      BY Zenon, <2>2, <3>1, DivMonotone
    <3>3. SlotOf(now') \in Nat
      BY <2>2, SlotType
    <3> QED  BY <3>2, <3>3 DEF SlotOf
  <2>4. CollectorType'
    BY <1>0, <2>1, <2>2 DEF CollectorType
  <2>5. \A d \in Slots : d[3] \in Nat
    BY Zenon, SizeTypes DEF Slots
  <2>6. \A d \in Slots : begun'[d] > 0 => d[3] <= SlotOf(now')
    BY <2>1, <2>3, <2>5 DEF PhantomInv
  <2> QED  BY <2>1, <2>4, <2>6 DEF PhantomInv, CallSlot, CellSlot, Accessed, SlotOf
<1>4. CASE ResetClock
  <2>1. /\ reset_slot = -2 /\ now' = 0 /\ reset_slot' = SlotOf(now) /\ UNCHANGED <<cells, call>>
        /\ \A t \in Threads : call[t] = Idle
        /\ before' = {c \in DOMAIN begun : begun[c] > 0} /\ begun' = [c \in DOMAIN begun |-> 0]
    BY <1>4 DEF ResetClock, Loading
  <2>2. SlotOf(now) \in Nat /\ DOMAIN begun = Slots
    BY <1>0, SlotType DEF CollectorType
  <2>3. CollectorType'
    BY SizeTypes, <1>0, <2>1, <2>2 DEF CollectorType
  <2>4. ASSUME NEW c \in Places, cells[c].count > 0  PROVE Accessed(CellSlot(c))'
    <3>1. CellSlot(c) \in Slots /\ CellSlot(c)' = CellSlot(c) /\ CellSlot(c)[3] \in Nat
      BY Zenon, SizeTypes, <1>0, <2>1 DEF CollectorType, CellSlot, Places, Slots, Word
    <3>2. begun[CellSlot(c)] > 0
      <4>1. Accessed(CellSlot(c))
        BY <2>4 DEF PhantomInv
      <4> QED  BY <2>1, <3>1, <4>1 DEF Accessed
    <3>3. CellSlot(c)[3] <= SlotOf(now) /\ CellSlot(c) \in before'
      BY <2>1, <2>2, <3>1, <3>2 DEF PhantomInv
    <3> QED  BY <2>1, <3>1, <3>3 DEF Accessed
  <2>5. \A d \in Slots : begun'[d] = 0
    BY ZenonT(60), <2>1, <2>2
  <2> QED  BY <2>1, <2>3, <2>4, <2>5 DEF PhantomInv, Idle
<1>5. CASE UNCHANGED collectorVars
  BY <1>5 DEF collectorVars, PhantomInv, CollectorType, CallSlot, CellSlot, Accessed, SlotOf
<1> QED  BY Zenon, <1>1, <1>2, <1>3, <1>4, <1>5, CollectorSteps DEF CollectorNext

(* No slot shows an access of a range that had none in it, however late    *)
(* threads update cells that went to other slots (CountOf, Record).        *)
THEOREM NoPhantoms == Spec => []NoPhantomAccess
<1>1. PhantomInv => NoPhantomAccess
  <2> SUFFICES ASSUME PhantomInv, NEW kind \in Kinds, NEW s \in 0 .. TableSize - 1, NEW e \in InRing,
                      CountOf(kind, s, e) > 0
               PROVE  begun[<<kind, s, e>>] > 0 \/ (e <= reset_slot /\ <<kind, s, e>> \in before)
    BY DEF NoPhantomAccess
  <2> DEFINE c == <<kind, s, Cell(e)>>
  <2>1. e \in Nat /\ Cell(e) \in 0 .. ring - 1
    BY SizeTypes, ModRange DEF InRing, Cell
  <2>2. c \in Places
    BY <2>1 DEF Places
  <2>3. cells[c].epoch = e /\ cells[c].count > 0
    BY DEF CountOf
  <2>4. CellSlot(c) = <<kind, s, e>> /\ Accessed(CellSlot(c))
    BY <2>2, <2>3 DEF PhantomInv, CellSlot
  <2> QED  BY <2>4 DEF Accessed
<1> QED  BY <1>1, PhantomInit, PhantomStep, PTL DEF Spec

-----------------------------------------------------------------------------
(* The cell of a slot, the calls in flight for it and what it counts. *)
Place(d) == <<d[1], d[2], Cell(d[3])>>
Callers(d) == {t \in Threads : call[t] # Idle /\ call[t].epoch = d[3] /\ call[t].cell = Place(d)}
Counted(d) == IF cells[Place(d)].epoch = d[3] THEN cells[Place(d)].count ELSE 0
Recent(e) == e <= SlotOf(now) /\ SlotOf(now) - e < ring

(* A call is overtaken by `lag` slots at most. *)
LagInv ==
    /\ rate \in Nat \ {0} /\ lag \in Nat
    /\ \A t \in Threads : call[t] # Idle =>
         /\ call[t].cell = Place(CallSlot(t))
         /\ call[t].epoch <= SlotOf(now) /\ SlotOf(now) - call[t].epoch <= lag

(* No two recent slots share a cell, so that a call finds the cell as it   *)
(* was left by a call of its own slot, or as it loaded it.                 *)
ClaimInv ==
    /\ \A c \in Places : cells[c].count = 0 => cells[c].epoch = 0
    /\ \A c \in Places : cells[c].epoch <= SlotOf(now) \/ cells[c].epoch <= reset_slot
    /\ \A t \in Threads :
         /\ call[t].pc \in {"add", "reload"} => cells[call[t].cell].epoch = call[t].epoch
         /\ call[t].pc = "cas" => /\ call[t].v.epoch # call[t].epoch
                                 /\ \/ cells[call[t].cell] = call[t].v
                                    \/ cells[call[t].cell].epoch = call[t].epoch

(* A call that is over is counted, or was sampled out after the first. *)
ExactInv ==
    \A d \in Slots : Recent(d[3]) =>
        /\ d[3] > 0 /\ begun[d] > Cardinality(Callers(d)) => cells[Place(d)].epoch = d[3]
        /\ rate = 1 /\ d[3] > reset_slot => Counted(d) = begun[d] - Cardinality(Callers(d))

RingInv == PhantomInv /\ LagInv /\ (lag < ring => ClaimInv /\ ExactInv)

(* A slot's cell, and what the slot of a call in flight is. *)
LEMMA PlaceTypes ==
    ASSUME NEW d \in Slots
    PROVE  /\ d[1] \in Kinds /\ d[2] \in 0 .. TableSize - 1 /\ d[3] \in Nat /\ d[3] \in Epochs
           /\ Place(d) \in Places /\ Place(d)[1] = d[1] /\ Place(d)[2] = d[2] /\ Place(d)[3] = Cell(d[3])
<1>1. d[1] \in Kinds /\ d[2] \in 0 .. TableSize - 1 /\ d[3] \in Nat /\ d[3] \in Epochs
  BY Zenon, SizeTypes DEF Slots
<1>2. Cell(d[3]) \in 0 .. ring - 1
  BY Zenon, <1>1, SizeTypes, ModRange DEF Cell
<1> QED  BY <1>1, <1>2 DEF Place, Places

(* No two recent slots share a cell: the ring has one more than it keeps. *)
LEMMA CellOfOne ==
    ASSUME CollectorType, NEW d \in Slots, NEW f \in Slots, Recent(d[3]), Recent(f[3]), Place(d) = Place(f)
    PROVE  d = f
<1>1. SlotOf(now) \in Nat
  BY SlotType DEF CollectorType
<1>2. PICK a \in Nat, b \in Nat, n \in Nat : a = d[3] /\ b = f[3] /\ n = SlotOf(now)
  BY <1>1, PlaceTypes
<1>3. a <= n /\ b <= n /\ n - a < ring /\ n - b < ring
  BY <1>2 DEF Recent
<1>4. a % ring = b % ring
  BY <1>2, PlaceTypes DEF Cell
<1>5. a = b
  BY Zenon, <1>3, <1>4, SizeTypes, ModUnique
<1>6. d[1] = f[1] /\ d[2] = f[2] /\ d[3] = f[3]
  BY <1>2, <1>5, PlaceTypes
<1> QED  BY <1>6 DEF Slots

(* The calls in flight for a slot are those that took their time in it. *)
LEMMA CallersOf ==
    ASSUME CollectorType, LagInv, NEW t \in Threads, NEW d \in Slots
    PROVE  t \in Callers(d) <=> call[t] # Idle /\ CallSlot(t) = d
<1>1. CASE call[t] = Idle
  BY <1>1 DEF Callers
<1>2. CASE call[t] # Idle
  <2>1. call[t].cell \in Places /\ CallSlot(t) \in Slots /\ call[t].cell = Place(CallSlot(t))
    BY <1>2, CallTypes DEF LagInv
  <2>2. CallSlot(t)[1] = call[t].cell[1] /\ CallSlot(t)[2] = call[t].cell[2] /\ CallSlot(t)[3] = call[t].epoch
    BY DEF CallSlot
  <2>3. ASSUME call[t].epoch = d[3], call[t].cell = Place(d)  PROVE CallSlot(t) = d
    <3>1. CallSlot(t)[1] = d[1] /\ CallSlot(t)[2] = d[2] /\ CallSlot(t)[3] = d[3]
      BY <2>2, <2>3, PlaceTypes
    <3> QED  BY <2>1, <3>1 DEF Slots
  <2> QED  BY <1>2, <2>1, <2>2, <2>3 DEF Callers
<1> QED  BY <1>1, <1>2

(* There are finitely many of them. *)
LEMMA CallersFinite ==
    ASSUME NEW d
    PROVE  IsFiniteSet(Callers(d)) /\ Cardinality(Callers(d)) \in Nat
<1>1. Callers(d) \in SUBSET Threads /\ IsFiniteSet(Threads)
  BY CollectorAssumption DEF Callers
<1>2. IsFiniteSet(Callers(d))
  BY <1>1, FS_Subset
<1> QED  BY <1>2, FS_CardinalityType

(* A thread that becomes idle leaves the callers of its slot. *)
LEMMA CallerLeaves ==
    ASSUME CollectorType, LagInv, NEW t \in Threads, call[t] # Idle, call' = [call EXCEPT ![t] = Idle],
           NEW f \in Slots, CallSlot(t) = f
    PROVE  /\ \A d \in Slots : d # f => Callers(d)' = Callers(d)
           /\ Cardinality(Callers(f)') = Cardinality(Callers(f)) - 1
<1>1. call'[t] = Idle /\ \A u \in Threads \ {t} : call'[u] = call[u]
  BY DEF CollectorType
<1>2. \A d \in Slots : Callers(d)' = Callers(d) \ {t}
  BY <1>1 DEF Callers, Place, Cell, ring
<1>3. t \in Callers(f) /\ \A d \in Slots : d # f => t \notin Callers(d)
  BY CallersOf
<1>4. Cardinality(Callers(f) \ {t}) = Cardinality(Callers(f)) - 1
  BY Zenon, <1>3, CallersFinite, FS_RemoveElement
<1> QED  BY ZenonT(60), <1>2, <1>3, <1>4

(* What an idle thread that takes its time adds to them. *)
LEMMA CallerEnters ==
    ASSUME CollectorType, NEW t \in Threads, call[t] = Idle, NEW f \in Slots,
           NEW x, x # Idle, x.epoch = f[3], x.cell = Place(f), call' = [call EXCEPT ![t] = x]
    PROVE  /\ \A d \in Slots : d # f => Callers(d)' = Callers(d)
           /\ Cardinality(Callers(f)') = Cardinality(Callers(f)) + 1
<1>1. call'[t] = x /\ \A u \in Threads \ {t} : call'[u] = call[u]
  BY DEF CollectorType
<1>2. \A d \in Slots : Place(d)' = Place(d)
  BY DEF Place, Cell, ring
<1>3. ASSUME NEW d \in Slots, d[3] = f[3], Place(d) = Place(f)  PROVE d = f
  <2>1. d[1] = f[1] /\ d[2] = f[2] /\ d[3] = f[3]
    BY <1>3, PlaceTypes
  <2> QED  BY <2>1 DEF Slots
<1>4. ASSUME NEW d \in Slots, d # f  PROVE Callers(d)' = Callers(d)
  <2>1. ~(x.epoch = d[3] /\ x.cell = Place(d))
    BY <1>3, <1>4
  <2> QED  BY <1>1, <1>2, <2>1 DEF Callers
<1>5. Callers(f)' = Callers(f) \cup {t} /\ t \notin Callers(f)
  BY <1>1, <1>2 DEF Callers
<1>6. Cardinality(Callers(f) \cup {t}) = Cardinality(Callers(f)) + 1
  BY Zenon, <1>5, CallersFinite, FS_AddElement
<1> QED  BY <1>4, <1>5, <1>6

(* A step of a call that goes on leaves them as they are. *)
LEMMA CallersStay ==
    ASSUME CollectorType, NEW t \in Threads, call[t] # Idle, NEW y, y # Idle,
           y.epoch = call[t].epoch, y.cell = call[t].cell, call' = [call EXCEPT ![t] = y]
    PROVE  \A d \in Slots : Callers(d)' = Callers(d)
<1>1. call'[t] = y /\ \A u \in Threads \ {t} : call'[u] = call[u]
  BY DEF CollectorType
<1>2. \A d \in Slots : Place(d)' = Place(d)
  BY DEF Place, Cell, ring
<1> QED  BY <1>1, <1>2 DEF Callers

(* A step of Record while no call is overtaken by a whole ring of slots:   *)
(* the call goes on and has claimed nothing, or is sampled out of a slot   *)
(* that has its first access, or is counted.                               *)
RecordStep(t) ==
    LET c == call[t].cell
        e == call[t].epoch
    IN  \/ /\ call' = [call EXCEPT ![t] = Idle] /\ cells' = cells
           /\ rate > 1 /\ cells[c].epoch = e
        \/ /\ cells' = cells
           /\ \E y \in Calls :
                /\ call' = [call EXCEPT ![t] = y] /\ y.cell = c /\ y.epoch = e
                /\ y.pc \in {"add", "reload"} => cells[c].epoch = e
                /\ y.pc = "cas" => y.v.epoch # e /\ cells[c] = y.v
        \/ /\ call' = [call EXCEPT ![t] = Idle]
           /\ \E w \in Word :
                /\ cells' = [cells EXCEPT ![c] = w]
                /\ w.epoch = e /\ w.count = Counted(CallSlot(t)) + 1

(* Every step of Record is such a step. *)
LEMMA RecordSteps ==
    ASSUME CollectorType, LagInv, ClaimInv, NEW t \in Threads, Record(t)
    PROVE  RecordStep(t)
<1>1. call[t] # Idle
  BY DEF Record, Load, CompareExchange, Reload, SampleAndAdd, Idle
<1>2. /\ call[t] \in Calls /\ call[t].cell \in Places /\ call[t].epoch \in Epochs
      /\ cells[call[t].cell] \in Word /\ call[t].v \in Word
  BY <1>1, CallTypes DEF Calls
<1>3. PICK v \in Word : v = cells[call[t].cell]
  BY <1>2
<1>4. Counted(CallSlot(t)) = IF v.epoch = call[t].epoch THEN v.count ELSE 0
  BY <1>1, <1>3 DEF LagInv, Counted, CallSlot
<1>5. CASE Load(t)
  <2> DEFINE p == IF v.epoch # call[t].epoch THEN "cas" ELSE "add"
             y == [call[t] EXCEPT !.v = v, !.pc = p]
  <2>1. p \in {"cas", "add"} /\ (p = "add" => v.epoch = call[t].epoch) /\ (p = "cas" => v.epoch # call[t].epoch)
    OBVIOUS
  <2>2. call' = [call EXCEPT ![t] = y] /\ cells' = cells
    BY Zenon, <1>3, <1>5 DEF Load, CollectorType
  <2> HIDE DEF p
  <2>3. y \in Calls /\ y.cell = call[t].cell /\ y.epoch = call[t].epoch /\ y.pc = p /\ y.v = v
    BY Zenon, <1>2, <2>1 DEF Calls
  <2> QED  BY Zenon, <1>3, <2>1, <2>2, <2>3 DEF RecordStep
<1>6. CASE CompareExchange(t)
  <2>1. CASE Claims(t)
    <3> DEFINE w == [epoch |-> call[t].epoch, count |-> 1]
    <3>1. w \in Word /\ w.count = 1 /\ w.epoch = call[t].epoch
      BY <1>2 DEF Word
    <3>2. cells' = [cells EXCEPT ![call[t].cell] = w] /\ call' = [call EXCEPT ![t] = Idle]
      BY <1>6, <2>1 DEF CompareExchange
    <3>3. v.epoch # call[t].epoch
      BY <1>3, <1>6, <2>1 DEF CompareExchange, Claims, ClaimInv
    <3>4. w.count = Counted(CallSlot(t)) + 1
      BY <1>4, <3>1, <3>3
    <3> HIDE DEF w
    <3> QED  BY Zenon, <3>1, <3>2, <3>4 DEF RecordStep
  <2>2. CASE ~Claims(t)
    <3> DEFINE y == [call[t] EXCEPT !.pc = "reload"]
    <3>1. y \in Calls /\ y.cell = call[t].cell /\ y.epoch = call[t].epoch /\ y.pc = "reload"
      BY <1>2 DEF Calls
    <3>2. call' = [call EXCEPT ![t] = y] /\ cells' = cells
      BY <1>6, <2>2 DEF CompareExchange, CollectorType
    <3>3. cells[call[t].cell].epoch = call[t].epoch
      BY <1>6, <2>2 DEF CompareExchange, Claims, ClaimInv
    <3> HIDE DEF y
    <3> QED  BY Zenon, <3>1, <3>2, <3>3 DEF RecordStep
  <2> QED  BY <2>1, <2>2
<1>7. CASE Reload(t)
  <2> DEFINE y == [call[t] EXCEPT !.pc = "add"]
  <2>1. y \in Calls /\ y.cell = call[t].cell /\ y.epoch = call[t].epoch /\ y.pc = "add"
    BY <1>2 DEF Calls
  <2>2. cells[call[t].cell].epoch = call[t].epoch
    BY <1>7 DEF Reload, ClaimInv
  <2>3. call' = [call EXCEPT ![t] = y] /\ cells' = cells
    BY <1>7, <2>2 DEF Reload, KeepsTrying
  <2> HIDE DEF y
  <2> QED  BY Zenon, <2>1, <2>2, <2>3 DEF RecordStep
<1>8. CASE SampleAndAdd(t)
  <2>1. v.epoch = call[t].epoch
    BY <1>3, <1>8 DEF SampleAndAdd, ClaimInv
  <2>2. CASE rate > 1 /\ cells' = cells
    BY <1>3, <1>8, <2>1, <2>2 DEF SampleAndAdd, RecordStep
  <2>3. CASE cells' = [cells EXCEPT ![call[t].cell].count = @ + 1]
    <3> DEFINE w == [v EXCEPT !.count = v.count + 1]
    <3>1. w \in Word /\ w.count = v.count + 1 /\ w.epoch = call[t].epoch
      BY <2>1 DEF Word
    <3>2. cells' = [cells EXCEPT ![call[t].cell] = w] /\ call' = [call EXCEPT ![t] = Idle]
      BY <1>2, <1>3, <1>8, <2>3 DEF SampleAndAdd, CollectorType
    <3>3. Counted(CallSlot(t)) = v.count
      BY ZenonT(60), <1>4, <2>1
    <3> HIDE DEF w
    <3> QED  BY Zenon, <3>1, <3>2, <3>3 DEF RecordStep
  <2> QED  BY <1>8, <2>2, <2>3 DEF SampleAndAdd
<1> QED  BY <1>5, <1>6, <1>7, <1>8 DEF Record

(* The clock of a call's slot does not run ahead of it further than `lag`. *)
LEMMA LagStep == PhantomInv /\ LagInv /\ [Next]_vars => LagInv'
<1> SUFFICES ASSUME PhantomInv, LagInv, [Next]_vars  PROVE LagInv'
  BY Zenon
<1>0. CollectorType /\ SlotOf(now) \in Nat
  BY SlotType DEF PhantomInv, CollectorType
<1>1. UNCHANGED <<rate, lag>>
  BY Zenon, CollectorSteps DEF CollectorNext, Record, Load, CompareExchange, Reload, SampleAndAdd, Call, Tick,
                               ResetClock, collectorVars
<1>2. ASSUME NEW t \in Threads, NEW kind \in Kinds, NEW r \in Ranges, Call(t, kind, r)  PROVE LagInv'
  <2> DEFINE e == SlotOf(now)
             x == [pc |-> "load", cell |-> <<kind, Slot(r), Cell(e)>>, epoch |-> e, v |-> Zero]
  <2>1. call' = [call EXCEPT ![t] = x] /\ now' = now
    BY <1>2 DEF Call
  <2>2. call'[t] = x /\ \A u \in Threads \ {t} : call'[u] = call[u]
    BY <1>0, <2>1 DEF CollectorType
  <2>3. SlotOf(now)' = e
    BY <2>1 DEF SlotOf
  <2>4. call'[t].cell = Place(CallSlot(t))' /\ call'[t].epoch = e
    BY <2>2 DEF CallSlot, Place
  <2>5. e \in Nat /\ lag \in Nat
    BY <1>0 DEF LagInv
  <2> HIDE DEF x, e
  <2>6. e <= e /\ e - e <= lag
    BY <2>5
  <2>7. \A u \in Threads \ {t} : call'[u] # Idle =>
           /\ call'[u].cell = Place(CallSlot(u))'
           /\ call'[u].epoch <= e /\ e - call'[u].epoch <= lag
    BY <2>2 DEF LagInv, CallSlot, Place, e, Cell, ring
  <2> QED  BY <1>1, <2>3, <2>4, <2>6, <2>7 DEF LagInv
<1>3. ASSUME NEW t \in Threads, Record(t)  PROVE LagInv'
  <2>1. now' = now
    BY <1>3 DEF Record, Load, CompareExchange, Reload, SampleAndAdd
  <2>2. call[t] # Idle /\ call[t] \in Calls
    <3>1. call[t] # Idle
      BY <1>3 DEF Record, Load, CompareExchange, Reload, SampleAndAdd, Idle
    <3> QED  BY <1>0, <3>1, CallTypes
  <2>3. /\ \A u \in Threads \ {t} : call'[u] = call[u]
        /\ call'[t] = Idle \/ (call'[t].cell = call[t].cell /\ call'[t].epoch = call[t].epoch)
    BY <1>0, <1>3, <2>2 DEF Record, Load, CompareExchange, Reload, SampleAndAdd, CollectorType, Calls
  <2>4. \A u \in Threads : call'[u] # Idle =>
           call[u] # Idle /\ call'[u].cell = call[u].cell /\ call'[u].epoch = call[u].epoch
    BY ZenonT(60), <2>2, <2>3
  <2> QED  BY <1>1, <2>1, <2>4 DEF LagInv, CallSlot, Place, Cell, ring, SlotOf
<1>4. CASE Tick
  <2>1. /\ now' = now + 1 /\ call' = call
        /\ \A t \in Threads : call[t] # Idle => SlotOf(now + 1) - call[t].epoch <= lag
    BY <1>4 DEF Tick
  <2>2. now \in Nat /\ now + 1 \in 0 .. MaxTime
    BY <1>0, <1>4, SizeTypes, CollectorAssumption DEF CollectorType, Tick
  <2>3. SlotOf(now + 1) \in Nat /\ SlotOf(now) <= SlotOf(now + 1)
    <3>1. now + 1 \in Nat /\ now <= now + 1 /\ SlotTicks \in Nat \ {0}
      BY <2>2, CollectorAssumption
    <3>2. now \div SlotTicks <= (now + 1) \div SlotTicks
      BY <2>2, <3>1, DivMonotone
    <3> QED  BY <2>2, <3>2, SlotType DEF SlotOf
  <2>4. SlotOf(now)' = SlotOf(now + 1)
    BY <2>1 DEF SlotOf
  <2>5. ASSUME NEW t \in Threads, call[t] # Idle
        PROVE  call[t].epoch <= SlotOf(now + 1) /\ SlotOf(now + 1) - call[t].epoch <= lag
    <3>1. call[t].epoch \in Nat
      BY Zenon, <1>0, <2>5, CallTypes, SizeTypes
    <3> QED  BY <1>0, <2>1, <2>3, <2>5, <3>1 DEF LagInv
  <2> QED  BY <1>1, <2>1, <2>4, <2>5 DEF LagInv, CallSlot, Place, Cell, ring
<1>5. CASE ResetClock
  BY <1>1, <1>5 DEF ResetClock, LagInv
<1>6. CASE UNCHANGED collectorVars
  BY <1>6 DEF collectorVars, LagInv, CallSlot, Place, Cell, ring, SlotOf
<1> QED  BY Zenon, <1>2, <1>3, <1>4, <1>5, <1>6, CollectorSteps DEF CollectorNext

(* A new access finds the cells as they are. *)
LEMMA CallKeepsRing ==
    ASSUME PhantomInv, LagInv, ClaimInv, ExactInv, lag < ring,
           NEW t \in Threads, NEW kind \in Kinds, NEW r \in Ranges, Call(t, kind, r)
    PROVE  ClaimInv' /\ ExactInv'
<1>0. CollectorType
  BY DEF PhantomInv
<1>1. PICK e \in Epochs : e = SlotOf(now) /\ Slot(r) \in 0 .. TableSize - 1
  BY ZenonT(60), <1>0, SizeTypes, SlotType, CollectorAssumption, ModRange DEF CollectorType, Slot
<1> DEFINE f == <<kind, Slot(r), e>>
           x == [pc |-> "load", cell |-> <<kind, Slot(r), Cell(e)>>, epoch |-> e, v |-> Zero]
<1>2. f \in Slots /\ x # Idle /\ x.epoch = f[3] /\ x.cell = Place(f) /\ x.pc = "load"
  BY <1>1 DEF Slots, Place, Idle
<1>3. /\ call[t] = Idle /\ call' = [call EXCEPT ![t] = x]
      /\ begun' = [begun EXCEPT ![f] = begun[f] + 1]
      /\ UNCHANGED <<now, cells, rate, lag, reset_slot>>
  BY <1>1 DEF Call
<1> HIDE DEF f, x
<1>4. call'[t] = x /\ \A u \in Threads \ {t} : call'[u] = call[u]
  BY ZenonT(60), <1>0, <1>3 DEF CollectorType
<1>5. ClaimInv'
  BY <1>2, <1>3, <1>4 DEF ClaimInv, SlotOf
<1>6. /\ \A d \in Slots : d # f => Callers(d)' = Callers(d) /\ begun'[d] = begun[d]
      /\ Cardinality(Callers(f)') = Cardinality(Callers(f)) + 1 /\ begun'[f] = begun[f] + 1
  BY Zenon, <1>0, <1>2, <1>3, CallerEnters DEF CollectorType
<1>7. \A d \in Slots : begun[d] \in Nat /\ Cardinality(Callers(d)) \in Nat
  BY <1>0, CallersFinite DEF CollectorType
<1>8. ASSUME NEW d \in Slots
      PROVE  /\ begun'[d] > Cardinality(Callers(d)') <=> begun[d] > Cardinality(Callers(d))
             /\ begun'[d] - Cardinality(Callers(d)') = begun[d] - Cardinality(Callers(d))
  <2>1. CASE d = f
    BY <1>2, <1>6, <1>7, <2>1
  <2>2. CASE d # f
    BY <1>6, <2>2
  <2> QED  BY <2>1, <2>2
<1>9. ASSUME NEW d \in Slots
      PROVE  Counted(d)' = Counted(d) /\ Place(d)' = Place(d) /\ Recent(d[3])' = Recent(d[3])
  BY Zenon, <1>3 DEF Counted, Place, Cell, Recent, SlotOf, ring
<1>10. ExactInv'
  BY Zenon, <1>3, <1>8, <1>9 DEF ExactInv
<1> QED  BY ZenonT(60), <1>5, <1>10

(* A call in flight updates its own slot's cell, which no recent slot      *)
(* shares.                                                                 *)
LEMMA RecordKeepsRing ==
    ASSUME PhantomInv, LagInv, ClaimInv, ExactInv, lag < ring, NEW t \in Threads, Record(t)
    PROVE  ClaimInv' /\ ExactInv'
<1>0. CollectorType /\ SlotOf(now) \in Nat
  BY SlotType DEF PhantomInv, CollectorType
<1>1. call[t] # Idle /\ UNCHANGED <<now, rate, lag, begun, reset_slot>>
  BY DEF Record, Load, CompareExchange, Reload, SampleAndAdd, Idle
<1>2. /\ call[t].cell \in Places /\ call[t].epoch \in Epochs /\ CallSlot(t) \in Slots
      /\ call[t].cell = Place(CallSlot(t)) /\ CallSlot(t)[3] = call[t].epoch
  BY <1>0, <1>1, CallTypes DEF LagInv, CallSlot
<1>3. PICK f \in Slots, c \in Places, e \in Epochs :
           f = CallSlot(t) /\ c = call[t].cell /\ e = call[t].epoch /\ c = Place(f) /\ e = f[3]
  BY ZenonT(60), <1>2
<1>4. \A u \in Threads : call[u] # Idle => CallSlot(u) \in Slots /\ Recent(CallSlot(u)[3])
                                            /\ call[u].cell = Place(CallSlot(u)) /\ CallSlot(u)[3] = call[u].epoch
  <2> SUFFICES ASSUME NEW u \in Threads, call[u] # Idle
               PROVE  CallSlot(u) \in Slots /\ Recent(CallSlot(u)[3])
                      /\ call[u].cell = Place(CallSlot(u)) /\ CallSlot(u)[3] = call[u].epoch
    BY ZenonT(60)
  <2>1. CallSlot(u) \in Slots /\ call[u].cell = Place(CallSlot(u)) /\ CallSlot(u)[3] = call[u].epoch
    BY <1>0, CallTypes DEF LagInv, CallSlot
  <2>2. call[u].epoch \in Nat /\ call[u].epoch <= SlotOf(now) /\ SlotOf(now) - call[u].epoch <= lag
    BY Zenon, <1>0, CallTypes, SizeTypes DEF LagInv
  <2>3. lag \in Nat /\ ring \in Nat /\ lag < ring
    BY SizeTypes DEF LagInv
  <2> QED  BY <1>0, <2>1, <2>2, <2>3 DEF Recent
<1>5. Recent(e) /\ e \in Nat /\ e <= SlotOf(now)
  BY Zenon, <1>1, <1>3, <1>4, SizeTypes DEF Recent
<1>6. \A d \in Slots : Recent(d[3]) /\ Place(d) = c => d = f
  BY ZenonT(60), <1>0, <1>3, <1>5, CellOfOne
<1>7. \A u \in Threads : call[u] # Idle /\ call[u].cell = c => call[u].epoch = e
  BY <1>3, <1>4, <1>6
<1>8. \A d \in Slots : Place(d) \in Places /\ Place(d)' = Place(d) /\ Recent(d[3])' = Recent(d[3])
  BY <1>1, PlaceTypes DEF Place, Cell, Recent, SlotOf, ring
<1>9. \A d \in Slots : begun[d] \in Nat /\ Cardinality(Callers(d)) \in Nat
  BY <1>0, CallersFinite DEF CollectorType
<1>10. \A x \in Word : x.epoch \in Nat /\ x.count \in Nat
  BY ZenonT(60), SizeTypes DEF Word
<1>11. cells \in [Places -> Word] /\ call \in [Threads -> {Idle} \cup Calls]
  BY ZenonT(60), <1>0 DEF CollectorType
<1>12. CASE call' = [call EXCEPT ![t] = Idle] /\ cells' = cells /\ rate > 1 /\ cells[c].epoch = e
  <2>1. call'[t] = Idle /\ \A u \in Threads \ {t} : call'[u] = call[u]
    BY Zenon, <1>11, <1>12
  <2>2. \A u \in Threads : call'[u].pc \in {"add", "reload", "cas"} => u # t
    BY <2>1 DEF Idle
  <2>3. ClaimInv'
    BY <1>1, <1>12, <2>1, <2>2 DEF ClaimInv, SlotOf
  <2>4. \A d \in Slots : d # f => Callers(d)' = Callers(d)
    BY ZenonT(60), <1>0, <1>1, <1>3, <1>12, CallerLeaves
  <2>5. ASSUME NEW d \in Slots, Recent(d[3]), d[3] > 0, begun[d] > Cardinality(Callers(d)')
        PROVE  cells[Place(d)].epoch = d[3]
    <3>1. CASE d = f
      BY <1>3, <1>12, <3>1
    <3>2. CASE d # f
      BY ZenonT(60), <2>4, <2>5, <3>2 DEF ExactInv
    <3> QED  BY ZenonT(60), <3>1, <3>2
  <2>6. rate' # 1
    BY <1>1, <1>12 DEF LagInv
  <2> QED  BY <1>1, <1>8, <1>12, <2>3, <2>5, <2>6 DEF ExactInv
<1>13. ASSUME NEW y \in Calls, cells' = cells, call' = [call EXCEPT ![t] = y], y.cell = c, y.epoch = e,
              y.pc \in {"add", "reload"} => cells[c].epoch = e, y.pc = "cas" => y.v.epoch # e /\ cells[c] = y.v
       PROVE  ClaimInv' /\ ExactInv'
  <2>1. call'[t] = y /\ \A u \in Threads \ {t} : call'[u] = call[u]
    BY Zenon, <1>11, <1>13
  <2>2. ClaimInv'
    BY ZenonT(60), <1>1, <1>13, <2>1 DEF ClaimInv, SlotOf
  <2>3. y # Idle
    BY <1>13 DEF Calls, Idle
  <2>4. \A d \in Slots : Callers(d)' = Callers(d)
    BY Zenon, <1>0, <1>1, <1>3, <1>13, <2>3, CallersStay
  <2>5. \A d \in Slots : Counted(d)' = Counted(d)
    BY Zenon, <1>8, <1>13 DEF Counted
  <2> QED  BY Zenon, <1>1, <1>8, <1>13, <2>2, <2>4, <2>5 DEF ExactInv
<1>14. ASSUME NEW w \in Word, call' = [call EXCEPT ![t] = Idle], cells' = [cells EXCEPT ![c] = w],
              w.epoch = e, w.count = Counted(f) + 1
       PROVE  ClaimInv' /\ ExactInv'
  <2>1. call'[t] = Idle /\ \A u \in Threads \ {t} : call'[u] = call[u]
    BY <1>11, <1>14
  <2>2. cells'[c] = w /\ \A x \in Places : x # c => cells'[x] = cells[x]
    BY <1>3, <1>11, <1>14
  <2>3. Counted(f) \in Nat /\ w.count # 0
    BY <1>3, <1>10, <1>11, <1>14 DEF Counted
  <2>4. ClaimInv'
    <3>1. \A x \in Places : cells'[x].count = 0 => cells'[x].epoch = 0
      BY Zenon, <2>2, <2>3 DEF ClaimInv
    <3>2. \A x \in Places : cells'[x].epoch <= SlotOf(now)' \/ cells'[x].epoch <= reset_slot'
      BY ZenonT(60), <1>1, <1>5, <1>14, <2>2 DEF ClaimInv, SlotOf
    <3>3. ASSUME NEW u \in Threads, call'[u].pc \in {"add", "reload", "cas"}
          PROVE  /\ call'[u].pc \in {"add", "reload"} => cells'[call'[u].cell].epoch = call'[u].epoch
                 /\ call'[u].pc = "cas" => /\ call'[u].v.epoch # call'[u].epoch
                                          /\ \/ cells'[call'[u].cell] = call'[u].v
                                             \/ cells'[call'[u].cell].epoch = call'[u].epoch
      <4>1. u # t /\ call'[u] = call[u] /\ call[u] # Idle /\ call[u].cell \in Places
        BY <1>0, <2>1, <3>3, CallTypes DEF Idle
      <4>2. CASE call[u].cell = c
        BY ZenonT(60), <1>7, <1>14, <2>2, <4>1, <4>2 DEF ClaimInv
      <4>3. CASE call[u].cell # c
        BY <2>2, <4>1, <4>3 DEF ClaimInv
      <4> QED  BY ZenonT(60), <4>2, <4>3
    <3> QED  BY ZenonT(60), <3>1, <3>2, <3>3 DEF ClaimInv
  <2>5. /\ \A d \in Slots : d # f => Callers(d)' = Callers(d)
        /\ Cardinality(Callers(f)') = Cardinality(Callers(f)) - 1
    BY ZenonT(60), <1>0, <1>1, <1>3, <1>14, CallerLeaves
  <2>6. ASSUME NEW d \in Slots, Recent(d[3])
        PROVE  /\ d[3] > 0 /\ begun[d] > Cardinality(Callers(d)') => cells'[Place(d)].epoch = d[3]
               /\ rate = 1 /\ d[3] > reset_slot => Counted(d)' = begun[d] - Cardinality(Callers(d)')
    <3>1. CASE d = f
      <4>1. cells'[Place(d)].epoch = d[3]
        BY Zenon, <1>3, <1>14, <2>2, <3>1
      <4>2. Counted(d)' = Counted(f) + 1
        BY ZenonT(60), <1>3, <1>8, <1>14, <2>2, <3>1, <4>1 DEF Counted
      <4>3. rate = 1 /\ d[3] > reset_slot => Counted(f) = begun[f] - Cardinality(Callers(f))
        BY <2>6, <3>1 DEF ExactInv
      <4>4. begun[f] \in Nat /\ Cardinality(Callers(f)) \in Nat
        BY ZenonT(60), <1>9
      <4> QED  BY <2>5, <3>1, <4>1, <4>2, <4>3, <4>4
    <3>2. CASE d # f
      <4>1. Place(d) # c /\ Place(d) \in Places
        BY ZenonT(60), <1>6, <1>8, <2>6, <3>2
      <4>2. cells'[Place(d)] = cells[Place(d)] /\ Counted(d)' = Counted(d)
        BY <1>8, <2>2, <4>1 DEF Counted
      <4> QED  BY <2>5, <2>6, <3>2, <4>2 DEF ExactInv
    <3> QED  BY ZenonT(60), <3>1, <3>2
  <2> QED  BY <1>1, <1>8, <2>4, <2>6 DEF ExactInv
<1>15. RecordStep(t)
  BY Zenon, <1>0, RecordSteps
<1> QED  BY ZenonT(60), <1>3, <1>12, <1>13, <1>14, <1>15 DEF RecordStep

(* A slot that begins has had no access, and its cell holds an older one.  *)
LEMMA TickKeepsRing ==
    ASSUME PhantomInv, LagInv, ClaimInv, ExactInv, Tick
    PROVE  ClaimInv' /\ ExactInv'
<1>0. CollectorType /\ SlotOf(now) \in Nat
  BY SlotType DEF PhantomInv, CollectorType
<1>1. now' = now + 1 /\ UNCHANGED <<cells, call, rate, lag, begun, reset_slot>>
  BY DEF Tick
<1>2. now \in Nat /\ now' \in 0 .. MaxTime
  BY <1>0, <1>1, SizeTypes, CollectorAssumption DEF CollectorType, Tick
<1>3. SlotOf(now') \in Nat /\ SlotOf(now) <= SlotOf(now') /\ SlotOf(now)' = SlotOf(now')
  <2>1. now' \in Nat /\ now <= now' /\ SlotTicks \in Nat \ {0}
    BY <1>1, <1>2, CollectorAssumption
  <2>2. now \div SlotTicks <= now' \div SlotTicks
    BY Zenon, <1>2, <2>1, DivMonotone
  <2> QED  BY <1>2, <2>2, SlotType DEF SlotOf
<1>4. \A c \in Places : cells[c].epoch \in Nat /\ cells[c].count \in Nat
  BY ZenonT(60), <1>0, SizeTypes DEF CollectorType, Word
<1>5. ClaimInv'
  BY <1>0, <1>1, <1>3, <1>4 DEF ClaimInv
<1>6. \A d \in Slots : /\ Callers(d)' = Callers(d) /\ Place(d)' = Place(d) /\ Counted(d)' = Counted(d)
                       /\ d[3] \in Nat /\ Place(d) \in Places
  BY <1>1, PlaceTypes DEF Callers, Place, Counted, Cell, ring
<1>7. ASSUME NEW d \in Slots, Recent(d[3])', d[3] <= SlotOf(now)  PROVE Recent(d[3])
  <2>1. d[3] <= SlotOf(now') /\ SlotOf(now') - d[3] < ring /\ ring \in Nat
    BY <1>3, <1>7, SizeTypes DEF Recent, ring
  <2>2. d[3] \in Nat
    BY ZenonT(60), <1>6
  <2> QED  BY <1>0, <1>3, <1>7, <2>1, <2>2 DEF Recent
<1>8. ASSUME NEW d \in Slots, d[3] > SlotOf(now)
      PROVE  begun[d] = 0 /\ Cardinality(Callers(d)) = 0 /\ (d[3] > reset_slot => Counted(d) = 0)
  <2>1. d[3] \in Nat /\ Place(d) \in Places /\ begun[d] \in Nat /\ reset_slot \in Int
    BY ZenonT(60), <1>0, <1>6 DEF CollectorType
  <2>2. begun[d] = 0
    BY <1>0, <1>8, <2>1 DEF PhantomInv
  <2>3. Callers(d) = {}
    <3> SUFFICES ASSUME NEW t \in Threads, call[t] # Idle, call[t].epoch = d[3]  PROVE FALSE
      BY ZenonT(60) DEF Callers
    <3> QED  BY <1>0, <1>8, <2>1 DEF LagInv
  <2>4. d[3] > reset_slot => cells[Place(d)].epoch # d[3]
    BY <1>0, <1>4, <1>8, <2>1 DEF ClaimInv
  <2> QED  BY <2>2, <2>3, <2>4, FS_EmptySet DEF Counted
<1>9. ASSUME NEW d \in Slots, Recent(d[3])'
      PROVE  /\ d[3] > 0 /\ begun[d] > Cardinality(Callers(d)) => cells[Place(d)].epoch = d[3]
             /\ rate = 1 /\ d[3] > reset_slot => Counted(d) = begun[d] - Cardinality(Callers(d))
  <2>1. CASE d[3] <= SlotOf(now)
    BY <1>7, <1>9, <2>1 DEF ExactInv
  <2>2. CASE d[3] > SlotOf(now)
    BY <1>8, <2>2
  <2> QED  BY <1>0, <1>6, <2>1, <2>2
<1> QED  BY Zenon, <1>1, <1>5, <1>6, <1>9 DEF ExactInv

(* The new clock's slot 0 has had no access, and the cells hold slots up   *)
(* to the one in which the clock was set.                                  *)
LEMMA ResetKeepsRing ==
    ASSUME PhantomInv, LagInv, ClaimInv, ExactInv, ResetClock
    PROVE  ClaimInv' /\ ExactInv'
<1>0. CollectorType /\ SlotOf(now) \in Nat
  BY SlotType DEF PhantomInv, CollectorType
<1>1. /\ reset_slot = -2 /\ now' = 0 /\ reset_slot' = SlotOf(now) /\ UNCHANGED <<cells, call>>
      /\ \A t \in Threads : call[t] = Idle
      /\ begun' = [d \in Slots |-> 0]
  BY <1>0 DEF ResetClock, Loading, CollectorType
<1>2. SlotOf(now)' = 0
  <2>1. 0 \div SlotTicks = 0
    BY CollectorAssumption
  <2> QED  BY <1>1, <2>1 DEF SlotOf
<1>3. \A c \in Places : cells[c].epoch \in Nat
  BY Zenon, <1>0, SizeTypes DEF CollectorType, Word
<1>4. \A c \in Places : cells[c].epoch <= SlotOf(now)
  BY <1>0, <1>1, <1>3 DEF ClaimInv
<1>5. ClaimInv'
  BY <1>1, <1>4 DEF ClaimInv, Idle
<1>6. ASSUME NEW d \in Slots, Recent(d[3])'
      PROVE  /\ ~(begun'[d] > Cardinality(Callers(d))')
             /\ ~(d[3] > reset_slot')
  <2>1. Callers(d)' = {}
    BY <1>1 DEF Callers
  <2>2. Cardinality(Callers(d)') = 0
    BY <2>1, FS_EmptySet
  <2>3. begun'[d] = 0
    BY <1>1
  <2>4. d[3] \in Nat /\ d[3] <= 0
    BY <1>2, <1>6, PlaceTypes DEF Recent
  <2> QED  BY <1>0, <1>1, <2>2, <2>3, <2>4
<1> QED  BY <1>5, <1>6 DEF ExactInv

(* The collector keeps its ring. *)
LEMMA RingInvariant == Spec => []RingInv
<1>1. Init => RingInv
  <2> SUFFICES ASSUME Init  PROVE RingInv
    OBVIOUS
  <2>1. /\ now = 0 /\ cells = [c \in Places |-> Zero] /\ call = [t \in Threads |-> Idle]
        /\ begun = [d \in Slots |-> 0]
        /\ rate \in Nat \ {0} /\ lag \in Nat
    BY CollectorAssumption DEF Init, CollectorInit, Places, Slots
  <2>2. LagInv
    BY <2>1 DEF LagInv
  <2>3. SlotOf(now) = 0
    <3>1. 0 \div SlotTicks = 0
      BY CollectorAssumption
    <3> QED  BY <2>1, <3>1 DEF SlotOf
  <2>4. ClaimInv
    BY <2>1, <2>3 DEF ClaimInv, Zero, Idle
  <2>5. ASSUME NEW d \in Slots  PROVE Cardinality(Callers(d)) = 0 /\ begun[d] = 0 /\ Counted(d) = 0
    <3>1. Callers(d) = {}
      BY <2>1 DEF Callers
    <3>2. Place(d) \in Places
      BY ZenonT(60), PlaceTypes
    <3> QED  BY ZenonT(60), <2>1, <3>1, <3>2, FS_EmptySet DEF Counted, Zero
  <2>6. ExactInv
    BY <2>5 DEF ExactInv
  <2> QED  BY ZenonT(60), <2>2, <2>4, <2>6, PhantomInit DEF RingInv
<1>2. RingInv /\ [Next]_vars => RingInv'
  <2> SUFFICES ASSUME RingInv, [Next]_vars  PROVE RingInv'
    OBVIOUS
  <2>1. PhantomInv' /\ LagInv'
    BY PhantomStep, LagStep DEF RingInv
  <2>2. ASSUME lag < ring  PROVE ClaimInv' /\ ExactInv'
    <3>1. PhantomInv /\ LagInv /\ ClaimInv /\ ExactInv
      BY <2>2 DEF RingInv
    <3>2. CASE UNCHANGED collectorVars
      <4>1. \A d \in Slots : /\ Callers(d)' = Callers(d) /\ Place(d)' = Place(d) /\ Counted(d)' = Counted(d)
                             /\ Recent(d[3])' = Recent(d[3])
        BY Zenon, <3>2 DEF collectorVars, Callers, Place, Counted, Recent, Cell, ring, SlotOf
      <4>2. ClaimInv'
        BY Zenon, <3>1, <3>2 DEF collectorVars, ClaimInv, SlotOf
      <4>3. ExactInv'
        BY <3>1, <3>2, <4>1 DEF collectorVars, ExactInv
      <4> QED  BY Zenon, <4>2, <4>3
    <3> QED  BY Zenon, <2>2, <3>1, <3>2, CollectorSteps, CallKeepsRing, RecordKeepsRing, TickKeepsRing,
                ResetKeepsRing DEF CollectorNext
  <2>3. UNCHANGED <<lag>> /\ ring' = ring
    BY Zenon, CollectorSteps DEF CollectorNext, Record, Load, CompareExchange, Reload, SampleAndAdd, Call, Tick,
                                 ResetClock, collectorVars, ring
  <2> QED  BY <2>1, <2>2, <2>3 DEF RingInv
<1> QED  BY <1>1, <1>2, PTL DEF Spec

(* What the properties call pending and the count of a slot. *)
LEMMA SlotReadings ==
    ASSUME CollectorType, NEW kind \in Kinds, NEW s \in 0 .. TableSize - 1, NEW e \in InRing
    PROVE  LET d == <<kind, s, e>>
           IN  /\ d \in Slots /\ d[3] = e /\ Recent(e)
               /\ Pending(kind, s, e) = Cardinality(Callers(d)) /\ CountOf(kind, s, e) = Counted(d)
<1>1. <<kind, s, e>> \in Slots /\ Recent(e)
  BY DEF Slots, InRing, Recent
<1> QED  BY <1>1 DEF Pending, Callers, CountOf, Counted, Place

(* Without sampling, and if no call is overtaken by a whole ring of slots, *)
(* every slot's count is the number of its calls that are over (Record,    *)
(* CountOf).                                                               *)
THEOREM CountsKept == Spec => []CountsExact
<1>1. RingInv => CountsExact
  <2> SUFFICES ASSUME RingInv, rate = 1, lag < ring, NEW kind \in Kinds, NEW s \in 0 .. TableSize - 1,
                      NEW e \in InRing, e > reset_slot
               PROVE  CountOf(kind, s, e) = begun[<<kind, s, e>>] - Pending(kind, s, e)
    BY DEF CountsExact
  <2>1. CollectorType /\ ExactInv
    BY Zenon DEF RingInv, PhantomInv
  <2> QED  BY <2>1, SlotReadings DEF ExactInv
<1> QED  BY <1>1, RingInvariant, PTL

(* With sampling too, a range keeps a count in every slot but the clock's  *)
(* first in which a call of it is over (Record: the first access of a slot *)
(* is always recorded).                                                    *)
THEOREM FirstAccesses == Spec => []FirstAccessKept
<1>1. RingInv => FirstAccessKept
  <2> SUFFICES ASSUME RingInv, lag < ring, NEW kind \in Kinds, NEW s \in 0 .. TableSize - 1,
                      NEW e \in InRing, e >= 1, begun[<<kind, s, e>>] > Pending(kind, s, e)
               PROVE  CountOf(kind, s, e) > 0
    BY Zenon DEF FirstAccessKept, FirstAccessFrom
  <2>1. CollectorType /\ ExactInv /\ ClaimInv
    BY Zenon DEF RingInv, PhantomInv
  <2>2. PICK d \in Slots : d = <<kind, s, e>>
    BY Zenon, <2>1, SlotReadings
  <2>3. /\ d[3] = e /\ Recent(d[3]) /\ begun[d] > Cardinality(Callers(d)) /\ e \in Nat
        /\ CountOf(kind, s, e) = Counted(d)
    BY Zenon, <2>1, <2>2, SlotReadings, PlaceTypes
  <2>4. cells[Place(d)].epoch = d[3] /\ Place(d) \in Places /\ d[3] > 0
    <3>1. d[3] > 0
      BY <2>3
    <3>2. Place(d) \in Places
      BY Zenon, PlaceTypes
    <3> QED  BY Zenon, <2>1, <2>3, <3>1, <3>2 DEF ExactInv
  <2>5. cells[Place(d)].count \in Nat /\ cells[Place(d)].count # 0
    BY <2>1, <2>4 DEF CollectorType, Word, ClaimInv
  <2> QED  BY <2>3, <2>4, <2>5 DEF Counted
<1> QED  BY <1>1, RingInvariant, PTL

-----------------------------------------------------------------------------
(* If no call is overtaken, the cells of earlier slots stay as they are. *)
LEMMA OldCellsStay ==
    ASSUME PhantomInv, LagInv, lag = 0, [Next]_vars, NEW d \in Slots, Recent(d[3]), d[3] # SlotOf(now)
    PROVE  cells'[Place(d)] = cells[Place(d)]
<1>0. CollectorType /\ SlotOf(now) \in Nat /\ Place(d) \in Places
  BY Zenon, SlotType, PlaceTypes DEF PhantomInv, CollectorType
<1>1. CASE cells' = cells
  BY <1>1
<1>2. ASSUME NEW t \in Threads, Record(t)  PROVE cells'[Place(d)] = cells[Place(d)]
  <2>1. call[t] # Idle
    BY <1>2 DEF Record, Load, CompareExchange, Reload, SampleAndAdd, Idle
  <2>2. PICK f \in Slots : f = CallSlot(t) /\ f[3] = call[t].epoch /\ call[t].cell = Place(f)
    BY ZenonT(60), <1>0, <2>1, CallTypes DEF LagInv, CallSlot
  <2>3. f[3] \in Nat /\ f[3] = SlotOf(now)
    <3>1. f[3] \in Nat /\ f[3] <= SlotOf(now) /\ SlotOf(now) - f[3] <= 0
      BY <2>1, <2>2, PlaceTypes DEF LagInv
    <3> QED  BY <1>0, <3>1
  <2>4. Recent(f[3])
    BY <1>0, <2>3, SizeTypes DEF Recent
  <2>5. Place(d) # call[t].cell
    BY Zenon, <1>0, <2>2, <2>3, <2>4, CellOfOne
  <2>6. call[t].cell \in Places /\ cells \in [Places -> Word]
    BY Zenon, <1>0, <2>1, CallTypes DEF CollectorType
  <2> QED  BY <1>0, <1>2, <2>5, <2>6 DEF Record, Load, CompareExchange, Reload, SampleAndAdd
<1> QED  BY Zenon, <1>1, <1>2, CollectorSteps DEF CollectorNext, Call, Tick, ResetClock, collectorVars

(* Within a slot, then, the rates of a range's completed slots stay. *)
LEMMA HistoryStays ==
    ASSUME PhantomInv, LagInv, lag = 0, [Next]_vars, NEW at \in 0 .. MaxTime, SlotOf(at) = SlotOf(now),
           NEW kind \in Kinds, NEW r \in Ranges
    PROVE  History(kind, r, at)' = History(kind, r, at)
<1>0. CollectorType /\ SlotOf(at) \in Nat /\ SlotOf(at) \in Epochs /\ history \in Nat
  BY SlotType, CollectorAssumption DEF PhantomInv, CollectorType
<1>1. rate' = rate
  BY Zenon, CollectorSteps DEF CollectorNext, Record, Load, CompareExchange, Reload, SampleAndAdd, Call, Tick,
                               ResetClock, collectorVars
<1>2. Slot(r) \in 0 .. TableSize - 1
  BY SizeTypes, CollectorAssumption, ModRange DEF Slot
<1>3. ASSUME NEW i \in 1 .. history, NEW e \in Int, e = SlotOf(at) - (history - i + 1), e >= 0
      PROVE  CountOf(kind, Slot(r), e)' = CountOf(kind, Slot(r), e)
  <2>1. SlotOf(MaxTime) \in Nat /\ SlotOf(at) <= SlotOf(MaxTime)
    BY <1>0, SizeTypes, SlotType DEF Epochs
  <2>2. e \in Epochs /\ e < SlotOf(at) /\ SlotOf(at) - e < ring
    BY <1>0, <1>3, <2>1 DEF Epochs, ring
  <2> DEFINE x == <<kind, Slot(r), e>>
  <2>3. x \in Slots /\ x[3] = e
    BY <1>2, <2>2 DEF Slots
  <2>4. PICK d \in Slots : d = x /\ d[3] = e
    BY <2>3
  <2>5. Recent(d[3]) /\ d[3] # SlotOf(now)
    BY <1>0, <1>3, <2>2, <2>4 DEF Recent
  <2>6. cells'[Place(d)] = cells[Place(d)]
    BY <2>5, OldCellsStay
  <2>7. Place(d) = <<kind, Slot(r), Cell(e)>>
    BY ZenonT(60), <2>4 DEF Place
  <2> QED  BY Zenon, <2>6, <2>7 DEF CountOf, Slot, Cell, ring
<1>4. ASSUME NEW i \in 1 .. history
      PROVE  (LET e == SlotOf(at) - (history - i + 1) IN IF e < 0 THEN 0 ELSE Estimate(CountOf(kind, Slot(r), e)))'
             = LET e == SlotOf(at) - (history - i + 1) IN IF e < 0 THEN 0 ELSE Estimate(CountOf(kind, Slot(r), e))
  <2>1. PICK e \in Int : e = SlotOf(at) - (history - i + 1)
    BY <1>0
  <2>2. CASE e < 0
    BY ZenonT(60), <2>1, <2>2
  <2>3. CASE e >= 0
    <3>1. CountOf(kind, Slot(r), e)' = CountOf(kind, Slot(r), e)
      BY <1>3, <2>1, <2>3
    <3>2. Estimate(CountOf(kind, Slot(r), e))' = Estimate(CountOf(kind, Slot(r), e))
      BY Zenon, <1>1, <3>1 DEF Estimate
    <3> QED  BY <2>1, <3>2
  <2> QED  BY <2>2, <2>3
<1> QED  BY Zenon, <1>4 DEF History

(* And so does what the models are given by a time of that slot. *)
LEMMA FeaturesStay ==
    ASSUME PhantomInv, LagInv, lag = 0, [Next]_vars, NEW at \in 0 .. MaxTime, SlotOf(at) = SlotOf(now),
           NEW r \in Ranges
    PROVE  BuildFeatures(r, at)' = BuildFeatures(r, at)
<1>1. [k \in Kinds |-> History(k, r, at)]' = [k \in Kinds |-> History(k, r, at)]
  BY ZenonT(60), HistoryStays
<1>2. ASSUME NEW g \in DOMAIN precursors[r]
      PROVE  History("read", precursors[r][g], at)' = History("read", precursors[r][g], at)
  <2>1. precursors[r] \in Seq(Ranges) /\ "read" \in Kinds
    BY PredictorAssumption
  <2>2. precursors[r][g] \in Ranges
    BY <1>2, <2>1
  <2> QED  BY <2>1, <2>2, HistoryStays
<1>3. [g \in DOMAIN precursors[r] |-> History("read", precursors[r][g], at)[history]]'
      = [g \in DOMAIN precursors[r] |-> History("read", precursors[r][g], at)[history]]
  BY <1>2
<1> QED  BY <1>1, <1>3 DEF BuildFeatures

(* Only the slot and the second of that time count. *)
LEMMA FeaturesOfKey ==
    ASSUME NEW a, NEW b, SlotOf(a) = SlotOf(b), SecOf(a) = SecOf(b), NEW r \in Ranges
    PROVE  BuildFeatures(r, a) = BuildFeatures(r, b)
<1>1. \A k, q : History(k, q, a) = History(k, q, b)
  BY DEF History
<1>2. [k \in Kinds |-> History(k, r, a)] = [k \in Kinds |-> History(k, r, b)]
  BY Zenon, <1>1
<1>3. [g \in DOMAIN precursors[r] |-> History("read", precursors[r][g], a)[history]]
      = [g \in DOMAIN precursors[r] |-> History("read", precursors[r][g], b)[history]]
  BY Zenon, <1>1
<1> QED  BY Zenon, <1>2, <1>3 DEF BuildFeatures

(* A hook's time is one of the current slot, and so is any memo that it    *)
(* may use; what the memo holds is what the models would be given now.     *)
FreshEntry(m) ==
    /\ m.range \in Ranges /\ m.slot \in Nat
    /\ reset_slot = Loading => m.clock = Loading
    /\ m.clock = reset_slot =>
         /\ m.slot <= SlotOf(now)
         /\ m.slot = SlotOf(now) =>
              \A at \in 0 .. MaxTime : Live(m, at) => m.features = BuildFeatures(m.range, at)

PromptHook(x) ==
    /\ x.time \in 0 .. MaxTime
    /\ reset_slot = Loading => x.clock = Loading
    /\ x.clock = reset_slot => SlotOf(x.time) = SlotOf(now)

MemoInv ==
    /\ hook \in [Hooks -> {NoHook} \cup [time: 0 .. MaxTime, clock: Int]]
    /\ \A h \in Hooks : hook[h] # NoHook => PromptHook(hook[h])
    /\ asking # Nobody => asking.by \in Hooks /\ hook[asking.by] # NoHook
    /\ \A m \in memo : FreshEntry(m)

(* A step of the collector that keeps the clock, or moves it on. *)
LEMMA CollectorKeepsMemo ==
    ASSUME PhantomInv, LagInv, lag = 0, MemoInv, [Next]_vars,
           UNCHANGED <<memo, hook, asking, reset_slot, lag>>, HooksKeepUp',
           now' \in 0 .. MaxTime, SlotOf(now) <= SlotOf(now')
    PROVE  MemoInv'
<1>0. now \in 0 .. MaxTime /\ SlotOf(now) \in Nat /\ SlotOf(now') \in Nat /\ SlotOf(now)' = SlotOf(now')
  BY SlotType DEF PhantomInv, CollectorType, SlotOf
<1>1. ASSUME NEW h \in Hooks, hook[h] # NoHook  PROVE PromptHook(hook[h])'
  <2>1. PICK x : x = hook[h]
    OBVIOUS
  <2>2. PromptHook(x) /\ x.time \in 0 .. MaxTime /\ SlotOf(x.time) \in Nat
    BY Zenon, <1>1, <2>1, SlotType DEF MemoInv, PromptHook
  <2>3. SlotOf(now') - SlotOf(x.time) <= 0
    BY <1>1, <2>1 DEF HooksKeepUp, SlotOf
  <2>4. x.clock = reset_slot => SlotOf(x.time) = SlotOf(now')
    <3>1. x.clock = reset_slot => SlotOf(x.time) = SlotOf(now)
      BY Zenon, <2>2 DEF PromptHook
    <3> QED  BY <1>0, <2>2, <2>3, <3>1
  <2> QED  BY Zenon, <1>0, <2>1, <2>2, <2>4 DEF PromptHook
<1>2. ASSUME NEW m \in memo  PROVE FreshEntry(m)'
  <2>1. FreshEntry(m)
    BY Zenon DEF MemoInv
  <2>2. ASSUME m.clock = reset_slot  PROVE m.slot <= SlotOf(now')
    BY <1>0, <2>1, <2>2 DEF FreshEntry
  <2>3. ASSUME m.clock = reset_slot, m.slot = SlotOf(now'), NEW at \in 0 .. MaxTime, Live(m, at)
        PROVE  m.features = BuildFeatures(m.range, at)'
    <3>1. m.slot \in Nat /\ m.slot <= SlotOf(now)
      BY <2>1, <2>3 DEF FreshEntry
    <3>2. m.slot = SlotOf(now)
      BY <1>0, <2>3, <3>1
    <3>3. m.features = BuildFeatures(m.range, at) /\ m.range \in Ranges /\ SlotOf(at) = SlotOf(now)
      BY Zenon, <2>1, <2>3, <3>2 DEF FreshEntry, Live
    <3>4. PICK r \in Ranges : r = m.range
      BY <3>3
    <3>5. BuildFeatures(r, at)' = BuildFeatures(r, at)
      BY Zenon, <3>3, FeaturesStay
    <3> QED  BY Zenon, <3>3, <3>4, <3>5
  <2>4. \A at : Live(m, at)' <=> Live(m, at)
    BY Zenon DEF Live, SecOf, SlotOf
  <2> QED  BY Zenon, <1>0, <2>1, <2>2, <2>3, <2>4 DEF FreshEntry
<1> QED  BY Zenon, <1>1, <1>2 DEF MemoInv

(* A step of a hook leaves the entries that stay as fresh as they were. *)
LEMMA EntriesStay ==
    ASSUME PhantomInv, LagInv, lag = 0, MemoInv, [Next]_vars, UNCHANGED collectorVars, NEW m \in memo
    PROVE  FreshEntry(m)'
<1>1. UNCHANGED <<now, reset_slot>> /\ SlotOf(now)' = SlotOf(now) /\ FreshEntry(m)
  BY Zenon DEF collectorVars, SlotOf, MemoInv
<1>2. ASSUME m.clock = reset_slot, m.slot = SlotOf(now), NEW at \in 0 .. MaxTime, Live(m, at)
      PROVE  m.features = BuildFeatures(m.range, at)'
  <2>1. m.features = BuildFeatures(m.range, at) /\ m.range \in Ranges /\ SlotOf(at) = SlotOf(now)
    BY Zenon, <1>1, <1>2 DEF FreshEntry, Live
  <2>2. PICK r \in Ranges : r = m.range
    BY <2>1
  <2>3. BuildFeatures(r, at)' = BuildFeatures(r, at)
    BY Zenon, <2>1, FeaturesStay
  <2> QED  BY Zenon, <2>1, <2>2, <2>3
<1>3. \A at : Live(m, at)' <=> Live(m, at)
  BY Zenon DEF Live, SecOf, SlotOf
<1> QED  BY Zenon, <1>1, <1>2, <1>3 DEF FreshEntry

(* The entry that a hook adds is fresh. *)
LEMMA ScoreAddsFresh ==
    ASSUME PhantomInv, LagInv, lag = 0, MemoInv, [Next]_vars, NEW r \in Ranges, Score(r)
    PROVE  MemoInv'
<1>1. asking # Nobody /\ UNCHANGED <<collectorVars, hook, asking>>
  BY Zenon DEF Score
<1>2. UNCHANGED <<now, reset_slot>> /\ SlotOf(now)' = SlotOf(now)
  BY Zenon, <1>1 DEF collectorVars, SlotOf
<1>3. PICK x : x = hook[asking.by]
  OBVIOUS
<1>4. PromptHook(x) /\ x.time \in 0 .. MaxTime
  BY Zenon, <1>1, <1>3 DEF MemoInv, PromptHook
<1>5. PICK at : at = x.time
  OBVIOUS
<1>6. PICK n : n = [sec |-> SecOf(at), slot |-> SlotOf(at), lo |-> asking.lo, hi |-> asking.hi,
                    range |-> r, features |-> BuildFeatures(r, at), clock |-> x.clock]
  OBVIOUS
<1>7. memo' = memo \cup {n}
  BY Zenon, <1>3, <1>5, <1>6 DEF Score
<1>8. /\ n.sec = SecOf(at) /\ n.slot = SlotOf(at) /\ n.range = r
      /\ n.features = BuildFeatures(r, at) /\ n.clock = x.clock
  BY Zenon, <1>6
<1>9. at \in 0 .. MaxTime /\ SlotOf(at) \in Nat
  BY Zenon, <1>4, <1>5, SlotType
<1>10. n.clock = reset_slot => n.slot = SlotOf(now)
  BY Zenon, <1>4, <1>5, <1>8 DEF PromptHook
<1>11. ASSUME n.slot = SlotOf(now), NEW b \in 0 .. MaxTime, Live(n, b)
       PROVE  n.features = BuildFeatures(n.range, b)'
  <2>1. SecOf(at) = SecOf(b) /\ SlotOf(at) = SlotOf(b) /\ SlotOf(b) = SlotOf(now)
    BY Zenon, <1>8, <1>11 DEF Live
  <2>2. BuildFeatures(r, at) = BuildFeatures(r, b)
    BY Zenon, <2>1, FeaturesOfKey
  <2>3. BuildFeatures(r, b)' = BuildFeatures(r, b)
    BY Zenon, <2>1, FeaturesStay
  <2> QED  BY Zenon, <1>8, <2>2, <2>3
<1>12. \A b : Live(n, b)' <=> Live(n, b)
  BY Zenon DEF Live, SecOf, SlotOf
<1>13. n.clock = reset_slot => n.slot <= SlotOf(now)
  BY <1>8, <1>9, <1>10
<1>14. n.range \in Ranges /\ n.slot \in Nat /\ (reset_slot = Loading => n.clock = Loading)
  BY Zenon, <1>4, <1>8, <1>9 DEF PromptHook
<1>15. FreshEntry(n)'
  BY Zenon, <1>2, <1>10, <1>11, <1>12, <1>13, <1>14 DEF FreshEntry
<1>16. \A m \in memo : FreshEntry(m)'
  BY Zenon, <1>1, EntriesStay
<1>17. ASSUME NEW h \in Hooks, hook[h] # NoHook  PROVE PromptHook(hook[h])'
  BY Zenon, <1>1, <1>2, <1>17 DEF MemoInv, PromptHook, SlotOf
<1> QED  BY Zenon, <1>1, <1>7, <1>15, <1>16, <1>17 DEF MemoInv

(* A hook call that takes its time, starts to predict, or returns. *)
LEMMA HookKeepsMemo ==
    ASSUME PhantomInv, LagInv, lag = 0, MemoInv, [Next]_vars, NEW h \in Hooks, Predicts(h)
    PROVE  MemoInv'
<1>1. UNCHANGED collectorVars
  BY Zenon DEF Predicts, TakeTime, HookReturns, PredictHot
<1>2. UNCHANGED <<now, reset_slot>> /\ SlotOf(now)' = SlotOf(now)
  BY Zenon, <1>1 DEF collectorVars, SlotOf
<1>3. memo' \subseteq memo
  BY Zenon DEF Predicts, TakeTime, HookReturns, PredictHot
<1>4. \A m \in memo' : FreshEntry(m)'
  BY Zenon, <1>1, <1>3, EntriesStay
<1>5. \A x : PromptHook(x)' <=> PromptHook(x)
  BY Zenon, <1>2 DEF PromptHook, SlotOf
<1>6. now \in 0 .. MaxTime /\ reset_slot \in Int
  BY DEF PhantomInv, CollectorType
<1>7. CASE TakeTime(h)
  <2>1. PICK x : x = [time |-> now, clock |-> reset_slot]
    OBVIOUS
  <2>2. hook' = [hook EXCEPT ![h] = x] /\ asking' = asking /\ hook[h] = NoHook
    BY Zenon, <1>7, <2>1 DEF TakeTime
  <2>3. x \in [time: 0 .. MaxTime, clock: Int] /\ x.time = now /\ x.clock = reset_slot
    BY <1>6, <2>1
  <2>4. PromptHook(x) /\ x # NoHook
    <3>1. x.time # -1
      BY <1>6, <2>3
    <3>2. NoHook.time = -1
      BY DEF NoHook
    <3> QED  BY Zenon, <1>6, <2>3, <3>1, <3>2 DEF PromptHook
  <2>5. hook'[h] = x /\ \A g \in Hooks \ {h} : hook'[g] = hook[g]
    BY Zenon, <2>2 DEF MemoInv
  <2>6. hook' \in [Hooks -> {NoHook} \cup [time: 0 .. MaxTime, clock: Int]]
    BY <2>2, <2>3 DEF MemoInv
  <2>7. ASSUME NEW g \in Hooks, hook'[g] # NoHook  PROVE PromptHook(hook[g])'
    <3>1. PICK y : y = hook'[g]
      OBVIOUS
    <3>2. PromptHook(y)
      BY Zenon, <2>4, <2>5, <2>7, <3>1 DEF MemoInv
    <3> QED  BY Zenon, <1>2, <3>1, <3>2 DEF PromptHook, SlotOf
  <2>8. asking' # Nobody => asking'.by \in Hooks /\ hook'[asking'.by] # NoHook
    BY Zenon, <2>2, <2>4, <2>5 DEF MemoInv
  <2> QED  BY Zenon, <1>4, <2>6, <2>7, <2>8 DEF MemoInv, NoHook, Nobody
<1>8. CASE HookReturns(h)
  <2>1. hook' = [hook EXCEPT ![h] = NoHook] /\ asking' = Nobody
    BY Zenon, <1>8 DEF HookReturns
  <2>2. hook'[h] = NoHook /\ \A g \in Hooks \ {h} : hook'[g] = hook[g]
    BY Zenon, <2>1 DEF MemoInv
  <2>3. hook' \in [Hooks -> {NoHook} \cup [time: 0 .. MaxTime, clock: Int]]
    BY <2>1 DEF MemoInv
  <2>4. ASSUME NEW g \in Hooks, hook'[g] # NoHook  PROVE PromptHook(hook[g])'
    <3>1. PICK y : y = hook'[g]
      OBVIOUS
    <3>2. PromptHook(y)
      BY Zenon, <2>2, <2>4, <3>1 DEF MemoInv
    <3> QED  BY Zenon, <1>2, <3>1, <3>2 DEF PromptHook, SlotOf
  <2> QED  BY Zenon, <1>4, <2>1, <2>3, <2>4 DEF MemoInv, NoHook, Nobody
<1>9. ASSUME NEW s \in Steps, PredictHot(h, s[1], s[2])  PROVE MemoInv'
  <2>1. hook' = hook /\ hook[h] # NoHook /\ asking' = [lo |-> s[1], hi |-> StepHi(s[1], s[2]), by |-> h]
    BY Zenon, <1>9 DEF PredictHot
  <2>2. asking'.by = h
    BY Zenon, <2>1
  <2>3. ASSUME NEW g \in Hooks, hook[g] # NoHook  PROVE PromptHook(hook[g])'
    BY Zenon, <1>2, <2>1, <2>3 DEF MemoInv, PromptHook, SlotOf
  <2> QED  BY Zenon, <1>4, <2>1, <2>2, <2>3 DEF MemoInv, NoHook, Nobody
<1> QED  BY Zenon, <1>7, <1>8, <1>9 DEF Predicts

(* Setting the clock leaves every hook call and every entry with the clock *)
(* of the load.                                                            *)
LEMMA ResetKeepsMemo ==
    ASSUME PhantomInv, MemoInv, ResetClock, UNCHANGED <<memo, hook, asking>>
    PROVE  MemoInv'
<1>1. reset_slot = Loading /\ reset_slot' \in Nat
  BY SlotType DEF ResetClock, PhantomInv, CollectorType
<1>2. reset_slot' # Loading
  BY <1>1 DEF Loading
<1>3. ASSUME NEW m \in memo  PROVE FreshEntry(m)'
  BY Zenon, <1>1, <1>2 DEF MemoInv, FreshEntry, Loading
<1>4. ASSUME NEW h \in Hooks, hook[h] # NoHook  PROVE PromptHook(hook[h])'
  BY Zenon, <1>1, <1>2, <1>4 DEF MemoInv, PromptHook, Loading
<1> QED  BY Zenon, <1>3, <1>4 DEF MemoInv, NoHook, Nobody

(* What the memo answers is what the models would be given, for a hook     *)
(* call and Record calls that are not overtaken by the end of their slot   *)
(* (PredictHot).                                                           *)
THEOREM MemoKeptFresh == Spec => []MemoFreshIfPrompt
<1>1. Init => MemoInv
  <2> SUFFICES ASSUME Init  PROVE MemoInv
    OBVIOUS
  <2>1. memo = {} /\ hook = [h \in Hooks |-> NoHook] /\ asking = Nobody
    BY Zenon DEF Init
  <2> QED  BY Zenon, <2>1 DEF MemoInv
<1>2. RingInv /\ (lag = 0 => MemoInv) /\ [Next]_vars => (lag = 0 => MemoInv)'
  <2> SUFFICES ASSUME RingInv, lag = 0 => MemoInv, [Next]_vars, lag' = 0  PROVE MemoInv'
    BY Zenon
  <2>1. lag' = lag
    BY Zenon, CollectorSteps DEF CollectorNext, Record, Load, CompareExchange, Reload, SampleAndAdd, Call, Tick,
                                 ResetClock, collectorVars
  <2>2. PhantomInv /\ LagInv /\ lag = 0 /\ MemoInv /\ now \in 0 .. MaxTime /\ SlotOf(now) \in Nat
    BY Zenon, <2>1, SlotType DEF RingInv, PhantomInv, CollectorType
  <2>3. ASSUME CollectorNext, UNCHANGED predictorVars, HooksKeepUp'  PROVE MemoInv'
    <3>1. UNCHANGED <<memo, hook, asking>>
      BY Zenon, <2>3 DEF predictorVars
    <3>2. CASE ResetClock
      BY Zenon, <2>2, <3>1, <3>2, ResetKeepsMemo
    <3>3. CASE Tick
      <4>1. UNCHANGED reset_slot /\ now \in Nat /\ now' \in Nat /\ now <= now' /\ now' \in 0 .. MaxTime
        BY <2>2, <3>3, SizeTypes, CollectorAssumption DEF Tick
      <4>2. SlotOf(now) <= SlotOf(now')
        BY Zenon, <4>1, DivMonotone, CollectorAssumption DEF SlotOf
      <4> QED  BY Zenon, <2>1, <2>2, <2>3, <3>1, <4>1, <4>2, CollectorKeepsMemo
    <3>4. CASE UNCHANGED <<now, reset_slot>>
      <4>1. SlotOf(now) <= SlotOf(now') /\ now' \in 0 .. MaxTime
        BY <2>2, <3>4 DEF SlotOf
      <4> QED  BY Zenon, <2>1, <2>2, <2>3, <3>1, <3>4, <4>1, CollectorKeepsMemo
    <3>5. ResetClock \/ Tick \/ UNCHANGED <<now, reset_slot>>
      BY Zenon, <2>3 DEF CollectorNext, Record, Load, CompareExchange, Reload, SampleAndAdd, Call
    <3> QED  BY Zenon, <3>2, <3>3, <3>4, <3>5
  <2>4. ASSUME NEW h \in Hooks, Predicts(h)  PROVE MemoInv'
    BY Zenon, <2>2, <2>4, HookKeepsMemo
  <2>5. ASSUME NEW r \in Ranges, Score(r)  PROVE MemoInv'
    BY Zenon, <2>2, <2>5, ScoreAddsFresh
  <2>6. ASSUME UNCHANGED vars  PROVE MemoInv'
    <3>1. UNCHANGED <<collectorVars, memo, hook, asking>>
      BY Zenon, <2>6 DEF vars, predictorVars
    <3>2. UNCHANGED <<now, reset_slot>>
      BY Zenon, <3>1 DEF collectorVars
    <3>3. \A m \in memo : FreshEntry(m)'
      BY Zenon, <2>2, <3>1, EntriesStay
    <3>4. ASSUME NEW h \in Hooks, hook[h] # NoHook  PROVE PromptHook(hook[h])'
      BY Zenon, <2>2, <3>1, <3>2, <3>4 DEF MemoInv, PromptHook, SlotOf
    <3> QED  BY Zenon, <2>2, <3>1, <3>3, <3>4 DEF MemoInv, NoHook, Nobody
  <2> QED  BY Zenon, <2>3, <2>4, <2>5, <2>6 DEF Next
<1>3. RingInv /\ (lag = 0 => MemoInv) => MemoFreshIfPrompt
  <2> SUFFICES ASSUME RingInv, MemoInv, asking # Nobody, NEW r \in Ranges, NEW m \in Hits(r),
                      m.clock = reset_slot, hook[asking.by].clock = reset_slot
               PROVE  m.features = BuildFeatures(r, hook[asking.by].time)
    BY Zenon DEF MemoFreshIfPrompt
  <2>1. PICK x : x = hook[asking.by]
    OBVIOUS
  <2>2. m \in memo /\ Live(m, x.time) /\ m.range = r
    BY Zenon, <2>1 DEF Hits
  <2>3. PromptHook(x) /\ FreshEntry(m)
    BY Zenon, <2>1, <2>2 DEF MemoInv
  <2>4. x.time \in 0 .. MaxTime /\ SlotOf(x.time) = SlotOf(now)
    BY Zenon, <2>1, <2>3 DEF PromptHook
  <2>5. m.slot = SlotOf(now)
    BY Zenon, <2>2, <2>4 DEF Live
  <2> QED  BY Zenon, <2>1, <2>2, <2>3, <2>4, <2>5 DEF FreshEntry
<1> QED  BY <1>1, <1>2, <1>3, RingInvariant, PTL DEF Spec

=============================================================================
