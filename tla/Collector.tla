----------------------------- MODULE Collector -----------------------------
(***************************************************************************)
(* The lock-free statistics collector: a ring of history + 1 cells per     *)
(* range and kind of access, each one atomic word that packs the slot it   *)
(* counts and the count.  Record is the caller's thread between the moment *)
(* it read the clock and the moment it updates the cell; any number of     *)
(* slots may begin in between.                                             *)
(*                                                                         *)
(* Time is in ticks since the adapter's clock was set.  A harness that     *)
(* loads the database sets it anew before the workload, and the collector  *)
(* is not told.  `begun` remembers how many Record calls took their time   *)
(* in each slot of this clock, `before` which slots of the last one had    *)
(* any.                                                                    *)
(***************************************************************************)
EXTENDS Integers, Sequences, FiniteSets, Functions

CONSTANTS
    Threads,     \* client threads
    Loader,      \* the one that loads the database
    Kinds,       \* subset of {"read", "write"}
    Ranges,      \* range ids
    TableSize,   \* counters per kind, max_ranges rounded up to a power of two
    history,     \* history_
    SlotTicks,   \* ticks in a slot
    Instances,   \* [rate, lag, load, memoize]: 1 / sample_rate, how many slots a call may be
                 \* overtaken by, whether the database is loaded first, memoize_predictions
    MaxTime,     \* bound on the clock
    LoadTime,    \* and on the clock of the load
    MaxCalls     \* bound on the number of Record calls

ASSUME CollectorAssumption ==
    /\ IsFiniteSet(Threads) /\ Loader \in Threads
    /\ Kinds \subseteq {"read", "write"} /\ Ranges \subseteq Nat /\ TableSize \in Nat \ {0}
    /\ history \in Nat \ {0} /\ SlotTicks \in Nat \ {0}
    /\ Instances \subseteq [rate: Nat \ {0}, lag: Nat, load: BOOLEAN, memoize: BOOLEAN]
    /\ MaxTime \in Nat /\ LoadTime \in 0 .. MaxTime /\ MaxCalls \in Nat

VARIABLES
    now,
    cells,       \* reads_ and writes_
    call,        \* what each thread's Record is doing
    rate, lag,   \* fixed when the instance starts
    begun,       \* [kind, counter, slot] -> calls that began
    reset_slot,  \* the slot in which the clock was set anew, -1 if it was not, or Loading
    before

collectorVars == <<now, cells, call, rate, lag, begun, reset_slot, before>>

ring == history + 1

SlotOf(t) == t \div SlotTicks
Slot(r) == r % TableSize
Epochs == 0 .. SlotOf(MaxTime)

(* A slip: the ring has no cell for the slot being filled. *)
CellShort(e) == e % history

Cell(e) == e % ring

Loading == -2

Zero == [epoch |-> 0, count |-> 0]
Idle == [pc |-> "idle"]

CollectorInit(i) ==
    /\ now = 0
    /\ cells = [c \in Kinds \X (0 .. TableSize - 1) \X (0 .. ring - 1) |-> Zero]
    /\ call = [t \in Threads |-> Idle]
    /\ rate = i.rate /\ lag = i.lag /\ reset_slot = IF i.load THEN Loading ELSE -1
    /\ begun = [c \in Kinds \X (0 .. TableSize - 1) \X Epochs |-> 0]
    /\ before = {}

-----------------------------------------------------------------------------
(* The adapter reads the clock and calls Record. *)
Call(t, kind, r) ==
    LET e == SlotOf(now)
    IN  /\ call[t] = Idle /\ SumFunction(begun) + Cardinality(before) < MaxCalls
        /\ reset_slot = Loading => t = Loader
        /\ call' = [call EXCEPT ![t] = [pc |-> "load", cell |-> <<kind, Slot(r), Cell(e)>>,
                                        epoch |-> e, v |-> Zero]]
        /\ begun' = [begun EXCEPT ![<<kind, Slot(r), e>>] = @ + 1]
        /\ UNCHANGED <<now, cells, rate, lag, reset_slot, before>>

Load(t) ==
    /\ call[t].pc = "load"
    /\ LET v == cells[call[t].cell]
       IN  call' = [call EXCEPT ![t].v = v,
                                ![t].pc = IF v.epoch # call[t].epoch THEN "cas" ELSE "add"]
    /\ UNCHANGED <<now, cells, rate, lag, begun, reset_slot, before>>

Claims(t) == cells[call[t].cell] = call[t].v

(* The first access of a slot claims the cell. *)
CompareExchange(t) ==
    /\ call[t].pc = "cas"
    /\ \/ /\ Claims(t)
          /\ cells' = [cells EXCEPT ![call[t].cell] = [epoch |-> call[t].epoch, count |-> 1]]
          /\ call' = [call EXCEPT ![t] = Idle]
       \/ /\ ~Claims(t)
          /\ call' = [call EXCEPT ![t].pc = "reload"]
          /\ UNCHANGED cells
    /\ UNCHANGED <<now, rate, lag, begun, reset_slot, before>>

(* A slip: whoever loses the race for a new slot gives up. *)
KeepsTryingNever(t) == FALSE

KeepsTrying(t) == cells[call[t].cell].epoch = call[t].epoch

(* Whoever loses the race adds to the winner's count, unless the cell has  *)
(* gone to another slot by now.                                            *)
Reload(t) ==
    /\ call[t].pc = "reload"
    /\ call' = [call EXCEPT ![t] = IF KeepsTrying(t) THEN [@ EXCEPT !.pc = "add"] ELSE Idle]
    /\ UNCHANGED <<now, cells, rate, lag, begun, reset_slot, before>>

(* Later accesses are sampled; the increment goes to whatever the cell     *)
(* holds by then.                                                          *)
SampleAndAdd(t) ==
    /\ call[t].pc = "add"
    /\ \/ cells' = [cells EXCEPT ![call[t].cell].count = @ + 1]
       \/ rate > 1 /\ UNCHANGED cells
    /\ call' = [call EXCEPT ![t] = Idle]
    /\ UNCHANGED <<now, rate, lag, begun, reset_slot, before>>

Record(t) == Load(t) \/ CompareExchange(t) \/ Reload(t) \/ SampleAndAdd(t)

Tick ==
    /\ now < (IF reset_slot = Loading THEN LoadTime ELSE MaxTime) /\ now' = now + 1
    /\ \A t \in Threads : call[t] # Idle => SlotOf(now + 1) - call[t].epoch <= lag
    /\ UNCHANGED <<cells, call, rate, lag, begun, reset_slot, before>>

(* ResetClock, after the load and before the first client thread. *)
ResetClock ==
    /\ reset_slot = Loading /\ \A t \in Threads : call[t] = Idle
    /\ now' = 0 /\ reset_slot' = SlotOf(now)
    /\ before' = {c \in DOMAIN begun : begun[c] > 0}
    /\ begun' = [c \in DOMAIN begun |-> 0]
    /\ UNCHANGED <<cells, call, rate, lag>>

CollectorNext ==
    \/ \E t \in Threads : Record(t) \/ \E kind \in Kinds, r \in Ranges : Call(t, kind, r)
    \/ Tick
    \/ ResetClock

-----------------------------------------------------------------------------
(* A slip: the slot a cell holds is not looked at. *)
CountOfAny(kind, slot, e) == cells[<<kind, slot, Cell(e)>>].count

(* CountOf: a cell that holds another slot counts nothing for this one. *)
CountOf(kind, slot, e) ==
    LET w == cells[<<kind, slot, Cell(e)>>] IN IF w.epoch = e THEN w.count ELSE 0

Estimate(s) == IF s = 0 THEN 0 ELSE (s - 1) * rate + 1

(* The rates of the slots completed at time `at`, oldest first; before the *)
(* first `history` slots are over, epoch - history wraps around to a slot  *)
(* no cell holds.                                                          *)
History(kind, r, at) ==
    [i \in 1 .. history |->
        LET e == SlotOf(at) - (history - i + 1)
        IN  IF e < 0 THEN 0 ELSE Estimate(CountOf(kind, Slot(r), e))]

-----------------------------------------------------------------------------
Pending(kind, slot, e) ==
    Cardinality({t \in Threads : call[t] # Idle /\ call[t].epoch = e
                                   /\ call[t].cell = <<kind, slot, Cell(e)>>})

InRing == {e \in Epochs : e <= SlotOf(now) /\ SlotOf(now) - e < ring}

(* No slot of the clock counts an access when none of the ranges that      *)
(* share the counter had one in it, however late threads update cells that *)
(* went to other slots in the meantime: a range with a counter of its own  *)
(* is never shown to the models as read when it was not.  Slots of the     *)
(* load resurface under the new clock, but only up to the one in which it  *)
(* was set (Adapter::ResetClock).                                          *)
NoPhantomAccess ==
    \A kind \in Kinds, s \in 0 .. TableSize - 1, e \in InRing :
        CountOf(kind, s, e) > 0 =>
            begun[<<kind, s, e>>] > 0 \/ (e <= reset_slot /\ <<kind, s, e>> \in before)

(* Without sampling, and if no call is overtaken by a whole ring of slots, *)
(* every slot's count is the number of its calls, the ones still in flight *)
(* aside: neither a race for a new slot nor a late update loses one.  The  *)
(* slots up to the one the clock was set in are left to NoPhantomAccess.   *)
CountsExact ==
    rate = 1 /\ lag < ring =>
        \A kind \in Kinds, s \in 0 .. TableSize - 1, e \in InRing : e > reset_slot =>
            CountOf(kind, s, e) = begun[<<kind, s, e>>] - Pending(kind, s, e)

(* With sampling, a range with an access in a slot keeps a count there:    *)
(* sampling drops later accesses only (collector.cc, Record: "a range      *)
(* accessed once would otherwise vanish").                                 *)
FirstAccessFrom(first) ==
    lag < ring =>
        \A kind \in Kinds, s \in 0 .. TableSize - 1, e \in InRing :
            e >= first /\ begun[<<kind, s, e>>] > Pending(kind, s, e) => CountOf(kind, s, e) > 0

(* The clock's slot 0 excepted: a cell that was never used looks like one  *)
(* that holds it.                                                          *)
FirstAccessKept == FirstAccessFrom(1)

(* "First access of this range in this slot. The paper always records it"  *)
(* (collector.cc, Record), also in slot 0.                                 *)
FirstAccessAlwaysKept == FirstAccessFrom(0)
=============================================================================
