----------------------------- MODULE Predictor -----------------------------
(***************************************************************************)
(* Predictor::PredictHot with its memo, over the collector that clients    *)
(* go on feeding.  The models are a function of the features and the       *)
(* steps, so an answer is represented by the features it came from.        *)
(*                                                                         *)
(* A hook call takes its time before it waits for the core's mutex, and    *)
(* every candidate of every PredictHot call it makes is scored by that     *)
(* time, however far the clock and the collector's ring have gone on by    *)
(* then.  RocksDB has several hook calls under way, LevelDB one.           *)
(***************************************************************************)
EXTENDS Collector

CONSTANTS
    Hooks,         \* threads of the engine that call OnCompactionBegin
    SecTicks,      \* ticks in a second
    precursors,    \* range -> sequence of at most gamma ranges
    num_steps,     \* models loaded
    Steps          \* pairs step_lo, step_hi the core may ask for

ASSUME PredictorAssumption ==
    /\ "read" \in Kinds /\ SecTicks \in Nat \ {0} /\ num_steps \in Nat \ {0}
    /\ DOMAIN precursors = Ranges /\ \A r \in Ranges : precursors[r] \in Seq(Ranges)
    /\ Steps \subseteq (Nat \ {0}) \X Nat

VARIABLES
    memoize,  \* fixed when the instance starts
    memo,     \* entries of memo_, one per range scored, and the clock they were made by
    hook,     \* each hook call's time and clock, or NoHook
    asking    \* the PredictHot call that runs under the core's mutex, or Nobody

predictorVars == <<memoize, memo, hook, asking>>
vars == <<collectorVars, predictorVars>>

SecOf(t) == t \div SecTicks

NoHook == [time |-> -1, clock |-> -1]
Nobody == [lo |-> 0, hi |-> 0]

-----------------------------------------------------------------------------
(* Arrival rates, the time of day and the precursors' last rates. *)
BuildFeatures(r, at) ==
    <<[k \in Kinds |-> History(k, r, at)], SecOf(at),
      [g \in DOMAIN precursors[r] |-> History("read", precursors[r][g], at)[history]]>>

(* A single model stands in for every step; otherwise the steps end with   *)
(* the last model, and beyond it nothing is predicted.                     *)
StepHi(lo, hi) == IF num_steps = 1 THEN lo ELSE IF hi < num_steps THEN hi ELSE num_steps

(* A slip: the memo is keyed by the second alone. *)
LiveSecond(m, at) == m.sec = SecOf(at)

Live(m, at) == m.sec = SecOf(at) /\ m.slot = SlotOf(at)

(* What the call under way is answered with instead of the models. *)
Hits(r) ==
    {m \in memo : Live(m, hook[asking.by].time) /\ m.range = r /\ m.lo = asking.lo /\ m.hi = asking.hi}

(* The adapter reads the clock for OnCompactionBegin.  Without the memo    *)
(* nothing of a prediction stays behind.                                   *)
TakeTime(h) ==
    /\ memoize /\ hook[h] = NoHook
    /\ hook' = [hook EXCEPT ![h] = [time |-> now, clock |-> reset_slot]]
    /\ UNCHANGED <<collectorVars, memoize, memo, asking>>

(* A call begins, maybe right after another of the same hook: memos of any *)
(* other second or slot are dropped.                                       *)
PredictHot(h, step_lo, step_hi) ==
    LET hi == StepHi(step_lo, step_hi)
    IN  /\ hook[h] # NoHook /\ (asking # Nobody => asking.by = h)
        /\ hi >= step_lo
        /\ memo' = {m \in memo : Live(m, hook[h].time)}
        /\ asking' = [lo |-> step_lo, hi |-> hi, by |-> h]
        /\ UNCHANGED <<collectorVars, memoize, hook>>

(* Its turn for a candidate the memo has no answer for. *)
Score(r) ==
    LET at == hook[asking.by]
    IN  /\ asking # Nobody /\ Hits(r) = {}
        /\ memo' = memo \cup
              {[sec |-> SecOf(at.time), slot |-> SlotOf(at.time), lo |-> asking.lo, hi |-> asking.hi,
                range |-> r, features |-> BuildFeatures(r, at.time), clock |-> at.clock]}
        /\ UNCHANGED <<collectorVars, memoize, hook, asking>>

(* OnCompactionBegin lets the mutex go, having predicted or not. *)
HookReturns(h) ==
    /\ hook[h] # NoHook /\ (asking # Nobody => asking.by = h)
    /\ hook' = [hook EXCEPT ![h] = NoHook] /\ asking' = Nobody
    /\ UNCHANGED <<collectorVars, memoize, memo>>

Predicts(h) == TakeTime(h) \/ HookReturns(h) \/ \E s \in Steps : PredictHot(h, s[1], s[2])

(* A hook call, like a Record call, is overtaken by `lag` slots at most. *)
HooksKeepUp == \A h \in Hooks : hook[h] # NoHook => SlotOf(now) - SlotOf(hook[h].time) <= lag

Init ==
    /\ \E i \in Instances : CollectorInit(i) /\ memoize = i.memoize
    /\ memo = {} /\ hook = [h \in Hooks |-> NoHook] /\ asking = Nobody

Next ==
    \/ CollectorNext /\ UNCHANGED predictorVars /\ HooksKeepUp'
    \/ \E h \in Hooks : Predicts(h)
    \/ \E r \in Ranges : Score(r)

Spec == Init /\ [][Next]_vars

-----------------------------------------------------------------------------
(* "Every feature of a range ... is constant inside a second" (leaper.h,   *)
(* memoize_predictions), also in slots shorter than a second (predictor.h, *)
(* Memo: "never served stale"): what the memo answers is what the models   *)
(* would say now, for the same range, steps and features.  That holds as   *)
(* long as neither a Record call nor the hook call itself is overtaken by  *)
(* the end of the slot it took its time in, and the clock was not set anew *)
(* since the hook took its time or the memo's entry was made.              *)
MemoFreshIfPrompt ==
    lag = 0 /\ asking # Nobody =>
        \A r \in Ranges : \A m \in Hits(r) :
            m.clock = reset_slot /\ hook[asking.by].clock = reset_slot =>
                m.features = BuildFeatures(r, hook[asking.by].time)
=============================================================================
