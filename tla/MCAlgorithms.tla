---------------------------- MODULE MCAlgorithms ----------------------------
(***************************************************************************)
(* The pure algorithms against their reference definitions, over every     *)
(* input of small instances.  The overlap check grows its inputs; an input *)
(* of another algorithm is picked in one step.                             *)
(***************************************************************************)
EXTENDS Overlap, RangeMapper, Histogram, KeyGen, Setup

VARIABLE input

Nothing == [alg |-> "none"]

AlgInit == Init /\ input = Nothing

Pick(inputs) == Init /\ input = Nothing /\ input' \in inputs /\ UNCHANGED vars

-----------------------------------------------------------------------------
(* Keys of every digit string, ranges that do and do not divide the space. *)
MapperInputs ==
    UNION {{[alg |-> "map", c |-> c, key |-> k] : k \in KeysOf(c)} :
             c \in [decimal: BOOLEAN, base: {3}, width: {3}, range_size: {0, 2, 5, 9}]}

(* What was counted before the interval and, by two threads, in it. *)
Latencies == {0, 3, 4, 7, 11, 31, 40}
HistogramInputs ==
    [alg: {"histogram"}, before: BoundedSeq(Latencies, 1), in: BoundedSeq(Latencies, 2),
     more: BoundedSeq({1, 6}, 1)]

MixgraphInputs ==
    [alg: {"mixgraph"}, c: [n: {2, 7}, p: [1 .. 3 -> 0 .. 2], denom: {5}, swaps: [1 .. 3 -> 1 .. 3]]]

LifecycleInputs ==
    [alg: {"lifecycle"}, t: 0 .. 4,
     c: [n: {1, 5}, range_size: {2}, hot_slots: {2}, chain: 0 .. 3, lag: 1 .. 2, lifetime: {4},
         phase: {(0 :> 0) @@ (1 :> 3)}, first: [(0 .. 1) \X (0 .. 1) -> {1, 4}],
         successor: [0 .. 1 -> {2, 3}]]]

OriginInputs ==
    [alg: {"origin"}, t: 0 .. 7,
     c: [n: {5, 8}, hotspot: {0, 3}, shift: 0 .. 2, phases: 0 .. 3, phase_period: 0 .. 2]]

(* Lines a section of a model file may consist of. *)
L(k, v) == [key |-> k, list |-> v]
TreeLine == L("Tree", <<0>>)
Split1 == <<TreeLine, L("split_feature", <<1>>), L("threshold", <<1>>), L("decision_type", <<2>>),
            L("left_child", <<-1>>), L("right_child", <<-2>>), L("leaf_value", <<3, 5>>)>>
Split2 == <<TreeLine, L("split_feature", <<0, 2>>), L("threshold", <<0, 1>>), L("left_child", <<1, -1>>),
            L("right_child", <<-3, -2>>), L("leaf_value", <<1, 10, 20>>)>>
Stump == <<TreeLine, L("", <<>>), L("leaf_value", <<7>>)>>
Leafless == <<TreeLine, L("threshold", <<1>>)>>
Uneven == <<TreeLine, L("split_feature", <<0>>), L("threshold", <<1>>), L("left_child", <<-1, -2>>),
            L("right_child", <<-2>>), L("leaf_value", <<1, 2>>)>>
Category == <<TreeLine, L("decision_type", <<0, 1>>), L("leaf_value", <<4>>)>>
Preamble == <<L("leaf_value", <<9>>), L("max_feature_idx", <<1>>)>>
Wider == <<L("max_feature_idx", <<4>>)>>
Parts == {Split1, Split2, Stump, Leafless, Uneven, Category, Preamble, Wider}

Texts == {FlattenSeq(parts) : parts \in BoundedSeq(Parts, 3)}
ModelInputs == [alg: {"model"}, text: Texts, x: {<<>>, <<0, 1>>, <<1, 2, 1>>, <<0, 0, 2>>}]

Files(contents) == {Missing} \cup [there: {TRUE}, lines: contents]
ModelFiles == Files({Split1, Preamble \o Stump, Wider \o Stump, Leafless})
OpenInputs ==
    [alg: {"open"}, policy: {"leaper", "oracle", "none"}, models: BoundedSeq(ModelFiles, 2),
     precursors: Files({<<>>}), history: {0}, gamma: {0, 3},
     oracle: Files({<<>>})]
TableInputs ==
    [alg: {"table"}, lines: BoundedSeq({<<>>, <<1>>, <<1, 3, 2>>, <<1, 0, 3, 1>>, <<2, 5, 4>>}, 3)]

(* Command lines: values that are empty, too wide for an int or for a      *)
(* long, negative, or run on; arguments that are no flags.                 *)
T(text, n, rest) == [text |-> text, n |-> n, rest |-> rest]
Values == {T("", 0, FALSE), T("1", 1, FALSE), T("9", 9, FALSE), T("99", 99, FALSE), T("-2", -2, FALSE),
           T("3 --seed=4", 3, TRUE), T("true", 0, TRUE)}
A(name, v) == [dashes |-> TRUE, name |-> name, eq |-> TRUE, value |-> v]
One == T("1", 1, FALSE)
Args == {A(name, v) : name \in {"policy", "num", "threads", "zipf", "fill", "oracle", "warm_mode"},
                      v \in Values}
        \cup {[A("zipf", One) EXCEPT !.dashes = FALSE], [A("zipf", One) EXCEPT !.eq = FALSE],
              A("zipf ", One)}
ArgsInputs == [alg: {"args"}, h: {"leveldb", "rocksdb"}, argv: BoundedSeq(Args, 2)]

Word(w) == T(w, 0, TRUE)
Number(n) == T("n", n, FALSE)
Usual == [patched |-> TRUE, opens |-> TRUE, traps |-> TRUE]
Envs == {e @@ [models |-> m, tables |-> t] :
           e \in {Usual} \cup {[Usual EXCEPT ![c] = FALSE] : c \in DOMAIN Usual},
           m \in BoundedSeq(Files({Stump}), 2), t \in {{}, {"p"}}}
LaunchInputs ==
    {[alg |-> "launch", h |-> h, env |-> env,
      argv |-> <<A("policy", Word(policy)), A("model_prefix", Word(prefix)),
                 A("model_steps", Number(steps)), A("precursors", Word(precursors)),
                 A("num", Number(10)), A("leaper_range_size", Number(size))>>
               \o IF h = "rocksdb" THEN <<A("warm_mode", Word("prepop"))>> ELSE <<>>] :
       h \in {"leveldb", "rocksdb"}, env \in Envs, prefix \in {"", "m"}, precursors \in {"", "p"},
       policy \in {"off", "leaper", "warm_all", "flush_only"}, steps \in {0, 1, 2, 9}, size \in {0, 5}}
FillInputs == [alg: {"fill"}, num: 0 .. 7, batch: 1 .. 3]

AlgNext ==
    \/ input = Nothing /\ Next /\ UNCHANGED input
    \/ Pick(MapperInputs)
    \/ Pick(HistogramInputs)
    \/ Pick(MixgraphInputs)
    \/ Pick(LifecycleInputs)
    \/ Pick(OriginInputs)
    \/ Pick(ModelInputs)
    \/ Pick(OpenInputs \cup TableInputs)
    \/ Pick(ArgsInputs)
    \/ Pick(LaunchInputs)
    \/ Pick(FillInputs)

AlgSpec == AlgInit /\ [][AlgNext]_<<vars, input>>

-----------------------------------------------------------------------------
(* Ranges keep the order of the keys, through block bounds LevelDB has     *)
(* shortened too: the blocks the overlap check is given are sorted and     *)
(* none begins before the range of its first key (DecimalRangeMapper,      *)
(* PrefixRangeMapper); a range begins at its RangeStartKey.  For the       *)
(* harness's keys "lexicographic order == numeric order", and the mapping  *)
(* is "just integer division" (keygen.h, EncodeKey).                       *)
MapExact ==
    input.alg = "map" =>
      /\ OrderKept(input.c, input.key) /\ StartsExactly(input.c, input.key)
      /\ Len(input.key) = input.c.width =>
           EncodesExactly(input.c, Value(input.c.base, input.key))

(* The percentile of a row is that of the interval's own samples, whatever *)
(* was counted before and however many threads counted it                  *)
(* (Percentile of two snapshots).                                          *)
PercentileBrackets ==
    input.alg = "histogram" =>
      LET prev  == FoldLeft(Add, Empty, input.before)
          cur   == AccumulateInto(FoldLeft(Add, prev, input.in), FoldLeft(Add, Empty, input.more))
      IN  \A p \in {50, 95, 99} : Brackets(Percentile(cur, prev, p), input.in \o input.more, p)

(* Every key is loaded once (the fill loop), and every draw of the key     *)
(* choosers is such a key and lies in the region that was drawn: each      *)
(* mixgraph range gets its share, each hot range its lifetime, each phase  *)
(* its part of the key space.                                              *)
DrawExact ==
    /\ input.alg = "mixgraph" => MixgraphExact(input.c)
    /\ input.alg = "lifecycle" => LifecycleExact(input.c, input.t)
    /\ input.alg = "origin" => OriginExact(input.c, input.t)
    /\ input.alg = "fill" => FilledExactly(input.num, input.batch)

(* A core is opened with what was asked for, or not at all.  A command     *)
(* line is applied whole or refused: none "silently yields a run with      *)
(* default settings"; a run has the plug-in and the models its flags name  *)
(* (ParseArgs, Run, Adapter::Create, Leaper::Open).  A model file is taken *)
(* tree by tree as written or refused whole, and scores with the leaf its  *)
(* splits lead to (GbdtModel::LoadString, RawScore); oracle lines of one   *)
(* slot add up, in the order ToSpans needs, and precursor lines replace    *)
(* each other (LoadOracle, Predictor::Load).                               *)
SetupExact ==
    /\ input.alg = "args" => ArgsExactly(input.h, input.argv)
    /\ input.alg = "launch" => LaunchedExactly(input.h, input.argv, input.env)
    /\ input.alg = "open" => OpenedExactly(input)
    /\ input.alg = "model" =>
         LoadedExactly(input.text) /\ ScoredExactly(LoadString(input.text).trees, input.x)
    /\ input.alg = "table" =>
         OracleExactly(input.lines) /\ \A g \in 0 .. 2 : PrecursorsExactly(input.lines, g)
=============================================================================
