-------------------------------- MODULE Gbdt --------------------------------
(***************************************************************************)
(* Opening the core: the LightGBM model loader and scorer of               *)
(* leaper/src/gbdt.cc, Predictor::Load and Leaper::Open with the precursor *)
(* and oracle files.                                                       *)
(*                                                                         *)
(* A file is there or not and has lines.  A line of a model is a key and   *)
(* its list of numbers; lines without `=` have the key "".  Lines of the   *)
(* other two files are lists of numbers; no path is as good as a file      *)
(* without lines.  Scores and thresholds are integers.                     *)
(***************************************************************************)
EXTENDS Integers, FiniteSetsExt, SequencesExt

Missing == [there |-> FALSE, lines |-> <<>>]

Arrays == {"split_feature", "threshold", "decision_type", "left_child", "right_child", "leaf_value"}
NoTree == [a \in Arrays |-> <<>>]

flush_tree(s) ==
    [s EXCEPT !.trees = IF s.in_tree /\ s.cur.leaf_value # <<>> THEN Append(@, s.cur) ELSE @,
              !.cur = NoTree, !.in_tree = FALSE]

BeginTree(s) == [flush_tree(s) EXCEPT !.in_tree = TRUE]

ReadLine(s, line) ==
    CASE line.key = "Tree" -> BeginTree(s)
      [] line.key = "max_feature_idx" -> [s EXCEPT !.max_feature_idx = line.list[1]]
      [] line.key \in Arrays /\ s.in_tree -> [s EXCEPT !.cur[line.key] = line.list]
      [] OTHER -> s

Malformed(t) ==
    \E a \in {"threshold", "left_child", "right_child"} : Len(t[a]) # Len(t.split_feature)

Categorical(t) == \E i \in DOMAIN t.decision_type : t.decision_type[i] % 2 = 1

(* A model is taken whole or not at all. *)
LoadString(text) ==
    LET start == [trees |-> <<>>, max_feature_idx |-> -1, cur |-> NoTree, in_tree |-> FALSE]
        s     == flush_tree(FoldLeft(ReadLine, start, text))
        bad   == \E i \in DOMAIN s.trees : Malformed(s.trees[i]) \/ Categorical(s.trees[i])
    IN  [ok |-> ~bad /\ s.trees # <<>>,
         trees |-> IF bad THEN <<>> ELSE s.trees,
         num_features |-> s.max_feature_idx + 1]

LoadFile(file) == IF file.there THEN LoadString(file.lines)
                  ELSE [ok |-> FALSE, trees |-> <<>>, num_features |-> 0]

-----------------------------------------------------------------------------
(* A feature the caller does not have counts as 0. *)
Feature(x, f) == IF f \in 0 .. Len(x) - 1 THEN x[f + 1] ELSE 0

GoesLeft(t, node, x) == Feature(x, t.split_feature[node + 1]) <= t.threshold[node + 1]

(* Inner nodes are numbered from 0, leaves from -1 downwards. *)
Leaf(t, x) ==
    LET k == Len(t.split_feature)
        walk[node \in -(k + 1) .. k - 1] ==
          IF node < 0 THEN node
          ELSE walk[IF GoesLeft(t, node, x) THEN t.left_child[node + 1] ELSE t.right_child[node + 1]]
    IN  IF k = 0 THEN 0 ELSE -walk[0] - 1

TreeScore(t, x) ==
    IF Leaf(t, x) < Len(t.leaf_value) THEN t.leaf_value[Leaf(t, x) + 1] ELSE 0

RawScore(trees, x) == FoldLeft(LAMBDA sum, t : sum + TreeScore(t, x), 0, trees)

-----------------------------------------------------------------------------
(* Predictor::Load. *)
FeatureCount(o) == 2 * o.history + 3 + o.gamma

LoadPrecursors(lines, gamma) ==
    LET Add(table, l) ==
          IF Len(l) < 2 \/ gamma = 0 THEN table
          ELSE (l[1] :> SubSeq(l, 2, IF Len(l) <= gamma THEN Len(l) ELSE gamma + 1)) @@ table
    IN  FoldLeft(Add, <<>>, lines)

PredictorLoad(o) ==
    /\ o.models # <<>>
    /\ \A i \in DOMAIN o.models :
         LoadFile(o.models[i]).ok /\ LoadFile(o.models[i]).num_features <= FeatureCount(o)
    /\ o.precursors.there

(* LeaperImpl::LoadOracle: the ranges of a slot, in ascending order, from  *)
(* as many lines as name it.                                               *)
LoadOracle(lines) ==
    LET Add(table, l) ==
          IF l = <<>> THEN table
          ELSE LET old == IF l[1] \in DOMAIN table THEN table[l[1]] ELSE <<>>
               IN  (l[1] :> SortSeq(old \o Tail(l), LAMBDA a, b : a < b)) @@ table
    IN  FoldLeft(Add, <<>>, lines)

(* Leaper::Open: only the policy that predicts needs models. *)
Open(o) ==
    /\ o.policy = "leaper" => PredictorLoad(o)
    /\ o.policy = "oracle" => o.oracle.there

-----------------------------------------------------------------------------
(* Reference definitions.  A section is what follows a Tree line up to the *)
(* next; a key in it stands for its last line.                             *)
SectionStarts(text) == SelectSeq([i \in DOMAIN text |-> i], LAMBDA i : text[i].key = "Tree")

SectionTree(text, i) ==
    LET lines(a) == {j \in i + 1 .. Len(text) :
                       text[j].key = a /\ \A k \in i + 1 .. j : text[k].key # "Tree"}
    IN  [a \in Arrays |-> IF lines(a) = {} THEN <<>> ELSE text[Max(lines(a))].list]

Sound(t) ==
    /\ Cardinality({Len(t[a]) : a \in {"split_feature", "threshold", "left_child", "right_child"}}) = 1
    /\ \A i \in DOMAIN t.decision_type : t.decision_type[i] \in {0, 2, 8, 10}

(* The trees of a model are exactly its sections with leaves, in order; it *)
(* is refused, and left without trees, if one is not sound or none is      *)
(* there.                                                                  *)
LoadedExactly(text) ==
    LET all   == [k \in DOMAIN SectionStarts(text) |-> SectionTree(text, SectionStarts(text)[k])]
        trees == SelectSeq(all, LAMBDA t : t.leaf_value # <<>>)
        good  == trees # <<>> /\ \A k \in DOMAIN trees : Sound(trees[k])
    IN  /\ LoadString(text).ok = good
        /\ LoadString(text).trees = IF good THEN trees ELSE <<>>

(* The leaf all of whose ancestors send x its way. *)
LeafHolds(t, x, leaf) ==
    LET k == Len(t.split_feature)
        value(p) == IF t.split_feature[p + 1] < Len(x) THEN x[t.split_feature[p + 1] + 1] ELSE 0
        under[node \in -(k + 1) .. k - 1] ==
          node = 0 \/ \E p \in 0 .. k - 1 :
            /\ \/ t.left_child[p + 1] = node /\ value(p) <= t.threshold[p + 1]
               \/ t.right_child[p + 1] = node /\ value(p) > t.threshold[p + 1]
            /\ under[p]
    IN  IF k = 0 THEN leaf = 0 ELSE under[-leaf - 1]

ScoredExactly(trees, x) ==
    LET leaves(t) == {l \in 0 .. Len(t.leaf_value) - 1 : LeafHolds(t, x, l)}
        score(t)  == MapThenSumSet(LAMBDA l : t.leaf_value[l + 1], leaves(t))
    IN  RawScore(trees, x) = FoldLeft(LAMBDA sum, t : sum + score(t), 0, trees)

(* The oracle of a slot lists, in order, what all its lines list. *)
OracleExactly(lines) ==
    \A s \in DOMAIN LoadOracle(lines) :
      LET v == LoadOracle(lines)[s]
          count(l, r) == Cardinality({i \in 2 .. Len(l) : l[i] = r})
      IN  /\ \A i \in 1 .. Len(v) - 1 : v[i] <= v[i + 1]
          /\ \A r \in UNION {ToSet(l) : l \in ToSet(lines)} :
               Cardinality({i \in DOMAIN v : v[i] = r})
                 = FoldLeft(LAMBDA n, l : IF l # <<>> /\ l[1] = s THEN n + count(l, r) ELSE n, 0, lines)

(* A range's precursors are the first gamma of the last line that names    *)
(* any.                                                                    *)
PrecursorsExactly(lines, gamma) ==
    LET naming(r) == {i \in DOMAIN lines : Len(lines[i]) > 1 /\ lines[i][1] = r}
        table == LoadPrecursors(lines, gamma)
    IN  \A r \in UNION {ToSet(l) : l \in ToSet(lines)} :
          IF gamma = 0 \/ naming(r) = {} THEN r \notin DOMAIN table
          ELSE LET l == lines[Max(naming(r))]
               IN  /\ Len(table[r]) = Min({gamma, Len(l) - 1})
                   /\ \A k \in DOMAIN table[r] : table[r][k] = l[k + 1]

(* A core that opened with a predictor has models, and none reads a        *)
(* feature the online layout does not have.                                *)
OpenedExactly(o) ==
    Open(o) /\ o.policy = "leaper" =>
      /\ o.models # <<>>
      /\ \A i \in DOMAIN o.models :
           LET trees == LoadFile(o.models[i]).trees
           IN  trees # <<>> /\ LoadFile(o.models[i]).num_features <= 2 * o.history + 3 + o.gamma
=============================================================================
