------------------------------- MODULE Setup -------------------------------
(***************************************************************************)
(* What a benchmark harness does before its run: ParseArgs on the command  *)
(* line, the plug-in that Run creates from the flags and the files they    *)
(* name, and the load of the database.                                     *)
(*                                                                         *)
(* An argument "--name=value" is a record; a value is its text, the number *)
(* the text begins with and whether characters follow that number.         *)
(* Doubles are whole numbers.  `env` is what a harness finds: the model    *)
(* files at the prefix "m", the other files that are there, whether        *)
(* RocksDB has the prepopulate patch, whether the database opens and       *)
(* whether the processor traps a division by zero.                         *)
(***************************************************************************)
EXTENDS Gbdt

CONSTANTS
    LongBits,  \* width of long and of uint64_t
    IntBits    \* width of int

-----------------------------------------------------------------------------
(* The flags by the parser ParseArgs gives their values to. *)
CommonFlags ==
    [string |-> {"db", "out_prefix", "trace_out", "key_dist", "policy", "model_prefix",
                 "precursors"},
     u64    |-> {"num", "life_range_size", "seed", "leaper_range_size"},
     int    |-> {"value_size", "cache_mb", "write_buffer_mb", "max_file_mb", "block_kb", "threads",
                 "mix_keyrange_num", "life_hot_slots", "life_chain", "duration", "warmup",
                 "model_steps"},
     double |-> {"read_ratio", "update_ratio", "zipf", "mix_keyrange_a", "mix_keyrange_b",
                 "mix_keyrange_c", "mix_keyrange_d", "mix_key_a", "mix_key_b", "sine_a", "sine_b",
                 "sine_d", "write_rate", "op_rate", "hotspot", "life_lifetime_s", "life_ramp_frac",
                 "life_cold_frac", "life_chain_lag", "leaper_slot_s", "leaper_threshold",
                 "leaper_t1_alpha", "leaper_t2_beta", "leaper_max_prefetch_frac"},
     bool   |-> {"fill", "leaper_dry_run", "leaper_memo"}]

LevelFlags ==
    [string |-> {"compression", "oracle", "key_format"},
     u64    |-> {},
     int    |-> {"max_open_files", "bloom_bits", "scan_len", "read_delay_us", "phases",
                 "shift_hot_slots", "stale_after", "leaper_history", "ssad_window"},
     double |-> {"scan_ratio", "trace_sample", "hotspot_shift", "phase_period_s", "write_corr",
                 "shift_at_s", "shift_lifetime_s", "leaper_sample", "leaper_t1_seconds",
                 "leaper_t2_seconds", "ssad_miss_threshold", "ssad_relative"},
     bool   |-> {"track_cache_ids", "mmap_reads", "bypass_page_cache", "compact_after_fill",
                 "leaper_phase1", "leaper_phase2", "warm_async"}]

RocksFlags ==
    [string |-> {"warm_mode"}, u64 |-> {},
     int    |-> {"row_cache_mb", "warm_scan_keys", "level_base_mb", "l0_trigger",
                 "dynamic_level_bytes"},
     double |-> {}, bool |-> {"direct_reads"}]

Parsed(h, parser) ==
    CommonFlags[parser] \cup (IF h = "leveldb" THEN LevelFlags ELSE RocksFlags)[parser]

(* The defaults of the flags that decide what Run creates. *)
LevelDefaults ==
    [policy |-> "off", model_prefix |-> "", model_steps |-> 1, precursors |-> "", oracle |-> "",
     num |-> 8000000, leaper_range_size |-> 40000, leaper_history |-> 6]

RocksDefaults ==
    [policy |-> "off", model_prefix |-> "", model_steps |-> 6, precursors |-> "",
     warm_mode |-> "iterator", num |-> 4000000, leaper_range_size |-> 40000]

-----------------------------------------------------------------------------
(* The argument is --name=...; no flag's name contains a '=', so at most   *)
(* one name fits.                                                          *)
ParseFlag(a, names) == a.dashes /\ a.eq /\ a.name \in names

(* A slip: an empty value, of which nothing is left over, is taken for 0. *)
ConsumedIfEmpty(v) == ~v.rest

(* "Numeric flags are validated to consume their whole value." *)
Consumed(v) == v.text # "" /\ ~v.rest

(* strtoull takes a minus sign and stops at the largest value. *)
ParseU64(v) ==
    LET top == 2 ^ LongBits - 1
    IN  [ok |-> Consumed(v), value |-> IF v.n \in -top .. top THEN v.n % (top + 1) ELSE top]

(* strtol stops at the bounds of long; the cast keeps the low bits. *)
ParseInt(v) ==
    LET half == 2 ^ (LongBits - 1)
        long == Max({-half, Min({v.n, half - 1})})
        wrap == 2 ^ (IntBits - 1)
    IN  [ok |-> Consumed(v), value |-> ((long + wrap) % (2 * wrap)) - wrap]

ParseDouble(v) == [ok |-> Consumed(v), value |-> v.n]

ParseBool(v) ==
    [ok |-> v.text \in {"1", "true", "0", "false"}, value |-> v.text \in {"1", "true"}]

ParseValue(h, name, v) ==
    CASE name \in Parsed(h, "string") -> [ok |-> TRUE, value |-> v.text]
      [] name \in Parsed(h, "u64")    -> ParseU64(v)
      [] name \in Parsed(h, "int")    -> ParseInt(v)
      [] name \in Parsed(h, "double") -> ParseDouble(v)
      [] name \in Parsed(h, "bool")   -> ParseBool(v)

Names(h) == UNION {Parsed(h, p) : p \in DOMAIN CommonFlags}

(* The process exits with 2 at the first unknown flag or bad value. *)
ParseArgs(h, argv) ==
    LET Apply(s, a) ==
          IF s.exit # 0 THEN s
          ELSE IF ParseFlag(a, Names(h)) /\ ParseValue(h, a.name, a.value).ok
          THEN [s EXCEPT !.flags = (a.name :> ParseValue(h, a.name, a.value).value) @@ @]
          ELSE [s EXCEPT !.exit = 2]
        defaults == IF h = "leveldb" THEN LevelDefaults ELSE RocksDefaults
    IN  FoldLeft(Apply, [exit |-> 0, flags |-> defaults], argv)

PolicyNames ==
    {"off", "eager_evict", "incremental_warmup", "warm_all", "warm_flush", "leaper", "oracle"}

-----------------------------------------------------------------------------
(* An optional file: none is read if no path is given. *)
Table(path, env) ==
    IF path = "" \/ path \in env.tables THEN [there |-> TRUE, lines |-> <<>>] ELSE Missing

(* prefix.step1.txt and so on. *)
ModelFile(prefix, k, env) ==
    IF prefix = "m" /\ k \in DOMAIN env.models THEN env.models[k] ELSE Missing

(* LevelDB's harness names no model without a prefix. *)
LevelCore(f, env) ==
    [policy |-> f.policy, history |-> f.leaper_history, gamma |-> 3,
     models |-> IF f.model_prefix = "" THEN <<>>
                ELSE [k \in 1 .. f.model_steps |-> ModelFile(f.model_prefix, k, env)],
     precursors |-> Table(f.precursors, env), oracle |-> Table(f.oracle, env)]

RocksCore(f, env) ==
    [policy |-> "leaper", history |-> 6, gamma |-> 3,
     models |-> [k \in 1 .. f.model_steps |-> ModelFile(f.model_prefix, k, env)],
     precursors |-> Table(f.precursors, env), oracle |-> Table("", env)]

(* max_range_id on LevelDB, num_ranges on RocksDB.  A division by zero is  *)
(* undefined: x86 traps it, ARM makes it 0.                                *)
LastRange(f) == (IF f.leaper_range_size = 0 THEN 0 ELSE f.num \div f.leaper_range_size) + 1

Traps(f, env) == f.leaper_range_size = 0 /\ env.traps

Runs(with) == [exit |-> 0, plugin |-> with]
Exits(code) == [exit |-> code, plugin |-> FALSE]
Killed == 136  \* the shell's code for SIGFPE

(* Adapter::Create refuses a mode that the build does not have. *)
RocksCreate(f, env) == (f.warm_mode = "prepop" => env.patched) /\ Open(RocksCore(f, env))

LevelLaunch(f, env) ==
    CASE f.policy = "off" -> Runs(FALSE)
      [] f.policy \notin PolicyNames -> Exits(2)
      [] f.policy \in PolicyNames \ {"off"} ->
           IF Traps(f, env) THEN Exits(Killed)
           ELSE IF Open(LevelCore(f, env)) THEN Runs(TRUE) ELSE Exits(2)

RocksLaunch(f, env) ==
    IF f.policy # "leaper" THEN Runs(FALSE)
    ELSE IF Traps(f, env) THEN Exits(Killed)
    ELSE IF RocksCreate(f, env) THEN Runs(TRUE) ELSE Exits(2)

(* Which blocks RocksDB itself puts into the cache. *)
Prepopulate(f, plugin) ==
    CASE f.policy = "flush_only" -> "flush"
      [] f.policy = "flush_and_compaction" -> "all"
      [] plugin /\ f.warm_mode = "prepop" -> "filtered"
      [] OTHER -> "none"

(* main, up to the load of the database. *)
Launch(h, argv, env) ==
    LET args == ParseArgs(h, argv)
        up   == IF h = "leveldb" THEN LevelLaunch(args.flags, env) ELSE RocksLaunch(args.flags, env)
    IN  IF args.exit # 0 THEN Exits(args.exit)
        ELSE IF up.exit = 0 /\ ~env.opens THEN Exits(1) ELSE up

(* The load: keys are put into a batch, which is written when it holds     *)
(* `batch` of them and once more at the end.                               *)
Fill(num, batch) ==
    LET Put(s, i) ==
          LET b == Append(s.batch, i)
          IN  IF (i + 1) % batch = 0 THEN [batch |-> <<>>, db |-> s.db \o b]
              ELSE [s EXCEPT !.batch = b]
        end == FoldLeft(Put, [batch |-> <<>>, db |-> <<>>], [i \in 1 .. num |-> i - 1])
    IN  end.db \o end.batch

-----------------------------------------------------------------------------
(* Reference definitions. *)

(* What a command line says of a flag: its last value. *)
LastOf(argv, name) == argv[Max({i \in DOMAIN argv : argv[i].name = name})].value

Readable(h, name, v) ==
    CASE name \in Parsed(h, "string") -> TRUE
      [] name \in Parsed(h, "bool")   -> v.text \in {"0", "1", "false", "true"}
      [] OTHER -> v.text # "" /\ ~v.rest

WellFormed(h, argv) ==
    \A i \in DOMAIN argv :
      argv[i].dashes /\ argv[i].eq /\ argv[i].name \in Names(h)
        /\ Readable(h, argv[i].name, argv[i].value)

(* A command line is applied as a whole, the last value of a flag deciding *)
(* and numbers that fit taken as written, or the process exits.            *)
ArgsExactly(h, argv) ==
    LET r == ParseArgs(h, argv)
    IN  /\ r.exit = IF WellFormed(h, argv) THEN 0 ELSE 2
        /\ r.exit = 0 =>
             \A name \in {argv[i].name : i \in DOMAIN argv} :
               LET v == LastOf(argv, name)
               IN  CASE name \in Parsed(h, "string") -> r.flags[name] = v.text
                     [] name \in Parsed(h, "bool") -> r.flags[name] = (v.text \in {"1", "true"})
                     [] OTHER -> v.n \in 0 .. 2 ^ (IntBits - 1) - 1 => r.flags[name] = v.n

(* A run that starts with a plug-in has a policy that wants one, all the   *)
(* models its flags name and, to predict, at least one; every loaded key   *)
(* has a range it knows, if ranges have a size; and blocks are filtered on *)
(* their way into the cache only by a build that can.                      *)
LaunchedExactly(h, argv, env) ==
    LET f  == ParseArgs(h, argv).flags
        up == Launch(h, argv, env)
    IN  up.exit = 0 =>
          /\ WellFormed(h, argv) /\ env.opens
          /\ up.plugin <=> IF h = "leveldb" THEN f.policy # "off" ELSE f.policy = "leaper"
          /\ up.plugin /\ f.policy = "leaper" =>
               f.model_steps \in 1 .. Len(env.models) /\ f.model_prefix = "m"
          /\ up.plugin /\ f.num > 0 /\ f.leaper_range_size > 0 =>
               (f.num - 1) \div f.leaper_range_size < LastRange(f)
          /\ h = "rocksdb" /\ Prepopulate(f, up.plugin) = "filtered" => env.patched

(* The load writes every key once, in order. *)
FilledExactly(num, batch) == Fill(num, batch) = [i \in 1 .. num |-> i - 1]
=============================================================================
