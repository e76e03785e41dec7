SPECIFICATION Spec
CONSTANTS
    Engines = {"leveldb", "rocksdb"}
    Threads = {t1, t2}
    warmup = 1
    duration = 2
    op_rate = 1
    write_rate = 2
    Per = 5
    wave <- MCWave
    read_ratio = 75
    trace_sample = 100
    kBatch = 2
    MaxTime = 3
    MaxBackground = 1
INVARIANTS PacedTogether TraceComplete NoWarmupLeak BgAccounted SummaryAddsUp OutputsPaired
PROPERTY RunEnds
CHECK_DEADLOCK FALSE
