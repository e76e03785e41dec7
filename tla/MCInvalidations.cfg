SPECIFICATION Spec
CONSTANTS
    Engines = {"leveldb"}
    Threads = {t1}
    warmup = 1
    duration = 1
    op_rate = 1
    write_rate = 1
    Per = 3
    wave <- NoWave
    read_ratio = 75
    trace_sample = 100
    kBatch = 2
    MaxTime = 2
    MaxBackground = 1
INVARIANT NoInvalidationLeak
CHECK_DEADLOCK FALSE
