SPECIFICATION MCSpec
CONSTANTS
    Configs <- MCConfigs
    MissRatios = {10, 90}
    MaxRangeId = 1
    kMaxCandidates = 16
    Inputs = {}
    Outputs = {}
    Forecasts <- MCForecasts
    QpsValues = {}
    MaxDepth = 4
    Threads = {t1, t2}
    NoThread = none
    BlockBudget = 1
    EstBlocks = {0}
    Spans <- MCSpans
    MaxJob = 3
    MaxBuilt = 2
    Modes = {"iterator", "sst"}
    Budgets = {0, 1, 3, 4}
    NumChosen = 3
    NumOutputs = 2
    warm_scan_keys = 2
    MaxKeys = 2
    DBReads = 3
    TableReads = 2
INVARIANTS
    ChoosesOwnPrediction
    WarmsOwnChoice
    ContextsAccounted
    WithinBudget
PROPERTY JobsEnd
CHECK_DEADLOCK FALSE
