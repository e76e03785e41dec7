SPECIFICATION HSpec
CONSTANTS
    Configs <- MCConfigs
    MissRatios = {0, 80}
    MaxRangeId = 3
    kMaxCandidates = 6
    Inputs <- MCInputs
    Outputs <- MCOutputs
    Forecasts <- MCForecasts
    QpsValues = {0, 2}
    MaxDepth = 2
INVARIANTS
    TypeOK
    BudgetPerJob
    IdleRestored
PROPERTIES
    JobIsolation
    Phase1KeepsHot
    FullWindowDecides
    HealthyResumes
