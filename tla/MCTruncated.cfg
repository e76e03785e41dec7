SPECIFICATION HSpec
CONSTANTS
    Configs <- MCLeaper
    MissRatios = {20, 80}
    MaxRangeId = 3
    kMaxCandidates = 1
    Inputs <- MCInputs
    Outputs <- MCOutputs
    Forecasts <- MCForecasts
    QpsValues = {0, 2}
    MaxDepth = 2
PROPERTY Phase1KeepsHot
