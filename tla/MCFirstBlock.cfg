SPECIFICATION ASpec
CONSTANTS
    Configs <- MCLeaper
    MissRatios = {}
    MaxRangeId = 2
    kMaxCandidates = 16
    Inputs = {}
    Outputs = {}
    Forecasts <- MCForecasts
    QpsValues = {}
    MaxDepth = 2
    InitialFiles <- MCInitialFiles
    Extents <- MCExtents
    MaxBlocks = 2
    MaxFile = 3
PROPERTY EngineKeepsHot
