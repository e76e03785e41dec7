SPECIFICATION Spec
CONSTANTS
    Threads = {t1, t2}
    Loader = t1
    Kinds = {"read"}
    Ranges = {0}
    TableSize = 1
    history = 1
    SlotTicks = 1
    Instances <- MCSampled
    MaxTime = 4
    LoadTime = 1
    MaxCalls = 3
    Hooks = {h1}
    SecTicks = 2
    precursors <- MCPrecursors
    num_steps = 2
    Steps <- MCSteps
INVARIANT FirstAccessAlwaysKept
CHECK_DEADLOCK FALSE
