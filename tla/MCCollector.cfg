SPECIFICATION Spec
CONSTANTS
    Threads = {t1, t2}
    Loader = t1
    Kinds = {"read"}
    Ranges = {0}
    TableSize = 1
    history = 1
    SlotTicks = 2
    Instances <- MCInstances
    MaxTime = 7
    LoadTime = 2
    MaxCalls = 3
    Hooks = {h1, h2}
    SecTicks = 3
    precursors <- MCPrecursors
    num_steps = 2
    Steps <- MCSteps
INVARIANTS
    NoPhantomAccess
    CountsExact
    FirstAccessKept
    MemoFreshIfPrompt
CHECK_DEADLOCK FALSE
