SPECIFICATION Spec
CONSTANTS
    Files = {1, 2}
    BatchSize = 2
INVARIANTS
    NoUseAfterClose
    FailsOnlyIfGone
    GarbageWasWaiting
PROPERTIES
    QueueDrains
    ShutdownCompletes
CHECK_DEADLOCK FALSE
