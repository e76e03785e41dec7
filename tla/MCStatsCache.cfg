SPECIFICATION Spec
CONSTANTS
    Readers = {r1, r2}
    Warmer = w
    Compactor = c
    Blocks <- MCBlocks
    Capacity = 1
    kSlots = 2
    Bounds <- MCBounds
SYMMETRY Symmetry
INVARIANTS
    LiveExact
    PrefetchAccounted
    EventsBracketed
CHECK_DEADLOCK FALSE
