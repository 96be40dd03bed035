\* One batch, and a client that goes away before it is answered.
SPECIFICATION Spec
CONSTANTS
    Parts = 2
    MaxBatches = 1
    MaxPings = 1
INVARIANTS
    DeletedIsUnused
CHECK_DEADLOCK FALSE
