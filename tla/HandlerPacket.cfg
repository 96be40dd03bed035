\* One batch of two parts and one keepalive.
SPECIFICATION Spec
CONSTANTS
    Parts = 2
    MaxBatches = 1
    MaxPings = 1
INVARIANTS
    PacketsAreContinuous
CHECK_DEADLOCK FALSE
