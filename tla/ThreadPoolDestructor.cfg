\* Two workers and two callbacks are enough for the destructor to hang.
SPECIFICATION PoolFairSpec
CONSTANTS
    PoolWorkers = {w1, w2}
    Owner = owner
    MaxJobs = 2
PROPERTIES
    DestructorReturns
CHECK_DEADLOCK FALSE
