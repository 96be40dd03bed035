\* The renderer: two devices of two slots, two workers, one command that may fail.
\* The pool: three workers and four callbacks, more work than workers and the reverse.
SPECIFICATION MCSpec
CONSTANTS
    NumDevices = 2
    FRAMES = 2
    Workers = {w1, w2}
    Timestamps <- TwoTasks
    MaxErrors = 1
    PoolWorkers = {p1, p2, p3}
    Owner = owner
    MaxJobs = 4
INVARIANTS
    SlotsExclusive
    FilesHoldTheirImage
    ReturnedIsComplete
    PoolTypeOK
    JobsStartedOnceInOrder
    WorkConserving
    GoneMeansDone
PROPERTIES
    TaskEnds
    JobsRun
\* The client stops when its tasks are done or one has failed, the pool once it is
\* destroyed (or while its destructor hangs).
CHECK_DEADLOCK FALSE
