\* Batches of two parts, two batches, two rounds of keepalives.  A notification
\* missed by a thread that has decided to sleep, and a lock that is taken twice,
\* leave threads waiting for ever.
SPECIFICATION FairSpec
CONSTANTS
    Parts = 2
    MaxBatches = 2
    MaxPings = 2
INVARIANTS
    AnswerIsFresh
    DeletedOwesNothing
PROPERTIES
    LockedWakeUpsArrive
    StoppedHandsBack
CHECK_DEADLOCK FALSE
