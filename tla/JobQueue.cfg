\* Two jobs of up to two frames (none at all included), two response threads.
SPECIFICATION FairSpec
CONSTANTS
    MaxJobs = 2
    FrameCounts = {0, 2}
    Capabilities = {1, 3}
    Reporters = {r1, r2}
    MaxReturns = 2
INVARIANTS
    FirstComeFirstServed
    FinishedIsComplete
    FramesConserved
    QueuedJobsAreLive
    CountedJobIsLive
    FinishedToldOnce
    ListingConsistent
PROPERTIES
    LedgerSpec
    JobsFinish
CHECK_DEADLOCK FALSE
