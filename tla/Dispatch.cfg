\* Two clients, one of which may go away at any moment.  A send that fails stops
\* the server for good, so it may deadlock.
SPECIFICATION FairSpec
CONSTANTS
    Clients = {c1, c2}
    Mortal = {c1}
    Frames <- OneJob
    MIN_JOB_CAPABILITY = 1
    MAX_JOB_CAPABILITY = 2
    ESTIMATED_JOB_TIMEOUT = 3
    FrameTimes = {0, 4}
INVARIANTS
    EachFrameOnce
    OneRequestPerClient
    AcceptedBeforeRemoval
PROPERTIES
    JobsFinish
    LossOnlyByDisconnect
CHECK_DEADLOCK FALSE
