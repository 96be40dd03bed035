\* One client, and a batch with frames of two jobs.
SPECIFICATION FairSpec
CONSTANTS
    Clients = {c1}
    Mortal = {}
    Frames <- SharedBatch
    MIN_JOB_CAPABILITY = 2
    MAX_JOB_CAPABILITY = 2
    ESTIMATED_JOB_TIMEOUT = 3
    FrameTimes = {1}
PROPERTIES
    AcceptedIsSent
CHECK_DEADLOCK FALSE
