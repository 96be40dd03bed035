\* A client goes away with a rendered frame in its handler.
SPECIFICATION Spec
CONSTANTS
    Clients = {c1, c2}
    Mortal = {c1}
    Frames <- OneJob
    MIN_JOB_CAPABILITY = 1
    MAX_JOB_CAPABILITY = 1
    ESTIMATED_JOB_TIMEOUT = 3
    FrameTimes = {1}
INVARIANTS
    FinishedIsRendered
CHECK_DEADLOCK FALSE
