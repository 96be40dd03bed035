\* A client goes away while its batch is sent; another wants to connect.
SPECIFICATION FairSpec
CONSTANTS
    Clients = {c1, c2}
    Mortal = {c1}
    Frames <- OneFrame
    MIN_JOB_CAPABILITY = 1
    MAX_JOB_CAPABILITY = 1
    ESTIMATED_JOB_TIMEOUT = 3
    FrameTimes = {1}
PROPERTIES
    ClientsConnect
CHECK_DEADLOCK FALSE
