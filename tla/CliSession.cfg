\* Three runs of echidna-cli, one of which may go away.
SPECIFICATION FairSpec
CONSTANTS
    Clis = {c1, c2, c3}
    NoCli = NoCli
    FrameCounts = {0, 2}
    MaxGone = 1
INVARIANTS
    PrintedIdIsMine
    NoPartialUpload
    ListIsTrue
    FinishedShownOnce
PROPERTIES
    CliAnswered
\* The clis end, each after one request.
CHECK_DEADLOCK FALSE
