CONSTANTS
    InitialSize = 3
    LocalSize = 2
    Worker = {"w1", "w2"}
    MaxJobs = 2
    MaxLines = 0
    MaxSent <- MCMaxSent
    LineLength <- MCLineLength
    Uses = {"file"}
    Failing = {}
SPECIFICATION FairSpec
PROPERTY SentIsReceived
CHECK_DEADLOCK FALSE
