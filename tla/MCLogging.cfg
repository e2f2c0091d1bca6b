CONSTANTS
    InitialSize = 3
    LocalSize = 2
    Worker = {"w1", "w2"}
    MaxJobs = 2
    MaxLines = 4
    MaxSent <- MCMaxSent
    LineLength <- MCLineLength
    Uses = {"file", "stdout", "tee"}
    Failing = {"tee"}
SPECIFICATION FairSpec
INVARIANTS TypeOK IInv FinishedFlushed NoSilentLoss JobsInOrder
PROPERTIES ImplementsLogFile EventuallyWritten EventuallyStarted ProgramEnds
CHECK_DEADLOCK FALSE
