CONSTANTS
    RingSize = 3
    MaxIssued = 4
    MaxOutstanding = 2
    BackupFails = TRUE
    AnswersGetLost = TRUE
    Mover = TRUE
SPECIFICATION FairSpec
INVARIANTS IInv NoRankLost ReportedIsFinal RankedOnce ShutdownAfterAll
PROPERTIES EventuallyAnswered ShutdownCompletes CopiesMovedFirst
CHECK_DEADLOCK FALSE
