CONSTANTS
    RingSize = 3
    MaxIssued = 4
    MaxOutstanding = 2
    BackupFails = FALSE
    AnswersGetLost = FALSE
    Mover = TRUE
SPECIFICATION Spec
INVARIANT RanksKept
CHECK_DEADLOCK FALSE
