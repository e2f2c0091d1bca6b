CONSTANTS
    RingSize = 3
    MaxIssued = 4
    MaxOutstanding = 2
    BackupFails = FALSE
    AnswersGetLost = FALSE
    Mover = FALSE
SPECIFICATION Spec
INVARIANT ReadServersOnlyRead
CHECK_DEADLOCK FALSE
