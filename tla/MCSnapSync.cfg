CONSTANTS
    MaxRound = 0
    MaxTick = 7
    InitEvery = 1
    RecoverEvery = 2
    KeepTicks = 4
    MaxParts = 1
    MaxCrcErrors = 1
    Outcomes = {"fine", "undecodable", "crc", "invalid"}
    DownCap = 1
    UpCap = 2
    World <- MCWorld
SPECIFICATION Spec
INVARIANTS IInv PointersStored BaseHeld
PROPERTY ImplementsStream
CHECK_DEADLOCK FALSE
