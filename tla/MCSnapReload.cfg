CONSTANTS
    MaxRound = 1
    MaxTick = 4
    InitEvery = 1
    RecoverEvery = 2
    KeepTicks = 3
    MaxParts = 2
    MaxCrcErrors = 0
    Outcomes = {"fine", "crc"}
    DownCap = 2
    UpCap = 1
    World <- MCWorld
SPECIFICATION FairSpec
INVARIANTS StoredInOrder SnapshotsAgree NoOldRound EntersFirst
PROPERTY EventuallyInGame
CHECK_DEADLOCK FALSE
