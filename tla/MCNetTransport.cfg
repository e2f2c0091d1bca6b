CONSTANTS
    MaxSequence = 6
    BufferCap = 1
    PacketCap = 1
    ChunkCountMod = 256
    ClientSends = 6
    ServerSends = 0
    ToClient = 1
    ToServer = 2
    MaxOutstanding = 2
    Expiring = {"recv","resend","protection"}
    ClientKinds = {TRUE}
    ServerKinds = {FALSE}
    Closers = {"server"}
    Protected = {"server"}
    MaxSent <- MCMaxSent
    MaxNet <- MCMaxNet
    Vitality <- MCVitality
SPECIFICATION Spec
INVARIANTS TypeOK IInv InOrderDelivery SavedUntilAccepted ChunkVerdicts AckVerdicts
PROPERTIES ImplementsChannel ErrorIsFinal
