CONSTANTS
    MaxSequence = 6
    BufferCap = 2
    PacketCap = 1
    ChunkCountMod = 256
    ClientSends = 2
    ServerSends = 0
    ToClient = 20
    ToServer = 20
    MaxOutstanding = 2
    Expiring = {"resend", "keepalive"}
    ClientKinds = {TRUE}
    ServerKinds = {}
    Closers = {}
    Protected = {}
    MaxSent <- MCMaxSent
    MaxNet <- MCMaxNet
    Vitality <- MCVitality
SPECIFICATION FairSpec
PROPERTIES EventuallyAccepted EventuallyAcked
