CONSTANTS
    MaxSequence = 8
    BufferCap = 2
    PacketCap = 2
    ChunkCountMod = 256
    ClientSends = 2
    ServerSends = 2
    InFlight = 1
    MaxOutstanding = 2
    Command = 1
    OldAcks = {0, 2}
    OldConstructs = {}
    Expiring = {"resend", "keepalive", "protection"}
    MaxSent <- MCMaxSent
    MaxNet <- MCMaxNet
SPECIFICATION Spec
INVARIANT ResendBufferCopied
