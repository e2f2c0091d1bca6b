CONSTANTS
    MaxSequence = 8
    BufferCap = 2
    PacketCap = 2
    ChunkCountMod = 256
    ClientSends = 2
    ServerSends = 1
    InFlight = 1
    MaxOutstanding = 2
    Command = 1
    OldAcks = {0, 1}
    OldConstructs = {}
    Expiring = {"resend", "protection"}
    MaxSent <- MCMaxSent
    MaxNet <- MCMaxNet
SPECIFICATION Spec
INVARIANTS UplinkRetained DownlinkInStep LateIsRest
PROPERTY UplinkImplementsStream
