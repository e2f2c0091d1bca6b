----------------------------- MODULE NetTransport -----------------------------
(***************************************************************************)
(* Two connected CNetConnections, the client's and the server's slot for   *)
(* it, over UDP: packets are lost, duplicated and reordered.  The module   *)
(* starts where the handshake ends, with both ends online.                 *)
(***************************************************************************)
EXTENDS NetConn, FiniteSets

CONSTANTS
    MaxSent,         \* [Endpoint -> Nat], bound: vital chunks queued by each end
    MaxOutstanding,  \* bound: vital chunks queued beyond the latest ack taken
    MaxNet,          \* [Endpoint -> Nat], bound: packets in flight to each end
    Expiring,        \* bound: the timers that can run out
    Vitality,        \* [Endpoint -> SUBSET BOOLEAN], bound: does e queue vital, plain chunks
    Closers,         \* bound: the ends that may call Disconnect
    Protected        \* the ends whose connection is timeout-protected

Endpoint == {"client", "server"}

Peer(e) == IF e = "client" THEN "server" ELSE "client"

ASSUME BoundsAssumption ==
    /\ MaxSent \in [Endpoint -> Nat]
    /\ MaxOutstanding \in Nat
    /\ MaxNet \in [Endpoint -> Nat]
    /\ Expiring \subseteq Timers
    /\ Vitality \in [Endpoint -> SUBSET BOOLEAN]
    /\ Closers \subseteq Endpoint
    /\ Protected \subseteq {"server"}

(* The sequence space must tell outstanding chunks apart.  The code relies  *)
(* on this without enforcing it: a full ring buffer does not stop a sender. *)
ASSUME WindowAssumption == MaxOutstanding < MaxSequence \div 2

VARIABLES
    conn,      \* conn[e]: the CNetConnection at e
    unpacker,  \* unpacker[e]: the chunks of the packet being unpacked at e
    net        \* net[e]: the packets in flight to e

vars == <<conn, unpacker, net>>

Init ==
    /\ conn = [e \in Endpoint |-> OnlineConnection]
    /\ unpacker = [e \in Endpoint |-> <<>>]
    /\ net = [e \in Endpoint |-> {}]

(* net_udp_send: a packet that does not fit the network is lost.            *)
Send(n, e, packets) ==
    IF Cardinality(n[e] \cup packets) <= MaxNet[e]
    THEN [n EXCEPT ![e] = @ \cup packets]
    ELSE n

(* e's connection becomes r.conn, and r.out goes to the peer.               *)
Apply(e, r, n) ==
    /\ conn' = [conn EXCEPT ![e] = r.conn]
    /\ net' = Send(n, Peer(e), r.out)

(* CNetClient::Send and CNetServer::Send queue on a connection.  Neither    *)
(* end sends once it has let go of the connection (SendMsg looks at the     *)
(* client's state first), but a server goes on queueing on one in error.    *)
QueueChunkAt(e, vital) ==
    /\ conn[e].state # "OFFLINE"
    /\ vital /\ conn[e].state = "ONLINE" =>
         /\ conn[e].sent < MaxSent[e]
         /\ conn[e].sent - conn[e].acked < MaxOutstanding
    /\ ~vital => Len(conn[e].construct.chunks) < PacketCap
    /\ Apply(e, QueueChunk(conn[e], vital), net)
    /\ UNCHANGED unpacker

(* Send flushes a connection it has just queued on; the server's only if    *)
(* QueueChunk took the chunk.                                               *)
FlushAt(e) ==
    /\ conn[e].state # "OFFLINE"
    /\ e = "server" => conn[e].state = "ONLINE"
    /\ Apply(e, Flush(conn[e]), net)
    /\ UNCHANGED unpacker

(* A packet does not outlive the sequence space: it leaves the network      *)
(* before either end has moved a whole turn past what it carries.           *)
WithinLifetime(e, p) ==
    /\ conn[e].sent - p.accepted < MaxSequence
    /\ \A i \in DOMAIN p.chunks :
         p.chunks[i].vital => conn[Peer(e)].sent - p.chunks[i].data < MaxSequence - 1

(* Seeded fault: a connection in error is fed.                              *)
ReceiveInError(e, p, dup) ==
    /\ unpacker[e] = <<>>
    /\ WithinLifetime(e, p)
    /\ LET rest == IF dup THEN net ELSE [net EXCEPT ![e] = @ \ {p}]
           r    == Feed(conn[e], p)
       IN  IF conn[e].state = "OFFLINE"
           THEN net' = rest /\ UNCHANGED <<conn, unpacker>>
           ELSE /\ Apply(e, r, rest)
                /\ unpacker' = [unpacker EXCEPT ![e] = IF r.start THEN p.chunks ELSE @]

(* Recv reads the next packet only when the unpacker has no chunk left; it  *)
(* feeds connections that are neither offline nor in error.  The network    *)
(* may keep a copy (dup) and deliver it again.                              *)
Receive(e, p, dup) ==
    /\ unpacker[e] = <<>>
    /\ WithinLifetime(e, p)
    /\ LET rest == IF dup THEN net ELSE [net EXCEPT ![e] = @ \ {p}]
           r    == Feed(conn[e], p)
       IN  IF conn[e].state # "ONLINE"
           THEN net' = rest /\ UNCHANGED <<conn, unpacker>>
           ELSE /\ Apply(e, r, rest)
                /\ unpacker' = [unpacker EXCEPT ![e] = IF r.start THEN p.chunks ELSE @]

FetchChunkAt(e) ==
    /\ unpacker[e] # <<>>
    /\ conn' = [conn EXCEPT ![e] = FetchChunk(@, Head(unpacker[e]))]
    /\ unpacker' = [unpacker EXCEPT ![e] = Tail(@)]
    /\ UNCHANGED net

UpdateAt(e, due) ==
    /\ unpacker[e] = <<>>
    /\ Apply(e, LetGo(Update(conn[e], due), e \in Protected), net)
    /\ UNCHANGED unpacker

(* The layer above may disconnect at any time, also from a handler of a     *)
(* chunk with the rest of the packet still to be unpacked.                  *)
DisconnectAt(e) ==
    /\ e \in Closers
    /\ Apply(e, Disconnect(conn[e]), net)
    /\ UNCHANGED unpacker

(* A lost packet is lost before the receiver asks for the next one.         *)
Lose(e, p) ==
    /\ unpacker[e] = <<>>
    /\ net' = [net EXCEPT ![e] = @ \ {p}]
    /\ UNCHANGED <<conn, unpacker>>

Next ==
    \E e \in Endpoint :
        \/ \E vital \in Vitality[e] : QueueChunkAt(e, vital)
        \/ FlushAt(e)
        \/ \E p \in net[e], dup \in BOOLEAN : Receive(e, p, dup)
        \/ FetchChunkAt(e)
        \/ \E due \in SUBSET Expiring : UpdateAt(e, due)
        \/ DisconnectAt(e)
        \/ \E p \in net[e] : Lose(e, p)

Spec == Init /\ [][Next]_vars

(* Fairness.  Each end's main loop calls Update and drains its unpacker     *)
(* again and again, so a timer that keeps running out is served; and UDP,   *)
(* while it may lose any packet, gets through whatever is sent again and    *)
(* again: some packet with a given chunk, some packet with a given ack.     *)
ReceiveChunk(e, k) ==
    \E p \in net[e], dup \in BOOLEAN :
        /\ \E i \in DOMAIN p.chunks : p.chunks[i].data = k
        /\ Receive(e, p, dup)

ReceiveAck(e, k) ==
    \E p \in net[e], dup \in BOOLEAN : p.accepted = k /\ Receive(e, p, dup)

Fairness ==
    \A e \in Endpoint :
        /\ WF_vars(FetchChunkAt(e))
        /\ SF_vars(UpdateAt(e, Expiring))
        /\ \A k \in 1 .. MaxSent[Peer(e)] : SF_vars(ReceiveChunk(e, k))
        /\ \A k \in 1 .. MaxSent[e] : SF_vars(ReceiveAck(e, k))

FairSpec == Spec /\ Fairness

-----------------------------------------------------------------------------
(* Every variable stays within its type; the construct never outgrows one   *)
(* packet and the resend buffer never outgrows the ring (QueueChunkEx).     *)
TypeOK ==
    /\ conn \in [Endpoint -> Connection]
    /\ unpacker \in [Endpoint -> Seq(Chunk)]
    /\ net \in [Endpoint -> SUBSET Packet]
    /\ \A e \in Endpoint :
         /\ Len(conn[e].construct.chunks) <= PacketCap
         /\ Len(conn[e].buffer) <= BufferCap

(* In-order, exactly-once delivery: the payloads an end has accepted, until *)
(* it lets go of its connection, are the first ones its peer queued, in     *)
(* that order, each once (the sequence check of FetchChunk, over a sequence *)
(* space that wraps).                                                       *)
InOrderDelivery ==
    \A e \in Endpoint :
        /\ conn[e].got = [i \in 1 .. Len(conn[e].got) |-> i]
        /\ Len(conn[e].got) <= conn[Peer(e)].sent

(* A chunk that was saved stays in the resend buffer until the peer has     *)
(* accepted it: AckChunks never pops an entry that may still be asked for,  *)
(* whatever old, repeated or wrapped ack arrives.                           *)
SavedUntilAccepted ==
    \A e \in Endpoint : conn[e].state = "ONLINE" =>
        \A k \in Len(conn[Peer(e)].got) + 1 .. conn[e].sent :
            k \in conn[e].unsaved
            \/ \E i \in DOMAIN conn[e].buffer : conn[e].buffer[i].data = k

(* Feed's test of a packet's ack tells overtaken packets from current ones  *)
(* exactly: it drops a packet if and only if a later ack was already taken. *)
AckVerdicts ==
    \A e \in Endpoint : conn[e].state = "ONLINE" =>
        \A p \in net[e] : WithinLifetime(e, p) =>
            (AckIsValid(conn[e], p.ack) <=> p.accepted >= conn[e].acked)

(* FetchChunk takes a chunk beyond a gap neither for the next one nor for   *)
(* an old one, so that it always asks for a resend; and never an old one    *)
(* for the next.                                                            *)
ChunkVerdicts ==
    \A e \in Endpoint : conn[e].state # "OFFLINE" =>
        \A i \in DOMAIN unpacker[e] :
            LET c    == conn[e]
                ch   == unpacker[e][i]
                next == Len(c.got) + 1
            IN  ch.vital =>
                  /\ IsNext(c, ch) <=> ch.data = next
                  /\ ch.data > next => ~IsSeqInBackroom(ch.sequence, c.ack)

(* An end in error has seen the last of its peer: it hands up no further    *)
(* chunk and leaves the error only by being reset.                          *)
ErrorIsFinal ==
    [][\A e \in Endpoint : conn[e].state = "ERROR" =>
            /\ conn'[e].state \in {"ERROR", "OFFLINE"}
            /\ conn'[e].got = conn[e].got]_vars

(* The two ends implement a pair of reliable FIFO channels, until one lets  *)
(* go of its connection: what the unpacker hands up of a packet that        *)
(* outlives the connection (late) is not delivered by any channel.          *)
Channel == INSTANCE ReliableChannel WITH
    sent <- [e \in Endpoint |-> conn[e].sent],
    got  <- [e \in Endpoint |-> conn[e].got]

ImplementsChannel == Channel!Spec

(* An end that stays online gets every chunk it saved across: the resend    *)
(* timer alone suffices, however many packets are lost.                     *)
EventuallyAccepted ==
    \A e \in Endpoint : \A k \in 1 .. MaxSent[e] :
        (conn[e].sent >= k /\ k \notin conn[e].unsaved)
            ~> \/ Len(conn[Peer(e)].got) >= k
               \/ \E f \in Endpoint : conn[f].state # "ONLINE"

(* ... and learns of it: the resend buffer does not stay full, so that the  *)
(* "too weak connection" timer does not run out on a link that works.       *)
EventuallyAcked ==
    \A e \in Endpoint : \A k \in 1 .. MaxSent[e] :
        (\E i \in DOMAIN conn[e].buffer : conn[e].buffer[i].data = k)
            ~> \/ \A i \in DOMAIN conn[e].buffer : conn[e].buffer[i].data # k
               \/ \E f \in Endpoint : conn[f].state # "ONLINE"

-----------------------------------------------------------------------------
(* The invariant that carries the proofs of the properties above: every     *)
(* number on the circle is the remainder of a history count, every chunk    *)
(* anywhere was queued by its sender under its own number, and the counts   *)
(* never drift apart further than the circle can tell.                      *)
Counters(e) ==
    LET c == conn[e]
    IN  /\ c.got = [i \in 1 .. Len(c.got) |-> i]
        /\ Len(c.got) <= conn[Peer(e)].sent
        /\ c.acked <= Len(conn[Peer(e)].got)
        /\ c.sent - c.acked <= MaxOutstanding
        /\ c.state = "ONLINE" => /\ c.sequence = c.sent % MaxSequence
                                 /\ c.peerAck = c.acked % MaxSequence
        /\ c.state # "OFFLINE" => /\ c.ack = Len(c.got) % MaxSequence
                                  /\ ~c.unknownSeq

OwnChunks(e) ==
    /\ conn[e].construct.chunks \in Seq(Queued(conn[e].sent))
    /\ conn[e].buffer \in Seq(Queued(conn[e].sent))

Unpacking(e) ==
    /\ unpacker[e] \in Seq(Queued(conn[Peer(e)].sent))
    /\ \A i \in DOMAIN unpacker[e] : unpacker[e][i].vital =>
         /\ Len(conn[e].got) - unpacker[e][i].data < MaxSequence - 1
         /\ \A j \in DOMAIN unpacker[e] : unpacker[e][j].vital =>
              unpacker[e][j].data - unpacker[e][i].data < MaxSequence - 1

InFlight(e) ==
    \A p \in net[e] :
        /\ p.chunks \in Seq(Queued(conn[Peer(e)].sent))
        /\ p.accepted <= Len(conn[Peer(e)].got)
        /\ p.ack = p.accepted % MaxSequence

Retained(e) ==
    conn[e].state = "ONLINE" =>
        \A k \in conn[e].acked + 1 .. conn[e].sent :
            k \in conn[e].unsaved
            \/ \E i \in DOMAIN conn[e].buffer : conn[e].buffer[i].data = k

IInv ==
    /\ TypeOK
    /\ \A e \in Endpoint :
         Counters(e) /\ OwnChunks(e) /\ Unpacking(e) /\ InFlight(e) /\ Retained(e)
=============================================================================
