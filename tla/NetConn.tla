------------------------------- MODULE NetConn -------------------------------
(***************************************************************************)
(* The operations of CNetConnection (src/engine/shared/network_conn.cpp)   *)
(* and of the chunk unpacker (src/engine/shared/network.cpp) as operators  *)
(* on a connection record.  An operator that may send returns the new      *)
(* connection with the set "out" of packets handed to the socket; modules  *)
(* with variables (NetTransport, NetResume) decide what the network does   *)
(* to them.                                                                *)
(*                                                                         *)
(* Data abstraction.  A chunk's payload is a number: the k-th vital chunk  *)
(* the application queues on a connection carries payload k.  All chunks   *)
(* have one size, PacketCap of them fill a packet and BufferCap of them    *)
(* fill the resend ring buffer.  Clocks are abstracted to the set of       *)
(* timers that have run out when Update is called.                         *)
(***************************************************************************)
EXTENDS Integers, Sequences

CONSTANTS
    MaxSequence,    \* NET_MAX_SEQUENCE, 1024 in the code
    BufferCap,      \* chunks that fit NET_CONN_BUFFERSIZE
    PacketCap,      \* chunks that fit one packet
    ChunkCountMod   \* 256: m_NumChunks is one byte of the packet header

ASSUME SequenceAssumption ==
    MaxSequence \in Nat /\ MaxSequence >= 4

ASSUME CapacityAssumption ==
    /\ BufferCap \in Nat
    /\ PacketCap \in Nat \ {0}
    /\ ChunkCountMod \in Nat \ {0}

SeqNumbers == 0 .. MaxSequence - 1

(* A payload that is not one the application queued: what a resend buffer   *)
(* entry yields once the memory its data pointer names has been cleared.    *)
Garbage == 0

Chunk == [vital : BOOLEAN, sequence : SeqNumbers, data : Nat]

PlainChunk(seq) == [vital |-> FALSE, sequence |-> seq, data |-> Garbage]

Control == {"none", "keepalive", "close"}

(* "accepted" is a history field: how many vital chunks the sender of the   *)
(* packet had accepted, of which the field "ack" is the remainder.          *)
Packet ==
    {p \in [ack : SeqNumbers, resend : BOOLEAN, ctrl : Control,
            chunks : Seq(Chunk), accepted : Nat] : Len(p.chunks) <= PacketCap}

NoChunks == [chunks |-> <<>>, resend |-> FALSE]

(* sent, got, late, acked and unsaved are history: the number of vital      *)
(* chunks queued, the payloads of the vital chunks handed up until the end  *)
(* let go of the connection and of those handed up after that, the          *)
(* "accepted" field of the last packet whose ack was taken, and the         *)
(* payloads that found the resend buffer full.                              *)
Connection ==
    [state : {"ONLINE", "ERROR", "OFFLINE"},
     sequence : SeqNumbers, ack : SeqNumbers, peerAck : SeqNumbers,
     remoteClosed : BOOLEAN, timeoutSituation : BOOLEAN, unknownSeq : BOOLEAN,
     buffer : Seq(Chunk),
     construct : [chunks : Seq(Chunk), resend : BOOLEAN],
     sent : Nat, got : Seq(Nat), late : Seq(Nat), acked : Nat,
     unsaved : SUBSET Nat]

(* Seeded fault: the ack survives.                                          *)
ResetKeepAck(c) ==
    [c EXCEPT !.state = "OFFLINE", !.sequence = 0, !.peerAck = 0,
              !.remoteClosed = FALSE, !.timeoutSituation = FALSE,
              !.unknownSeq = FALSE, !.buffer = <<>>, !.construct = NoChunks]

(* Reset: history survives it, everything else starts over.                 *)
Reset(c) ==
    [c EXCEPT !.state = "OFFLINE", !.sequence = 0, !.ack = 0, !.peerAck = 0,
              !.remoteClosed = FALSE, !.timeoutSituation = FALSE,
              !.unknownSeq = FALSE, !.buffer = <<>>, !.construct = NoChunks]

(* The connection both handshakes end in, before any chunk.                 *)
OnlineConnection ==
    [state |-> "ONLINE", sequence |-> 0, ack |-> 0, peerAck |-> 0,
     remoteClosed |-> FALSE, timeoutSituation |-> FALSE, unknownSeq |-> FALSE,
     buffer |-> <<>>, construct |-> NoChunks,
     sent |-> 0, got |-> <<>>, late |-> <<>>, acked |-> 0, unsaved |-> {}]

-----------------------------------------------------------------------------
(* Seeded fault: no second half of the circle.                              *)
SeqNotAbove(seq, ack) == seq <= ack

(* Sequence numbers live on a circle: a number is old if it is at most half *)
(* a turn behind the last one accepted.                                     *)
IsSeqInBackroom(seq, ack) ==
    LET bottom == ack - MaxSequence \div 2
    IN  IF bottom < 0
        THEN seq <= ack \/ seq >= bottom + MaxSequence
        ELSE seq <= ack /\ seq >= bottom

(* Seeded fault: the window of valid acks does not wrap.                    *)
AckInPlainWindow(c, ack) == c.peerAck <= ack /\ ack <= c.sequence

(* The ack of a packet must lie between the latest ack and our sequence.    *)
AckIsValid(c, ack) ==
    IF c.sequence >= c.peerAck
    THEN c.peerAck <= ack /\ ack <= c.sequence
    ELSE c.peerAck <= ack \/ ack <= c.sequence

MakePacket(c, chunks, resend, ctrl) ==
    [ack |-> c.ack, resend |-> resend, ctrl |-> ctrl,
     chunks |-> SubSeq(chunks, 1, Len(chunks) % ChunkCountMod),
     accepted |-> Len(c.got)]

SendControl(c, ctrl) == MakePacket(c, <<>>, FALSE, ctrl)

Flush(c) ==
    IF c.construct = NoChunks
    THEN [conn |-> c, out |-> {}]
    ELSE [conn |-> [c EXCEPT !.construct = NoChunks],
          out |-> {MakePacket(c, c.construct.chunks, c.construct.resend, "none")}]

(* QueueChunkEx for each of cs in turn: a chunk that finds the construct    *)
(* full flushes it first, so all chunks but the last 1..PacketCap leave in  *)
(* full packets, the first of them with the flags collected so far.         *)
QueueChunkEx(c, cs) ==
    LET all     == c.construct.chunks \o cs
        flushes == (Len(all) - 1) \div PacketCap
        Part(k) == MakePacket(c, SubSeq(all, (k - 1) * PacketCap + 1, k * PacketCap),
                              c.construct.resend /\ k = 1, "none")
    IN  IF c.state # "ONLINE" \/ cs = <<>>
        THEN [conn |-> c, out |-> {}]
        ELSE [conn |-> [c EXCEPT !.construct =
                          [chunks |-> SubSeq(all, flushes * PacketCap + 1, Len(all)),
                           resend |-> c.construct.resend /\ flushes = 0]],
              out |-> {Part(k) : k \in 1 .. flushes}]

(* Seeded fault: the sequence number grows past the circle.                 *)
UnboundedNextChunk(c) ==
    [vital |-> TRUE, sequence |-> c.sequence + 1, data |-> c.sent + 1]

(* A vital chunk takes the next sequence number and is saved for resending  *)
(* if the ring buffer has room; if not, it is sent all the same.  The       *)
(* sequence number is taken even when QueueChunkEx then refuses the chunk.  *)
NextChunk(c) ==
    [vital |-> TRUE, sequence |-> (c.sequence + 1) % MaxSequence, data |-> c.sent + 1]

Save(c, chunk) ==
    IF Len(c.buffer) < BufferCap
    THEN [c EXCEPT !.sequence = chunk.sequence, !.sent = chunk.data,
                   !.buffer = Append(@, chunk)]
    ELSE [c EXCEPT !.sequence = chunk.sequence, !.sent = chunk.data,
                   !.unsaved = @ \cup {chunk.data}]

QueueChunk(c, vital) ==
    IF ~vital
    THEN QueueChunkEx(c, <<PlainChunk(c.sequence)>>)
    ELSE IF c.state = "ONLINE"
         THEN QueueChunkEx(Save(c, NextChunk(c)), <<NextChunk(c)>>)
         ELSE [conn |-> [c EXCEPT !.sequence = (@ + 1) % MaxSequence], out |-> {}]

(* AckChunks pops the leading run of entries that the ack covers.           *)
LeadingRun(b, ack) ==
    CHOOSE k \in 0 .. Len(b) :
        /\ \A i \in 1 .. k : IsSeqInBackroom(b[i].sequence, ack)
        /\ k < Len(b) => ~IsSeqInBackroom(b[k + 1].sequence, ack)

AckChunks(b, ack) == SubSeq(b, LeadingRun(b, ack) + 1, Len(b))

(* Seeded fault: the latest ack is not remembered.                          *)
ForgetPeerAck(c, p) == [c EXCEPT !.acked = p.accepted]

(* Feed: a packet from the right peer with the right token.  "start" says   *)
(* whether the unpacker may take the packet's chunks.                       *)
TakeAck(c, p) == [c EXCEPT !.peerAck = p.ack, !.acked = p.accepted]

Resend(c, p) ==
    IF p.resend THEN QueueChunkEx(c, c.buffer) ELSE [conn |-> c, out |-> {}]

Feed(c, p) ==
    LET r == Resend(TakeAck(c, p), p)
    IN  IF ~AckIsValid(c, p.ack)
        THEN [conn |-> c, out |-> {}, start |-> FALSE]
        ELSE IF p.ctrl = "close"
        THEN [conn |-> [r.conn EXCEPT !.state = "ERROR", !.remoteClosed = TRUE],
              out |-> r.out, start |-> FALSE]
        ELSE [conn |-> IF r.conn.state = "ONLINE"
                       THEN [r.conn EXCEPT !.buffer = AckChunks(@, p.ack)]
                       ELSE r.conn,
              out |-> r.out, start |-> TRUE]

(* Seeded faults: any chunk that is not old is the next one; the last       *)
(* number of the circle has no successor.                                   *)
IsNewer(c, chunk) ==
    ~IsSeqInBackroom(chunk.sequence, c.ack) \/ c.unknownSeq

IsPlainSuccessor(c, chunk) == chunk.sequence = c.ack + 1 \/ c.unknownSeq

(* The unpacker on one chunk: accept the next in sequence, skip what was    *)
(* accepted before, ask for a resend of anything else.  It looks neither at *)
(* the state nor at whose packet it is: in a packet that outlives its       *)
(* connection it goes on from the ack of the one just reset.                *)
IsNext(c, chunk) ==
    chunk.sequence = (c.ack + 1) % MaxSequence \/ c.unknownSeq

HandUp(c, chunk) ==
    IF c.state = "OFFLINE" THEN [c EXCEPT !.late = Append(@, chunk.data)]
    ELSE [c EXCEPT !.got = Append(@, chunk.data)]

(* Seeded fault: a chunk accepted before is handed up again.                *)
FetchChunkAgain(c, chunk) ==
    IF ~chunk.vital THEN c
    ELSE IF IsNext(c, chunk) \/ IsSeqInBackroom(chunk.sequence, c.ack)
    THEN HandUp([c EXCEPT !.ack = chunk.sequence, !.unknownSeq = FALSE], chunk)
    ELSE [c EXCEPT !.construct.resend = TRUE]

FetchChunk(c, chunk) ==
    IF ~chunk.vital THEN c
    ELSE IF IsNext(c, chunk)
    THEN HandUp([c EXCEPT !.ack = chunk.sequence, !.unknownSeq = FALSE], chunk)
    ELSE IF IsSeqInBackroom(chunk.sequence, c.ack) THEN c
    ELSE [c EXCEPT !.construct.resend = TRUE]

(* Update, given the timers that have run out:                              *)
(*   "recv"       nothing received for conn_timeout                         *)
(*   "first"      the oldest saved chunk is older than conn_timeout         *)
(*   "resend"     the oldest saved chunk was last sent over a second ago    *)
(*   "flush"      nothing sent for half a second                            *)
(*   "keepalive"  nothing sent for a second                                 *)
(*   "protection" nothing received for conn_timeout_protection              *)
Timers == {"recv", "first", "resend", "flush", "keepalive", "protection"}

TimeOut(c) == [c EXCEPT !.state = "ERROR", !.timeoutSituation = TRUE]

CheckTimeout(c, due) ==
    IF "recv" \in due THEN TimeOut(c) ELSE [c EXCEPT !.timeoutSituation = FALSE]

(* Seeded fault: the resend timer does nothing.                             *)
NoResends(c, due) ==
    IF c.buffer # <<>> /\ "first" \in due
    THEN [conn |-> TimeOut(c), out |-> {}]
    ELSE [conn |-> c, out |-> {}]

FixResends(c, due) ==
    IF c.buffer # <<>> /\ "first" \in due
    THEN [conn |-> TimeOut(c), out |-> {}]
    ELSE IF c.buffer # <<>> /\ "resend" \in due
    THEN QueueChunkEx(c, <<Head(c.buffer)>>)
    ELSE [conn |-> c, out |-> {}]

(* Seeded fault: an idle connection sends no keepalive.                     *)
FlushOnly(r, due) ==
    IF r.conn.state = "ONLINE" /\ r.out = {} /\ due \cap {"flush", "keepalive"} # {}
    THEN Flush(r.conn)
    ELSE r

(* A resend that flushed has just sent something: no timer of the send side *)
(* is due any more.  A flush with nothing to send leaves them running.      *)
KeepAlive(r, due) ==
    LET f == Flush(r.conn)
    IN  IF r.conn.state # "ONLINE" \/ r.out # {} THEN r
        ELSE IF f.out # {} /\ due \cap {"flush", "keepalive"} # {} THEN f
        ELSE IF "keepalive" \in due
        THEN [conn |-> r.conn, out |-> {SendControl(r.conn, "keepalive")}]
        ELSE r

Update(c, due) ==
    CASE c.state = "OFFLINE" -> [conn |-> c, out |-> {}]
      [] c.state = "ERROR" ->
           [conn |-> IF "protection" \in due
                     THEN [c EXCEPT !.timeoutSituation = FALSE] ELSE c,
            out |-> {}]
      [] OTHER -> KeepAlive(FixResends(CheckTimeout(c, due), due), due)

Disconnect(c) ==
    [conn |-> Reset(c),
     out |-> IF c.state = "OFFLINE" \/ c.remoteClosed \/ c.timeoutSituation
             THEN {} ELSE {SendControl(c, "close")}]

(* CNetClient::Update and CNetServer::Update, which PumpNetwork calls before *)
(* it starts to receive, let go of a connection that is in error.  A server *)
(* keeps one that timed out under timeout protection.                       *)
LetGo(r, protected) ==
    LET d == Disconnect(r.conn)
    IN  IF r.conn.state = "ERROR" /\ ~(protected /\ r.conn.timeoutSituation)
        THEN [conn |-> d.conn, out |-> r.out \cup d.out]
        ELSE r

(* Seeded faults: the ack is not carried over, or counts one chunk too many. *)
SetTimedOutNoAck(c, orig) ==
    [c EXCEPT !.state = "ONLINE", !.sequence = orig.sequence,
              !.sent = orig.sent, !.got = orig.got, !.acked = orig.acked]

SetTimedOutAckPast(c, orig) ==
    [c EXCEPT !.state = "ONLINE", !.sequence = orig.sequence,
              !.ack = (orig.ack + 1) % MaxSequence,
              !.sent = orig.sent, !.got = orig.got, !.acked = orig.acked]

(* SetTimedOut: c takes over the connection orig, with the history of its   *)
(* session; what a slot hands up late stays its own.  The latest ack and    *)
(* the construct stay c's own, too.  The entries of the resend buffer are   *)
(* copied with their data pointers, which name orig's buffer; that is       *)
(* cleared when orig is reset.                                              *)
SetTimedOut(c, orig) ==
    [c EXCEPT !.state = "ONLINE", !.remoteClosed = FALSE,
              !.sequence = orig.sequence, !.ack = orig.ack,
              !.buffer = [i \in DOMAIN orig.buffer |->
                            [orig.buffer[i] EXCEPT !.data = Garbage]],
              !.sent = orig.sent, !.got = orig.got, !.acked = orig.acked,
              !.unsaved = orig.unsaved]

-----------------------------------------------------------------------------
(* The chunks of a connection that has queued n vital ones: each of those    *)
(* bears the remainder of its own number.                                   *)
Queued(n) ==
    {ch \in Chunk : IF ch.vital
                     THEN /\ ch.data \in 1 .. n
                          /\ ch.sequence = ch.data % MaxSequence
                     ELSE ch.data = Garbage}
=============================================================================
