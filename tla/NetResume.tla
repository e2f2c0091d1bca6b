------------------------------ MODULE NetResume ------------------------------
(***************************************************************************)
(* Timeout protection.  A client that timed out comes back over a fresh    *)
(* connection in the slot "new" and says /timeout <code>; the server then  *)
(* moves that connection into the slot "old", where its player is still    *)
(* waiting (CNetServer::SetTimedOut), and resets "new".  The command is    *)
(* one of the client's chunks, so the move happens while the server is     *)
(* unpacking a packet on "new".                                            *)
(*                                                                         *)
(* The module starts when the client is back online.  What SetTimedOut     *)
(* leaves in place of the old session, its latest ack and the packet it    *)
(* was building, is any of OldAcks and OldConstructs.                      *)
(***************************************************************************)
EXTENDS NetConn, FiniteSets

CONSTANTS
    Command,         \* which of the client's vital chunks is the /timeout command
    OldAcks,         \* bound: m_PeerAck of the slot that timed out
    OldConstructs,   \* bound: the chunks of the packet that slot was building
    MaxSent,         \* [Side -> Nat], bound: vital chunks queued by each side
    MaxOutstanding,  \* bound: vital chunks queued beyond the latest ack taken
    MaxNet,          \* [Side -> Nat], bound: packets in flight to each side
    Expiring         \* bound: the timers that can run out

Side == {"client", "server"}

Slot == {"old", "new"}

(* The session stays within one turn of the sequence space: NetTransport    *)
(* covers the wrap.                                                         *)
ASSUME ResumeAssumption ==
    /\ Command \in Nat \ {0}
    /\ OldAcks \subseteq SeqNumbers
    /\ OldConstructs \subseteq SeqNumbers
    /\ MaxSent \in [Side -> 0 .. MaxSequence - 2]
    /\ MaxOutstanding \in Nat /\ MaxOutstanding < MaxSequence \div 2
    /\ MaxNet \in [Side -> Nat]
    /\ Expiring \subseteq Timers

VARIABLES
    conn,      \* conn["client"] and the server's two slots
    unpacker,  \* unpacker[s]: the connection s is unpacking for, and the chunks
    net        \* net[s]: the packets in flight to s

vars == <<conn, unpacker, net>>

(* The slot whose peer is the client (CNetServer::GetClientSlot).           *)
Serving == IF conn["new"].state = "ONLINE" THEN "new" ELSE "old"

(* The slot that holds the client's session, whether or not it still works. *)
Session == IF conn["old"].got = <<>> THEN "new" ELSE "old"

SideOf(x) == IF x = "client" THEN "client" ELSE "server"

PeerSide(x) == IF x = "client" THEN "server" ELSE "client"

(* A protected slot that has timed out.  It has left at most one chunk of   *)
(* its last session in the construct.                                       *)
TimedOutSlot(ack, left) ==
    [OnlineConnection EXCEPT
        !.state = "ERROR", !.timeoutSituation = TRUE, !.peerAck = ack,
        !.construct.chunks = left]

LeftOver == {<<>>} \cup {<<[vital |-> TRUE, sequence |-> q, data |-> Garbage]>> : q \in OldConstructs}

Init ==
    /\ \E ack \in OldAcks, left \in LeftOver :
         conn = [x \in Slot \cup {"client"} |->
                   IF x = "old" THEN TimedOutSlot(ack, left) ELSE OnlineConnection]
    /\ unpacker = [s \in Side |-> [of |-> "client", chunks |-> <<>>]]
    /\ net = [s \in Side |-> {}]

(* The network and the socket, as in NetTransport.                          *)
Send(n, s, packets) ==
    IF Cardinality(n[s] \cup packets) <= MaxNet[s]
    THEN [n EXCEPT ![s] = @ \cup packets]
    ELSE n

Apply(x, r, n) ==
    /\ conn' = [conn EXCEPT ![x] = r.conn]
    /\ net' = Send(n, PeerSide(x), r.out)

(* The server sends to the slot in use; what it queues on a slot in error   *)
(* is refused.                                                              *)
QueueChunkAt(x) ==
    /\ conn[x].state = "ONLINE"
    /\ conn[x].sent < MaxSent[SideOf(x)]
    /\ conn[x].sent - conn[x].acked < MaxOutstanding
    /\ Apply(x, QueueChunk(conn[x], TRUE), net)
    /\ UNCHANGED unpacker

FlushAt(x) ==
    /\ conn[x].state = "ONLINE"
    /\ Apply(x, Flush(conn[x]), net)
    /\ UNCHANGED unpacker

Receive(s, p, dup) ==
    LET x    == IF s = "client" THEN "client" ELSE Serving
        rest == IF dup THEN net ELSE [net EXCEPT ![s] = @ \ {p}]
        r    == Feed(conn[x], p)
    IN  /\ unpacker[s].chunks = <<>>
        /\ conn[x].state = "ONLINE"
        /\ Apply(x, r, rest)
        /\ unpacker' = [unpacker EXCEPT ![s] =
                          IF r.start THEN [of |-> x, chunks |-> p.chunks] ELSE @]

(* The command reaches CGameContext::ConTimeout, which asks for the move of *)
(* the sender's connection into the slot that has its timeout code.  It is  *)
(* refused if that slot is no longer in error; "new" is then protected, for *)
(* when it times out.  After the move the rest of the packet is still       *)
(* unpacked for the slot "new", which is now offline and starts from ack 0: *)
(* a copy of the first chunk in it is handed up once more, for a slot that  *)
(* has no player.                                                           *)
IsCommand(x, ch) ==
    /\ x = "new" /\ conn[x].state = "ONLINE"
    /\ ch.vital /\ IsNext(conn[x], ch) /\ ch.data = Command
    /\ conn["old"].state = "ERROR"

FetchChunkAt(s) ==
    LET u  == unpacker[s]
        ch == Head(u.chunks)
        d  == FetchChunk(conn[u.of], ch)
    IN  /\ u.chunks # <<>>
        /\ unpacker' = [unpacker EXCEPT ![s].chunks = Tail(@)]
        /\ conn' = IF IsCommand(u.of, ch)
                   THEN [conn EXCEPT !["old"] = SetTimedOut(@, d), !["new"] = Reset(d)]
                   ELSE [conn EXCEPT ![u.of] = d]
        /\ UNCHANGED net

(* The slot "old" is protected; "new" is once its command was refused.  The  *)
(* close message of an "old" that was not taken over goes to the address of  *)
(* the session before, where nobody listens.                                *)
UpdateAt(x, due) ==
    LET protected == \/ x = "old"
                     \/ x = "new" /\ \E i \in DOMAIN conn[x].got : conn[x].got[i] = Command
        r == LetGo(Update(conn[x], due), protected)
    IN  /\ unpacker[SideOf(x)].chunks = <<>>
        /\ conn' = [conn EXCEPT ![x] = r.conn]
        /\ net' = IF x \in {"client", Session} THEN Send(net, PeerSide(x), r.out) ELSE net
        /\ UNCHANGED unpacker

Lose(s, p) ==
    /\ unpacker[s].chunks = <<>>
    /\ net' = [net EXCEPT ![s] = @ \ {p}]
    /\ UNCHANGED <<conn, unpacker>>

Next ==
    \/ \E x \in Slot \cup {"client"} :
         \/ QueueChunkAt(x)
         \/ FlushAt(x)
         \/ \E due \in SUBSET Expiring : UpdateAt(x, due)
    \/ \E s \in Side :
         \/ FetchChunkAt(s)
         \/ \E p \in net[s] :
              \/ \E dup \in BOOLEAN : Receive(s, p, dup)
              \/ Lose(s, p)

Spec == Init /\ [][Next]_vars

-----------------------------------------------------------------------------
(* The move does not lose, repeat or reorder what the client says, though   *)
(* it happens in the middle of a packet and the rest of that packet is      *)
(* unpacked for a connection that has just been reset.                      *)
UplinkInOrder ==
    LET got == conn[Session].got
    IN  got = [i \in 1 .. Len(got) |-> i] /\ Len(got) <= conn["client"].sent

(* Step by step: the client and the server's side of its session, whichever *)
(* slot that is in, implement one stream of the channel.  What the server   *)
(* has handed up is never taken back, and the move itself hands up exactly  *)
(* the command.                                                             *)
ClientStream == INSTANCE ReliableChannel WITH
    sent <- [s \in Side |-> IF s = "client" THEN conn["client"].sent ELSE 0],
    got  <- [s \in Side |-> IF s = "server" THEN conn[Session].got ELSE <<>>]

UplinkImplementsStream == ClientStream!Spec

(* ... and whatever the server has not accepted can still be resent, as     *)
(* long as the client has not given up.                                     *)
UplinkRetained ==
    LET c == conn["client"]
    IN  c.state = "ONLINE" =>
          \A k \in Len(conn[Session].got) + 1 .. c.sent :
            k \in c.unsaved \/ \E i \in DOMAIN c.buffer : c.buffer[i].data = k

(* What is handed up for the slot the command has left, after it has left:  *)
(* no more than what is behind the command in its packet, and of that only  *)
(* a first part of the client's stream, since the slot counts from 0 again. *)
LateIsRest ==
    LET late == conn["new"].late
    IN  /\ late = [i \in 1 .. Len(late) |-> i]
        /\ Len(late) < PacketCap
        /\ late # <<>> => Session = "old"

(* The client accepts the chunks of the server in their places, each once,  *)
(* though the payload of one that was resent after the move may be gone.    *)
DownlinkInStep ==
    LET got == conn["client"].got
    IN  /\ Len(got) <= conn[Session].sent
        /\ \A i \in DOMAIN got : got[i] \in {i, Garbage}

(* Feed: "check if actual ack value is valid(own sequence..latest peer      *)
(* ack)".  A packet of the peer that no later one has overtaken is fed.     *)
CurrentPacketsFed ==
    LET c == conn[Serving]
    IN  c.state = "ONLINE" =>
          \A p \in net["server"] : p.accepted >= c.acked => AckIsValid(c, p.ack)

(* SetTimedOut: "copy resend buffer".  Every entry of the resend buffer     *)
(* still holds the payload it was saved with.                               *)
ResendBufferCopied ==
    LET c == conn[Serving]
    IN  \A i \in DOMAIN c.buffer : c.buffer[i].data % MaxSequence = c.buffer[i].sequence

-----------------------------------------------------------------------------
(* The invariant that carries the proofs of the first four: within one      *)
(* turn the numbers on the circle are the history counts themselves.        *)
TypeOK ==
    /\ conn \in [Slot \cup {"client"} -> Connection]
    /\ unpacker \in [Side -> [of : Slot \cup {"client"}, chunks : Seq(Chunk)]]
    /\ net \in [Side -> SUBSET Packet]
    /\ \A x \in Slot \cup {"client"} :
         /\ Len(conn[x].construct.chunks) <= PacketCap
         /\ Len(conn[x].buffer) <= BufferCap

(* At most one slot serves, and chunks are unpacked for no other one than   *)
(* the session's, but for the rest of the packet that moved it.             *)
OneSession ==
    /\ Session = "new" => conn["old"].state # "ONLINE"
    /\ Session = "old" => conn["new"].state = "OFFLINE"
    /\ unpacker["client"].of = "client"
    /\ unpacker["server"].chunks # <<>> =>
         unpacker["server"].of \in {Session, "new"}
    /\ \A x \in Slot \cup {"client"} : ~conn[x].unknownSeq

(* The client, g of whose chunks the server has accepted.                   *)
UplinkSender(c, g) ==
    /\ c.acked <= g /\ c.sent <= MaxSent["client"]
    /\ c.sent - c.acked <= MaxOutstanding
    /\ c.construct.chunks \in Seq(Queued(c.sent))
    /\ c.buffer \in Seq(Queued(c.sent))
    /\ c.state = "ONLINE" =>
         /\ c.sequence = c.sent /\ c.peerAck = c.acked
         /\ \A k \in c.acked + 1 .. c.sent :
              k \in c.unsaved \/ \E i \in DOMAIN c.buffer : c.buffer[i].data = k

(* The server, to which the client has sent n chunks.                       *)
UplinkReceiver(s, n) ==
    /\ s.got = [i \in 1 .. Len(s.got) |-> i]
    /\ Len(s.got) <= n
    /\ s.state # "OFFLINE" => s.ack = Len(s.got)

Uplink ==
    LET c == conn["client"]
        s == conn[Session]
    IN  /\ UplinkSender(c, Len(s.got)) /\ UplinkReceiver(s, c.sent)
        /\ unpacker["server"].chunks \in Seq(Queued(c.sent))
        /\ \A p \in net["server"] : p.chunks \in Seq(Queued(c.sent))
        /\ \A p \in net["client"] : p.accepted <= Len(s.got) /\ p.ack = p.accepted

(* Chunks of the server, which has queued n vital ones.                     *)
Numbered(n) ==
    {ch \in Chunk : ch.vital =>
        ch.sequence \in 1 .. n /\ ch.data \in {ch.sequence, Garbage}}

DownlinkSender(s) ==
    /\ s.sent <= MaxSent["server"]
    /\ s.state = "ONLINE" => s.sequence = s.sent

(* The client, to which the server has sent n chunks.                       *)
DownlinkReceiver(c, n) ==
    /\ \A i \in DOMAIN c.got : c.got[i] \in {i, Garbage}
    /\ Len(c.got) <= n
    /\ c.state # "OFFLINE" => c.ack = Len(c.got)

Downlink ==
    LET c == conn["client"]
        s == conn[Session]
        D == Numbered(s.sent)
    IN  /\ DownlinkSender(s) /\ DownlinkReceiver(c, s.sent)
        /\ \A x \in Slot : conn[x].construct.chunks \in Seq(D) /\ conn[x].buffer \in Seq(D)
        /\ unpacker["client"].chunks \in Seq(D)
        /\ \A p \in net["client"] : p.chunks \in Seq(D)

(* A chunk left over from the session before has a number of that session.  *)
IInv ==
    /\ TypeOK /\ OneSession /\ Uplink
    /\ OldConstructs = {} => Downlink

(* The same for the slot that was left, which LateIsRest needs on top: its  *)
(* ack counts what it hands up late, and a packet is unpacked for it only   *)
(* if it is the one that moved the session, with the command behind it.     *)
Rest ==
    LET n == conn["new"]
        u == unpacker["server"]
    IN  /\ n.late = [i \in 1 .. Len(n.late) |-> i]
        /\ Len(n.late) < PacketCap /\ Len(n.late) <= conn["client"].sent
        /\ Len(u.chunks) <= PacketCap
        /\ n.state # "OFFLINE" => n.late = <<>>
        /\ n.state = "OFFLINE" =>
             /\ n.ack = Len(n.late)
             /\ u.of = "new" => Len(n.late) + Len(u.chunks) < PacketCap
             /\ Session = "new" => n.late = <<>> /\ (u.of = "new" => u.chunks = <<>>)
=============================================================================
