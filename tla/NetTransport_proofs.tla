------------------------- MODULE NetTransport_proofs -------------------------
(***************************************************************************)
(* IInv is an inductive invariant of NetTransport, and with it every       *)
(* safety property the module states holds, for every size of the sequence *)
(* space, the buffers and the network.  At the end: NetTransport           *)
(* implements the pair of reliable FIFO channels, and an end in error      *)
(* stays silent.                                                           *)
(***************************************************************************)
EXTENDS NetTransport, NetConn_proofs

Inv(e) ==
    Counters(e) /\ OwnChunks(e) /\ Unpacking(e) /\ InFlight(e) /\ Retained(e)

(* A well-formed connection, and packets that a connection c may send.      *)
Fine(c) ==
    /\ c \in Connection
    /\ c.construct.chunks \in Seq(Queued(c.sent))
    /\ c.buffer \in Seq(Queued(c.sent))
    /\ Len(c.construct.chunks) <= PacketCap
    /\ Len(c.buffer) <= BufferCap

Sends(c, out) ==
    /\ \A p \in out : /\ p \in Packet /\ p.chunks \in Seq(Queued(c.sent))
                      /\ p.ack = c.ack /\ p.accepted = Len(c.got)
    /\ c.state = "OFFLINE" => out = {}

-----------------------------------------------------------------------------
LEMMA PeerFacts ==
  ASSUME NEW e \in Endpoint
  PROVE  /\ Peer(e) \in Endpoint /\ Peer(e) # e /\ Peer(Peer(e)) = e
         /\ \A x \in Endpoint : x = e \/ x = Peer(e)
BY DEF Endpoint, Peer

LEMMA QueuedSubset ==
  ASSUME NEW m \in Nat, NEW n \in Nat, m <= n
  PROVE  Queued(m) \subseteq Queued(n) /\ Queued(n) \subseteq Chunk
BY DEF Queued

LEMMA QueuedMonotonic ==
  ASSUME NEW m \in Nat, NEW n \in Nat, m <= n, NEW s \in Seq(Queued(m))
  PROVE  s \in Seq(Queued(n))
BY QueuedSubset, SeqMonotonic

LEMMA FineConn ==
  ASSUME IInv, NEW e \in Endpoint
  PROVE  Fine(conn[e])
BY DEF IInv, TypeOK, OwnChunks, Fine

LEMMA FineIsWellFormed ==
  ASSUME NEW c, Fine(c)
  PROVE  /\ Queued(c.sent) \subseteq Chunk /\ WellFormed(c, Queued(c.sent))
         /\ c \in Connection
BY DEF Fine, WellFormed, Queued

(* Send never delivers anything but the packets it is given.                *)
LEMMA SendSubset ==
  ASSUME NEW n \in [Endpoint -> SUBSET Packet], NEW e \in Endpoint, NEW out \in SUBSET Packet
  PROVE  /\ Send(n, e, out) \in [Endpoint -> SUBSET Packet]
         /\ Send(n, e, out)[e] \subseteq n[e] \cup out
         /\ \A x \in Endpoint : x # e => Send(n, e, out)[x] = n[x]
BY DEF Send

-----------------------------------------------------------------------------
(* What each operation does to a well-formed connection.                    *)
LEMMA QueueChunkExFine ==
  ASSUME NEW c, Fine(c), NEW cs \in Seq(Queued(c.sent))
  PROVE  LET r == QueueChunkEx(c, cs)
         IN  /\ Fine(r.conn) /\ Sends(c, r.out)
             /\ r.conn = [c EXCEPT !.construct = r.conn.construct]
<1> DEFINE S == Queued(c.sent)
           r == QueueChunkEx(c, cs)
<1>1. S \subseteq Chunk /\ WellFormed(c, S) /\ c \in Connection /\ cs \in Seq(S)
  BY FineIsWellFormed
<1> HIDE DEF S
<1>2. /\ WellFormed(r.conn, S) /\ Carries(c, S, r.out)
      /\ r.conn = [c EXCEPT !.construct = r.conn.construct]
  BY <1>1, QueueChunkExWell
<1> HIDE DEF r
<1>3. r.conn.sent = c.sent
  BY <1>1, <1>2 DEF Connection
<1>4. Fine(r.conn) /\ Sends(c, r.out)
  BY <1>2, <1>3 DEF Fine, Sends, WellFormed, Carries, S
<1> QED  BY <1>2, <1>4 DEF r

LEMMA FlushFine ==
  ASSUME NEW c, Fine(c), c.state # "OFFLINE"
  PROVE  LET r == Flush(c)
         IN  /\ Fine(r.conn) /\ Sends(c, r.out)
             /\ r.conn = [c EXCEPT !.construct = r.conn.construct]
<1> DEFINE S == Queued(c.sent)
           r == Flush(c)
<1>1. S \subseteq Chunk /\ WellFormed(c, S) /\ c \in Connection
  BY FineIsWellFormed
<1> HIDE DEF S
<1>2. /\ WellFormed(r.conn, S) /\ Carries(c, S, r.out)
      /\ r.conn = [c EXCEPT !.construct = r.conn.construct]
  BY <1>1, FlushWell
<1> HIDE DEF r
<1>3. r.conn.sent = c.sent
  BY <1>1, <1>2 DEF Connection
<1>4. Fine(r.conn) /\ Sends(c, r.out)
  BY <1>2, <1>3 DEF Fine, Sends, WellFormed, Carries, S
<1> QED  BY <1>2, <1>4 DEF r

LEMMA UpdateFine ==
  ASSUME NEW c, Fine(c), NEW due
  PROVE  LET r == Update(c, due)
         IN  /\ Fine(r.conn) /\ Sends(c, r.out) /\ QuietChange(c, r.conn)
             /\ r.conn.state \in {c.state, "ERROR"}
             /\ c.state = "OFFLINE" => r.conn.state = "OFFLINE"
<1> DEFINE S == Queued(c.sent)
           r == Update(c, due)
<1>1. S \subseteq Chunk /\ WellFormed(c, S) /\ c \in Connection
  BY FineIsWellFormed
<1> HIDE DEF S
<1>2. /\ WellFormed(r.conn, S) /\ Carries(c, S, r.out)
      /\ QuietChange(c, r.conn) /\ r.conn.state \in {c.state, "ERROR"}
      /\ c.state = "OFFLINE" => r.conn.state = "OFFLINE"
  BY <1>1, UpdateWell
<1> HIDE DEF r
<1>3. r.conn.sent = c.sent
  BY <1>1, <1>2 DEF QuietChange
<1>4. Fine(r.conn) /\ Sends(c, r.out)
  BY <1>2, <1>3 DEF Fine, Sends, WellFormed, Carries, S
<1> QED  BY <1>2, <1>4 DEF r
-----------------------------------------------------------------------------
(* A step of e that adds to the stream and sends well-formed packets keeps  *)
(* the peer's part of the invariant.                                        *)
LEMMA PeerKeeps ==
  ASSUME IInv, TypeOK', NEW e \in Endpoint, NEW out,
         conn'[Peer(e)] = conn[Peer(e)], unpacker'[Peer(e)] = unpacker[Peer(e)],
         net'[Peer(e)] \subseteq net[Peer(e)] \cup out,
         conn'[e].sent >= conn[e].sent, Len(conn'[e].got) >= Len(conn[e].got),
         \A p \in out : /\ p.chunks \in Seq(Queued(conn'[e].sent))
                       /\ p.accepted <= Len(conn'[e].got)
                       /\ p.ack = p.accepted % MaxSequence
  PROVE  Inv(Peer(e))'
<1> DEFINE f == Peer(e)
<1>1. f \in Endpoint /\ Peer(f) = e
  BY PeerFacts
<1>2. /\ conn[e] \in Connection /\ conn'[e] \in Connection /\ conn[f] \in Connection
      /\ net[f] \subseteq Packet
  BY <1>1 DEF IInv, TypeOK
<1>3. /\ conn[e].sent \in Nat /\ conn'[e].sent \in Nat
      /\ Len(conn[e].got) \in Nat /\ Len(conn'[e].got) \in Nat
  BY <1>2, LenProperties DEF Connection
<1>4. Counters(f) /\ OwnChunks(f) /\ Unpacking(f) /\ InFlight(f) /\ Retained(f)
  BY <1>1 DEF IInv
<1>5. \A s \in Seq(Queued(conn[e].sent)) : s \in Seq(Queued(conn'[e].sent))
  BY <1>3, QueuedMonotonic
<1> HIDE DEF f
<1>6. /\ conn'[f] = conn[f] /\ unpacker'[f] = unpacker[f]
      /\ net'[f] \subseteq net[f] \cup out
  BY DEF f
<1>7. Counters(f)'
  <2>1. Len(conn[f].got) \in Nat /\ conn[f].acked \in Nat
    BY <1>2, LenProperties DEF Connection
  <2> QED  BY <1>1, <1>3, <1>4, <1>6, <2>1, SMTT(60) DEF Counters
<1>8. OwnChunks(f)'
  BY <1>4, <1>6 DEF OwnChunks
<1>9. Unpacking(f)'
  BY <1>1, <1>4, <1>5, <1>6 DEF Unpacking
<1>10. InFlight(f)'
  <2> SUFFICES ASSUME NEW p \in net'[f]
               PROVE  /\ p.chunks \in Seq(Queued(conn'[e].sent))
                      /\ p.accepted <= Len(conn'[e].got)
                      /\ p.ack = p.accepted % MaxSequence
    BY <1>1 DEF InFlight
  <2>1. CASE p \in net[f]
    <3>1. /\ p.chunks \in Seq(Queued(conn[e].sent))
          /\ p.accepted <= Len(conn[e].got)
          /\ p.ack = p.accepted % MaxSequence
      BY <1>1, <1>4, <2>1 DEF InFlight
    <3>2. p.accepted \in Nat
      BY <1>2, <2>1 DEF Packet
    <3> QED  BY <1>3, <1>5, <3>1, <3>2
  <2>2. CASE p \in out
    BY <2>2
  <2> QED  BY <1>6, <2>1, <2>2
<1>11. Retained(f)'
  BY <1>4, <1>6 DEF Retained
<1> QED  BY <1>7, <1>8, <1>9, <1>10, <1>11 DEF Inv, f

(* TypeOK after e's connection becomes d and e sends out.                   *)
LEMMA TypeStep ==
  ASSUME IInv, NEW e \in Endpoint, NEW d, Fine(d), NEW out, NEW n,
         n \in [Endpoint -> SUBSET Packet], \A p \in out : p \in Packet,
         conn' = [conn EXCEPT ![e] = d], net' = Send(n, Peer(e), out),
         unpacker' \in [Endpoint -> Seq(Chunk)]
  PROVE  /\ TypeOK'
         /\ conn'[e] = d /\ conn'[Peer(e)] = conn[Peer(e)]
         /\ net'[e] = n[e] /\ net'[Peer(e)] \subseteq n[Peer(e)] \cup out
<1>1. Peer(e) \in Endpoint /\ Peer(e) # e
  BY PeerFacts
<1>2. /\ net' \in [Endpoint -> SUBSET Packet]
      /\ net'[e] = n[e] /\ net'[Peer(e)] \subseteq n[Peer(e)] \cup out
  BY <1>1, SendSubset
<1>3. conn \in [Endpoint -> Connection] /\ d \in Connection
  BY DEF IInv, TypeOK, Fine
<1>4. /\ conn' \in [Endpoint -> Connection]
      /\ conn'[e] = d /\ \A x \in Endpoint : x # e => conn'[x] = conn[x]
  BY <1>3
<1>5. \A x \in Endpoint : /\ Len(conn'[x].construct.chunks) <= PacketCap
                          /\ Len(conn'[x].buffer) <= BufferCap
  BY <1>4 DEF IInv, TypeOK, Fine
<1> QED  BY <1>1, <1>2, <1>4, <1>5 DEF TypeOK

(* A step of e that leaves its stream alone keeps the invariant.            *)
LEMMA QuietStep ==
  ASSUME IInv, NEW e \in Endpoint, NEW d, Fine(d), NEW out, Sends(conn[e], out),
         conn' = [conn EXCEPT ![e] = d], net' = Send(net, Peer(e), out),
         unpacker' = unpacker,
         d.sent = conn[e].sent, d.got = conn[e].got,
         d.acked = conn[e].acked, d.unsaved = conn[e].unsaved,
         d.state = "ONLINE" => /\ conn[e].state = "ONLINE"
                               /\ d.sequence = conn[e].sequence
                               /\ d.peerAck = conn[e].peerAck
                               /\ d.buffer = conn[e].buffer,
         d.state # "OFFLINE" => /\ conn[e].state # "OFFLINE"
                                /\ d.ack = conn[e].ack
                                /\ d.unknownSeq = conn[e].unknownSeq
  PROVE  IInv'
<1>1. /\ Peer(e) \in Endpoint /\ Peer(e) # e
      /\ \A x \in Endpoint : x = e \/ x = Peer(e)
  BY PeerFacts
<1>2. \A p \in out : /\ p \in Packet /\ p.chunks \in Seq(Queued(conn[e].sent))
                     /\ p.ack = conn[e].ack /\ p.accepted = Len(conn[e].got)
  BY DEF Sends
<1>3. /\ TypeOK'
      /\ conn'[e] = d /\ conn'[Peer(e)] = conn[Peer(e)]
      /\ net'[e] = net[e] /\ net'[Peer(e)] \subseteq net[Peer(e)] \cup out
  <2>1. net \in [Endpoint -> SUBSET Packet] /\ unpacker' \in [Endpoint -> Seq(Chunk)]
    BY DEF IInv, TypeOK
  <2>2. \A p \in out : p \in Packet
    BY <1>2
  <2> QED  BY <2>1, <2>2, TypeStep
<1>4. Counters(e) /\ OwnChunks(e) /\ Unpacking(e) /\ InFlight(e) /\ Retained(e)
  BY DEF IInv
<1>5. conn[e].sent \in Nat /\ Len(conn[e].got) \in Nat /\ d \in Connection
  <2>1. conn[e] \in Connection
    BY DEF IInv, TypeOK
  <2> QED  BY <2>1, LenProperties DEF Fine, Connection
<1>6. Inv(Peer(e))'
  <2>1. ASSUME NEW p \in out
        PROVE  /\ p.chunks \in Seq(Queued(conn'[e].sent))
               /\ p.accepted <= Len(conn'[e].got)
               /\ p.ack = p.accepted % MaxSequence
    <3>1. conn[e].state # "OFFLINE"
      BY <2>1 DEF Sends
    <3>2. conn[e].ack = Len(conn[e].got) % MaxSequence
      BY <1>4, <3>1 DEF Counters
    <3> QED  BY <1>2, <1>3, <1>5, <3>2
  <2>2. conn'[e].sent >= conn[e].sent /\ Len(conn'[e].got) >= Len(conn[e].got)
    BY <1>3, <1>5
  <2> QED  BY <1>3, <2>1, <2>2, PeerKeeps
<1>7. Inv(e)'
  <2>1. Counters(e)'
    BY <1>1, <1>3, <1>4 DEF Counters
  <2>2. OwnChunks(e)'
    BY <1>3 DEF OwnChunks, Fine
  <2>3. Unpacking(e)' /\ InFlight(e)'
    BY <1>1, <1>3, <1>4 DEF Unpacking, InFlight
  <2>4. Retained(e)'
    BY <1>3, <1>4 DEF Retained
  <2> QED  BY <2>1, <2>2, <2>3, <2>4 DEF Inv
<1> QED  BY <1>1, <1>3, <1>6, <1>7 DEF IInv, Inv
-----------------------------------------------------------------------------
(* Saving the next chunk extends the stream by one.                         *)
LEMMA SaveFine ==
  ASSUME NEW c, Fine(c), c.sequence = c.sent % MaxSequence
  PROVE  LET d == Save(c, NextChunk(c))
         IN  /\ Fine(d) /\ NextChunk(c) \in Queued(c.sent + 1)
             /\ d.state = c.state /\ d.ack = c.ack /\ d.peerAck = c.peerAck
             /\ d.unknownSeq = c.unknownSeq /\ d.got = c.got /\ d.acked = c.acked
             /\ d.sent = c.sent + 1 /\ d.sequence = (c.sent + 1) % MaxSequence
             /\ \A k \in 1 .. c.sent + 1 :
                  \/ k = c.sent + 1
                  \/ k \in c.unsaved
                  \/ \E i \in DOMAIN c.buffer : c.buffer[i].data = k
                  => \/ k \in d.unsaved
                     \/ \E i \in DOMAIN d.buffer : d.buffer[i].data = k
<1> DEFINE ch == NextChunk(c)
           d  == Save(c, ch)
           S  == Queued(c.sent + 1)
<1>1. c \in Connection /\ c.sent \in Nat /\ MaxSequence \in Nat \ {0} /\ MaxSequence > 1
  BY SequenceAssumption DEF Fine, Connection
<1>2. (c.sent + 1) % MaxSequence \in SeqNumbers
  BY <1>1, SMT DEF SeqNumbers
<1>3. ch = [vital |-> TRUE, sequence |-> (c.sent + 1) % MaxSequence, data |-> c.sent + 1]
  BY <1>1, ModSucc DEF NextChunk
<1>4. ch \in S /\ ch.sequence = (c.sent + 1) % MaxSequence
  BY <1>1, <1>2, <1>3 DEF Queued, Chunk
<1>5. WellFormed(c, S) /\ S \subseteq Chunk
  BY <1>1, QueuedMonotonic, QueuedSubset DEF Fine, WellFormed
<1> HIDE DEF S
<1>6. /\ WellFormed(d, S) /\ d.construct = c.construct
      /\ d.state = c.state /\ d.ack = c.ack /\ d.peerAck = c.peerAck
      /\ d.unknownSeq = c.unknownSeq /\ d.got = c.got /\ d.acked = c.acked
      /\ d.sent = c.sent + 1 /\ d.sequence = ch.sequence
      /\ KeepsAll(c, d)
  BY <1>4, <1>5, SaveWell
<1> HIDE DEF ch, d
<1>7. Fine(d)
  BY <1>6 DEF Fine, WellFormed, S
<1> QED  BY <1>4, <1>6, <1>7 DEF KeepsAll, S, ch, d

LEMMA QueueChunkStep ==
  ASSUME IInv, NEW e \in Endpoint, NEW vital \in BOOLEAN, QueueChunkAt(e, vital)
  PROVE  IInv'
<1> DEFINE c == conn[e]
           r == QueueChunk(c, vital)
<1>1. Fine(c) /\ c \in Connection /\ c.sent \in Nat /\ c.sequence \in SeqNumbers
  BY FineConn DEF Fine, Connection
<1>2. /\ conn' = [conn EXCEPT ![e] = r.conn] /\ net' = Send(net, Peer(e), r.out)
      /\ unpacker' = unpacker /\ c.state # "OFFLINE"
  BY DEF QueueChunkAt, Apply
<1> HIDE DEF c
<1>3. CASE ~vital
  <2>1. r = QueueChunkEx(c, <<PlainChunk(c.sequence)>>)
    BY <1>3 DEF QueueChunk
  <2>2. PlainChunk(c.sequence) \in Queued(c.sent)
    BY <1>1 DEF PlainChunk, Queued, Chunk, Garbage
  <2>3. <<PlainChunk(c.sequence)>> \in Seq(Queued(c.sent))
    BY <2>2
  <2>4. /\ Fine(r.conn) /\ Sends(c, r.out)
        /\ r.conn = [c EXCEPT !.construct = r.conn.construct]
    <3> DEFINE q == QueueChunkEx(c, <<PlainChunk(c.sequence)>>)
    <3>1. /\ Fine(q.conn) /\ Sends(c, q.out)
          /\ q.conn = [c EXCEPT !.construct = q.conn.construct]
      BY <1>1, <2>3, QueueChunkExFine
    <3> HIDE DEF q, r
    <3>2. r = q
      BY <2>1 DEF q
    <3> QED  BY <3>1, <3>2
  <2> HIDE DEF r
  <2>5. QuietChange(c, r.conn) /\ r.conn.state = c.state
    BY <1>1, <2>4 DEF QuietChange, Connection
  <2> QED  BY <1>2, <2>4, <2>5, QuietStep DEF QuietChange, c
<1>4. CASE vital /\ c.state # "ONLINE"
  <2> DEFINE d == [c EXCEPT !.sequence = (@ + 1) % MaxSequence]
  <2>1. r.conn = d /\ r.out = {}
    BY <1>4 DEF QueueChunk
  <2>2. (c.sequence + 1) % MaxSequence \in SeqNumbers
    BY <1>1, SequenceAssumption, SMT DEF SeqNumbers
  <2>3. /\ d \in Connection /\ d.state = c.state /\ d.ack = c.ack
        /\ d.sent = c.sent /\ d.got = c.got /\ d.acked = c.acked
        /\ d.unsaved = c.unsaved /\ d.unknownSeq = c.unknownSeq
        /\ d.construct = c.construct /\ d.buffer = c.buffer
    BY <1>1, <2>2 DEF Connection
  <2> HIDE DEF d, r
  <2>4. Fine(d) /\ Sends(c, r.out)
    BY <1>1, <2>1, <2>3 DEF Fine, Sends
  <2> QED  BY <1>2, <1>4, <2>1, <2>3, <2>4, QuietStep DEF c
<1>5. CASE vital /\ c.state = "ONLINE"
  <2> DEFINE c1 == Save(c, NextChunk(c))
             d  == r.conn
  <2>1. r = QueueChunkEx(c1, <<NextChunk(c)>>)
    BY <1>5 DEF QueueChunk
  <2>2. Counters(e) /\ OwnChunks(e) /\ Unpacking(e) /\ InFlight(e) /\ Retained(e)
    BY DEF IInv
  <2>3. c.sequence = c.sent % MaxSequence
    BY <1>5, <2>2 DEF Counters, c
  <2>4. /\ Fine(c1) /\ NextChunk(c) \in Queued(c.sent + 1)
        /\ c1.state = c.state /\ c1.ack = c.ack /\ c1.peerAck = c.peerAck
        /\ c1.unknownSeq = c.unknownSeq /\ c1.got = c.got /\ c1.acked = c.acked
        /\ c1.sent = c.sent + 1 /\ c1.sequence = (c.sent + 1) % MaxSequence
        /\ \A k \in 1 .. c.sent + 1 :
             \/ k = c.sent + 1
             \/ k \in c.unsaved
             \/ \E i \in DOMAIN c.buffer : c.buffer[i].data = k
             => \/ k \in c1.unsaved
                \/ \E i \in DOMAIN c1.buffer : c1.buffer[i].data = k
    BY <1>1, <2>3, SaveFine
  <2> HIDE DEF c1
  <2>5. <<NextChunk(c)>> \in Seq(Queued(c1.sent))
    BY <2>4
  <2>6. /\ Fine(d) /\ Sends(c1, r.out)
        /\ d = [c1 EXCEPT !.construct = d.construct]
    <3> DEFINE q == QueueChunkEx(c1, <<NextChunk(c)>>)
    <3>1. /\ Fine(q.conn) /\ Sends(c1, q.out)
          /\ q.conn = [c1 EXCEPT !.construct = q.conn.construct]
      BY <2>4, <2>5, QueueChunkExFine
    <3> HIDE DEF q
    <3>2. r = q
      BY <2>1 DEF q
    <3> QED  BY <3>1, <3>2
  <2>7. conn' = [conn EXCEPT ![e] = d]
    BY <1>2
  <2> HIDE DEF r, d
  <2>8. QuietChange(c1, d) /\ d.state = c1.state
    <3>1. c1 \in Connection
      BY <2>4 DEF Fine
    <3> QED  BY <2>6, <3>1 DEF QuietChange, Connection
  <2>9. /\ \A p \in r.out : /\ p \in Packet /\ p.chunks \in Seq(Queued(d.sent))
                            /\ p.ack = d.ack /\ p.accepted = Len(d.got)
    BY <2>6, <2>8 DEF Sends, QuietChange
  <2>10. /\ TypeOK'
         /\ conn'[e] = d /\ conn'[Peer(e)] = conn[Peer(e)]
         /\ net'[e] = net[e] /\ net'[Peer(e)] \subseteq net[Peer(e)] \cup r.out
    <3>1. net \in [Endpoint -> SUBSET Packet] /\ unpacker' \in [Endpoint -> Seq(Chunk)]
      BY <1>2 DEF IInv, TypeOK
    <3>2. \A p \in r.out : p \in Packet
      BY <2>9
    <3>3. net' = Send(net, Peer(e), r.out)
      BY <1>2
    <3> QED  BY <2>6, <2>7, <3>1, <3>2, <3>3, TypeStep
  <2>11. /\ Peer(e) \in Endpoint /\ Peer(e) # e
         /\ \A x \in Endpoint : x = e \/ x = Peer(e)
    BY PeerFacts
  <2>12. /\ Len(c.got) \in Nat /\ c.acked \in Nat
         /\ conn[Peer(e)].sent \in Nat /\ Len(conn[Peer(e)].got) \in Nat
    <3>1. conn[Peer(e)] \in Connection
      BY <2>11 DEF IInv, TypeOK
    <3> QED  BY <1>1, <3>1, LenProperties DEF Connection
  <2>13. /\ d.state = "ONLINE" /\ d.sent = c.sent + 1 /\ d.got = c.got
         /\ d.acked = c.acked /\ d.ack = c.ack /\ d.peerAck = c.peerAck
         /\ d.unknownSeq = c.unknownSeq /\ d.sequence = (c.sent + 1) % MaxSequence
         /\ d.buffer = c1.buffer /\ d.unsaved = c1.unsaved
    BY <1>5, <2>4, <2>8 DEF QuietChange
  <2>14. Inv(Peer(e))'
    <3>1. c.ack = Len(c.got) % MaxSequence
      BY <1>5, <2>2 DEF Counters, c
    <3>2. conn'[e].sent >= conn[e].sent /\ Len(conn'[e].got) >= Len(conn[e].got)
      BY <1>1, <2>10, <2>12, <2>13 DEF c
    <3>3. \A p \in r.out : /\ p.chunks \in Seq(Queued(conn'[e].sent))
                          /\ p.accepted <= Len(conn'[e].got)
                          /\ p.ack = p.accepted % MaxSequence
      BY <2>9, <2>10, <2>12, <2>13, <3>1
    <3> QED  BY <1>2, <2>10, <3>2, <3>3, PeerKeeps
  <2>15. Counters(e)'
    <3>1. c.sent - c.acked < MaxOutstanding
      BY <1>5 DEF QueueChunkAt, c
    <3>2. /\ c.got = [i \in 1 .. Len(c.got) |-> i]
          /\ Len(c.got) <= conn[Peer(e)].sent
          /\ c.acked <= Len(conn[Peer(e)].got)
          /\ c.peerAck = c.acked % MaxSequence
          /\ c.ack = Len(c.got) % MaxSequence /\ ~c.unknownSeq
      BY <1>5, <2>2 DEF Counters, c
    <3>3. d.sent - d.acked <= MaxOutstanding
      BY <1>1, <2>12, <2>13, <3>1, BoundsAssumption
    <3>4. /\ d.got = [i \in 1 .. Len(d.got) |-> i]
          /\ Len(d.got) <= conn'[Peer(e)].sent
          /\ d.acked <= Len(conn'[Peer(e)].got)
      BY <2>10, <2>13, <3>2
    <3>5. /\ d.sequence = d.sent % MaxSequence /\ d.peerAck = d.acked % MaxSequence
          /\ d.ack = Len(d.got) % MaxSequence /\ ~d.unknownSeq
      BY <2>13, <3>2
    <3> QED  BY <2>10, <3>3, <3>4, <3>5 DEF Counters
  <2>16. OwnChunks(e)'
    BY <2>6, <2>10 DEF OwnChunks, Fine
  <2>17. Unpacking(e)' /\ InFlight(e)'
    BY <1>2, <2>2, <2>10, <2>11, <2>13 DEF Unpacking, InFlight, c
  <2>18. Retained(e)'
    <3> SUFFICES ASSUME NEW k \in c.acked + 1 .. c.sent + 1
                 PROVE  \/ k \in c1.unsaved
                        \/ \E i \in DOMAIN c1.buffer : c1.buffer[i].data = k
      BY <2>10, <2>13 DEF Retained
    <3>1. k \in 1 .. c.sent + 1
      BY <1>1, <2>12
    <3>2. k # c.sent + 1 => \/ k \in c.unsaved
                            \/ \E i \in DOMAIN c.buffer : c.buffer[i].data = k
      BY <1>1, <1>5, <2>2, <2>12 DEF Retained, c
    <3> QED  BY <2>4, <3>1, <3>2
  <2> QED  BY <2>10, <2>11, <2>14, <2>15, <2>16, <2>17, <2>18 DEF IInv, Inv
<1> QED  BY <1>3, <1>4, <1>5

LEMMA FlushStep ==
  ASSUME IInv, NEW e \in Endpoint, FlushAt(e)
  PROVE  IInv'
<1> DEFINE c == conn[e]
           r == Flush(c)
           d == r.conn
           out == r.out
<1>1. Fine(c) /\ c \in Connection
  BY FineConn DEF Fine
<1>2. /\ conn' = [conn EXCEPT ![e] = d] /\ net' = Send(net, Peer(e), out)
      /\ unpacker' = unpacker /\ c.state # "OFFLINE"
  BY DEF FlushAt, Apply
<1> HIDE DEF c
<1>3. Fine(d) /\ Sends(c, out) /\ d = [c EXCEPT !.construct = d.construct]
  BY <1>1, <1>2, FlushFine
<1> HIDE DEF r, d, out
<1>4. QuietChange(c, d) /\ d.state = c.state
  BY <1>1, <1>3 DEF QuietChange, Connection
<1> QED  BY <1>2, <1>3, <1>4, QuietStep DEF QuietChange, c

LEMMA DisconnectFine ==
  ASSUME NEW c, Fine(c)
  PROVE  LET r == Disconnect(c)
         IN  /\ Fine(r.conn) /\ Sends(c, r.out) /\ r.conn.state = "OFFLINE"
             /\ r.conn.sent = c.sent /\ r.conn.got = c.got
             /\ r.conn.acked = c.acked /\ r.conn.unsaved = c.unsaved
<1> DEFINE S == Queued(c.sent)
           r == Disconnect(c)
<1>1. S \subseteq Chunk /\ WellFormed(c, S) /\ c \in Connection
  BY FineIsWellFormed
<1> HIDE DEF S
<1>2. /\ WellFormed(r.conn, S) /\ Carries(c, S, r.out)
      /\ r.conn.state = "OFFLINE" /\ r.conn.sent = c.sent /\ r.conn.got = c.got
      /\ r.conn.acked = c.acked /\ r.conn.unsaved = c.unsaved
  BY <1>1, DisconnectWell
<1> HIDE DEF r
<1>3. r.conn.sent = c.sent
  BY <1>1, <1>2
<1>4. Fine(r.conn) /\ Sends(c, r.out)
  BY <1>2, <1>3 DEF Fine, Sends, WellFormed, Carries, S
<1> QED  BY <1>2, <1>4 DEF r

LEMMA UpdateStep ==
  ASSUME IInv, NEW e \in Endpoint, NEW due, UpdateAt(e, due)
  PROVE  IInv'
<1> DEFINE c == conn[e]
           u == Update(c, due)
           g == Disconnect(u.conn)
           r == LetGo(u, e \in Protected)
           d == r.conn
           out == r.out
<1>1. Fine(c) /\ c.state \in {"ONLINE", "ERROR", "OFFLINE"}
  BY FineConn DEF Fine, Connection
<1>2. /\ conn' = [conn EXCEPT ![e] = d] /\ net' = Send(net, Peer(e), out)
      /\ unpacker' = unpacker
  BY DEF UpdateAt, Apply
<1> HIDE DEF c
<1>3. /\ Fine(u.conn) /\ Sends(c, u.out) /\ QuietChange(c, u.conn)
      /\ u.conn.state \in {c.state, "ERROR"}
      /\ c.state = "OFFLINE" => u.conn.state = "OFFLINE"
  BY <1>1, UpdateFine
<1>4. CASE r = u
  <2> HIDE DEF u, r
  <2>1. Fine(d) /\ Sends(c, out) /\ QuietChange(c, d)
    BY <1>3, <1>4
  <2>2. d.state \in {c.state, "ERROR"} /\ (c.state = "OFFLINE" => d.state = "OFFLINE")
    BY <1>3, <1>4
  <2> HIDE DEF d, out
  <2> QED  BY <1>1, <1>2, <2>1, <2>2, QuietStep DEF QuietChange, c
<1>5. CASE u.conn.state = "ERROR" /\ d = g.conn /\ out = u.out \cup g.out
  <2> HIDE DEF u
  <2>1. /\ Fine(g.conn) /\ Sends(u.conn, g.out) /\ g.conn.state = "OFFLINE"
        /\ g.conn.sent = u.conn.sent /\ g.conn.got = u.conn.got
        /\ g.conn.acked = u.conn.acked /\ g.conn.unsaved = u.conn.unsaved
    BY <1>3, DisconnectFine
  <2> HIDE DEF g, r, d, out
  <2>2. Sends(c, out)
    <3>1. c.state # "OFFLINE"
      BY <1>3, <1>5
    <3> QED  BY <1>3, <1>5, <2>1, <3>1 DEF Sends, QuietChange
  <2>3. /\ Fine(d) /\ d.state = "OFFLINE" /\ d.sent = c.sent /\ d.got = c.got
        /\ d.acked = c.acked /\ d.unsaved = c.unsaved
    BY <1>3, <1>5, <2>1 DEF QuietChange
  <2> QED  BY <1>2, <2>2, <2>3, QuietStep DEF c
<1> QED
  <2>1. r = u \/ (u.conn.state = "ERROR" /\ d = g.conn /\ out = u.out \cup g.out)
    BY DEF LetGo
  <2> QED  BY <1>4, <1>5, <2>1

LEMMA DisconnectStep ==
  ASSUME IInv, NEW e \in Endpoint, DisconnectAt(e)
  PROVE  IInv'
<1> DEFINE c == conn[e]
           r == Disconnect(c)
           d == r.conn
           out == r.out
<1>1. Fine(c)
  BY FineConn
<1>2. /\ conn' = [conn EXCEPT ![e] = d] /\ net' = Send(net, Peer(e), out)
      /\ unpacker' = unpacker
  BY DEF DisconnectAt, Apply
<1> HIDE DEF c
<1>3. /\ Fine(d) /\ Sends(c, out) /\ d.state = "OFFLINE"
      /\ d.sent = c.sent /\ d.got = c.got
      /\ d.acked = c.acked /\ d.unsaved = c.unsaved
  BY <1>1, DisconnectFine
<1> HIDE DEF r, d, out
<1> QED  BY <1>2, <1>3, QuietStep DEF c

(* A step that only takes packets off the network.                          *)
LEMMA QuietNetwork ==
  ASSUME IInv, NEW e \in Endpoint, NEW p, net' = [net EXCEPT ![e] = @ \ {p}] \/ net' = net,
         conn' = conn, unpacker' = unpacker
  PROVE  IInv'
<1>1. /\ net' \in [Endpoint -> SUBSET Packet]
      /\ \A x \in Endpoint : net'[x] \subseteq net[x]
  BY DEF IInv, TypeOK
<1>2. TypeOK'
  BY <1>1 DEF IInv, TypeOK
<1>3. ASSUME NEW x \in Endpoint  PROVE  Inv(x)'
  <2>1. Counters(x) /\ OwnChunks(x) /\ Unpacking(x) /\ InFlight(x) /\ Retained(x)
    BY DEF IInv
  <2>2. Counters(x)' /\ OwnChunks(x)' /\ Retained(x)'
    BY <2>1 DEF Counters, OwnChunks, Retained
  <2>3. Unpacking(x)'
    BY <2>1 DEF Unpacking
  <2>4. InFlight(x)'
    BY <1>1, <2>1 DEF InFlight
  <2> QED  BY <2>2, <2>3, <2>4 DEF Inv
<1> QED  BY <1>2, <1>3 DEF IInv, Inv

LEMMA LoseStep ==
  ASSUME IInv, NEW e \in Endpoint, NEW p, Lose(e, p)
  PROVE  IInv'
BY QuietNetwork DEF Lose

-----------------------------------------------------------------------------
(* A chunk is accepted exactly when it is the next one of the stream.       *)
LEMMA NextExact ==
  ASSUME IInv, NEW e \in Endpoint, conn[e].state # "OFFLINE",
         NEW ch \in Queued(conn[Peer(e)].sent), ch.vital,
         Len(conn[e].got) - ch.data < MaxSequence - 1
  PROVE  /\ IsNext(conn[e], ch) <=> ch.data = Len(conn[e].got) + 1
         /\ ch.data > Len(conn[e].got) + 1 => ~IsSeqInBackroom(ch.sequence, conn[e].ack)
<1> DEFINE c == conn[e]
           g == Len(c.got)
           m == ch.data
<1>1. MaxSequence \in Nat \ {0} /\ MaxSequence > 1
  BY SequenceAssumption
<1>2. Peer(e) \in Endpoint /\ Peer(Peer(e)) = e
  BY PeerFacts
<1>3. c \in Connection /\ conn[Peer(e)] \in Connection
  BY <1>2 DEF IInv, TypeOK
<1>4. /\ g \in Nat /\ conn[Peer(e)].sent \in Nat /\ conn[Peer(e)].acked \in Nat
  BY <1>3, LenProperties DEF Connection
<1>5. m \in 1 .. conn[Peer(e)].sent /\ ch.sequence = m % MaxSequence
  BY DEF Queued
<1>6. c.ack = g % MaxSequence /\ ~c.unknownSeq
  BY DEF IInv, Counters
<1>7. /\ conn[Peer(e)].acked <= g
      /\ conn[Peer(e)].sent - conn[Peer(e)].acked <= MaxOutstanding
  BY <1>2 DEF IInv, Counters
<1>8. MaxOutstanding \in Nat /\ MaxOutstanding < MaxSequence \div 2
      /\ MaxSequence \div 2 < MaxSequence /\ MaxSequence \div 2 \in Nat
  BY <1>1, BoundsAssumption, WindowAssumption, SMT
<1>9. m - g < MaxSequence \div 2 /\ g - m < MaxSequence - 1
  <2> DEFINE H == MaxSequence \div 2
             s == conn[Peer(e)].sent
             a == conn[Peer(e)].acked
  <2>1. /\ g \in Nat /\ s \in Nat /\ a \in Nat /\ m \in 1 .. s
        /\ a <= g /\ s - a <= MaxOutstanding /\ MaxOutstanding \in Nat /\ MaxOutstanding < H
        /\ H \in Nat
    BY <1>4, <1>5, <1>7, <1>8
  <2>2. g - m < MaxSequence - 1
    OBVIOUS
  <2> HIDE DEF H, s, a, g, m
  <2>3. m - g < H
    BY <2>1
  <2> QED  BY <2>2, <2>3 DEF H
<1> HIDE DEF c, g, m
<1>10. IsNext(c, ch) <=> m % MaxSequence = (g + 1) % MaxSequence
  <2>1. ((g % MaxSequence) + 1) % MaxSequence = (g + 1) % MaxSequence
    BY <1>1, <1>4, ModSucc
  <2> QED  BY <1>5, <1>6, <2>1 DEF IsNext
<1>11. m % MaxSequence = (g + 1) % MaxSequence => m = g + 1
  <2>1. m \in Nat /\ g + 1 \in Nat /\ m - (g + 1) < MaxSequence /\ (g + 1) - m < MaxSequence
    BY <1>1, <1>4, <1>5, <1>8, <1>9
  <2> QED  BY <1>1, <2>1, ModUnique
<1>12. m > g + 1 => ~IsSeqInBackroom(m % MaxSequence, g % MaxSequence)
  <2> SUFFICES ASSUME m > g + 1  PROVE ~IsSeqInBackroom(m % MaxSequence, g % MaxSequence)
    OBVIOUS
  <2>1. m \in Nat /\ g - m <= MaxSequence \div 2 /\ m - g < MaxSequence \div 2 /\ ~(m <= g)
    BY <1>4, <1>5, <1>8, <1>9
  <2> QED  BY <1>4, <2>1, BackroomExact
<1> QED  BY <1>5, <1>6, <1>10, <1>11, <1>12 DEF c, g, m

LEMMA FetchChunkStep ==
  ASSUME IInv, NEW e \in Endpoint, FetchChunkAt(e)
  PROVE  IInv'
<1> DEFINE c  == conn[e]
           f  == Peer(e)
           u  == unpacker[e]
           ch == Head(u)
           d  == FetchChunk(c, ch)
           g  == Len(c.got)
<1>1. Fine(c) /\ c \in Connection /\ g \in Nat /\ c.got \in Seq(Nat)
  BY FineConn, LenProperties DEF Fine, Connection
<1>2. /\ f \in Endpoint /\ f # e /\ Peer(f) = e
      /\ \A x \in Endpoint : x = e \/ x = f
  BY PeerFacts
<1>3. Counters(e) /\ OwnChunks(e) /\ Unpacking(e) /\ InFlight(e) /\ Retained(e)
  BY DEF IInv
<1>4. conn[f] \in Connection /\ conn[f].sent \in Nat
  BY <1>2 DEF IInv, TypeOK, Connection
<1>5. /\ u # <<>> /\ u \in Seq(Queued(conn[f].sent))
      /\ conn' = [conn EXCEPT ![e] = d] /\ unpacker' = [unpacker EXCEPT ![e] = Tail(u)]
      /\ net' = net
  BY <1>3 DEF FetchChunkAt, Unpacking
<1>6. /\ Len(u) \in Nat \ {0} /\ ch = u[1] /\ ch \in Queued(conn[f].sent)
      /\ Tail(u) \in Seq(Queued(conn[f].sent)) /\ Len(Tail(u)) = Len(u) - 1
      /\ \A i \in 1 .. Len(u) - 1 : Tail(u)[i] = u[i + 1]
      /\ DOMAIN u = 1 .. Len(u) /\ DOMAIN Tail(u) = 1 .. Len(u) - 1
  <2>1. Len(u) \in Nat \ {0} /\ DOMAIN u = 1 .. Len(u)
    BY <1>5, EmptySeq, LenProperties
  <2>2. /\ ch \in Queued(conn[f].sent) /\ Tail(u) \in Seq(Queued(conn[f].sent))
        /\ Len(Tail(u)) = Len(u) - 1
        /\ \A i \in 1 .. Len(Tail(u)) : Tail(u)[i] = u[i + 1]
    <3> HIDE DEF u, f
    <3> QED  BY <1>5, HeadTailProperties
  <2>3. DOMAIN Tail(u) = 1 .. Len(u) - 1
    BY <2>2, LenProperties
  <2>4. ch = u[1]
    BY <1>5
  <2> QED  BY <2>1, <2>2, <2>3, <2>4
<1>7. ch \in Chunk /\ ch.sequence \in SeqNumbers /\ ch.data \in Nat
  BY <1>6 DEF Queued, Chunk
<1> HIDE DEF c, f, u, ch
<1>8. ch.vital => g - ch.data < MaxSequence - 1
  BY <1>3, <1>6 DEF Unpacking, c, u
<1>9. /\ d \in Connection /\ FetchChange(c, ch, d)
      /\ Len(d.construct.chunks) <= PacketCap /\ Len(d.buffer) <= BufferCap
  <2> DEFINE S == Queued(c.sent)
  <2>1. WellFormed(c, S) /\ S \subseteq Chunk
    BY <1>1, QueuedSubset DEF Fine, WellFormed, Connection
  <2> HIDE DEF S
  <2>2. WellFormed(d, S) /\ FetchChange(c, ch, d)
    BY <1>7, <2>1, FetchChunkWell
  <2> HIDE DEF d
  <2> QED  BY <2>2 DEF WellFormed
<1>10. ASSUME Fine(d)
      PROVE  /\ TypeOK' /\ conn'[e] = d /\ conn'[f] = conn[f]
             /\ unpacker'[e] = Tail(u) /\ unpacker'[f] = unpacker[f] /\ net' = net
  <2> HIDE DEF d
  <2>1. Tail(u) \in Seq(Chunk)
    BY <1>4, <1>6, QueuedSubset, SeqMonotonic
  <2>2. /\ unpacker' \in [Endpoint -> Seq(Chunk)]
        /\ unpacker'[e] = Tail(u) /\ unpacker'[f] = unpacker[f]
    BY <1>2, <1>5, <2>1 DEF IInv, TypeOK, u
  <2>3. /\ conn' \in [Endpoint -> Connection] /\ conn'[e] = d
        /\ \A x \in Endpoint : x # e => conn'[x] = conn[x]
    BY <1>5, <1>10 DEF IInv, TypeOK, Fine
  <2>4. \A x \in Endpoint : /\ Len(conn'[x].construct.chunks) <= PacketCap
                            /\ Len(conn'[x].buffer) <= BufferCap
    BY <1>10, <2>3 DEF IInv, TypeOK, Fine
  <2> QED  BY <1>2, <1>5, <2>2, <2>3, <2>4 DEF IInv, TypeOK
<1>11. CASE c.state # "OFFLINE" /\ ch.vital /\ IsNext(c, ch)
  <2>1. ch.data = g + 1
    BY <1>6, <1>8, <1>11, NextExact DEF c, f
  <2> DEFINE got == Append(c.got, g + 1)
  <2>2. /\ got \in Seq(Nat) /\ Len(got) = g + 1
        /\ \A i \in 1 .. g : got[i] = c.got[i]
        /\ got[g + 1] = g + 1
    BY <1>1, AppendProperties
  <2>3. got = [i \in 1 .. Len(got) |-> i]
    <3>1. c.got = [i \in 1 .. g |-> i]
      BY <1>3 DEF Counters, c
    <3>2. \A i \in 1 .. g + 1 : got[i] = i
      BY <1>1, <2>2, <3>1
    <3>3. got = [i \in 1 .. Len(got) |-> got[i]]
      BY <2>2, LenProperties
    <3> QED  BY <2>2, <3>2, <3>3
  <2> HIDE DEF got
  <2> HIDE DEF d
  <2>5. /\ d \in Connection /\ d.ack = ch.sequence /\ d.got = got
        /\ d.unknownSeq \in {c.unknownSeq, FALSE}
        /\ d.state = c.state /\ d.sequence = c.sequence /\ d.peerAck = c.peerAck
        /\ d.buffer = c.buffer /\ d.construct.chunks = c.construct.chunks
        /\ d.sent = c.sent /\ d.acked = c.acked /\ d.unsaved = c.unsaved
    BY <1>11, <1>9, <2>1 DEF FetchChange, got
  <2>6. Fine(d)
    BY <1>1, <2>5 DEF Fine
  <2>7. /\ TypeOK' /\ conn'[e] = d /\ conn'[f] = conn[f]
        /\ unpacker'[e] = Tail(u) /\ unpacker'[f] = unpacker[f] /\ net' = net
    BY <1>10, <2>6
  <2>8. Inv(f)'
    <3>1. conn'[e].sent >= conn[e].sent /\ Len(conn'[e].got) >= Len(conn[e].got)
      BY <1>1, <2>2, <2>5, <2>7, SMTT(60) DEF c, Fine, Connection
    <3> DEFINE none == {}
    <3>2. net'[f] \subseteq net[f] \cup none
      BY <2>7
    <3>3. \A p \in none : /\ p.chunks \in Seq(Queued(conn'[e].sent))
                          /\ p.accepted <= Len(conn'[e].got)
                          /\ p.ack = p.accepted % MaxSequence
      OBVIOUS
    <3> HIDE DEF none
    <3> QED  BY <2>7, <3>1, <3>2, <3>3, PeerKeeps DEF f
  <2>9. Counters(e)'
    <3>1. /\ Len(got) = ch.data /\ Len(got) <= conn[f].sent
          /\ ch.sequence = Len(got) % MaxSequence
      BY <1>4, <1>6, <1>11, <2>1, <2>2 DEF Queued
    <3> QED  BY <1>3, <2>3, <2>5, <2>7, <3>1 DEF Counters, c, f
  <2>10. OwnChunks(e)'
    BY <2>6, <2>7 DEF OwnChunks, Fine
  <2>11. Unpacking(e)'
    <3>1. \A i \in DOMAIN u : u[i].vital =>
             /\ g + 1 - u[i].data < MaxSequence - 1
             /\ \A j \in DOMAIN u : u[j].vital => u[j].data - u[i].data < MaxSequence - 1
      <4>1. \A i, j \in DOMAIN u : u[i].vital /\ u[j].vital =>
               u[j].data - u[i].data < MaxSequence - 1
        BY <1>3 DEF Unpacking, u
      <4>2. 1 \in DOMAIN u /\ u[1].vital /\ u[1].data = g + 1
        BY <1>6, <1>11, <2>1
      <4>3. \A i \in DOMAIN u : u[i].data \in Nat
        BY <1>5, <1>6, ElementOfSeq DEF Queued, Chunk
      <4> HIDE DEF g
      <4> SUFFICES ASSUME NEW i \in DOMAIN u, u[i].vital
                   PROVE  /\ g + 1 - u[i].data < MaxSequence - 1
                          /\ \A j \in DOMAIN u : u[j].vital =>
                               u[j].data - u[i].data < MaxSequence - 1
        OBVIOUS
      <4>4. u[1].data - u[i].data < MaxSequence - 1
        BY <4>1, <4>2
      <4>5. g + 1 - u[i].data < MaxSequence - 1
        BY <1>1, <4>2, <4>3, <4>4, SequenceAssumption
      <4> QED  BY <4>1, <4>5
    <3>2. \A i \in DOMAIN Tail(u) : i + 1 \in DOMAIN u /\ Tail(u)[i] = u[i + 1]
      BY <1>6
    <3>3. \A i \in DOMAIN Tail(u) : Tail(u)[i].vital =>
             /\ g + 1 - Tail(u)[i].data < MaxSequence - 1
             /\ \A j \in DOMAIN Tail(u) : Tail(u)[j].vital =>
                  Tail(u)[j].data - Tail(u)[i].data < MaxSequence - 1
      BY <3>1, <3>2
    <3>4. Len(conn'[e].got) = g + 1
      BY <2>2, <2>5, <2>7
    <3> HIDE DEF g
    <3>5. unpacker'[e] \in Seq(Queued(conn'[Peer(e)].sent))
      BY <1>6, <2>7 DEF f
    <3>6. \A i \in DOMAIN unpacker'[e] : unpacker'[e][i].vital =>
             /\ Len(conn'[e].got) - unpacker'[e][i].data < MaxSequence - 1
             /\ \A j \in DOMAIN unpacker'[e] : unpacker'[e][j].vital =>
                  unpacker'[e][j].data - unpacker'[e][i].data < MaxSequence - 1
      <4> HIDE DEF u
      <4> DEFINE t == Tail(u)
      <4>1. unpacker'[e] = t
        BY <2>7
      <4>2. \A i \in DOMAIN t : t[i].vital =>
               /\ g + 1 - t[i].data < MaxSequence - 1
               /\ \A j \in DOMAIN t : t[j].vital => t[j].data - t[i].data < MaxSequence - 1
        BY <3>3
      <4>3. \A i \in DOMAIN t : t[i].data \in Nat
        BY <1>6, ElementOfSeq DEF Queued, Chunk
      <4> HIDE DEF t
      <4> QED  BY <1>1, <3>4, <4>1, <4>2, <4>3, SequenceAssumption
    <3> QED  BY <3>5, <3>6 DEF Unpacking
  <2>12. InFlight(e)' /\ Retained(e)'
    BY <1>3, <2>5, <2>7 DEF InFlight, Retained, c, f
  <2> QED  BY <1>2, <2>7, <2>8, <2>9, <2>10, <2>11, <2>12 DEF IInv, Inv
<1>12. CASE ~(c.state # "OFFLINE" /\ ch.vital /\ IsNext(c, ch))
  <2>1. /\ d \in Connection /\ d.got = c.got
        /\ c.state # "OFFLINE" => d.ack = c.ack
        /\ d.unknownSeq \in {c.unknownSeq, FALSE}
        /\ d.state = c.state /\ d.sequence = c.sequence /\ d.peerAck = c.peerAck
        /\ d.buffer = c.buffer /\ d.construct.chunks = c.construct.chunks
        /\ d.sent = c.sent /\ d.acked = c.acked /\ d.unsaved = c.unsaved
    <3> HIDE DEF d
    <3> QED  BY <1>12, <1>9 DEF FetchChange
  <2> HIDE DEF d
  <2>2. Fine(d)
    BY <1>1, <2>1 DEF Fine
  <2>3. /\ TypeOK' /\ conn'[e] = d /\ conn'[f] = conn[f]
        /\ unpacker'[e] = Tail(u) /\ unpacker'[f] = unpacker[f] /\ net' = net
    BY <1>10, <2>2
  <2>4. Inv(f)'
    <3>1. conn'[e].sent >= conn[e].sent /\ Len(conn'[e].got) >= Len(conn[e].got)
      BY <1>1, <2>1, <2>3 DEF c, Fine, Connection
    <3> DEFINE none == {}
    <3>2. net'[f] \subseteq net[f] \cup none
      BY <2>3
    <3>3. \A p \in none : /\ p.chunks \in Seq(Queued(conn'[e].sent))
                          /\ p.accepted <= Len(conn'[e].got)
                          /\ p.ack = p.accepted % MaxSequence
      OBVIOUS
    <3> HIDE DEF none
    <3> QED  BY <2>3, <3>1, <3>2, <3>3, PeerKeeps DEF f
  <2>5. Counters(e)'
    BY <1>3, <2>1, <2>3 DEF Counters, c, f
  <2>6. OwnChunks(e)'
    BY <2>2, <2>3 DEF OwnChunks, Fine
  <2>7. Unpacking(e)'
    <3>1. \A i \in DOMAIN Tail(u) : i + 1 \in DOMAIN u /\ Tail(u)[i] = u[i + 1]
      BY <1>6
    <3>2. \A i \in DOMAIN Tail(u) : Tail(u)[i].vital =>
             /\ g - Tail(u)[i].data < MaxSequence - 1
             /\ \A j \in DOMAIN Tail(u) : Tail(u)[j].vital =>
                  Tail(u)[j].data - Tail(u)[i].data < MaxSequence - 1
      BY <1>3, <3>1 DEF Unpacking, u, c
    <3> QED  BY <1>6, <2>1, <2>3, <3>2 DEF Unpacking, f
  <2>8. InFlight(e)' /\ Retained(e)'
    BY <1>3, <2>1, <2>3 DEF InFlight, Retained, c, f
  <2> QED  BY <1>2, <2>3, <2>4, <2>5, <2>6, <2>7, <2>8 DEF IInv, Inv
<1> QED  BY <1>11, <1>12

-----------------------------------------------------------------------------
(* What a packet with a valid ack does to a connection that is online.      *)
LEMMA FeedEffect ==
  ASSUME NEW c, Fine(c), c.state = "ONLINE", NEW p \in Packet, AckIsValid(c, p.ack)
  PROVE  LET r == Feed(c, p)
         IN  /\ Fine(r.conn)
             /\ \A q \in r.out : /\ q \in Packet /\ q.chunks \in Seq(Queued(c.sent))
                                 /\ q.ack = c.ack /\ q.accepted = Len(c.got)
             /\ r.conn.sequence = c.sequence /\ r.conn.ack = c.ack
             /\ r.conn.unknownSeq = c.unknownSeq /\ r.conn.sent = c.sent
             /\ r.conn.got = c.got /\ r.conn.unsaved = c.unsaved
             /\ r.conn.peerAck = p.ack /\ r.conn.acked = p.accepted
             /\ r.conn.state \in {"ONLINE", "ERROR"}
             /\ r.conn.state = "ONLINE" => r.conn.buffer = AckChunks(c.buffer, p.ack)
<1> DEFINE S == Queued(c.sent)
           r == Feed(c, p)
<1>1. S \subseteq Chunk /\ WellFormed(c, S)
  BY FineIsWellFormed
<1> HIDE DEF S
<1>2. /\ WellFormed(r.conn, S) /\ FedChange(c, p, r.conn)
      /\ \A q \in r.out : /\ q \in Packet /\ q.chunks \in Seq(S)
                          /\ q.ack = c.ack /\ q.accepted = Len(c.got)
  BY <1>1, FeedWell
<1> HIDE DEF r
<1>3. Fine(r.conn)
  BY <1>2 DEF Fine, WellFormed, FedChange, S
<1> QED  BY <1>2, <1>3 DEF r, S, FedChange

(* How far the history counts of the two ends can be apart.                 *)
LEMMA Counts ==
  ASSUME IInv, NEW e \in Endpoint
  PROVE  LET c == conn[e]
             d == conn[Peer(e)]
         IN  /\ c.sent \in Nat /\ c.acked \in Nat /\ Len(c.got) \in Nat
             /\ d.sent \in Nat /\ Len(d.got) \in Nat
             /\ c.acked <= Len(d.got) /\ Len(d.got) <= c.sent
             /\ Len(c.got) <= d.sent
             /\ c.sent - c.acked <= MaxOutstanding
             /\ MaxOutstanding \in Nat /\ MaxSequence \in Nat \ {0}
             /\ \E h \in Nat : /\ h = MaxSequence \div 2 /\ h < MaxSequence
                               /\ MaxOutstanding < h
<1>1. Peer(e) \in Endpoint /\ Peer(Peer(e)) = e
  BY PeerFacts
<1>2. conn[e] \in Connection /\ conn[Peer(e)] \in Connection
  BY <1>1 DEF IInv, TypeOK
<1>3. /\ conn[e].sent \in Nat /\ conn[e].acked \in Nat /\ Len(conn[e].got) \in Nat
      /\ conn[Peer(e)].sent \in Nat /\ Len(conn[Peer(e)].got) \in Nat
  BY <1>2, LenProperties DEF Connection
<1>4. Counters(e) /\ Counters(Peer(e))
  BY <1>1 DEF IInv
<1>5. MaxSequence \in Nat \ {0} /\ MaxOutstanding \in Nat
  BY SequenceAssumption, BoundsAssumption
<1>6. /\ MaxSequence \div 2 \in Nat /\ MaxSequence \div 2 < MaxSequence
      /\ MaxOutstanding < MaxSequence \div 2
  BY <1>5, WindowAssumption, SMT
<1> QED  BY <1>1, <1>3, <1>4, <1>5, <1>6 DEF Counters

(* Feed's verdict on an ack is exact within a packet's lifetime.            *)
LEMMA AckExact ==
  ASSUME IInv, NEW e \in Endpoint, conn[e].state = "ONLINE",
         NEW p \in net[e], WithinLifetime(e, p)
  PROVE  /\ p \in Packet /\ p.accepted \in Nat /\ p.ack = p.accepted % MaxSequence
         /\ p.accepted <= Len(conn[Peer(e)].got)
         /\ AckIsValid(conn[e], p.ack) <=> p.accepted >= conn[e].acked
<1> DEFINE c == conn[e]
           s == c.sent
           a == c.acked
           k == p.accepted
           g == Len(conn[Peer(e)].got)
<1>1. p \in Packet /\ k \in Nat /\ k <= g /\ p.ack = k % MaxSequence
  BY DEF IInv, TypeOK, InFlight, Packet
<1>2. /\ s \in Nat /\ a \in Nat /\ g \in Nat /\ a <= g /\ g <= s
      /\ s - a <= MaxOutstanding /\ MaxOutstanding \in Nat /\ MaxSequence \in Nat
      /\ MaxOutstanding < MaxSequence
  BY Counts
<1>3. c.sequence = s % MaxSequence /\ c.peerAck = a % MaxSequence
  BY DEF IInv, Counters
<1>4. s - k < MaxSequence
  BY DEF WithinLifetime
<1> HIDE DEF c, s, a, k, g
<1>5. a <= s /\ s - a < MaxSequence /\ k <= s
  BY <1>1, <1>2
<1>6. AckIsValid(c, k % MaxSequence) <=> k >= a
  BY <1>1, <1>2, <1>3, <1>4, <1>5, AckIsValidExact
<1> QED  BY <1>1, <1>6 DEF c, a, k, g

(* An ack pops none of the entries that its sender has not accepted.        *)
LEMMA AckChunksKeeps ==
  ASSUME IInv, NEW e \in Endpoint, NEW n \in Nat,
         n >= conn[e].acked, n <= conn[e].sent,
         NEW i \in DOMAIN conn[e].buffer, conn[e].buffer[i].data > n
  PROVE  LET b == AckChunks(conn[e].buffer, n % MaxSequence)
         IN  \E j \in DOMAIN b : b[j].data = conn[e].buffer[i].data
<1> DEFINE c == conn[e]
           S == Queued(c.sent)
           b == c.buffer
           t == AckChunks(b, n % MaxSequence)
           k == LeadingRun(b, n % MaxSequence)
           m == b[i].data
<1>1. c.sent \in Nat /\ c.acked \in Nat
  BY Counts
<1>2. b \in Seq(S) /\ S \subseteq Chunk
  BY <1>1, QueuedSubset DEF IInv, OwnChunks
<1>3. Len(b) \in Nat /\ DOMAIN b = 1 .. Len(b) /\ i \in 1 .. Len(b) /\ b[i] \in S
  BY <1>2, LenProperties, ElementOfSeq
<1>4. m \in 1 .. c.sent /\ b[i].sequence = m % MaxSequence
  BY <1>1, <1>3 DEF Queued, Garbage, Chunk
<1>5. /\ k \in 0 .. Len(b) /\ t \in Seq(S) /\ Len(t) = Len(b) - k
      /\ \A x \in 1 .. Len(b) - k : t[x] = b[k + x]
      /\ \A x \in 1 .. k : IsSeqInBackroom(b[x].sequence, n % MaxSequence)
  <2> HIDE DEF S, b
  <2> QED  BY <1>2, AckChunksSuffix, SMTT(60)
<1>6. PICK h \in Nat : /\ h = MaxSequence \div 2 /\ MaxOutstanding < h
                       /\ c.sent - c.acked <= MaxOutstanding /\ MaxOutstanding \in Nat
  BY Counts
<1> HIDE DEF k, t
<1>7. ~IsSeqInBackroom(b[i].sequence, n % MaxSequence)
  <2> DEFINE s == c.sent
             a == c.acked
  <2>1. /\ s \in Nat /\ a \in Nat /\ m \in 1 .. s /\ n \in Nat /\ n >= a /\ m > n
        /\ s - a <= MaxOutstanding /\ MaxOutstanding < h
    BY <1>1, <1>4, <1>6
  <2> DEFINE q == b[i].sequence
  <2>2. q = m % MaxSequence
    BY <1>4
  <2> HIDE DEF s, a, m, q
  <2>3. m \in Nat /\ n - m <= h /\ m - n < h /\ ~(m <= n)
    BY <1>6, <2>1
  <2>4. n - m <= MaxSequence \div 2 /\ m - n < MaxSequence \div 2
    BY <1>6, <2>3
  <2>5. ~IsSeqInBackroom(m % MaxSequence, n % MaxSequence)
    BY <2>3, <2>4, BackroomExact
  <2>6. ~IsSeqInBackroom(q, n % MaxSequence)
    BY <2>2, <2>5
  <2> QED  BY <2>6 DEF q
<1>8. i - k \in 1 .. Len(b) - k /\ k + (i - k) = i
  <2> HIDE DEF b
  <2>1. ~(i \in 1 .. k)
    BY <1>5, <1>7
  <2> QED  BY <1>3, <1>5, <2>1
<1>9. DOMAIN t = 1 .. Len(b) - k
  BY <1>5, LenProperties
<1>10. i - k \in DOMAIN t /\ t[i - k] = b[i]
  <2> HIDE DEF b
  <2> QED  BY <1>5, <1>8, <1>9
<1> QED  BY <1>10 DEF t

LEMMA ReceiveStep ==
  ASSUME IInv, NEW e \in Endpoint, NEW p \in net[e], NEW dup \in BOOLEAN,
         Receive(e, p, dup)
  PROVE  IInv'
<1> DEFINE c    == conn[e]
           f    == Peer(e)
           rest == IF dup THEN net ELSE [net EXCEPT ![e] = @ \ {p}]
           r    == Feed(c, p)
           d    == r.conn
           out  == r.out
<1>1. Fine(c) /\ c \in Connection
  BY FineConn DEF Fine
<1>2. /\ f \in Endpoint /\ f # e /\ Peer(f) = e
      /\ \A x \in Endpoint : x = e \/ x = f
  BY PeerFacts
<1>3. Counters(e) /\ OwnChunks(e) /\ Unpacking(e) /\ InFlight(e) /\ Retained(e)
  BY DEF IInv
<1>4. CASE c.state # "ONLINE"
  BY <1>4, QuietNetwork DEF Receive
<1>5. CASE c.state = "ONLINE" /\ ~AckIsValid(c, p.ack)
  <2>1. /\ conn' = [conn EXCEPT ![e] = d] /\ net' = Send(rest, f, out)
        /\ unpacker' = [unpacker EXCEPT ![e] = @]
    BY <1>5 DEF Receive, Apply, Feed
  <2>2. d = c /\ out = {}
    BY <1>5 DEF Feed
  <2>3. conn' = conn /\ unpacker' = unpacker
    BY <2>1, <2>2 DEF IInv, TypeOK
  <2>4. net' = rest
    <3>1. rest \in [Endpoint -> SUBSET Packet]
      BY DEF IInv, TypeOK
    <3> HIDE DEF rest
    <3> QED  BY <1>2, <2>1, <2>2, <3>1 DEF Send
  <2> QED  BY <2>3, <2>4, QuietNetwork
<1>6. CASE c.state = "ONLINE" /\ AckIsValid(c, p.ack)
  <2>1. /\ conn' = [conn EXCEPT ![e] = d] /\ net' = Send(rest, f, out)
        /\ unpacker' = [unpacker EXCEPT ![e] = IF r.start THEN p.chunks ELSE @]
        /\ WithinLifetime(e, p)
    BY <1>6 DEF Receive, Apply
  <2>2. /\ p \in Packet /\ p.accepted \in Nat /\ p.ack = p.accepted % MaxSequence
        /\ p.accepted <= Len(conn[f].got) /\ p.accepted >= c.acked
    BY <1>6, <2>1, AckExact
  <2>3. /\ Fine(d)
        /\ \A q \in out : /\ q \in Packet /\ q.chunks \in Seq(Queued(c.sent))
                          /\ q.ack = c.ack /\ q.accepted = Len(c.got)
        /\ d.sequence = c.sequence /\ d.ack = c.ack
        /\ d.unknownSeq = c.unknownSeq /\ d.sent = c.sent
        /\ d.got = c.got /\ d.unsaved = c.unsaved
        /\ d.peerAck = p.ack /\ d.acked = p.accepted
        /\ d.state \in {"ONLINE", "ERROR"}
        /\ d.state = "ONLINE" => d.buffer = AckChunks(c.buffer, p.ack)
    <3> HIDE DEF c
    <3> QED  BY <1>1, <1>6, <2>2, FeedEffect
  <2> DEFINE u == IF r.start THEN p.chunks ELSE unpacker[e]
  <2>4. unpacker' = [unpacker EXCEPT ![e] = u]
    BY <2>1
  <2>5. u = p.chunks \/ u = unpacker[e]
    OBVIOUS
  <2> HIDE DEF r, d, out, u
  <2>6. /\ rest \in [Endpoint -> SUBSET Packet]
        /\ rest[f] = net[f] /\ rest[e] \subseteq net[e]
    BY <1>2 DEF IInv, TypeOK
  <2> HIDE DEF rest
  <2>7. /\ unpacker' \in [Endpoint -> Seq(Chunk)]
        /\ unpacker'[e] = u /\ unpacker'[f] = unpacker[f]
    <3>1. unpacker \in [Endpoint -> Seq(Chunk)] /\ p.chunks \in Seq(Chunk)
      BY <2>2 DEF IInv, TypeOK, Packet
    <3> QED  BY <1>2, <2>4, <2>5, <3>1
  <2>8. /\ TypeOK' /\ conn'[e] = d /\ conn'[f] = conn[f]
        /\ net'[e] \subseteq net[e] /\ net'[f] \subseteq net[f] \cup out
    <3>1. out \in SUBSET Packet /\ d \in Connection
      BY <2>3 DEF Fine
    <3>2. net' = Send(rest, f, out) /\ conn' = [conn EXCEPT ![e] = d]
      BY <2>1
    <3> HIDE DEF f, c
    <3>3. /\ net' \in [Endpoint -> SUBSET Packet]
          /\ net'[e] = rest[e] /\ net'[f] \subseteq rest[f] \cup out
      BY <1>2, <2>6, <3>1, <3>2, SendSubset
    <3>4. /\ conn' \in [Endpoint -> Connection] /\ conn'[e] = d
          /\ \A x \in Endpoint : x # e => conn'[x] = conn[x]
      BY <3>1, <3>2 DEF IInv, TypeOK
    <3>5. \A x \in Endpoint : /\ Len(conn'[x].construct.chunks) <= PacketCap
                              /\ Len(conn'[x].buffer) <= BufferCap
      BY <2>3, <3>4 DEF IInv, TypeOK, Fine
    <3> QED  BY <1>2, <2>6, <2>7, <3>3, <3>4, <3>5 DEF TypeOK
  <2>9. /\ c.sent \in Nat /\ c.acked \in Nat /\ Len(c.got) \in Nat
        /\ conn[f].sent \in Nat /\ Len(conn[f].got) \in Nat
        /\ Len(conn[f].got) <= c.sent /\ Len(c.got) <= conn[f].sent
        /\ c.sent - c.acked <= MaxOutstanding /\ MaxOutstanding \in Nat
        /\ MaxSequence \in Nat
    BY Counts
  <2>10. Inv(f)'
    <3>1. conn'[e].sent >= conn[e].sent /\ Len(conn'[e].got) >= Len(conn[e].got)
      BY <2>3, <2>8, <2>9
    <3>2. c.ack = Len(c.got) % MaxSequence
      BY <1>3, <1>6 DEF Counters
    <3>3. \A q \in out : /\ q.chunks \in Seq(Queued(conn'[e].sent))
                         /\ q.accepted <= Len(conn'[e].got)
                         /\ q.ack = q.accepted % MaxSequence
      <4> SUFFICES ASSUME NEW q \in out
                   PROVE  /\ q.chunks \in Seq(Queued(conn'[e].sent))
                          /\ q.accepted <= Len(conn'[e].got)
                          /\ q.ack = q.accepted % MaxSequence
        OBVIOUS
      <4> HIDE DEF c
      <4>1. /\ q.chunks \in Seq(Queued(c.sent))
            /\ q.ack = c.ack /\ q.accepted = Len(c.got)
        BY <2>3
      <4>2. conn'[e].sent = c.sent /\ conn'[e].got = c.got
        BY <2>3, <2>8
      <4> QED  BY <2>9, <3>2, <4>1, <4>2
    <3> QED  BY <2>7, <2>8, <3>1, <3>3, PeerKeeps
  <2>11. Counters(e)'
    <3>1. /\ c.got = [i \in 1 .. Len(c.got) |-> i]
          /\ c.sequence = c.sent % MaxSequence
          /\ c.ack = Len(c.got) % MaxSequence /\ ~c.unknownSeq
      BY <1>3, <1>6 DEF Counters
    <3>2. d.sent - d.acked <= MaxOutstanding
      BY <2>2, <2>3, <2>9
    <3>3. /\ d.got = [i \in 1 .. Len(d.got) |-> i]
          /\ Len(d.got) <= conn'[Peer(e)].sent
          /\ d.acked <= Len(conn'[Peer(e)].got)
      BY <2>2, <2>3, <2>8, <2>9, <3>1
    <3>4. /\ d.sequence = d.sent % MaxSequence /\ d.peerAck = d.acked % MaxSequence
          /\ d.ack = Len(d.got) % MaxSequence /\ ~d.unknownSeq
      BY <2>2, <2>3, <3>1
    <3> QED  BY <2>8, <3>2, <3>3, <3>4 DEF Counters
  <2>12. OwnChunks(e)'
    BY <2>3, <2>8 DEF OwnChunks, Fine
  <2>13. Unpacking(e)'
    <3>1. CASE u = unpacker[e]
      BY <1>3, <2>3, <2>7, <2>8, <3>1 DEF Unpacking
    <3>2. CASE u = p.chunks
      <4> DEFINE s == conn[f].sent
                 g == Len(c.got)
      <4>1. p.chunks \in Seq(Queued(s))
        BY <1>3 DEF InFlight
      <4>2. \A i \in DOMAIN p.chunks : p.chunks[i].vital =>
               p.chunks[i].data \in 1 .. s
        BY <4>1, LenProperties, ElementOfSeq DEF Queued
      <4>3. \A i \in DOMAIN p.chunks : p.chunks[i].vital =>
               s - p.chunks[i].data < MaxSequence - 1
        BY <2>1 DEF WithinLifetime
      <4>4. g \in Nat /\ s \in Nat /\ g <= s /\ MaxSequence \in Nat
        BY <2>9
      <4> HIDE DEF s, g
      <4>5. \A i \in DOMAIN p.chunks : p.chunks[i].vital =>
              /\ g - p.chunks[i].data < MaxSequence - 1
              /\ \A j \in DOMAIN p.chunks : p.chunks[j].vital =>
                   p.chunks[j].data - p.chunks[i].data < MaxSequence - 1
        BY <4>2, <4>3, <4>4
      <4>6. unpacker'[e] \in Seq(Queued(conn'[Peer(e)].sent))
        BY <2>7, <2>8, <3>2, <4>1 DEF s
      <4>7. Len(conn'[e].got) = g /\ unpacker'[e] = p.chunks
        BY <2>3, <2>7, <2>8, <3>2 DEF g
      <4> QED  BY <4>5, <4>6, <4>7 DEF Unpacking
    <3> QED  BY <2>5, <3>1, <3>2
  <2>14. InFlight(e)'
    BY <1>3, <2>8 DEF InFlight
  <2>15. Retained(e)'
    <3> SUFFICES ASSUME d.state = "ONLINE", NEW k \in d.acked + 1 .. d.sent
                 PROVE  \/ k \in d.unsaved
                        \/ \E i \in DOMAIN d.buffer : d.buffer[i].data = k
      BY <2>8 DEF Retained
    <3> DEFINE n == p.accepted
    <3>1. /\ k \in c.acked + 1 .. c.sent /\ k > n
          /\ n \in Nat /\ n >= c.acked /\ n <= c.sent
      BY <2>2, <2>3, <2>9, SMTT(60)
    <3>2. \/ k \in c.unsaved
          \/ \E i \in DOMAIN c.buffer : c.buffer[i].data = k
      BY <1>3, <1>6, <3>1 DEF Retained
    <3>3. ASSUME NEW i \in DOMAIN c.buffer, c.buffer[i].data = k
          PROVE  \E j \in DOMAIN d.buffer : d.buffer[j].data = k
      <4>1. d.buffer = AckChunks(c.buffer, n % MaxSequence)
        BY <2>2, <2>3
      <4> HIDE DEF n
      <4>2. c.buffer[i].data > n
        BY <3>1, <3>3
      <4>3. LET b == AckChunks(c.buffer, n % MaxSequence)
            IN  \E j \in DOMAIN b : b[j].data = c.buffer[i].data
        BY <3>1, <4>2, AckChunksKeeps
      <4> QED  BY <3>3, <4>1, <4>3
    <3> QED  BY <2>3, <3>2, <3>3
  <2> QED  BY <1>2, <2>8, <2>10, <2>11, <2>12, <2>13, <2>14, <2>15 DEF IInv, Inv
<1> QED  BY <1>4, <1>5, <1>6

-----------------------------------------------------------------------------
LEMMA InitIInv == Init => IInv
<1> SUFFICES ASSUME Init  PROVE IInv
  OBVIOUS
<1>1. /\ <<>> \in Seq(Chunk) /\ <<>> \in Seq(Nat) /\ <<>> \in Seq(Queued(0))
      /\ Len(<<>>) = 0 /\ DOMAIN <<>> = {}
  BY EmptySeq
<1>2. MaxSequence \in Nat \ {0} /\ 0 % MaxSequence = 0 /\ 0 \in SeqNumbers
  BY SequenceAssumption, SMT DEF SeqNumbers
<1>3. \A e \in Endpoint : /\ conn[e] = OnlineConnection
                          /\ unpacker[e] = <<>> /\ net[e] = {}
  BY DEF Init
<1> DEFINE o == OnlineConnection
<1>4. /\ o \in Connection /\ o.sent = 0 /\ o.acked = 0 /\ o.got = <<>>
      /\ o.sequence = 0 /\ o.ack = 0 /\ o.peerAck = 0 /\ o.unknownSeq = FALSE
      /\ o.buffer = <<>> /\ o.construct.chunks = <<>> /\ o.unsaved = {}
  BY <1>1, <1>2 DEF OnlineConnection, Connection, NoChunks
<1>5. TypeOK
  BY <1>1, <1>3, <1>4, CapacityAssumption DEF Init, TypeOK
<1>6. ASSUME NEW e \in Endpoint
      PROVE  Counters(e) /\ OwnChunks(e) /\ Unpacking(e) /\ InFlight(e) /\ Retained(e)
  <2>1. conn[e] = o /\ conn[Peer(e)] = o /\ unpacker[e] = <<>> /\ net[e] = {}
    BY <1>3, PeerFacts
  <2> HIDE DEF o
  <2>2. o.got = [i \in 1 .. Len(o.got) |-> i]
    <3>1. o.got \in Seq(Nat) /\ Len(o.got) = 0
      BY <1>1, <1>4
    <3> DEFINE s == o.got
    <3> HIDE DEF s
    <3>2. s \in Seq(Nat) /\ Len(s) = 0
      BY <3>1 DEF s
    <3>3. s = [i \in 1 .. Len(s) |-> s[i]]
      BY <3>2, LenProperties
    <3>4. s = [i \in 1 .. Len(s) |-> i]
      BY <3>2, <3>3
    <3> QED  BY <3>4 DEF s
  <2>3. Counters(e)
    <3>1. MaxOutstanding \in Nat
      BY BoundsAssumption
    <3>2. Len(o.got) = 0
      BY <1>1, <1>4
    <3> DEFINE g == o.got
    <3>3. Len(g) = 0 /\ g = [i \in 1 .. Len(g) |-> i] /\ g = o.got
      BY <2>2, <3>2
    <3> HIDE DEF g
    <3>4. o.sent - o.acked <= MaxOutstanding /\ Len(g) <= o.sent /\ o.acked <= Len(g)
      BY <1>4, <3>1, <3>3
    <3>5. /\ o.sequence = o.sent % MaxSequence /\ o.peerAck = o.acked % MaxSequence
          /\ o.ack = Len(g) % MaxSequence /\ ~o.unknownSeq
      BY <1>2, <1>4, <3>3
    <3>6. conn[e].got = [i \in 1 .. Len(conn[e].got) |-> i]
      BY <2>1, <2>2, Zenon
    <3>7. /\ conn[e].sent - conn[e].acked <= MaxOutstanding
          /\ Len(conn[e].got) <= conn[Peer(e)].sent
          /\ conn[e].acked <= Len(conn[Peer(e)].got)
      BY <2>1, <3>3, <3>4
    <3>8. /\ conn[e].sequence = conn[e].sent % MaxSequence
          /\ conn[e].peerAck = conn[e].acked % MaxSequence
          /\ conn[e].ack = Len(conn[e].got) % MaxSequence /\ ~conn[e].unknownSeq
      BY <2>1, <3>3, <3>5
    <3> QED  BY <3>6, <3>7, <3>8 DEF Counters
  <2>4. OwnChunks(e) /\ Retained(e)
    <3>1. conn[e].acked + 1 .. conn[e].sent = {}
      BY <1>4, <2>1
    <3>2. Retained(e)
      BY <3>1 DEF Retained
    <3>3. /\ conn[e].construct.chunks = <<>> /\ conn[e].buffer = <<>>
          /\ conn[e].sent = 0
      BY <1>4, <2>1
    <3>4. OwnChunks(e)
      BY <1>1, <3>3 DEF OwnChunks
    <3> QED  BY <3>2, <3>4
  <2>5. Unpacking(e) /\ InFlight(e)
    BY <1>1, <1>4, <2>1 DEF Unpacking, InFlight
  <2> QED  BY <2>3, <2>4, <2>5
<1> QED  BY <1>5, <1>6 DEF IInv

LEMMA NextIInv == IInv /\ [Next]_vars => IInv'
<1> SUFFICES ASSUME IInv, [Next]_vars  PROVE IInv'
  OBVIOUS
<1>1. ASSUME NEW e \in Endpoint, NEW vital \in Vitality[e], QueueChunkAt(e, vital)
      PROVE  IInv'
  BY <1>1, QueueChunkStep, BoundsAssumption
<1>2. ASSUME NEW e \in Endpoint, FlushAt(e)  PROVE IInv'
  BY <1>2, FlushStep
<1>3. ASSUME NEW e \in Endpoint, NEW p \in net[e], NEW dup \in BOOLEAN, Receive(e, p, dup)
      PROVE  IInv'
  BY <1>3, ReceiveStep
<1>4. ASSUME NEW e \in Endpoint, FetchChunkAt(e)  PROVE IInv'
  BY <1>4, FetchChunkStep
<1>5. ASSUME NEW e \in Endpoint, NEW due \in SUBSET Expiring, UpdateAt(e, due)
      PROVE  IInv'
  BY <1>5, UpdateStep
<1>6. ASSUME NEW e \in Endpoint, DisconnectAt(e)  PROVE IInv'
  BY <1>6, DisconnectStep
<1>7. ASSUME NEW e \in Endpoint, NEW p \in net[e], Lose(e, p)  PROVE IInv'
  BY <1>7, LoseStep
<1>8. CASE UNCHANGED vars
  <2>1. conn' = conn /\ unpacker' = unpacker /\ net' = net /\ "client" \in Endpoint
    BY <1>8 DEF vars, Endpoint
  <2> QED  BY <2>1, QuietNetwork
<1> QED  BY <1>1, <1>2, <1>3, <1>4, <1>5, <1>6, <1>7, <1>8 DEF Next

(* IInv holds in every reachable state, whatever the sizes.                 *)
THEOREM Invariance == Spec => []IInv
BY InitIInv, NextIInv, PTL DEF Spec

(* Every variable keeps its type, the construct fits one packet and the     *)
(* resend buffer fits its ring.                                             *)
THEOREM TypeCorrectness == Spec => []TypeOK
<1>1. IInv => TypeOK
  BY DEF IInv
<1> QED  BY <1>1, Invariance, PTL

(* Until an end lets go of its connection, chunks are handed up to it in    *)
(* the order they were queued, each once, over a network that loses,        *)
(* duplicates and reorders packets.                                         *)
THEOREM Delivery == Spec => []InOrderDelivery
<1>1. IInv => InOrderDelivery
  BY DEF IInv, Counters, InOrderDelivery
<1> QED  BY <1>1, Invariance, PTL

(* No saved chunk leaves the resend buffer before the peer accepted it.     *)
THEOREM Retention == Spec => []SavedUntilAccepted
<1>1. ASSUME IInv  PROVE SavedUntilAccepted
  <2> SUFFICES ASSUME NEW e \in Endpoint, conn[e].state = "ONLINE",
                      NEW k \in Len(conn[Peer(e)].got) + 1 .. conn[e].sent
               PROVE  \/ k \in conn[e].unsaved
                      \/ \E i \in DOMAIN conn[e].buffer : conn[e].buffer[i].data = k
    BY DEF SavedUntilAccepted
  <2>1. /\ conn[e].sent \in Nat /\ conn[e].acked \in Nat
        /\ Len(conn[Peer(e)].got) \in Nat /\ conn[e].acked <= Len(conn[Peer(e)].got)
    BY <1>1, Counts
  <2>2. k \in conn[e].acked + 1 .. conn[e].sent
    BY <2>1
  <2> QED  BY <1>1, <2>2 DEF IInv, Retained
<1> QED  BY <1>1, Invariance, PTL

(* Feed drops the packets that a later one has overtaken, and only those.   *)
THEOREM AckExactness == Spec => []AckVerdicts
<1>1. ASSUME IInv  PROVE AckVerdicts
  BY <1>1, AckExact DEF AckVerdicts
<1> QED  BY <1>1, Invariance, PTL

(* The unpacker accepts the next chunk and only that, and never mistakes a  *)
(* chunk beyond a gap for an old one.                                       *)
THEOREM ChunkExactness == Spec => []ChunkVerdicts
<1>1. ASSUME IInv  PROVE ChunkVerdicts
  <2> SUFFICES ASSUME NEW e \in Endpoint, conn[e].state # "OFFLINE",
                      NEW i \in DOMAIN unpacker[e], unpacker[e][i].vital
               PROVE  LET next == Len(conn[e].got) + 1
                          ch   == unpacker[e][i]
                      IN  /\ IsNext(conn[e], ch) <=> ch.data = next
                          /\ ch.data > next => ~IsSeqInBackroom(ch.sequence, conn[e].ack)
    BY DEF ChunkVerdicts
  <2>1. unpacker[e][i] \in Queued(conn[Peer(e)].sent)
    BY <1>1, LenProperties, ElementOfSeq DEF IInv, Unpacking
  <2>2. Len(conn[e].got) - unpacker[e][i].data < MaxSequence - 1
    BY <1>1 DEF IInv, Unpacking
  <2> QED  BY <1>1, <2>1, <2>2, NextExact
<1> QED  BY <1>1, Invariance, PTL

-----------------------------------------------------------------------------
(* No chunk is left to unpack on a connection in error.                     *)
Quiescent ==
    \A e \in Endpoint : conn[e].state = "ERROR" => unpacker[e] = <<>>

(* What a step of the connection at e does to the streams: it queues a      *)
(* chunk, hands up the next one of its peer, or does neither.               *)
Streams(e) ==
    /\ conn' = [conn EXCEPT ![e] = conn'[e]]
    /\ \/ /\ conn'[e].got = conn[e].got
          /\ conn'[e].sent \in {conn[e].sent, conn[e].sent + 1}
       \/ /\ conn[e].state # "ERROR"
          /\ conn'[e].sent = conn[e].sent
          /\ Len(conn[e].got) < conn[Peer(e)].sent
          /\ conn'[e].got = Append(conn[e].got, Len(conn[e].got) + 1)
    /\ conn[e].state = "ERROR" => conn'[e].state \in {"ERROR", "OFFLINE"}
    /\ unpacker' = [unpacker EXCEPT ![e] = unpacker'[e]]
    /\ conn'[e].state = "ERROR" => unpacker'[e] = <<>>

-----------------------------------------------------------------------------
(* The steps that leave the unpacker alone: what they owe.                  *)
LEMMA StreamsOf ==
  ASSUME IInv, Quiescent, NEW e \in Endpoint, NEW d,
         conn' = [conn EXCEPT ![e] = d], unpacker' = unpacker,
         d.got = conn[e].got, d.sent \in {conn[e].sent, conn[e].sent + 1},
         conn[e].state = "ERROR" => d.state \in {"ERROR", "OFFLINE"},
         d.state = "ERROR" => conn[e].state = "ERROR" \/ unpacker[e] = <<>>
  PROVE  Streams(e)
<1>1. conn \in [Endpoint -> Connection] /\ unpacker \in [Endpoint -> Seq(Chunk)]
  BY DEF IInv, TypeOK
<1>2. conn'[e] = d /\ unpacker'[e] = unpacker[e]
  BY <1>1
<1>3. unpacker' = [unpacker EXCEPT ![e] = unpacker'[e]]
  BY <1>1, <1>2
<1> QED  BY <1>2, <1>3 DEF Streams, Quiescent

LEMMA QueueChunkStreams ==
  ASSUME IInv, Quiescent, NEW e \in Endpoint, NEW vital \in BOOLEAN,
         QueueChunkAt(e, vital)
  PROVE  Streams(e)
<1> DEFINE c == conn[e]
           r == QueueChunk(c, vital)
           d == r.conn
<1>1. Fine(c) /\ c \in Connection /\ c.sent \in Nat /\ c.sequence \in SeqNumbers
  BY FineConn DEF Fine, Connection
<1>2. conn' = [conn EXCEPT ![e] = d] /\ unpacker' = unpacker
  BY DEF QueueChunkAt, Apply
<1>3. c.state = "ONLINE" => c.sequence = c.sent % MaxSequence
  BY DEF IInv, Counters
<1> SUFFICES d.got = c.got /\ d.sent \in {c.sent, c.sent + 1} /\ d.state = c.state
  <2> HIDE DEF d
  <2> QED  BY <1>2, StreamsOf
<1> HIDE DEF c
<1>4. CASE ~vital
  <2>1. r = QueueChunkEx(c, <<PlainChunk(c.sequence)>>)
    BY <1>4 DEF QueueChunk
  <2>2. PlainChunk(c.sequence) \in Queued(c.sent)
    BY <1>1 DEF PlainChunk, Queued, Chunk, Garbage
  <2>3. <<PlainChunk(c.sequence)>> \in Seq(Queued(c.sent))
    BY <2>2
  <2>4. d = [c EXCEPT !.construct = d.construct]
    <3> DEFINE q == QueueChunkEx(c, <<PlainChunk(c.sequence)>>)
    <3>1. q.conn = [c EXCEPT !.construct = q.conn.construct]
      BY <1>1, <2>3, QueueChunkExFine
    <3> HIDE DEF q, r
    <3>2. r = q
      BY <2>1 DEF q
    <3> QED  BY <3>1, <3>2
  <2> HIDE DEF d
  <2> QED  BY <1>1, <2>4 DEF Connection
<1>5. CASE vital /\ c.state # "ONLINE"
  BY <1>1, <1>5 DEF QueueChunk, Connection
<1>6. CASE vital /\ c.state = "ONLINE"
  <2> DEFINE c1 == Save(c, NextChunk(c))
  <2>1. r = QueueChunkEx(c1, <<NextChunk(c)>>)
    BY <1>6 DEF QueueChunk
  <2>2. /\ Fine(c1) /\ NextChunk(c) \in Queued(c.sent + 1)
        /\ c1.state = c.state /\ c1.got = c.got /\ c1.sent = c.sent + 1
    BY <1>1, <1>3, <1>6, SaveFine
  <2> HIDE DEF c1
  <2>3. <<NextChunk(c)>> \in Seq(Queued(c1.sent))
    BY <2>2
  <2>4. d = [c1 EXCEPT !.construct = d.construct]
    <3> DEFINE q == QueueChunkEx(c1, <<NextChunk(c)>>)
    <3>1. q.conn = [c1 EXCEPT !.construct = q.conn.construct]
      BY <2>2, <2>3, QueueChunkExFine
    <3> HIDE DEF q, r
    <3>2. r = q
      BY <2>1 DEF q
    <3> QED  BY <3>1, <3>2
  <2> HIDE DEF d
  <2>5. d.got = c1.got /\ d.sent = c1.sent /\ d.state = c1.state
    BY <2>2, <2>4 DEF Fine, Connection
  <2> QED  BY <2>2, <2>5
<1> QED  BY <1>4, <1>5, <1>6

LEMMA FlushStreams ==
  ASSUME IInv, Quiescent, NEW e \in Endpoint, FlushAt(e)
  PROVE  Streams(e)
<1> DEFINE c == conn[e]
           d == Flush(c).conn
<1>1. Fine(c) /\ c \in Connection
  BY FineConn DEF Fine
<1>2. conn' = [conn EXCEPT ![e] = d] /\ unpacker' = unpacker /\ c.state # "OFFLINE"
  BY DEF FlushAt, Apply
<1>3. d.got = c.got /\ d.sent = c.sent /\ d.state = c.state
  <2> HIDE DEF c
  <2>1. d = [c EXCEPT !.construct = d.construct]
    BY <1>1, <1>2, FlushFine
  <2> HIDE DEF d
  <2> QED  BY <1>1, <2>1 DEF Connection
<1> HIDE DEF d
<1> QED  BY <1>2, <1>3, StreamsOf

LEMMA UpdateStreams ==
  ASSUME IInv, Quiescent, NEW e \in Endpoint, NEW due, UpdateAt(e, due)
  PROVE  Streams(e)
<1> DEFINE c == conn[e]
           u == Update(c, due)
           r == LetGo(u, e \in Protected)
           d == r.conn
<1>1. Fine(c) /\ c.state \in {"ONLINE", "ERROR", "OFFLINE"}
  BY FineConn DEF Fine, Connection
<1>2. conn' = [conn EXCEPT ![e] = d] /\ unpacker' = unpacker /\ unpacker[e] = <<>>
  BY DEF UpdateAt, Apply
<1>3. /\ d.got = c.got /\ d.sent = c.sent
      /\ c.state = "ERROR" => d.state \in {"ERROR", "OFFLINE"}
  <2> HIDE DEF c
  <2>1. /\ Fine(u.conn) /\ QuietChange(c, u.conn) /\ u.conn.state \in {c.state, "ERROR"}
    BY <1>1, UpdateFine
  <2>2. u.conn.got = c.got /\ u.conn.sent = c.sent
    BY <2>1 DEF QuietChange
  <2>3. /\ Disconnect(u.conn).conn.state = "OFFLINE"
        /\ Disconnect(u.conn).conn.got = u.conn.got
        /\ Disconnect(u.conn).conn.sent = u.conn.sent
    <3> HIDE DEF u
    <3> QED  BY <2>1, DisconnectFine
  <2>4. d = u.conn \/ d = Disconnect(u.conn).conn
    BY DEF LetGo
  <2> HIDE DEF u, d
  <2> QED  BY <2>1, <2>2, <2>3, <2>4
<1> HIDE DEF d
<1> QED  BY <1>2, <1>3, StreamsOf

LEMMA DisconnectStreams ==
  ASSUME IInv, Quiescent, NEW e \in Endpoint, DisconnectAt(e)
  PROVE  Streams(e)
<1> DEFINE c == conn[e]
           d == Disconnect(c).conn
<1>1. Fine(c)
  BY FineConn
<1>2. conn' = [conn EXCEPT ![e] = d] /\ unpacker' = unpacker
  BY DEF DisconnectAt, Apply
<1>3. d.got = c.got /\ d.sent = c.sent /\ d.state = "OFFLINE"
  <2> HIDE DEF c
  <2> QED  BY <1>1, DisconnectFine
<1> HIDE DEF d
<1> QED  BY <1>2, <1>3, StreamsOf

(* A step that leaves connections and unpackers alone.                      *)
LEMMA StillStreams ==
  ASSUME IInv, Quiescent, NEW e \in Endpoint, conn' = conn, unpacker' = unpacker
  PROVE  Streams(e)
<1> DEFINE d == conn[e]
<1>1. conn' = [conn EXCEPT ![e] = d] /\ d.state = conn[e].state
      /\ d.got = conn[e].got /\ d.sent = conn[e].sent
  BY DEF IInv, TypeOK
<1>2. d.state \in {"ONLINE", "ERROR", "OFFLINE"}
  BY DEF IInv, TypeOK, Connection
<1> HIDE DEF d
<1> QED  BY <1>1, <1>2, StreamsOf

LEMMA ReceiveStreams ==
  ASSUME IInv, Quiescent, NEW e \in Endpoint, NEW p \in net[e], NEW dup \in BOOLEAN,
         Receive(e, p, dup)
  PROVE  Streams(e)
<1> DEFINE c == conn[e]
           r == Feed(c, p)
           d == r.conn
           u == IF r.start THEN p.chunks ELSE unpacker[e]
<1>1. Fine(c) /\ c \in Connection
  BY FineConn DEF Fine
<1>2. conn \in [Endpoint -> Connection] /\ unpacker \in [Endpoint -> Seq(Chunk)]
  BY DEF IInv, TypeOK
<1>3. CASE c.state # "ONLINE"
  BY <1>3, StillStreams DEF Receive
<1>4. CASE c.state = "ONLINE"
  <2>1. /\ conn' = [conn EXCEPT ![e] = d]
        /\ unpacker' = [unpacker EXCEPT ![e] = u] /\ unpacker[e] = <<>>
    BY <1>4 DEF Receive, Apply
  <2>2. conn'[e] = d /\ unpacker'[e] = u
    BY <1>2, <2>1
  <2>3. /\ d.got = c.got /\ d.sent = c.sent
        /\ d.state = "ERROR" => u = <<>>
    <3>1. CASE ~AckIsValid(c, p.ack)
      BY <1>4, <2>1, <3>1 DEF Feed
    <3>2. CASE AckIsValid(c, p.ack)
      <4>1. p \in Packet
        BY DEF IInv, TypeOK
      <4>2. d.got = c.got /\ d.sent = c.sent
        <5> HIDE DEF c
        <5> QED  BY <1>1, <1>4, <3>2, <4>1, FeedEffect
      <4>3. CASE p.ctrl = "close"
        <5>1. ~r.start
          BY <3>2, <4>3 DEF Feed
        <5> QED  BY <2>1, <4>2, <5>1
      <4>4. CASE p.ctrl # "close"
        <5> DEFINE c1 == TakeAck(c, p)
                   s  == Resend(c1, p)
        <5>1. s.conn \in Connection /\ s.conn.state = "ONLINE"
          <6>1. c1 \in Connection /\ Fine(c1) /\ c1.state = "ONLINE"
            BY <1>1, <1>4, <4>1 DEF TakeAck, Fine, Connection, Packet
          <6> HIDE DEF c1
          <6>2. CASE ~p.resend
            BY <6>1, <6>2 DEF Resend
          <6>3. CASE p.resend
            <7>1. s.conn = [c1 EXCEPT !.construct = s.conn.construct] /\ Fine(s.conn)
              BY <6>1, <6>3, QueueChunkExFine DEF Resend, Fine
            <7> HIDE DEF s
            <7> QED  BY <6>1, <7>1 DEF Fine, Connection
          <6> QED  BY <6>2, <6>3
        <5>2. d = [s.conn EXCEPT !.buffer = AckChunks(@, p.ack)]
          BY <3>2, <4>4, <5>1 DEF Feed
        <5> HIDE DEF s, d
        <5>3. d.state = "ONLINE"
          BY <5>1, <5>2 DEF Connection
        <5> QED  BY <4>2, <5>3
      <4> QED  BY <4>3, <4>4
    <3> QED  BY <3>1, <3>2
  <2> HIDE DEF d, u
  <2> QED  BY <1>4, <2>1, <2>2, <2>3 DEF Streams
<1> QED  BY <1>3, <1>4

LEMMA FetchChunkStreams ==
  ASSUME IInv, Quiescent, NEW e \in Endpoint, FetchChunkAt(e)
  PROVE  Streams(e)
<1> DEFINE c  == conn[e]
           u  == unpacker[e]
           ch == Head(u)
           d  == FetchChunk(c, ch)
           s  == conn[Peer(e)].sent
<1>1. c \in Connection /\ conn \in [Endpoint -> Connection]
      /\ unpacker \in [Endpoint -> Seq(Chunk)]
  BY DEF IInv, TypeOK
<1>2. /\ u # <<>> /\ conn' = [conn EXCEPT ![e] = d]
      /\ unpacker' = [unpacker EXCEPT ![e] = Tail(u)]
  BY DEF FetchChunkAt
<1>3. conn'[e] = d /\ c.state # "ERROR"
  BY <1>1, <1>2 DEF Quiescent
<1>4. u \in Seq(Queued(s))
  BY DEF IInv, Unpacking
<1>5. ch = u[1] /\ 1 \in DOMAIN u /\ ch \in Queued(s)
  <2>1. Len(u) \in Nat \ {0} /\ DOMAIN u = 1 .. Len(u)
    BY <1>2, <1>4, EmptySeq, LenProperties
  <2>2. ch \in Queued(s)
    <3> HIDE DEF u, s
    <3> QED  BY <1>2, <1>4, HeadTailProperties
  <2>3. ch = u[1]
    BY <1>2
  <2> QED  BY <2>1, <2>2, <2>3
<1>6. ch.vital => Len(c.got) - ch.data < MaxSequence - 1
  BY <1>5 DEF IInv, Unpacking
<1>7. ch.vital => ch.data \in 1 .. s
  BY <1>5 DEF Queued
<1>8. Len(c.got) \in Nat /\ s \in Nat
  BY Counts
<1>9. FetchChange(c, ch, d)
  <2>1. WellFormed(c, Chunk) /\ Chunk \subseteq Chunk /\ ch \in Chunk
    BY <1>5 DEF IInv, TypeOK, WellFormed, Connection, Queued
  <2> HIDE DEF c, ch
  <2> QED  BY <2>1, FetchChunkWell
<1>10. CASE c.state = "ONLINE" /\ ch.vital /\ IsNext(c, ch)
  <2>1. ch.data = Len(c.got) + 1
    <3> HIDE DEF ch
    <3> QED  BY <1>5, <1>6, <1>10, NextExact
  <2>3. d.sent = c.sent /\ d.got = Append(c.got, Len(c.got) + 1) /\ d.state = c.state
    <3> HIDE DEF ch, c, d
    <3> QED  BY <1>10, <1>9, <2>1 DEF FetchChange
  <2>4. Len(c.got) < s
    BY <1>7, <1>8, <1>10, <2>1
  <2> HIDE DEF d
  <2> QED  BY <1>1, <1>2, <1>3, <1>10, <2>3, <2>4 DEF Streams
<1>11. CASE ~(c.state = "ONLINE" /\ ch.vital /\ IsNext(c, ch))
  <2>1. c.state \in {"ONLINE", "OFFLINE"}
    BY <1>1, <1>3 DEF Connection
  <2>2. d.sent = c.sent /\ d.got = c.got /\ d.state = c.state
    <3> HIDE DEF c, ch, d
    <3> QED  BY <1>11, <1>9, <2>1 DEF FetchChange
  <2> HIDE DEF d
  <2> QED  BY <1>1, <1>2, <1>3, <2>1, <2>2 DEF Streams
<1> QED  BY <1>10, <1>11

LEMMA NextStreams ==
  ASSUME IInv, Quiescent, [Next]_vars
  PROVE  \E e \in Endpoint : Streams(e)
<1>1. ASSUME NEW e \in Endpoint, NEW vital \in Vitality[e], QueueChunkAt(e, vital)
      PROVE  Streams(e)
  BY <1>1, QueueChunkStreams, BoundsAssumption
<1>2. ASSUME NEW e \in Endpoint, FlushAt(e)  PROVE Streams(e)
  BY <1>2, FlushStreams
<1>3. ASSUME NEW e \in Endpoint, NEW p \in net[e], NEW dup \in BOOLEAN, Receive(e, p, dup)
      PROVE  Streams(e)
  BY <1>3, ReceiveStreams
<1>4. ASSUME NEW e \in Endpoint, FetchChunkAt(e)  PROVE Streams(e)
  BY <1>4, FetchChunkStreams
<1>5. ASSUME NEW e \in Endpoint, NEW due \in SUBSET Expiring, UpdateAt(e, due)
      PROVE  Streams(e)
  BY <1>5, UpdateStreams
<1>6. ASSUME NEW e \in Endpoint, DisconnectAt(e)  PROVE Streams(e)
  BY <1>6, DisconnectStreams
<1>7. ASSUME NEW e \in Endpoint, NEW p \in net[e], Lose(e, p)  PROVE Streams(e)
  BY <1>7, StillStreams DEF Lose
<1>8. CASE UNCHANGED vars
  <2>1. conn' = conn /\ unpacker' = unpacker /\ "client" \in Endpoint
    BY <1>8 DEF vars, Endpoint
  <2> QED  BY <2>1, StillStreams
<1> QED  BY <1>1, <1>2, <1>3, <1>4, <1>5, <1>6, <1>7, <1>8 DEF Next

-----------------------------------------------------------------------------
(* Streams, seen from either end.                                           *)
LEMMA StreamsEnds ==
  ASSUME IInv, Quiescent, NEW e \in Endpoint, Streams(e)
  PROVE  /\ \A x \in Endpoint : x # e => conn'[x] = conn[x] /\ unpacker'[x] = unpacker[x]
         /\ Quiescent'
<1>1. conn \in [Endpoint -> Connection] /\ unpacker \in [Endpoint -> Seq(Chunk)]
  BY DEF IInv, TypeOK
<1>2. \A x \in Endpoint : x # e => conn'[x] = conn[x] /\ unpacker'[x] = unpacker[x]
  BY <1>1 DEF Streams
<1> QED  BY <1>2 DEF Streams, Quiescent

LEMMA QuiescentAlways == Spec => []Quiescent
<1>1. Init => Quiescent
  BY DEF Init, Quiescent
<1>2. IInv /\ Quiescent /\ [Next]_vars => Quiescent'
  BY NextStreams, StreamsEnds
<1> QED  BY <1>1, <1>2, Invariance, PTL DEF Spec

(* An end in error hands up nothing more and is only ever reset (ErrorIsFinal). *)
THEOREM Finality == Spec => ErrorIsFinal
<1> DEFINE A == \A e \in Endpoint : conn[e].state = "ERROR" =>
                  /\ conn'[e].state \in {"ERROR", "OFFLINE"}
                  /\ conn'[e].got = conn[e].got
<1>1. IInv /\ Quiescent /\ [Next]_vars => [A]_vars
  <2> SUFFICES ASSUME IInv, Quiescent, [Next]_vars  PROVE A
    OBVIOUS
  <2>1. PICK e \in Endpoint : Streams(e)
    BY NextStreams
  <2>2. \A x \in Endpoint : x # e => conn'[x] = conn[x]
    BY <2>1, StreamsEnds
  <2> QED  BY <2>1, <2>2 DEF Streams
<1>2. Spec => [][A]_vars
  BY <1>1, Invariance, QuiescentAlways, PTL DEF Spec
<1> QED  BY <1>2 DEF ErrorIsFinal

(* Until they let go of their connections, the two ends implement a pair of *)
(* reliable FIFO channels: every step queues one payload, hands up the next *)
(* one, or is a stutter.                                                    *)
THEOREM Refinement == Spec => ImplementsChannel
<1> DEFINE chSent == [e \in Endpoint |-> conn[e].sent]
           chGot  == [e \in Endpoint |-> conn[e].got]
<1>1. Channel!Ends = Endpoint /\ \A e \in Endpoint : Channel!OtherEnd(e) = Peer(e)
  <2>1. Channel!Ends = Endpoint
    BY DEF Channel!Ends, Endpoint
  <2>2. ASSUME NEW e \in Endpoint  PROVE Channel!OtherEnd(e) = Peer(e)
    <3>1. Peer(e) \in Endpoint /\ Peer(e) # e /\ \A x \in Endpoint : x = e \/ x = Peer(e)
      BY PeerFacts
    <3> QED  BY <2>1, <3>1 DEF Channel!OtherEnd
  <2> QED  BY <2>1, <2>2
<1>2. Init => Channel!Init
  BY <1>1 DEF Init, Channel!Init, OnlineConnection
<1>3. IInv /\ Quiescent /\ [Next]_vars => [Channel!Next]_<<chSent, chGot>>
  <2> SUFFICES ASSUME IInv, Quiescent, [Next]_vars
               PROVE  Channel!Next \/ (chSent' = chSent /\ chGot' = chGot)
    OBVIOUS
  <2>1. PICK e \in Endpoint : Streams(e)
    BY NextStreams
  <2>2. \A x \in Endpoint : x # e => conn'[x] = conn[x]
    BY <2>1, StreamsEnds
  <2>3. CASE conn'[e].got = conn[e].got /\ conn'[e].sent = conn[e].sent
    BY <2>2, <2>3
  <2>4. CASE conn'[e].got = conn[e].got /\ conn'[e].sent = conn[e].sent + 1
    <3>1. chSent' = [chSent EXCEPT ![e] = @ + 1] /\ chGot' = chGot
      BY <2>2, <2>4
    <3>2. Channel!SendNext(e)
      BY <3>1 DEF Channel!SendNext
    <3> QED  BY <1>1, <3>2 DEF Channel!Next
  <2>5. CASE /\ conn'[e].sent = conn[e].sent
             /\ Len(conn[e].got) < conn[Peer(e)].sent
             /\ conn'[e].got = Append(conn[e].got, Len(conn[e].got) + 1)
    <3>1. /\ chGot' = [chGot EXCEPT ![e] = Append(@, Len(@) + 1)]
          /\ chSent' = chSent
      BY <2>2, <2>5
    <3>2. Len(chGot[e]) < chSent[Channel!OtherEnd(e)]
      BY <1>1, <2>5, PeerFacts
    <3>3. Channel!HandUpNext(e)
      BY <3>1, <3>2 DEF Channel!HandUpNext
    <3> QED  BY <1>1, <3>3 DEF Channel!Next
  <2> QED  BY <2>1, <2>3, <2>4, <2>5 DEF Streams
<1> QED  BY <1>2, <1>3, Invariance, QuiescentAlways, PTL
         DEF Spec, ImplementsChannel, Channel!Spec
=============================================================================
