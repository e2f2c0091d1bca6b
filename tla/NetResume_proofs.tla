--------------------------- MODULE NetResume_proofs ---------------------------
(***************************************************************************)
(* IInv is an inductive invariant of NetResume: the move of a client into  *)
(* the slot where its player waits keeps both streams in step, for every   *)
(* size of the buffers and the network, every point of the session at      *)
(* which the command comes, and every ack the session before left behind.  *)
(* At the end: the client's stream implements one of the channel's, and    *)
(* the slot that is left hands up no more than the rest of its packet.     *)
(***************************************************************************)
EXTENDS NetResume, NetConn_proofs

(* The chunks the server's slots may hold when n vital ones are queued:     *)
(* nothing is known of the number of one left over from the session before. *)
Known(n) == IF OldConstructs = {} THEN Numbered(n) ELSE Chunk

-----------------------------------------------------------------------------
LEMMA NotEmptyAfterAppend ==
  ASSUME NEW s \in Seq(Nat), NEW k \in Nat
  PROVE  Append(s, k) # <<>>
BY AppendProperties

LEMMA KnownSubset ==
  ASSUME NEW m \in Nat, NEW n \in Nat, m <= n
  PROVE  /\ Known(m) \subseteq Known(n) /\ Known(n) \subseteq Chunk
         /\ Queued(m) \subseteq Queued(n) /\ Queued(n) \subseteq Chunk
BY DEF Known, Numbered, Queued

LEMMA KnownMonotonic ==
  ASSUME NEW m \in Nat, NEW n \in Nat, m <= n
  PROVE  /\ \A s : s \in Seq(Known(m)) => s \in Seq(Known(n)) /\ s \in Seq(Chunk)
         /\ \A s : s \in Seq(Queued(m)) => s \in Seq(Queued(n)) /\ s \in Seq(Chunk)
<1> DEFINE K == Known(m)
           L == Known(n)
           Q == Queued(m)
           R == Queued(n)
<1>1. K \subseteq L /\ L \subseteq Chunk /\ Q \subseteq R /\ R \subseteq Chunk
  BY KnownSubset
<1> HIDE DEF K, L, Q, R
<1>2. /\ \A s : s \in Seq(K) => s \in Seq(L) /\ s \in Seq(Chunk)
      /\ \A s : s \in Seq(Q) => s \in Seq(R) /\ s \in Seq(Chunk)
  BY <1>1, SeqMonotonic
<1> QED  BY <1>2 DEF K, L, Q, R

(* The numbers of a session are the plain ones.                             *)
LEMMA PlainNumbers ==
  /\ MaxSequence \in Nat \ {0} /\ MaxSequence >= 4
  /\ \A s \in Side : MaxSent[s] \in Nat /\ MaxSent[s] <= MaxSequence - 2
  /\ MaxOutstanding \in Nat /\ MaxOutstanding < MaxSequence \div 2
  /\ \A k \in Nat : k < MaxSequence => k % MaxSequence = k /\ k \in SeqNumbers
<1>1. MaxSequence \in Nat \ {0} /\ MaxSequence >= 4
  BY SequenceAssumption
<1>2. \A s \in Side : MaxSent[s] \in 0 .. MaxSequence - 2
  BY ResumeAssumption
<1>3. MaxOutstanding \in Nat /\ MaxOutstanding < MaxSequence \div 2
  BY ResumeAssumption
<1>4. ASSUME NEW k \in Nat, k < MaxSequence
      PROVE  k % MaxSequence = k /\ k \in SeqNumbers
  BY <1>1, <1>4, SMT DEF SeqNumbers
<1> QED  BY <1>1, <1>2, <1>3, <1>4

LEMMA SessionFacts ==
  ASSUME IInv
  PROVE  /\ Session \in Slot
         /\ \A x \in Slot \cup {"client"} :
              /\ conn[x] \in Connection /\ ~conn[x].unknownSeq
              /\ conn[x].sent \in Nat /\ conn[x].acked \in Nat /\ Len(conn[x].got) \in Nat
         /\ \A x \in Slot : conn[x].state = "ONLINE" => x = Session
         /\ WellFormed(conn["client"], Queued(conn["client"].sent))
         /\ \A x \in Slot : WellFormed(conn[x], Known(conn[Session].sent))
<1>1. Session \in Slot /\ (Session = "old" \/ Session = "new") /\ Slot = {"old", "new"}
  BY DEF Session, Slot
<1>2. ASSUME NEW x \in Slot \cup {"client"}
      PROVE  /\ conn[x] \in Connection /\ ~conn[x].unknownSeq
             /\ conn[x].sent \in Nat /\ conn[x].acked \in Nat /\ Len(conn[x].got) \in Nat
             /\ conn[x].construct.chunks \in Seq(Chunk) /\ conn[x].buffer \in Seq(Chunk)
             /\ Len(conn[x].construct.chunks) <= PacketCap /\ Len(conn[x].buffer) <= BufferCap
  <2>1. conn[x] \in Connection /\ ~conn[x].unknownSeq
    BY DEF IInv, TypeOK, OneSession
  <2>2. conn[x].got \in Seq(Nat)
    BY <2>1 DEF Connection
  <2> QED  BY <2>1, <2>2, LenProperties DEF IInv, TypeOK, Connection
<1>3. \A x \in Slot : conn[x].state = "ONLINE" => x = Session
  BY <1>1 DEF IInv, OneSession
<1>4. WellFormed(conn["client"], Queued(conn["client"].sent))
  BY <1>2 DEF IInv, Uplink, UplinkSender, WellFormed
<1>5. ASSUME NEW x \in Slot
      PROVE  WellFormed(conn[x], Known(conn[Session].sent))
  <2>1. CASE OldConstructs = {}
    BY <1>2, <2>1 DEF IInv, Downlink, WellFormed, Known
  <2>2. CASE OldConstructs # {}
    BY <1>2, <2>2 DEF WellFormed, Known
  <2> QED  BY <2>1, <2>2
<1> QED  BY <1>1, <1>2, <1>3, <1>4, <1>5

(* Send never delivers anything but the packets it is given.                *)
LEMMA SendSubset ==
  ASSUME NEW n \in [Side -> SUBSET Packet], NEW s \in Side, NEW out \in SUBSET Packet
  PROVE  /\ Send(n, s, out) \in [Side -> SUBSET Packet]
         /\ Send(n, s, out)[s] \subseteq n[s] \cup out
         /\ \A x \in Side : x # s => Send(n, s, out)[x] = n[x]
BY DEF Send

-----------------------------------------------------------------------------
(* What a step of the client's connection owes the invariant.               *)
LEMMA ClientStep ==
  ASSUME IInv, NEW d, conn' = [conn EXCEPT !["client"] = d],
         WellFormed(d, Queued(d.sent)), ~d.unknownSeq,
         conn["client"].sent <= d.sent,
         UplinkSender(d, Len(conn[Session].got)),
         unpacker' \in [Side -> [of : Slot \cup {"client"}, chunks : Seq(Chunk)]],
         unpacker'["server"] = unpacker["server"], unpacker'["client"].of = "client",
         net' \in [Side -> SUBSET Packet],
         \A p \in net'["server"] : p \in net["server"] \/ p.chunks \in Seq(Queued(d.sent)),
         net'["client"] \subseteq net["client"],
         OldConstructs = {} =>
           /\ DownlinkReceiver(d, conn[Session].sent)
           /\ unpacker'["client"].chunks \in Seq(Numbered(conn[Session].sent))
  PROVE  IInv'
<1> DEFINE c == conn["client"]
           s == conn[Session]
<1>1. /\ Session \in Slot /\ d \in Connection /\ d.sent \in Nat
      /\ c.sent \in Nat /\ s.sent \in Nat /\ Len(s.got) \in Nat
  BY SessionFacts DEF WellFormed, Connection
<1>2. conn \in [Slot \cup {"client"} -> Connection] /\ "client" \notin Slot
  BY DEF IInv, TypeOK, Slot
<1>3. conn'["client"] = d /\ \A x \in Slot : conn'[x] = conn[x]
  BY <1>2
<1>4. Session' = Session
  BY <1>3 DEF Session, Slot
<1>5. conn'[Session'] = s
  BY <1>1, <1>3, <1>4
<1>6. TypeOK'
  BY <1>1, <1>2, <1>3 DEF IInv, TypeOK, WellFormed
<1>7. OneSession'
  BY <1>1, <1>3, <1>4 DEF IInv, OneSession, Slot
<1> HIDE DEF c, s
<1>8. Uplink'
  <2>1. UplinkReceiver(s, d.sent)
    BY <1>1 DEF IInv, Uplink, UplinkReceiver, c, s
  <2>2. \A t : t \in Seq(Queued(c.sent)) => t \in Seq(Queued(d.sent))
    BY <1>1, KnownMonotonic DEF c
  <2>3. /\ unpacker["server"].chunks \in Seq(Queued(c.sent))
        /\ \A p \in net["server"] : p.chunks \in Seq(Queued(c.sent))
        /\ \A p \in net["client"] : p.accepted <= Len(s.got) /\ p.ack = p.accepted
    BY DEF IInv, Uplink, c, s
  <2> QED  BY <1>3, <1>5, <2>1, <2>2, <2>3 DEF Uplink, s
<1>9. (OldConstructs = {} => Downlink)'
  <2> SUFFICES ASSUME OldConstructs = {}  PROVE Downlink'
    OBVIOUS
  <2> QED  BY <1>1, <1>3, <1>5 DEF IInv, Downlink, s
<1> QED  BY <1>6, <1>7, <1>8, <1>9 DEF IInv

(* ... a step of the slot that holds the session ...                        *)
LEMMA SessionStep ==
  ASSUME IInv, NEW d, conn' = [conn EXCEPT ![Session] = d],
         WellFormed(d, Known(d.sent)), ~d.unknownSeq,
         conn[Session].sent <= d.sent,
         d.state = "ONLINE" => conn[Session].state = "ONLINE",
         d.got = <<>> => conn[Session].got = <<>>,
         UplinkReceiver(d, conn["client"].sent), Len(conn[Session].got) <= Len(d.got),
         OldConstructs = {} => DownlinkSender(d),
         unpacker' \in [Side -> [of : Slot \cup {"client"}, chunks : Seq(Chunk)]],
         unpacker'["client"] = unpacker["client"],
         unpacker'["server"].chunks # <<>> => unpacker'["server"].of \in {Session, "new"},
         unpacker'["server"].chunks \in Seq(Queued(conn["client"].sent)),
         net' \in [Side -> SUBSET Packet],
         net'["server"] \subseteq net["server"],
         \A p \in net'["client"] :
           \/ p \in net["client"]
           \/ /\ p.accepted <= Len(d.got) /\ p.ack = p.accepted
              /\ p.chunks \in Seq(Known(d.sent))
  PROVE  IInv'
<1> DEFINE c == conn["client"]
           s == conn[Session]
<1>1. /\ Session \in Slot /\ d \in Connection /\ d.sent \in Nat /\ Len(d.got) \in Nat
      /\ c.sent \in Nat /\ c.acked \in Nat /\ s.sent \in Nat /\ Len(s.got) \in Nat
  <2>1. d \in Connection /\ d.got \in Seq(Nat)
    BY DEF WellFormed, Connection
  <2> QED  BY <2>1, SessionFacts, LenProperties DEF Connection
<1>2. conn \in [Slot \cup {"client"} -> Connection] /\ "client" \notin Slot
  BY DEF IInv, TypeOK, Slot
<1>3. /\ conn'["client"] = c /\ conn'[Session] = d
      /\ \A x \in Slot : x # Session => conn'[x] = conn[x]
  BY <1>1, <1>2
<1>4. Session' = Session
  BY <1>3 DEF Session, Slot
<1>5. conn'[Session'] = d
  BY <1>3, <1>4
<1>6. \A t : t \in Seq(Known(s.sent)) => t \in Seq(Known(d.sent))
  BY <1>1, KnownMonotonic
<1>7. d.construct.chunks \in Seq(Known(d.sent)) /\ d.buffer \in Seq(Known(d.sent))
  BY DEF WellFormed
<1>8. TypeOK'
  BY <1>1, <1>2, <1>3 DEF IInv, TypeOK, WellFormed
<1>9. OneSession'
  BY <1>1, <1>3, <1>4 DEF IInv, OneSession, Slot
<1> HIDE DEF c, s
<1>10. Uplink'
  <2>1. UplinkSender(c, Len(d.got))
    BY <1>1, SMTT(60) DEF IInv, Uplink, UplinkSender, c, s
  <2>2. /\ \A p \in net["server"] : p.chunks \in Seq(Queued(c.sent))
        /\ \A p \in net["client"] :
             p \in Packet /\ p.accepted <= Len(s.got) /\ p.ack = p.accepted
    BY DEF IInv, TypeOK, Uplink, Side, c, s
  <2>3. \A p \in net["client"] : p.accepted \in Nat
    BY <2>2 DEF Packet
  <2>4. Len(s.got) <= Len(d.got)
    BY DEF s
  <2>5. \A p \in net'["client"] : p.accepted <= Len(d.got) /\ p.ack = p.accepted
    BY <1>1, <2>2, <2>3, <2>4
  <2> QED  BY <1>3, <1>5, <2>1, <2>2, <2>5 DEF Uplink, c
<1>11. (OldConstructs = {} => Downlink)'
  <2> SUFFICES ASSUME OldConstructs = {}  PROVE Downlink'
    OBVIOUS
  <2>1. \A n : Known(n) = Numbered(n)
    BY DEF Known
  <2>2. /\ DownlinkReceiver(c, s.sent) /\ s.sent <= d.sent
        /\ \A x \in Slot : /\ conn[x].construct.chunks \in Seq(Known(s.sent))
                           /\ conn[x].buffer \in Seq(Known(s.sent))
        /\ unpacker["client"].chunks \in Seq(Known(s.sent))
        /\ \A p \in net["client"] : p.chunks \in Seq(Known(s.sent))
    BY <2>1 DEF IInv, Downlink, c, s
  <2>3. DownlinkReceiver(c, d.sent)
    <3>1. Len(c.got) \in Nat
      BY SessionFacts DEF c
    <3> QED  BY <1>1, <2>2, <3>1 DEF DownlinkReceiver
  <2>4. /\ \A x \in Slot : /\ conn'[x].construct.chunks \in Seq(Known(d.sent))
                           /\ conn'[x].buffer \in Seq(Known(d.sent))
        /\ unpacker'["client"].chunks \in Seq(Known(d.sent))
        /\ \A p \in net'["client"] : p.chunks \in Seq(Known(d.sent))
    BY <1>3, <1>6, <1>7, <2>2
  <2> QED  BY <1>3, <1>5, <2>1, <2>3, <2>4 DEF Downlink
<1> QED  BY <1>8, <1>9, <1>10, <1>11 DEF IInv

(* ... a step of the other slot, which serves nobody ...                    *)
LEMMA OtherSlotStep ==
  ASSUME IInv, NEW x \in Slot, x # Session, NEW d, conn' = [conn EXCEPT ![x] = d],
         WellFormed(d, Known(conn[Session].sent)), ~d.unknownSeq,
         d.state # "ONLINE", d.got = conn[x].got,
         conn[x].state = "OFFLINE" => d.state = "OFFLINE",
         unpacker' \in [Side -> [of : Slot \cup {"client"}, chunks : Seq(Chunk)]],
         unpacker'["client"] = unpacker["client"],
         unpacker'["server"].of = unpacker["server"].of,
         unpacker'["server"].chunks # <<>> => unpacker["server"].chunks # <<>>,
         unpacker'["server"].chunks \in Seq(Queued(conn["client"].sent)),
         net' = net
  PROVE  IInv'
<1> DEFINE c == conn["client"]
           s == conn[Session]
<1>1. Session \in Slot /\ d \in Connection /\ s.sent \in Nat
  BY SessionFacts DEF WellFormed
<1>2. conn \in [Slot \cup {"client"} -> Connection] /\ "client" \notin Slot
  BY DEF IInv, TypeOK, Slot
<1>3. /\ conn'["client"] = c /\ conn'[Session] = s /\ conn'[x] = d
      /\ \A y \in Slot : y # x => conn'[y] = conn[y]
  BY <1>1, <1>2
<1>4. conn'["old"].got = conn["old"].got
  BY <1>3 DEF Slot
<1>5. Session' = Session
  BY <1>4 DEF Session
<1>6. conn'[Session'] = s
  BY <1>3, <1>5
<1>7. /\ d.construct.chunks \in Seq(Known(s.sent)) /\ d.buffer \in Seq(Known(s.sent))
      /\ Len(d.construct.chunks) <= PacketCap /\ Len(d.buffer) <= BufferCap
  BY DEF WellFormed
<1>8. TypeOK'
  BY <1>1, <1>2, <1>3, <1>7 DEF IInv, TypeOK
<1>9. OneSession'
  BY <1>1, <1>3, <1>5 DEF IInv, OneSession, Slot
<1> HIDE DEF c, s
<1>10. Uplink'
  BY <1>3, <1>6 DEF IInv, Uplink, c, s
<1>11. (OldConstructs = {} => Downlink)'
  <2> SUFFICES ASSUME OldConstructs = {}  PROVE Downlink'
    OBVIOUS
  <2>1. d.construct.chunks \in Seq(Numbered(s.sent)) /\ d.buffer \in Seq(Numbered(s.sent))
    BY <1>7 DEF Known
  <2> QED  BY <1>3, <1>6, <2>1 DEF IInv, Downlink, c, s
<1> QED  BY <1>8, <1>9, <1>10, <1>11 DEF IInv

(* ... and a step of the network alone.                                     *)
LEMMA NetworkStep ==
  ASSUME IInv, conn' = conn, unpacker' = unpacker,
         net' \in [Side -> SUBSET Packet], \A s \in Side : net'[s] \subseteq net[s]
  PROVE  IInv'
<1>1. Session' = Session
  BY DEF Session
<1>2. net'["server"] \subseteq net["server"] /\ net'["client"] \subseteq net["client"]
  BY DEF Side
<1>3. TypeOK' /\ OneSession'
  BY <1>1 DEF IInv, TypeOK, OneSession
<1>4. Uplink'
  BY <1>1, <1>2 DEF IInv, Uplink
<1>5. (OldConstructs = {} => Downlink)'
  BY <1>1, <1>2 DEF IInv, Downlink
<1> QED  BY <1>3, <1>4, <1>5 DEF IInv

-----------------------------------------------------------------------------
(* An unpacker and a network that stay of their types.                      *)
LEMMA ApplyTypes ==
  ASSUME IInv
  PROVE  /\ unpacker \in [Side -> [of : Slot \cup {"client"}, chunks : Seq(Chunk)]]
         /\ unpacker["client"].of = "client"
         /\ unpacker["server"].chunks # <<>> => unpacker["server"].of \in {Session, "new"}
         /\ unpacker["server"].chunks \in Seq(Queued(conn["client"].sent))
         /\ unpacker["client"].chunks \in Seq(Known(conn[Session].sent))
         /\ net \in [Side -> SUBSET Packet]
         /\ \A p \in net["server"] : p.chunks \in Seq(Queued(conn["client"].sent))
         /\ \A p \in net["client"] : /\ p.accepted <= Len(conn[Session].got)
                                     /\ p.ack = p.accepted
                                     /\ p.chunks \in Seq(Known(conn[Session].sent))
<1>1. unpacker["client"].chunks \in Seq(Chunk) /\ \A p \in net["client"] : p.chunks \in Seq(Chunk)
  BY DEF IInv, TypeOK, Side, Packet
<1>2. /\ unpacker["client"].chunks \in Seq(Known(conn[Session].sent))
      /\ \A p \in net["client"] : p.chunks \in Seq(Known(conn[Session].sent))
  <2>1. CASE OldConstructs = {}
    BY <2>1 DEF IInv, Downlink, Known
  <2>2. CASE OldConstructs # {}
    BY <1>1, <2>2 DEF Known
  <2> QED  BY <2>1, <2>2
<1> QED  BY <1>2 DEF IInv, TypeOK, OneSession, Uplink

(* What Feed, QueueChunk, Flush and Update send is sent by Send.            *)
LEMMA ClientSends ==
  ASSUME IInv, NEW m \in Nat, NEW out, \A p \in out : p \in Packet /\ p.chunks \in Seq(Queued(m)),
         NEW n \in [Side -> SUBSET Packet], \A s \in Side : n[s] \subseteq net[s]
  PROVE  LET k == Send(n, "server", out)
         IN  /\ k \in [Side -> SUBSET Packet] /\ k["client"] \subseteq net["client"]
             /\ \A p \in k["server"] : p \in net["server"] \/ p.chunks \in Seq(Queued(m))
<1> DEFINE k == Send(n, "server", out)
<1>1. out \in SUBSET Packet /\ "server" \in Side /\ "client" \in Side
  BY DEF Side
<1>2. /\ k \in [Side -> SUBSET Packet] /\ k["server"] \subseteq n["server"] \cup out
      /\ k["client"] = n["client"]
  BY <1>1, SendSubset
<1> HIDE DEF k
<1>3. n["server"] \subseteq net["server"] /\ n["client"] \subseteq net["client"]
  BY <1>1
<1> QED  BY <1>2, <1>3 DEF k

(* What a server that holds chunks in K and has accepted n sends, and a     *)
(* network with such packets added.                                         *)
Answers(K, n) == {p \in Packet : p.chunks \in Seq(K) /\ p.ack = n /\ p.accepted = n}

Answered(k, K, n) ==
    /\ k \in [Side -> SUBSET Packet] /\ k["server"] \subseteq net["server"]
    /\ \A p \in k["client"] :
         \/ p \in net["client"]
         \/ p.accepted = n /\ p.ack = p.accepted /\ p.chunks \in Seq(K)

LEMMA ServerSends ==
  ASSUME IInv, NEW K, NEW g, NEW out \in SUBSET Answers(K, g),
         NEW n \in [Side -> SUBSET Packet], \A s \in Side : n[s] \subseteq net[s]
  PROVE  Answered(Send(n, "client", out), K, g)
<1> DEFINE k == Send(n, "client", out)
<1>1. out \in SUBSET Packet /\ "server" \in Side /\ "client" \in Side
  BY DEF Side, Answers
<1>2. /\ k \in [Side -> SUBSET Packet] /\ k["client"] \subseteq n["client"] \cup out
      /\ k["server"] = n["server"]
  BY <1>1, SendSubset
<1> HIDE DEF k
<1>3. n["server"] \subseteq net["server"] /\ n["client"] \subseteq net["client"]
  BY <1>1
<1> QED  BY <1>2, <1>3 DEF k, Answers, Answered

(* The part of the invariant about one connection survives what does not    *)
(* touch its streams.                                                       *)
LEMMA QuietClient ==
  ASSUME IInv, NEW d, NEW out,
         conn' = [conn EXCEPT !["client"] = d], unpacker' = unpacker,
         net' = Send(net, "server", out),
         LET c == conn["client"]
             Q == Queued(c.sent)
         IN  /\ WellFormed(d, Q) /\ ~d.unknownSeq
             /\ d.sent = c.sent /\ d.got = c.got /\ d.acked = c.acked
             /\ d.unsaved = c.unsaved
             /\ d.state # "OFFLINE" => c.state # "OFFLINE" /\ QuietChange(c, d)
             /\ d.state = "ONLINE" => c.state = "ONLINE"
             /\ \A p \in out : p \in Packet /\ p.chunks \in Seq(Q)
  PROVE  IInv'
<1> DEFINE c == conn["client"]
           s == conn[Session]
<1>1. c.sent \in Nat /\ s.sent \in Nat
  BY SessionFacts
<1>2. /\ net' \in [Side -> SUBSET Packet] /\ net'["client"] \subseteq net["client"]
      /\ \A p \in net'["server"] : p \in net["server"] \/ p.chunks \in Seq(Queued(d.sent))
  BY <1>1, ApplyTypes, ClientSends
<1>3. UplinkSender(c, Len(s.got))
  BY DEF IInv, Uplink
<1>4. d.construct.chunks \in Seq(Queued(c.sent)) /\ d.buffer \in Seq(Queued(c.sent))
  BY DEF WellFormed
<1>5. UplinkSender(d, Len(s.got))
  <2> DEFINE g == Len(s.got)
             Q == Seq(Queued(c.sent))
             Kept(x) == \A k \in x.acked + 1 .. x.sent :
                          k \in x.unsaved \/ \E i \in DOMAIN x.buffer : x.buffer[i].data = k
  <2>1. UplinkSender(c, g) /\ d.construct.chunks \in Q /\ d.buffer \in Q
    BY <1>3, <1>4
  <2>2. d.sent = c.sent /\ d.acked = c.acked /\ d.unsaved = c.unsaved
    OBVIOUS
  <2>3. d.state = "ONLINE" =>
          /\ c.state = "ONLINE" /\ d.sequence = c.sequence /\ d.peerAck = c.peerAck
          /\ d.buffer = c.buffer
    BY DEF QuietChange
  <2> HIDE DEF c, s, g
  <2>4. c.acked <= g /\ c.sent <= MaxSent["client"] /\ c.sent - c.acked <= MaxOutstanding
    BY <2>1 DEF UplinkSender
  <2>5. c.state = "ONLINE" => c.sequence = c.sent /\ c.peerAck = c.acked /\ Kept(c)
    BY <2>1 DEF UplinkSender
  <2>6. d.state = "ONLINE" => d.sequence = d.sent /\ d.peerAck = d.acked /\ Kept(d)
    BY <2>2, <2>3, <2>5
  <2>7. UplinkSender(d, g)
    BY <2>1, <2>2, <2>4, <2>6 DEF UplinkSender
  <2> QED  BY <2>7 DEF g
<1>6. OldConstructs = {} => DownlinkReceiver(d, s.sent)
  <2>1. OldConstructs = {} => DownlinkReceiver(c, s.sent)
    BY DEF IInv, Downlink
  <2> QED  BY <2>1 DEF DownlinkReceiver, QuietChange
<1>7. /\ unpacker' \in [Side -> [of : Slot \cup {"client"}, chunks : Seq(Chunk)]]
      /\ unpacker'["client"].of = "client"
      /\ OldConstructs = {} => unpacker'["client"].chunks \in Seq(Numbered(s.sent))
  BY ApplyTypes DEF Known
<1>8. WellFormed(d, Queued(d.sent)) /\ ~d.unknownSeq /\ c.sent <= d.sent
  BY <1>1
<1>9. unpacker'["server"] = unpacker["server"]
  OBVIOUS
<1> HIDE DEF c, s
<1> QED  BY <1>2, <1>5, <1>6, <1>7, <1>8, <1>9, ClientStep DEF c, s

LEMMA QuietSession ==
  ASSUME IInv, NEW d, NEW out,
         conn' = [conn EXCEPT ![Session] = d], unpacker' = unpacker,
         net' = Send(net, "client", out),
         LET s == conn[Session]
             K == Known(s.sent)
         IN  /\ WellFormed(d, K) /\ ~d.unknownSeq
             /\ d.sent = s.sent /\ d.got = s.got
             /\ d.state # "OFFLINE" => s.state # "OFFLINE" /\ QuietChange(s, d)
             /\ d.state = "ONLINE" => s.state = "ONLINE"
             /\ s.state = "OFFLINE" => out = {}
             /\ \A p \in out : /\ p \in Packet /\ p.chunks \in Seq(K)
                               /\ p.ack = s.ack /\ p.accepted = Len(s.got)
  PROVE  IInv'
<1> DEFINE c == conn["client"]
           s == conn[Session]
<1>1. /\ c.sent \in Nat /\ s.sent \in Nat /\ Len(s.got) \in Nat
      /\ UplinkReceiver(s, c.sent)
  BY SessionFacts DEF IInv, Uplink
<1>2. out \in SUBSET Answers(Known(s.sent), Len(s.got))
  BY <1>1 DEF UplinkReceiver, Answers
<1>3. /\ net' \in [Side -> SUBSET Packet] /\ net'["server"] \subseteq net["server"]
      /\ \A p \in net'["client"] :
           \/ p \in net["client"]
           \/ /\ p.accepted = Len(s.got) /\ p.ack = p.accepted
              /\ p.chunks \in Seq(Known(s.sent))
  <2>1. Answered(net', Known(s.sent), Len(s.got))
    BY <1>2, ApplyTypes, ServerSends
  <2> QED  BY <2>1 DEF Answered
<1>4. UplinkReceiver(d, c.sent)
  BY <1>1 DEF UplinkReceiver, QuietChange
<1>5. OldConstructs = {} => DownlinkSender(d)
  <2>1. OldConstructs = {} => DownlinkSender(s)
    BY DEF IInv, Downlink
  <2> QED  BY <2>1 DEF DownlinkSender, QuietChange
<1>6. d.sent = s.sent /\ d.got = s.got /\ ~d.unknownSeq /\ WellFormed(d, Known(d.sent))
      /\ (d.state = "ONLINE" => s.state = "ONLINE")
  OBVIOUS
<1> HIDE DEF c, s
<1>7. \A p \in net'["client"] :
           \/ p \in net["client"]
           \/ /\ p.accepted <= Len(d.got) /\ p.ack = p.accepted
              /\ p.chunks \in Seq(Known(d.sent))
  BY <1>1, <1>3, <1>6
<1>8. Len(s.got) <= Len(d.got) /\ s.sent <= d.sent /\ (d.got = <<>> => s.got = <<>>)
  BY <1>1, <1>6
<1> QED  BY <1>3, <1>4, <1>5, <1>6, <1>7, <1>8, ApplyTypes, SessionStep DEF c, s

-----------------------------------------------------------------------------
(* Flush and Update.                                                        *)
LEMMA FlushStep ==
  ASSUME IInv, NEW x \in Slot \cup {"client"}, FlushAt(x)
  PROVE  IInv'
<1> DEFINE c == conn[x]
           r == Flush(c)
           S == IF x = "client" THEN Queued(c.sent) ELSE Known(c.sent)
<1>1. /\ conn' = [conn EXCEPT ![x] = r.conn] /\ net' = Send(net, PeerSide(x), r.out)
      /\ unpacker' = unpacker /\ c.state = "ONLINE"
  BY DEF FlushAt, Apply
<1>2. /\ c \in Connection /\ ~c.unknownSeq /\ c.sent \in Nat
      /\ x # "client" => x = Session
  BY <1>1, SessionFacts
<1>3. WellFormed(c, S) /\ S \subseteq Chunk
  BY <1>2, SessionFacts, KnownSubset
<1> HIDE DEF c, S
<1>4. /\ WellFormed(r.conn, S) /\ Carries(c, S, r.out)
      /\ r.conn = [c EXCEPT !.construct = r.conn.construct]
  BY <1>1, <1>3, FlushWell
<1> HIDE DEF r
<1>5. QuietChange(c, r.conn) /\ r.conn.state = c.state
  BY <1>2, <1>4 DEF QuietChange, Connection
<1>6. CASE x = "client"
  <2>1. S = Queued(c.sent) /\ PeerSide(x) = "server" /\ c = conn["client"]
    BY <1>6 DEF S, c, PeerSide
  <2> QED  BY <1>1, <1>2, <1>4, <1>5, <1>6, <2>1, QuietClient DEF Carries, QuietChange
<1>7. CASE x # "client"
  <2>1. S = Known(c.sent) /\ PeerSide(x) = "client" /\ c = conn[Session] /\ x = Session
    BY <1>2, <1>7 DEF S, c, PeerSide
  <2>2. /\ WellFormed(r.conn, S) /\ ~r.conn.unknownSeq
        /\ r.conn.sent = c.sent /\ r.conn.got = c.got
        /\ r.conn.state = c.state /\ c.state = "ONLINE" /\ QuietChange(c, r.conn)
        /\ \A p \in r.out : /\ p \in Packet /\ p.chunks \in Seq(S)
                             /\ p.ack = c.ack /\ p.accepted = Len(c.got)
    BY <1>1, <1>2, <1>4, <1>5 DEF Carries, QuietChange
  <2>3. /\ conn' = [conn EXCEPT ![Session] = r.conn] /\ net' = Send(net, "client", r.out)
        /\ unpacker' = unpacker
    BY <1>1, <2>1
  <2> QED  BY <2>1, <2>2, <2>3, QuietSession, ZenonT(60)
<1> QED  BY <1>6, <1>7

LEMMA UpdateStep ==
  ASSUME IInv, NEW x \in Slot \cup {"client"}, NEW due, UpdateAt(x, due)
  PROVE  IInv'
<1> DEFINE c == conn[x]
           protected == \/ x = "old"
                        \/ x = "new" /\ \E i \in DOMAIN conn[x].got : conn[x].got[i] = Command
           r == LetGo(Update(c, due), protected)
           S == IF x = "client" THEN Queued(c.sent) ELSE Known(conn[Session].sent)
<1>1. /\ conn' = [conn EXCEPT ![x] = r.conn] /\ unpacker' = unpacker
      /\ net' = IF x \in {"client", Session} THEN Send(net, PeerSide(x), r.out) ELSE net
  BY DEF UpdateAt
<1>2. /\ c \in Connection /\ ~c.unknownSeq /\ c.sent \in Nat /\ conn[Session].sent \in Nat
      /\ Session \in Slot
  BY SessionFacts
<1>3. WellFormed(c, S) /\ S \subseteq Chunk
  BY <1>2, SessionFacts, KnownSubset
<1> HIDE DEF c, S, protected
<1>4. WellFormed(r.conn, S) /\ Carries(c, S, r.out) /\ LetGoChange(c, r.conn)
  BY <1>3, LetGoWell
<1> HIDE DEF r
<1>5. /\ WellFormed(r.conn, S) /\ Carries(c, S, r.out)
      /\ r.conn.sent = c.sent /\ r.conn.got = c.got
      /\ r.conn.acked = c.acked /\ r.conn.unsaved = c.unsaved
      /\ r.conn.state # "OFFLINE" => c.state # "OFFLINE" /\ QuietChange(c, r.conn)
      /\ r.conn.state = "ONLINE" => c.state = "ONLINE"
      /\ r.conn.unknownSeq \in {c.unknownSeq, FALSE}
  BY <1>4 DEF LetGoChange
<1>6. ~r.conn.unknownSeq
  BY <1>2, <1>5
<1>7. CASE x = "client"
  <2>1. S = Queued(c.sent) /\ PeerSide(x) = "server" /\ c = conn["client"]
    BY <1>7 DEF S, c, PeerSide
  <2> QED  BY <1>1, <1>5, <1>6, <1>7, <2>1, QuietClient DEF Carries
<1>8. CASE x = Session
  <2>1. S = Known(c.sent) /\ PeerSide(x) = "client" /\ c = conn[Session]
    BY <1>2, <1>8 DEF S, c, PeerSide, Slot
  <2> QED  BY <1>1, <1>5, <1>6, <1>8, <2>1, QuietSession, ZenonT(60) DEF Carries
<1>9. CASE x # "client" /\ x # Session
  <2>1. S = Known(conn[Session].sent) /\ x \in Slot /\ net' = net
    BY <1>1, <1>9 DEF S
  <2>2. r.conn.state # "ONLINE" /\ (c.state = "OFFLINE" => r.conn.state = "OFFLINE")
    BY <1>5, <2>1, <1>9, SessionFacts DEF c
  <2> QED  BY <1>1, <1>5, <1>6, <1>9, <2>1, <2>2, ApplyTypes, OtherSlotStep DEF c
<1> QED  BY <1>7, <1>8, <1>9

-----------------------------------------------------------------------------
(* A vital chunk queued by the client, and by the server.                   *)
LEMMA QueueClientStep ==
  ASSUME IInv, QueueChunkAt("client")
  PROVE  IInv'
<1> DEFINE c == conn["client"]
           s == conn[Session]
           r == QueueChunk(c, TRUE)
           d == r.conn
           Q == Queued(c.sent + 1)
<1>1. /\ conn' = [conn EXCEPT !["client"] = d] /\ net' = Send(net, "server", r.out)
      /\ unpacker' = unpacker /\ c.state = "ONLINE"
      /\ c.sent < MaxSent["client"] /\ c.sent - c.acked < MaxOutstanding
  BY DEF QueueChunkAt, Apply, SideOf, PeerSide
<1>2. /\ c \in Connection /\ ~c.unknownSeq /\ c.sent \in Nat /\ c.acked \in Nat
      /\ s.sent \in Nat /\ Len(s.got) \in Nat
      /\ WellFormed(c, Queued(c.sent)) /\ UplinkSender(c, Len(s.got))
      /\ OldConstructs = {} => DownlinkReceiver(c, s.sent)
  BY SessionFacts DEF IInv, Uplink, Downlink
<1> HIDE DEF c, s
<1>3. c.sequence = c.sent /\ c.peerAck = c.acked
  BY <1>1, <1>2 DEF UplinkSender
<1>4. /\ MaxSent["client"] \in Nat /\ MaxSent["client"] <= MaxSequence - 2
      /\ MaxSequence \in Nat /\ MaxOutstanding \in Nat
  BY PlainNumbers DEF Side
<1>5. (c.sent + 1) % MaxSequence = c.sent + 1 /\ c.sent + 1 \in SeqNumbers
  BY <1>1, <1>2, <1>4, PlainNumbers, SMTT(60)
<1>6. NextChunk(c) = [vital |-> TRUE, sequence |-> c.sent + 1, data |-> c.sent + 1]
  BY <1>3, <1>5 DEF NextChunk
<1>7. NextChunk(c) \in Q /\ NextChunk(c).sequence = c.sent + 1
  BY <1>2, <1>5, <1>6 DEF Queued, Chunk
<1>8. WellFormed(c, Q) /\ Q \subseteq Chunk
  BY <1>2, KnownSubset, KnownMonotonic DEF WellFormed
<1> HIDE DEF Q
<1>9. /\ WellFormed(d, Q)
      /\ \A p \in r.out : /\ p \in Packet /\ p.chunks \in Seq(Q)
                          /\ p.ack = c.ack /\ p.accepted = Len(c.got)
      /\ d.state = "ONLINE" /\ d.ack = c.ack /\ d.peerAck = c.peerAck
      /\ d.unknownSeq = c.unknownSeq /\ d.got = c.got /\ d.acked = c.acked
      /\ d.sent = c.sent + 1 /\ d.sequence = NextChunk(c).sequence
      /\ KeepsAll(c, d)
  BY <1>1, <1>7, <1>8, QueueChunkWell
<1> HIDE DEF r, d
<1>10. /\ net' \in [Side -> SUBSET Packet] /\ net'["client"] \subseteq net["client"]
       /\ \A p \in net'["server"] : p \in net["server"] \/ p.chunks \in Seq(Q)
  <2>1. c.sent + 1 \in Nat /\ \A p \in r.out : p \in Packet /\ p.chunks \in Seq(Queued(c.sent + 1))
    BY <1>2, <1>9 DEF Q
  <2> QED  BY <1>1, <2>1, ApplyTypes, ClientSends DEF Q
<1>11. UplinkSender(d, Len(s.got))
  <2>1. d.construct.chunks \in Seq(Q) /\ d.buffer \in Seq(Q)
    BY <1>9 DEF WellFormed
  <2>2. d.sent <= MaxSent["client"] /\ d.sent - d.acked <= MaxOutstanding
    BY <1>1, <1>2, <1>4, <1>9
  <2>3. \A k \in d.acked + 1 .. d.sent :
           k \in d.unsaved \/ \E i \in DOMAIN d.buffer : d.buffer[i].data = k
    <3> TAKE k \in d.acked + 1 .. d.sent
    <3>1. k \in 1 .. c.sent + 1 /\ (k = c.sent + 1 \/ k \in c.acked + 1 .. c.sent)
      BY <1>2, <1>9
    <3> QED  BY <1>1, <1>2, <1>9, <3>1 DEF UplinkSender, KeepsAll
  <2>4. d.acked <= Len(s.got)
    BY <1>2, <1>9 DEF UplinkSender
  <2>5. d.sequence = d.sent /\ d.peerAck = d.acked
    BY <1>3, <1>7, <1>9
  <2> QED  BY <1>9, <2>1, <2>2, <2>3, <2>4, <2>5 DEF UplinkSender, Q
<1>12. OldConstructs = {} => DownlinkReceiver(d, s.sent)
  BY <1>1, <1>2, <1>9 DEF DownlinkReceiver
<1>13. WellFormed(d, Queued(d.sent)) /\ ~d.unknownSeq /\ c.sent <= d.sent
  BY <1>2, <1>9 DEF Q
<1>14. Q = Queued(d.sent)
  BY <1>9 DEF Q
<1>15. /\ unpacker' \in [Side -> [of : Slot \cup {"client"}, chunks : Seq(Chunk)]]
       /\ unpacker'["client"].of = "client" /\ unpacker'["server"] = unpacker["server"]
       /\ OldConstructs = {} => unpacker'["client"].chunks \in Seq(Numbered(s.sent))
  BY <1>1, ApplyTypes DEF Known, s
<1> QED  BY <1>1, <1>10, <1>11, <1>12, <1>13, <1>14, <1>15, ClientStep DEF c, s

LEMMA QueueSessionStep ==
  ASSUME IInv, NEW x \in Slot, QueueChunkAt(x)
  PROVE  IInv'
<1> DEFINE c == conn["client"]
           s == conn[Session]
           r == QueueChunk(s, TRUE)
           d == r.conn
           K == Known(s.sent + 1)
<1>1. x = Session /\ x # "client"
  BY SessionFacts DEF QueueChunkAt, Slot
<1>2. /\ conn' = [conn EXCEPT ![Session] = d] /\ net' = Send(net, "client", r.out)
      /\ unpacker' = unpacker /\ s.state = "ONLINE" /\ s.sent < MaxSent["server"]
  BY <1>1 DEF QueueChunkAt, Apply, SideOf, PeerSide
<1>3. /\ s \in Connection /\ ~s.unknownSeq /\ s.sent \in Nat /\ s.sequence \in SeqNumbers
      /\ c.sent \in Nat /\ Len(s.got) \in Nat
      /\ WellFormed(s, Known(s.sent)) /\ UplinkReceiver(s, c.sent)
      /\ OldConstructs = {} => DownlinkSender(s)
  BY <1>1, SessionFacts DEF IInv, Uplink, Downlink, Connection
<1> HIDE DEF c, s
<1>4. /\ MaxSent["server"] \in Nat /\ MaxSent["server"] <= MaxSequence - 2
      /\ MaxSequence \in Nat \ {0}
  BY PlainNumbers DEF Side
<1>5. (s.sent + 1) % MaxSequence = s.sent + 1 /\ s.sent + 1 \in SeqNumbers
  BY <1>2, <1>3, <1>4, PlainNumbers
<1>6. (s.sequence + 1) % MaxSequence \in SeqNumbers
  BY <1>3, <1>4, SMTT(60) DEF SeqNumbers
<1>7. NextChunk(s) \in Chunk
  BY <1>3, <1>6 DEF NextChunk, Chunk
<1>8. OldConstructs = {} => NextChunk(s).sequence = s.sent + 1 /\ NextChunk(s).data = s.sent + 1
  BY <1>2, <1>3, <1>5 DEF DownlinkSender, NextChunk
<1>9. NextChunk(s) \in K
  <2>1. 1 <= s.sent + 1
    BY <1>3
  <2> QED  BY <1>3, <1>7, <1>8, <2>1 DEF Known, Numbered
<1>10. WellFormed(s, K) /\ K \subseteq Chunk
  BY <1>3, KnownSubset, KnownMonotonic DEF WellFormed
<1> HIDE DEF K
<1>11. /\ WellFormed(d, K)
       /\ \A p \in r.out : /\ p \in Packet /\ p.chunks \in Seq(K)
                           /\ p.ack = s.ack /\ p.accepted = Len(s.got)
       /\ d.state = "ONLINE" /\ d.ack = s.ack /\ d.peerAck = s.peerAck
       /\ d.unknownSeq = s.unknownSeq /\ d.got = s.got /\ d.acked = s.acked
       /\ d.sent = s.sent + 1 /\ d.sequence = NextChunk(s).sequence
  BY <1>2, <1>9, <1>10, QueueChunkWell, ZenonT(60)
<1> HIDE DEF r, d
<1>12. r.out \in SUBSET Answers(K, Len(s.got))
  BY <1>2, <1>3, <1>11 DEF UplinkReceiver, Answers
<1>13. /\ net' \in [Side -> SUBSET Packet] /\ net'["server"] \subseteq net["server"]
       /\ \A p \in net'["client"] :
            \/ p \in net["client"]
            \/ p.accepted = Len(s.got) /\ p.ack = p.accepted /\ p.chunks \in Seq(K)
  <2>1. Answered(net', K, Len(s.got))
    BY <1>2, <1>12, ApplyTypes, ServerSends
  <2> QED  BY <2>1 DEF Answered
<1>14. K = Known(d.sent) /\ WellFormed(d, Known(d.sent)) /\ ~d.unknownSeq
  BY <1>3, <1>11 DEF K
<1>15. UplinkReceiver(d, c.sent)
  BY <1>2, <1>3, <1>11 DEF UplinkReceiver
<1>16. OldConstructs = {} => DownlinkSender(d)
  BY <1>2, <1>3, <1>4, <1>8, <1>11 DEF DownlinkSender
<1>17. Len(s.got) <= Len(d.got) /\ s.sent <= d.sent /\ (d.got = <<>> => s.got = <<>>)
  BY <1>3, <1>11
<1>18. \A p \in net'["client"] :
           \/ p \in net["client"]
           \/ /\ p.accepted <= Len(d.got) /\ p.ack = p.accepted
              /\ p.chunks \in Seq(Known(d.sent))
  BY <1>3, <1>11, <1>13, <1>14
<1> QED  BY <1>2, <1>13, <1>14, <1>15, <1>16, <1>17, <1>18, ApplyTypes, SessionStep DEF c, s

-----------------------------------------------------------------------------
(* A packet that does not pass Feed's test of the ack is dropped.           *)
LEMMA DroppedStep ==
  ASSUME IInv, NEW s \in Side, NEW p, NEW dup \in BOOLEAN, Receive(s, p, dup),
         LET x == IF s = "client" THEN "client" ELSE Serving
         IN  ~AckIsValid(conn[x], p.ack)
  PROVE  IInv'
<1> DEFINE x    == IF s = "client" THEN "client" ELSE Serving
           rest == IF dup THEN net ELSE [net EXCEPT ![s] = @ \ {p}]
<1>1. Feed(conn[x], p) = [conn |-> conn[x], out |-> {}, start |-> FALSE]
  BY DEF Feed
<1>2. /\ conn' = [conn EXCEPT ![x] = conn[x]] /\ net' = Send(rest, PeerSide(x), {})
      /\ unpacker' = [unpacker EXCEPT ![s] = @]
  BY <1>1 DEF Receive, Apply
<1>3. /\ unpacker \in [Side -> [of : Slot \cup {"client"}, chunks : Seq(Chunk)]]
      /\ net \in [Side -> SUBSET Packet] /\ conn \in [Slot \cup {"client"} -> Connection]
      /\ PeerSide(x) \in Side
  BY DEF IInv, TypeOK, PeerSide, Side
<1>4. /\ rest \in [Side -> SUBSET Packet] /\ \A y \in Side : rest[y] \subseteq net[y]
  BY <1>3
<1> HIDE DEF rest
<1>5. /\ net' \in [Side -> SUBSET Packet] /\ \A y \in Side : net'[y] \subseteq net[y]
  <2>1. {} \in SUBSET Packet
    OBVIOUS
  <2>2. /\ net' \in [Side -> SUBSET Packet]
        /\ net'[PeerSide(x)] \subseteq rest[PeerSide(x)] \cup {}
        /\ \A y \in Side : y # PeerSide(x) => net'[y] = rest[y]
    BY <1>2, <1>3, <1>4, <2>1, SendSubset
  <2> HIDE DEF x
  <2> QED  BY <1>3, <1>4, <2>2
<1>6. conn' = conn /\ unpacker' = unpacker
  BY <1>2, <1>3
<1> QED  BY <1>5, <1>6, NetworkStep

(* The client takes the ack of a packet: the chunks it pops from the resend *)
(* buffer are chunks that the server has accepted.                          *)
LEMMA ReceiveClientStep ==
  ASSUME IInv, NEW p \in net["client"], NEW dup \in BOOLEAN, Receive("client", p, dup),
         AckIsValid(conn["client"], p.ack)
  PROVE  IInv'
<1> DEFINE c == conn["client"]
           s == conn[Session]
           r == Feed(c, p)
           d == r.conn
           Q == Queued(c.sent)
           rest == IF dup THEN net ELSE [net EXCEPT !["client"] = @ \ {p}]
<1>1. /\ conn' = [conn EXCEPT !["client"] = d] /\ net' = Send(rest, "server", r.out)
      /\ unpacker' = [unpacker EXCEPT !["client"] =
                        IF r.start THEN [of |-> "client", chunks |-> p.chunks] ELSE @]
      /\ c.state = "ONLINE"
  BY DEF Receive, Apply, PeerSide
<1>2. /\ c \in Connection /\ ~c.unknownSeq /\ c.sent \in Nat /\ c.acked \in Nat
      /\ s.sent \in Nat /\ Len(s.got) \in Nat
      /\ WellFormed(c, Q) /\ Q \subseteq Chunk /\ UplinkSender(c, Len(s.got))
      /\ Len(s.got) <= c.sent
      /\ OldConstructs = {} => DownlinkReceiver(c, s.sent)
  BY SessionFacts, KnownSubset DEF IInv, Uplink, UplinkReceiver, Downlink
<1>3. /\ p \in Packet /\ p.accepted <= Len(s.got) /\ p.ack = p.accepted
      /\ p.chunks \in Seq(Known(s.sent)) /\ p.accepted \in Nat
  BY ApplyTypes DEF Side, Packet
<1>4. rest \in [Side -> SUBSET Packet] /\ \A y \in Side : rest[y] \subseteq net[y]
  BY ApplyTypes
<1> HIDE DEF c, s, Q, rest
<1>5. c.sequence = c.sent /\ c.peerAck = c.acked /\ c.acked <= Len(s.got)
  BY <1>1, <1>2 DEF UplinkSender
<1>6. c.acked <= p.accepted /\ p.accepted <= c.sent
  BY <1>2, <1>3, <1>5 DEF AckIsValid, c
<1>7. /\ WellFormed(d, Q) /\ FedChange(c, p, d)
      /\ \A q \in r.out : /\ q \in Packet /\ q.chunks \in Seq(Q)
                          /\ q.ack = c.ack /\ q.accepted = Len(c.got)
  BY <1>1, <1>2, <1>3, FeedWell, SMTT(60) DEF c
<1>8. /\ d.sequence = c.sequence /\ d.ack = c.ack
      /\ d.unknownSeq = c.unknownSeq /\ d.sent = c.sent
      /\ d.got = c.got /\ d.unsaved = c.unsaved
      /\ d.peerAck = p.ack /\ d.acked = p.accepted
      /\ d.state \in {"ONLINE", "ERROR"}
  BY <1>7 DEF FedChange
<1>9. d.state = "ONLINE" => d.buffer = AckChunks(c.buffer, p.ack)
  BY <1>7 DEF FedChange
<1> HIDE DEF r, d
<1>10. ASSUME d.state = "ONLINE", NEW k \in p.accepted + 1 .. c.sent
       PROVE  k \in d.unsaved \/ \E i \in DOMAIN d.buffer : d.buffer[i].data = k
  <2> DEFINE b == c.buffer
             n == LeadingRun(b, p.ack)
  <2>1. b \in Seq(Q) /\ b \in Seq(Queued(c.sent))
    BY <1>2 DEF WellFormed, Q
  <2>2. /\ n \in 0 .. Len(b) /\ Len(d.buffer) = Len(b) - n
        /\ \A i \in 1 .. Len(b) - n : d.buffer[i] = b[n + i]
        /\ \A i \in 1 .. n : IsSeqInBackroom(b[i].sequence, p.ack)
    BY <1>2, <1>9, <1>10, <2>1, AckChunksSuffix, SMTT(60)
  <2>3. /\ Len(b) \in Nat /\ DOMAIN b = 1 .. Len(b)
        /\ \A i \in 1 .. Len(b) : b[i] \in Queued(c.sent)
    BY <2>1, LenProperties, ElementOfSeq
  <2>4. DOMAIN d.buffer = 1 .. Len(d.buffer)
    BY <1>7, LenProperties DEF WellFormed
  <2>5. k \in c.acked + 1 .. c.sent
    BY <1>2, <1>3, <1>6
  <2>6. k \in c.unsaved \/ \E i \in DOMAIN b : b[i].data = k
    BY <1>1, <1>2, <2>5 DEF UplinkSender
  <2> HIDE DEF b, n
  <2>7. CASE k \in c.unsaved
    BY <1>8, <2>7
  <2>8. CASE \E i \in DOMAIN b : b[i].data = k
    <3>1. PICK i \in DOMAIN b : b[i].data = k
      BY <2>8
    <3>2. i \in 1 .. Len(b) /\ b[i].sequence = k % MaxSequence
      <4>1. k # Garbage
        BY <1>2, <2>5 DEF Garbage
      <4> QED  BY <2>3, <3>1, <4>1 DEF Queued
    <3>3. ~IsSeqInBackroom(k % MaxSequence, p.accepted % MaxSequence)
      <4>1. k \in Nat /\ p.accepted < k /\ k - p.accepted <= MaxOutstanding
        BY <1>2, <1>3, <1>6, <1>10, PlainNumbers, SMTT(60) DEF UplinkSender
      <4>2. p.accepted - k <= MaxSequence \div 2 /\ k - p.accepted < MaxSequence \div 2
        BY <1>3, <4>1, PlainNumbers
      <4>3. ~(k <= p.accepted)
        BY <1>3, <4>1
      <4> DEFINE a == p.accepted
      <4>4. /\ a \in Nat /\ k \in Nat
            /\ a - k <= MaxSequence \div 2 /\ k - a < MaxSequence \div 2
        BY <1>3, <4>1, <4>2
      <4> HIDE DEF a
      <4>5. IsSeqInBackroom(k % MaxSequence, a % MaxSequence) <=> k <= a
        BY <4>4, BackroomExact
      <4> QED  BY <4>3, <4>5 DEF a
    <3>4. p.accepted % MaxSequence = p.ack
      <4>1. MaxSent["client"] <= MaxSequence - 2 /\ MaxSent["client"] \in Nat
        BY PlainNumbers DEF Side
      <4>2. p.accepted < MaxSequence
        BY <1>2, <1>3, <1>6, <4>1, PlainNumbers, SMTT(60) DEF UplinkSender
      <4> QED  BY <1>3, <4>2, PlainNumbers
    <3>5. i \notin 1 .. n
      BY <2>2, <3>2, <3>3, <3>4
    <3>6. i - n \in 1 .. Len(b) - n /\ n + (i - n) = i
      <4> DEFINE m == Len(b)
      <4>1. m \in Nat /\ n \in 0 .. m /\ i \in 1 .. m
        BY <2>2, <2>3, <3>2
      <4> HIDE DEF m
      <4>2. i - n \in 1 .. m - n /\ n + (i - n) = i
        BY <3>5, <4>1
      <4> QED  BY <4>2 DEF m
    <3>7. d.buffer[i - n].data = k /\ i - n \in DOMAIN d.buffer
      BY <2>2, <2>4, <3>1, <3>6
    <3> QED  BY <3>7
  <2> QED  BY <2>6, <2>7, <2>8
<1>11. UplinkSender(d, Len(s.got))
  <2>1. d.construct.chunks \in Seq(Queued(d.sent)) /\ d.buffer \in Seq(Queued(d.sent))
    BY <1>7, <1>8 DEF WellFormed, Q
  <2>2. d.acked <= Len(s.got) /\ d.sent <= MaxSent["client"]
    BY <1>2, <1>3, <1>8 DEF UplinkSender
  <2>3. d.sent - d.acked <= MaxOutstanding
    BY <1>2, <1>3, <1>6, <1>8, PlainNumbers DEF UplinkSender
  <2>4. d.sequence = d.sent /\ d.peerAck = d.acked
    BY <1>3, <1>5, <1>8
  <2> QED  BY <1>8, <1>10, <2>1, <2>2, <2>3, <2>4 DEF UplinkSender
<1>12. OldConstructs = {} => DownlinkReceiver(d, s.sent)
  BY <1>1, <1>2, <1>8 DEF DownlinkReceiver
<1>13. /\ net' \in [Side -> SUBSET Packet] /\ net'["client"] \subseteq net["client"]
       /\ \A q \in net'["server"] : q \in net["server"] \/ q.chunks \in Seq(Queued(d.sent))
  <2>1. \A q \in r.out : q \in Packet /\ q.chunks \in Seq(Queued(d.sent))
    BY <1>7, <1>8 DEF Q
  <2> QED  BY <1>1, <1>2, <1>4, <1>8, <2>1, ClientSends
<1>14. WellFormed(d, Queued(d.sent)) /\ ~d.unknownSeq /\ c.sent <= d.sent
  BY <1>2, <1>7, <1>8 DEF Q
<1>15. /\ unpacker' \in [Side -> [of : Slot \cup {"client"}, chunks : Seq(Chunk)]]
       /\ unpacker'["client"].of = "client" /\ unpacker'["server"] = unpacker["server"]
       /\ OldConstructs = {} => unpacker'["client"].chunks \in Seq(Numbered(s.sent))
  <2> DEFINE u == unpacker'["client"]
  <2>1. /\ unpacker \in [Side -> [of : Slot \cup {"client"}, chunks : Seq(Chunk)]]
        /\ unpacker["client"].of = "client"
        /\ unpacker["client"].chunks \in Seq(Known(s.sent))
    BY ApplyTypes DEF s
  <2>2. p.chunks \in Seq(Chunk)
    BY <1>3 DEF Packet
  <2>3. u = IF r.start THEN [of |-> "client", chunks |-> p.chunks] ELSE unpacker["client"]
    BY <1>1, <2>1 DEF Side
  <2>4. unpacker' \in [Side -> [of : Slot \cup {"client"}, chunks : Seq(Chunk)]]
    BY <1>1, <2>1, <2>2 DEF Side
  <2>5. unpacker'["server"] = unpacker["server"]
    BY <1>1, <2>1 DEF Side
  <2>6. u.of = "client" /\ u.chunks \in Seq(Known(s.sent))
    BY <1>3, <2>1, <2>3
  <2> QED  BY <2>4, <2>5, <2>6 DEF Known
<1> QED  BY <1>1, <1>11, <1>12, <1>13, <1>14, <1>15, ClientStep DEF c, s

LEMMA ReceiveServerStep ==
  ASSUME IInv, NEW p \in net["server"], NEW dup \in BOOLEAN, Receive("server", p, dup),
         AckIsValid(conn[Serving], p.ack)
  PROVE  IInv'
<1> DEFINE c == conn["client"]
           s == conn[Session]
           r == Feed(s, p)
           d == r.conn
           K == Known(s.sent)
           rest == IF dup THEN net ELSE [net EXCEPT !["server"] = @ \ {p}]
<1>1. Serving = Session
  <2>1. conn[Serving].state = "ONLINE" /\ Serving \in Slot
    BY DEF Receive, Serving, Slot
  <2> QED  BY <2>1, SessionFacts
<1>2. Session \in Slot /\ Session # "client"
  BY SessionFacts DEF Slot
<1>3. /\ conn' = [conn EXCEPT ![Session] = d] /\ net' = Send(rest, "client", r.out)
      /\ unpacker' = [unpacker EXCEPT !["server"] =
                        IF r.start THEN [of |-> Session, chunks |-> p.chunks] ELSE @]
      /\ s.state = "ONLINE" /\ unpacker["server"].chunks = <<>>
  BY <1>1, <1>2 DEF Receive, Apply, PeerSide
<1>4. /\ s \in Connection /\ ~s.unknownSeq /\ s.sent \in Nat /\ c.sent \in Nat
      /\ Len(s.got) \in Nat /\ WellFormed(s, K) /\ K \subseteq Chunk
      /\ UplinkReceiver(s, c.sent)
      /\ OldConstructs = {} => DownlinkSender(s)
  BY <1>2, SessionFacts, KnownSubset DEF IInv, Uplink, Downlink
<1>5. p \in Packet /\ p.chunks \in Seq(Queued(c.sent)) /\ AckIsValid(s, p.ack)
  BY <1>1, ApplyTypes DEF Side
<1>6. rest \in [Side -> SUBSET Packet] /\ \A y \in Side : rest[y] \subseteq net[y]
  BY ApplyTypes
<1> HIDE DEF c, s, K, rest
<1>7. /\ WellFormed(s, K) /\ K \subseteq Chunk /\ s.state = "ONLINE"
      /\ p \in Packet /\ AckIsValid(s, p.ack)
  BY <1>3, <1>4, <1>5
<1>8. /\ WellFormed(d, K) /\ FedChange(s, p, d)
      /\ \A q \in r.out : /\ q \in Packet /\ q.chunks \in Seq(K)
                          /\ q.ack = s.ack /\ q.accepted = Len(s.got)
  BY <1>7, FeedWell
<1>9. /\ d.sequence = s.sequence /\ d.ack = s.ack
      /\ d.unknownSeq = s.unknownSeq /\ d.sent = s.sent /\ d.got = s.got
  BY <1>8 DEF FedChange
<1> HIDE DEF r, d
<1>10. /\ net' \in [Side -> SUBSET Packet] /\ net'["server"] \subseteq net["server"]
      /\ \A q \in net'["client"] :
           \/ q \in net["client"]
           \/ q.accepted = Len(s.got) /\ q.ack = q.accepted /\ q.chunks \in Seq(K)
  <2>1. r.out \in SUBSET Answers(K, Len(s.got))
    BY <1>3, <1>4, <1>8 DEF UplinkReceiver, Answers
  <2>2. Answered(net', K, Len(s.got))
    BY <1>3, <1>6, <2>1, ServerSends
  <2> QED  BY <2>2 DEF Answered
<1>11. UplinkReceiver(d, c.sent)
  BY <1>3, <1>4, <1>9 DEF UplinkReceiver
<1>12. OldConstructs = {} => DownlinkSender(d)
  BY <1>3, <1>4, <1>9 DEF DownlinkSender
<1>13. K = Known(d.sent) /\ WellFormed(d, Known(d.sent)) /\ ~d.unknownSeq
  BY <1>4, <1>8, <1>9 DEF K
<1>14. Len(s.got) <= Len(d.got) /\ s.sent <= d.sent /\ (d.got = <<>> => s.got = <<>>)
  BY <1>4, <1>9
<1>15. \A q \in net'["client"] :
           \/ q \in net["client"]
           \/ /\ q.accepted <= Len(d.got) /\ q.ack = q.accepted
              /\ q.chunks \in Seq(Known(d.sent))
  BY <1>4, <1>9, <1>10, <1>13
<1>16. /\ unpacker' \in [Side -> [of : Slot \cup {"client"}, chunks : Seq(Chunk)]]
       /\ unpacker'["client"] = unpacker["client"]
       /\ unpacker'["server"].chunks # <<>> => unpacker'["server"].of \in {Session, "new"}
       /\ unpacker'["server"].chunks \in Seq(Queued(c.sent))
  <2> DEFINE u == unpacker'["server"]
  <2>1. /\ unpacker \in [Side -> [of : Slot \cup {"client"}, chunks : Seq(Chunk)]]
        /\ unpacker["server"].chunks \in Seq(Queued(c.sent))
    BY ApplyTypes DEF c
  <2>2. p.chunks \in Seq(Chunk)
    BY <1>5 DEF Packet
  <2>3. u = IF r.start THEN [of |-> Session, chunks |-> p.chunks] ELSE unpacker["server"]
    BY <1>3, <2>1 DEF Side
  <2>4. unpacker' \in [Side -> [of : Slot \cup {"client"}, chunks : Seq(Chunk)]]
    BY <1>2, <1>3, <2>1, <2>2 DEF Side
  <2>5. unpacker'["client"] = unpacker["client"]
    BY <1>3, <2>1 DEF Side
  <2>6. (u.chunks # <<>> => u.of = Session) /\ u.chunks \in Seq(Queued(c.sent))
    BY <1>3, <1>5, <2>1, <2>3
  <2> QED  BY <2>4, <2>5, <2>6
<1> QED  BY <1>3, <1>9, <1>10, <1>11, <1>12, <1>13, <1>14, <1>15, <1>16, SessionStep DEF c, s

-----------------------------------------------------------------------------
(* The next chunk, taken by the client, by the server for the session, and  *)
(* by the server for the slot that was reset by the move.                   *)
LEMMA FetchClientStep ==
  ASSUME IInv, FetchChunkAt("client")
  PROVE  IInv'
<1> DEFINE c  == conn["client"]
           s  == conn[Session]
           u  == unpacker["client"]
           ch == Head(u.chunks)
           d  == FetchChunk(c, ch)
<1>1. u.of = "client" /\ u.chunks # <<>> /\ u.chunks \in Seq(Known(s.sent))
  BY ApplyTypes DEF FetchChunkAt
<1>2. /\ conn' = [conn EXCEPT !["client"] = d] /\ net' = net
      /\ unpacker' = [unpacker EXCEPT !["client"].chunks = Tail(@)]
  BY <1>1 DEF FetchChunkAt, IsCommand
<1>3. /\ c \in Connection /\ ~c.unknownSeq /\ c.sent \in Nat /\ s.sent \in Nat
      /\ c.got \in Seq(Nat) /\ Len(c.got) \in Nat
      /\ WellFormed(c, Queued(c.sent)) /\ Queued(c.sent) \subseteq Chunk
      /\ Known(s.sent) \subseteq Chunk
      /\ UplinkSender(c, Len(s.got))
  BY SessionFacts, KnownSubset, SMTT(60) DEF IInv, Uplink, Connection
<1>4. OldConstructs = {} => DownlinkReceiver(c, s.sent) /\ DownlinkSender(s)
  BY DEF IInv, Downlink
<1>5. ch \in Known(s.sent) /\ Tail(u.chunks) \in Seq(Known(s.sent)) /\ ch \in Chunk
  BY <1>1, <1>3, HeadTailProperties
<1> HIDE DEF c, s, ch
<1>6. WellFormed(d, Queued(c.sent)) /\ FetchChange(c, ch, d)
  BY <1>3, <1>5, FetchChunkWell
<1> HIDE DEF d
<1>7. OldConstructs = {} => DownlinkReceiver(d, s.sent)
  <2> SUFFICES ASSUME OldConstructs = {}  PROVE DownlinkReceiver(d, s.sent)
    OBVIOUS
  <2>1. DownlinkReceiver(c, s.sent) /\ s.sent <= MaxSent["server"]
    BY <1>4 DEF DownlinkSender
  <2>2. CASE d.ack = c.ack /\ d.got = c.got
    BY <1>6, <2>1, <2>2 DEF DownlinkReceiver, FetchChange
  <2>3. CASE ch.vital /\ IsNext(c, ch) /\ c.state = "OFFLINE"
    BY <1>6, <2>1, <2>3 DEF DownlinkReceiver, FetchChange
  <2>4. CASE /\ ch.vital /\ IsNext(c, ch) /\ c.state # "OFFLINE"
             /\ d.ack = ch.sequence /\ d.got = Append(c.got, ch.data)
    <3> DEFINE n == Len(c.got)
    <3>1. n \in Nat /\ n <= s.sent /\ c.ack = n
      BY <1>3, <2>1, <2>4 DEF DownlinkReceiver
    <3>2. (n + 1) % MaxSequence = n + 1
      <4> HIDE DEF n
      <4>1. MaxSent["server"] \in Nat /\ MaxSent["server"] <= MaxSequence - 2
        BY PlainNumbers DEF Side
      <4>2. n + 1 \in Nat /\ n + 1 < MaxSequence
        BY <1>3, <2>1, <3>1, <4>1, PlainNumbers
      <4> QED  BY <4>2, PlainNumbers
    <3>3. ch.sequence = n + 1
      BY <1>3, <2>4, <3>1, <3>2 DEF IsNext
    <3>4. n + 1 <= s.sent /\ ch.data \in {n + 1, Garbage} /\ ch.data \in Nat
      BY <1>5, <2>4, <3>3 DEF Known, Numbered, Chunk
    <3>5. /\ Len(d.got) = n + 1 /\ DOMAIN d.got = 1 .. n + 1 /\ DOMAIN c.got = 1 .. n
          /\ \A i \in 1 .. n : d.got[i] = c.got[i]
          /\ d.got[n + 1] = ch.data
      BY <1>3, <2>4, <3>4, AppendProperties, LenProperties
    <3> HIDE DEF n
    <3>6. \A i \in 1 .. n + 1 : d.got[i] \in {i, Garbage}
      BY <2>1, <3>1, <3>4, <3>5, SMTT(60) DEF DownlinkReceiver
    <3> QED  BY <2>4, <3>3, <3>4, <3>5, <3>6 DEF DownlinkReceiver
  <2> QED  BY <1>6, <2>2, <2>3, <2>4 DEF FetchChange
<1>8. UplinkSender(d, Len(s.got))
  <2>1. d.construct.chunks \in Seq(Queued(d.sent)) /\ d.buffer \in Seq(Queued(d.sent))
    BY <1>6 DEF WellFormed, FetchChange
  <2> QED  BY <1>3, <1>6, <2>1 DEF UplinkSender, FetchChange
<1>9. WellFormed(d, Queued(d.sent)) /\ ~d.unknownSeq /\ c.sent <= d.sent
  <2>1. ~d.unknownSeq
    BY <1>3, <1>6 DEF FetchChange
  <2> QED  BY <1>3, <1>6, <2>1 DEF FetchChange
<1>10. /\ unpacker' \in [Side -> [of : Slot \cup {"client"}, chunks : Seq(Chunk)]]
       /\ unpacker'["client"].of = "client" /\ unpacker'["server"] = unpacker["server"]
       /\ OldConstructs = {} => unpacker'["client"].chunks \in Seq(Numbered(s.sent))
  <2>1. Tail(u.chunks) \in Seq(Chunk)
    BY <1>3, <1>5, SeqMonotonic
  <2>2. /\ unpacker'["client"].of = u.of /\ unpacker'["client"].chunks = Tail(u.chunks)
        /\ unpacker'["server"] = unpacker["server"]
        /\ unpacker' \in [Side -> [of : Slot \cup {"client"}, chunks : Seq(Chunk)]]
    BY <1>2, <2>1, ApplyTypes DEF Side
  <2> QED  BY <1>1, <1>5, <2>2 DEF Known
<1>11. /\ net' \in [Side -> SUBSET Packet] /\ net'["client"] \subseteq net["client"]
       /\ \A p \in net'["server"] : p \in net["server"] \/ p.chunks \in Seq(Queued(d.sent))
  BY <1>2, ApplyTypes
<1> QED  BY <1>2, <1>7, <1>8, <1>9, <1>10, <1>11, ClientStep DEF c, s

(* A chunk of the client that is next extends what the server got.          *)
LEMMA FetchUplink ==
  ASSUME IInv, NEW n \in Nat, n <= MaxSent["client"],
         NEW s \in Connection, UplinkReceiver(s, n), ~s.unknownSeq,
         NEW ch \in Queued(n), NEW d, FetchChange(s, ch, d)
  PROVE  /\ UplinkReceiver(d, n) /\ Len(d.got) \in {Len(s.got), Len(s.got) + 1}
         /\ s.state # "OFFLINE" /\ ch.vital /\ IsNext(s, ch) => Len(d.got) = Len(s.got) + 1
<1> DEFINE m == Len(s.got)
<1>1. /\ s.got \in Seq(Nat) /\ m \in Nat /\ m <= n /\ s.got = [i \in 1 .. m |-> i]
      /\ s.state # "OFFLINE" => s.ack = m
  BY LenProperties DEF UplinkReceiver, Connection
<1>2. n < MaxSequence - 1 /\ MaxSequence \in Nat \ {0}
  <2>1. MaxSent["client"] \in Nat /\ MaxSent["client"] <= MaxSequence - 2
    BY PlainNumbers DEF Side
  <2> QED  BY <2>1, PlainNumbers
<1>3. CASE ~(ch.vital /\ IsNext(s, ch)) \/ s.state = "OFFLINE"
  BY <1>1, <1>3 DEF FetchChange, UplinkReceiver
<1>4. CASE ch.vital /\ IsNext(s, ch) /\ s.state # "OFFLINE"
  <2>1. (m + 1) % MaxSequence = m + 1
    <3> HIDE DEF m
    <3>1. m + 1 \in Nat /\ m + 1 < MaxSequence
      BY <1>1, <1>2
    <3> QED  BY <3>1, PlainNumbers
  <2>2. ch.data \in 1 .. n /\ ch.sequence = ch.data
    <3>1. ch.data \in 1 .. n /\ ch.sequence = ch.data % MaxSequence
      BY <1>4 DEF Queued
    <3>2. ch.data \in Nat /\ ch.data < MaxSequence
      BY <1>2, <3>1
    <3> QED  BY <3>1, <3>2, PlainNumbers
  <2>3. ch.sequence = m + 1
    BY <1>1, <1>4, <2>1 DEF IsNext
  <2>4. \/ d.ack = s.ack /\ d.got = s.got
        \/ d.ack = ch.sequence /\ d.got = Append(s.got, m + 1)
    BY <1>4, <2>2, <2>3 DEF FetchChange
  <2>5. d.ack = m + 1 /\ d.got = Append(s.got, m + 1)
    BY <1>4, <2>2, <2>3 DEF FetchChange
  <2>6. /\ Append(s.got, m + 1) = [i \in 1 .. m + 1 |-> i]
        /\ Len(Append(s.got, m + 1)) = m + 1
    <3> DEFINE a == Append(s.got, m + 1)
    <3>1. /\ a \in Seq(Nat) /\ Len(a) = m + 1
          /\ \A i \in 1 .. m : a[i] = s.got[i]
          /\ a[m + 1] = m + 1
      BY <1>1, AppendProperties
    <3> HIDE DEF a, m
    <3>2. a = [i \in 1 .. m + 1 |-> a[i]]
      BY <3>1, LenProperties
    <3>3. \A i \in 1 .. m + 1 : a[i] = i
      BY <1>1, <3>1
    <3>4. a = [i \in 1 .. m + 1 |-> i]
      BY <3>2, <3>3
    <3> QED  BY <3>1, <3>4 DEF a
  <2> QED  BY <1>1, <2>2, <2>3, <2>5, <2>6 DEF UplinkReceiver
<1> QED  BY <1>3, <1>4

LEMMA FetchServerStep ==
  ASSUME IInv, FetchChunkAt("server"),
         ~IsCommand(unpacker["server"].of, Head(unpacker["server"].chunks))
  PROVE  IInv'
<1> DEFINE c  == conn["client"]
           s  == conn[Session]
           u  == unpacker["server"]
           o  == conn[u.of]
           ch == Head(u.chunks)
           d  == FetchChunk(o, ch)
<1>1. /\ conn' = [conn EXCEPT ![u.of] = d] /\ net' = net
      /\ unpacker' = [unpacker EXCEPT !["server"].chunks = Tail(@)]
  BY DEF FetchChunkAt
<1>2. /\ u.chunks # <<>> /\ u.chunks \in Seq(Queued(c.sent))
      /\ u.of \in {Session, "new"} /\ u.of \in Slot
  <2>1. u.chunks # <<>> /\ u.of \in {Session, "new"} /\ u.chunks \in Seq(Queued(c.sent))
    BY ApplyTypes DEF FetchChunkAt
  <2> QED  BY <2>1, SessionFacts DEF Slot
<1>3. /\ c.sent \in Nat /\ s.sent \in Nat /\ Len(s.got) \in Nat /\ s \in Connection
      /\ ~s.unknownSeq /\ ~o.unknownSeq /\ o.unknownSeq \in BOOLEAN
      /\ WellFormed(o, Known(s.sent)) /\ Known(s.sent) \subseteq Chunk
      /\ Queued(c.sent) \subseteq Chunk
      /\ c.sent <= MaxSent["client"] /\ UplinkReceiver(s, c.sent)
  <2>1. c.sent <= MaxSent["client"] /\ UplinkReceiver(s, c.sent)
    BY DEF IInv, Uplink, UplinkSender
  <2>2. /\ c.sent \in Nat /\ s.sent \in Nat /\ Len(s.got) \in Nat /\ s \in Connection
        /\ ~s.unknownSeq /\ ~o.unknownSeq /\ o \in Connection
        /\ WellFormed(o, Known(s.sent))
    BY <1>2, SessionFacts
  <2> HIDE DEF c, s, o
  <2>3. o.unknownSeq \in BOOLEAN
    BY <2>2 DEF Connection
  <2>4. Known(s.sent) \subseteq Chunk /\ Queued(c.sent) \subseteq Chunk
    BY <2>2, KnownSubset
  <2> QED  BY <2>1, <2>2, <2>3, <2>4
<1>4. ch \in Queued(c.sent) /\ Tail(u.chunks) \in Seq(Queued(c.sent)) /\ ch \in Chunk
  BY <1>2, <1>3, HeadTailProperties
<1>5. /\ unpacker' \in [Side -> [of : Slot \cup {"client"}, chunks : Seq(Chunk)]]
      /\ unpacker'["client"] = unpacker["client"]
      /\ unpacker'["server"].of = u.of
      /\ unpacker'["server"].chunks = Tail(u.chunks)
  <2>1. Tail(u.chunks) \in Seq(Chunk)
    BY <1>3, <1>4, SeqMonotonic
  <2> QED  BY <1>1, <2>1, ApplyTypes DEF Side
<1> HIDE DEF ch
<1>6. WellFormed(d, Known(s.sent)) /\ FetchChange(o, ch, d)
  <2> HIDE DEF o, s
  <2> QED  BY <1>3, <1>4, FetchChunkWell
<1> HIDE DEF d
<1>7. ~d.unknownSeq
  BY <1>3, <1>6 DEF FetchChange
<1>8. CASE u.of = Session
  <2>1. o = s
    BY <1>8
  <2>2. FetchChange(s, ch, d)
    BY <1>6, <2>1
  <2> HIDE DEF c, s, u, o
  <2>3. UplinkReceiver(d, c.sent) /\ Len(d.got) \in {Len(s.got), Len(s.got) + 1}
    BY <1>3, <1>4, <2>2, FetchUplink
  <2>4. Len(s.got) <= Len(d.got)
    BY <1>3, <2>3
  <2>5. d.got = <<>> => s.got = <<>>
    <3>1. s.got \in Seq(Nat)
      BY <1>3 DEF Connection
    <3> QED  BY <1>3, <2>3, <3>1, EmptySeq, LenProperties
  <2>6. /\ WellFormed(d, Known(d.sent)) /\ s.sent <= d.sent
        /\ d.state = "ONLINE" => s.state = "ONLINE"
    BY <1>3, <1>6, <2>2 DEF FetchChange
  <2>7. OldConstructs = {} => DownlinkSender(d)
    BY <2>2 DEF IInv, Downlink, DownlinkSender, FetchChange, s
  <2>8. \A p \in net'["client"] :
           \/ p \in net["client"]
           \/ /\ p.accepted <= Len(d.got) /\ p.ack = p.accepted
              /\ p.chunks \in Seq(Known(d.sent))
    BY <1>1
  <2>9. /\ conn' = [conn EXCEPT ![Session] = d]
        /\ unpacker'["server"].chunks # <<>> => unpacker'["server"].of \in {Session, "new"}
        /\ unpacker'["server"].chunks \in Seq(Queued(c.sent))
        /\ net' \in [Side -> SUBSET Packet] /\ net'["server"] \subseteq net["server"]
    BY <1>1, <1>2, <1>4, <1>5, <1>8, ApplyTypes
  <2> QED  BY <1>5, <1>7, <2>3, <2>4, <2>5, <2>6, <2>7, <2>8, <2>9, SessionStep DEF c, s
<1>9. CASE u.of # Session
  <2>1. u.of = "new" /\ Session = "old" /\ o.state = "OFFLINE"
    BY <1>2, <1>9, SessionFacts DEF IInv, OneSession, Slot
  <2>2. d.state = "OFFLINE" /\ d.got = o.got
    BY <1>6, <2>1 DEF FetchChange
  <2> HIDE DEF c, s
  <2>3. u.chunks # <<>> /\ Tail(u.chunks) \in Seq(Queued(c.sent))
    BY <1>2, <1>4
  <2> QED  BY <1>1, <1>2, <1>5, <1>6, <1>7, <1>9, <2>1, <2>2, <2>3, OtherSlotStep DEF c, s
<1> QED  BY <1>8, <1>9

(* The command moves the session into the slot where its player waits.      *)
LEMMA MoveStep ==
  ASSUME IInv, FetchChunkAt("server"),
         IsCommand(unpacker["server"].of, Head(unpacker["server"].chunks))
  PROVE  IInv'
<1> DEFINE c  == conn["client"]
           s  == conn["new"]
           u  == unpacker["server"]
           ch == Head(u.chunks)
           d  == FetchChunk(s, ch)
           o  == SetTimedOut(conn["old"], d)
           n  == Reset(d)
<1>1. /\ u.of = "new" /\ s.state = "ONLINE" /\ ch.vital /\ IsNext(s, ch)
      /\ u.chunks # <<>>
      /\ conn' = [conn EXCEPT !["old"] = o, !["new"] = n] /\ net' = net
      /\ unpacker' = [unpacker EXCEPT !["server"].chunks = Tail(@)]
  BY DEF FetchChunkAt, IsCommand
<1>2. Session = "new" /\ conn[Session] = s /\ "new" \in Slot /\ "old" \in Slot /\ "client" \notin Slot
  BY <1>1, SessionFacts DEF Slot
<1>3. /\ c.sent \in Nat /\ c.acked \in Nat /\ s.sent \in Nat /\ Len(s.got) \in Nat
      /\ s \in Connection /\ ~s.unknownSeq /\ conn["old"] \in Connection
      /\ ~conn["old"].unknownSeq
      /\ WellFormed(s, Known(s.sent)) /\ WellFormed(conn["old"], Known(s.sent))
      /\ Known(s.sent) \subseteq Chunk
      /\ Queued(c.sent) \subseteq Chunk
      /\ c.sent <= MaxSent["client"] /\ UplinkReceiver(s, c.sent)
  BY <1>2, SessionFacts, KnownSubset DEF IInv, Uplink, UplinkSender
<1>4. ch \in Queued(c.sent) /\ Tail(u.chunks) \in Seq(Queued(c.sent)) /\ ch \in Chunk
  <2>1. u.chunks \in Seq(Queued(c.sent))
    BY ApplyTypes
  <2> QED  BY <1>1, <1>3, <2>1, HeadTailProperties
<1>5. /\ unpacker' \in [Side -> [of : Slot \cup {"client"}, chunks : Seq(Chunk)]]
      /\ unpacker'["client"] = unpacker["client"]
      /\ unpacker'["server"].of = "new"
      /\ unpacker'["server"].chunks \in Seq(Queued(c.sent))
  <2>1. Tail(u.chunks) \in Seq(Chunk)
    BY <1>3, <1>4, SeqMonotonic
  <2> QED  BY <1>1, <1>4, <2>1, ApplyTypes DEF Side
<1>6. conn \in [Slot \cup {"client"} -> Connection]
  BY DEF IInv, TypeOK
<1> HIDE DEF c, s, u, ch
<1>7. WellFormed(d, Known(s.sent)) /\ FetchChange(s, ch, d)
  BY <1>3, <1>4, FetchChunkWell
<1> HIDE DEF d
<1>8. /\ UplinkReceiver(d, c.sent) /\ Len(d.got) = Len(s.got) + 1
      /\ d \in Connection /\ d.state = "ONLINE" /\ d.sent = s.sent
  <2>1. UplinkReceiver(d, c.sent) /\ Len(d.got) = Len(s.got) + 1
    BY <1>1, <1>3, <1>4, <1>7, FetchUplink
  <2> QED  BY <1>1, <1>7, <2>1 DEF WellFormed, FetchChange
<1>9. /\ d.ack = Len(d.got) /\ d.got # <<>>
  <2>1. d.got \in Seq(Nat)
    BY <1>8 DEF Connection
  <2> QED  BY <1>3, <1>8, <2>1, EmptySeq DEF UplinkReceiver
<1>10. /\ o \in Connection /\ o.state = "ONLINE" /\ ~o.unknownSeq
       /\ o.sequence = d.sequence /\ o.ack = d.ack /\ o.sent = d.sent /\ o.got = d.got
       /\ o.construct = conn["old"].construct
       /\ o.buffer \in Seq(Known(s.sent)) /\ Len(o.buffer) <= BufferCap
  <2> DEFINE b == [i \in DOMAIN d.buffer |-> [d.buffer[i] EXCEPT !.data = Garbage]]
             K == Known(s.sent)
  <2>1. d.buffer \in Seq(K) /\ Len(d.buffer) <= BufferCap
    BY <1>7 DEF WellFormed
  <2>2. ASSUME NEW e \in K  PROVE [e EXCEPT !.data = Garbage] \in K
    BY <1>3, <2>2 DEF Known, Numbered, Chunk, Garbage
  <2> HIDE DEF K
  <2>3. /\ Len(d.buffer) \in Nat /\ DOMAIN d.buffer = 1 .. Len(d.buffer)
        /\ \A i \in 1 .. Len(d.buffer) : d.buffer[i] \in K
    BY <2>1, LenProperties, ElementOfSeq
  <2>4. b \in Seq(K) /\ Len(b) = Len(d.buffer)
    BY <2>2, <2>3
  <2>5. b \in Seq(Chunk)
    BY <1>3, <2>4, SeqMonotonic DEF K
  <2> HIDE DEF b
  <2>6. o = [conn["old"] EXCEPT !.state = "ONLINE", !.remoteClosed = FALSE,
                                !.sequence = d.sequence, !.ack = d.ack, !.buffer = b,
                                !.sent = d.sent, !.got = d.got, !.acked = d.acked,
                                !.unsaved = d.unsaved]
    BY DEF SetTimedOut, b
  <2> HIDE DEF o
  <2>7. /\ o \in Connection /\ o.state = "ONLINE" /\ o.unknownSeq = conn["old"].unknownSeq
        /\ o.sequence = d.sequence /\ o.ack = d.ack /\ o.sent = d.sent /\ o.got = d.got
        /\ o.construct = conn["old"].construct /\ o.buffer = b
    BY <1>3, <1>8, <2>5, <2>6 DEF Connection
  <2> QED  BY <1>3, <2>1, <2>4, <2>7 DEF K
<1>11. /\ n \in Connection /\ n.state = "OFFLINE" /\ ~n.unknownSeq
       /\ n.buffer = <<>> /\ n.construct.chunks = <<>>
  <2>1. <<>> \in Seq(Chunk) /\ 0 \in SeqNumbers
    BY EmptySeq, SequenceAssumption DEF SeqNumbers
  <2>2. NoChunks \in [chunks : Seq(Chunk), resend : BOOLEAN] /\ NoChunks.chunks = <<>>
    BY <2>1 DEF NoChunks
  <2> QED  BY <1>8, <2>1, <2>2 DEF Reset, Connection
<1> HIDE DEF o, n
<1>12. /\ conn'["client"] = c /\ conn'["old"] = o /\ conn'["new"] = n
       /\ conn' \in [Slot \cup {"client"} -> Connection]
  BY <1>1, <1>2, <1>6, <1>10, <1>11 DEF c
<1>13. Session' = "old" /\ conn'[Session'] = o
  BY <1>9, <1>10, <1>12 DEF Session
<1>14. /\ \A x \in Slot \cup {"client"} :
             /\ Len(conn'[x].construct.chunks) <= PacketCap
             /\ Len(conn'[x].buffer) <= BufferCap
             /\ ~conn'[x].unknownSeq
       /\ conn'["old"].construct.chunks \in Seq(Known(s.sent))
       /\ conn'["old"].buffer \in Seq(Known(s.sent))
       /\ conn'["new"].construct.chunks \in Seq(Known(s.sent))
       /\ conn'["new"].buffer \in Seq(Known(s.sent))
  <2>1. Len(<<>>) = 0 /\ <<>> \in Seq(Known(s.sent))
    BY EmptySeq
  <2>2. /\ Len(c.construct.chunks) <= PacketCap /\ Len(c.buffer) <= BufferCap
        /\ ~c.unknownSeq
    BY DEF IInv, TypeOK, OneSession, c
  <2>3. /\ Len(o.construct.chunks) <= PacketCap /\ o.construct.chunks \in Seq(Known(s.sent))
    BY <1>3, <1>10 DEF WellFormed
  <2>4. \A x \in Slot \cup {"client"} : x = "client" \/ x = "old" \/ x = "new"
    BY DEF Slot
  <2>5. /\ Len(o.buffer) <= BufferCap /\ Len(n.construct.chunks) <= PacketCap
        /\ Len(n.buffer) <= BufferCap /\ ~o.unknownSeq /\ ~n.unknownSeq
    BY <1>10, <1>11, <2>1, CapacityAssumption
  <2>6. \A x \in Slot \cup {"client"} :
           /\ Len(conn'[x].construct.chunks) <= PacketCap
           /\ Len(conn'[x].buffer) <= BufferCap
           /\ ~conn'[x].unknownSeq
    BY <1>12, <2>2, <2>3, <2>4, <2>5
  <2> QED  BY <1>10, <1>11, <1>12, <2>1, <2>3, <2>6
<1>15. TypeOK'
  BY <1>1, <1>5, <1>12, <1>14, ApplyTypes DEF TypeOK
<1>16. OneSession'
  BY <1>5, <1>11, <1>12, <1>13, <1>14, ApplyTypes DEF OneSession
<1>17. Uplink'
  <2>1. UplinkReceiver(o, c.sent)
    BY <1>8, <1>9, <1>10 DEF UplinkReceiver
  <2>2. /\ UplinkSender(c, Len(s.got))
        /\ \A p \in net["server"] : p.chunks \in Seq(Queued(c.sent))
        /\ \A p \in net["client"] :
             p \in Packet /\ p.accepted <= Len(s.got) /\ p.ack = p.accepted
    BY <1>2, ApplyTypes DEF IInv, Uplink, Side, c
  <2>3. Len(o.got) = Len(s.got) + 1
    BY <1>8, <1>10
  <2>4. UplinkSender(c, Len(o.got))
    BY <1>3, <2>2, <2>3 DEF UplinkSender
  <2>5. \A p \in net["client"] : p.accepted \in Nat
    BY <2>2 DEF Packet
  <2>6. \A p \in net["client"] : p.accepted <= Len(o.got) /\ p.ack = p.accepted
    BY <1>3, <2>2, <2>3, <2>5
  <2> QED  BY <1>1, <1>5, <1>12, <1>13, <2>1, <2>2, <2>4, <2>6 DEF Uplink
<1>18. (OldConstructs = {} => Downlink)'
  <2> SUFFICES ASSUME OldConstructs = {}  PROVE Downlink'
    OBVIOUS
  <2>1. Known(s.sent) = Numbered(s.sent) /\ o.sent = s.sent
    BY <1>8, <1>10 DEF Known
  <2>2. /\ DownlinkSender(s) /\ DownlinkReceiver(c, s.sent)
        /\ unpacker["client"].chunks \in Seq(Numbered(s.sent))
        /\ \A p \in net["client"] : p.chunks \in Seq(Numbered(s.sent))
    BY <1>2 DEF IInv, Downlink, c
  <2>3. DownlinkSender(o)
    BY <1>1, <1>7, <1>10, <2>1, <2>2 DEF DownlinkSender, FetchChange
  <2>4. \A x \in Slot : /\ conn'[x].construct.chunks \in Seq(Numbered(s.sent))
                        /\ conn'[x].buffer \in Seq(Numbered(s.sent))
    BY <1>14, <2>1 DEF Slot
  <2> QED  BY <1>1, <1>5, <1>12, <1>13, <2>1, <2>2, <2>3, <2>4 DEF Downlink
<1> QED  BY <1>15, <1>16, <1>17, <1>18 DEF IInv

-----------------------------------------------------------------------------
LEMMA InitIInv == Init => IInv
<1> SUFFICES ASSUME Init  PROVE IInv
  OBVIOUS
<1>1. PICK ack \in OldAcks, left \in LeftOver :
        conn = [x \in Slot \cup {"client"} |->
                  IF x = "old" THEN TimedOutSlot(ack, left) ELSE OnlineConnection]
  BY DEF Init
<1> DEFINE o == TimedOutSlot(ack, left)
           n == OnlineConnection
<1>2. /\ conn["old"] = o /\ conn["new"] = n /\ conn["client"] = n
      /\ "old" \in Slot /\ "new" \in Slot /\ "client" \notin Slot
      /\ \A x \in Slot \cup {"client"} : x = "client" \/ x = "old" \/ x = "new"
  BY <1>1 DEF Slot
<1>3. /\ unpacker = [s \in Side |-> [of |-> "client", chunks |-> <<>>]]
      /\ net = [s \in Side |-> {}]
  BY DEF Init
<1>4. /\ \A S : <<>> \in Seq(S)
      /\ Len(<<>>) = 0 /\ 0 \in SeqNumbers /\ PacketCap \in Nat \ {0}
      /\ BufferCap \in Nat /\ <<>> = [i \in 1 .. 0 |-> i]
  BY EmptySeq, SequenceAssumption, CapacityAssumption DEF SeqNumbers
<1>5. /\ n \in Connection /\ n.state = "ONLINE" /\ n.sequence = 0 /\ n.ack = 0
      /\ n.peerAck = 0 /\ n.unknownSeq = FALSE /\ n.buffer = <<>>
      /\ n.construct.chunks = <<>> /\ n.sent = 0 /\ n.got = <<>> /\ n.acked = 0
  BY <1>4 DEF OnlineConnection, NoChunks, Connection
<1>6. /\ left \in Seq(Chunk) /\ Len(left) <= PacketCap
      /\ OldConstructs = {} => left = <<>>
  <2>1. CASE left = <<>>
    BY <1>4, <2>1
  <2>2. CASE \E q \in OldConstructs :
               left = <<[vital |-> TRUE, sequence |-> q, data |-> Garbage]>>
    <3>1. PICK q \in OldConstructs :
             left = <<[vital |-> TRUE, sequence |-> q, data |-> Garbage]>>
      BY <2>2
    <3>2. [vital |-> TRUE, sequence |-> q, data |-> Garbage] \in Chunk
      BY ResumeAssumption DEF Chunk, Garbage
    <3> QED  BY <1>4, <3>1, <3>2
  <2> QED  BY <2>1, <2>2 DEF LeftOver
<1>7. ack \in SeqNumbers
  BY ResumeAssumption
<1>8. /\ o \in Connection /\ o.state = "ERROR" /\ o.unknownSeq = FALSE
      /\ o.buffer = <<>> /\ o.construct.chunks = left /\ o.got = <<>>
  BY <1>4, <1>6, <1>7 DEF TimedOutSlot, OnlineConnection, NoChunks, Connection
<1> HIDE DEF o, n
<1>9. Session = "new"
  BY <1>2, <1>8 DEF Session
<1>10. TypeOK
  <2>1. conn \in [Slot \cup {"client"} -> Connection]
    BY <1>1, <1>2, <1>5, <1>8 DEF o, n
  <2>2. /\ unpacker \in [Side -> [of : Slot \cup {"client"}, chunks : Seq(Chunk)]]
        /\ net \in [Side -> SUBSET Packet]
    BY <1>3, <1>4
  <2> QED  BY <1>2, <1>4, <1>5, <1>6, <1>8, <2>1, <2>2 DEF TypeOK
<1>11. unpacker["client"].of = "client" /\ unpacker["server"].chunks = <<>>
       /\ unpacker["client"].chunks = <<>> /\ net["client"] = {} /\ net["server"] = {}
  BY <1>3 DEF Side
<1>12. OneSession
  BY <1>2, <1>5, <1>8, <1>9, <1>11 DEF OneSession
<1>13. MaxSent["client"] \in Nat /\ MaxSent["server"] \in Nat /\ MaxOutstanding \in Nat
  BY PlainNumbers DEF Side
<1>14. Uplink
  <2>1. UplinkSender(n, 0)
    BY <1>4, <1>5, <1>13 DEF UplinkSender
  <2>2. UplinkReceiver(n, 0)
    BY <1>4, <1>5 DEF UplinkReceiver
  <2> QED  BY <1>2, <1>4, <1>5, <1>9, <1>11, <2>1, <2>2 DEF Uplink
<1>15. OldConstructs = {} => Downlink
  <2> SUFFICES ASSUME OldConstructs = {}  PROVE Downlink
    OBVIOUS
  <2>1. DownlinkSender(n)
    BY <1>5, <1>13 DEF DownlinkSender
  <2>2. DownlinkReceiver(n, 0)
    BY <1>4, <1>5 DEF DownlinkReceiver
  <2>3. \A x \in Slot : conn[x].construct.chunks = <<>> /\ conn[x].buffer = <<>>
    BY <1>2, <1>5, <1>6, <1>8
  <2> QED  BY <1>2, <1>4, <1>5, <1>9, <1>11, <2>1, <2>2, <2>3 DEF Downlink
<1> QED  BY <1>10, <1>12, <1>14, <1>15 DEF IInv

LEMMA NextIInv == IInv /\ [Next]_vars => IInv'
<1> SUFFICES ASSUME IInv, [Next]_vars  PROVE IInv'
  OBVIOUS
<1>1. ASSUME NEW x \in Slot \cup {"client"}, QueueChunkAt(x)  PROVE IInv'
  BY <1>1, QueueClientStep, QueueSessionStep
<1>2. ASSUME NEW x \in Slot \cup {"client"}, FlushAt(x)  PROVE IInv'
  BY <1>2, FlushStep
<1>3. ASSUME NEW x \in Slot \cup {"client"}, NEW due \in SUBSET Expiring, UpdateAt(x, due)
      PROVE  IInv'
  BY <1>3, UpdateStep
<1>4. ASSUME NEW s \in Side, FetchChunkAt(s)  PROVE IInv'
  <2>1. s = "client" \/ s = "server"
    BY DEF Side
  <2> QED  BY <1>4, <2>1, FetchClientStep, FetchServerStep, MoveStep
<1>5. ASSUME NEW s \in Side, NEW p \in net[s], NEW dup \in BOOLEAN, Receive(s, p, dup)
      PROVE  IInv'
  <2>1. CASE s = "client"
    <3>1. CASE AckIsValid(conn["client"], p.ack)
      BY <1>5, <2>1, <3>1, ReceiveClientStep
    <3>2. CASE ~AckIsValid(conn["client"], p.ack)
      BY <1>5, <2>1, <3>2, DroppedStep
    <3> QED  BY <3>1, <3>2
  <2>2. CASE s = "server"
    <3>1. CASE AckIsValid(conn[Serving], p.ack)
      BY <1>5, <2>2, <3>1, ReceiveServerStep
    <3>2. CASE ~AckIsValid(conn[Serving], p.ack)
      BY <1>5, <2>2, <3>2, DroppedStep
    <3> QED  BY <3>1, <3>2
  <2> QED  BY <2>1, <2>2 DEF Side
<1>6. ASSUME NEW s \in Side, NEW p \in net[s], Lose(s, p)  PROVE IInv'
  <2>1. /\ conn' = conn /\ unpacker' = unpacker /\ net' = [net EXCEPT ![s] = @ \ {p}]
    BY <1>6 DEF Lose
  <2>2. net' \in [Side -> SUBSET Packet] /\ \A y \in Side : net'[y] \subseteq net[y]
    BY <2>1, ApplyTypes
  <2> QED  BY <2>1, <2>2, NetworkStep
<1>7. CASE UNCHANGED vars
  BY <1>7, ApplyTypes, NetworkStep DEF vars
<1> QED  BY <1>1, <1>2, <1>3, <1>4, <1>5, <1>6, <1>7 DEF Next

-----------------------------------------------------------------------------
(* Every reachable state satisfies the invariant, for every size of the     *)
(* sequence space, the buffers and the network, whatever timers run out.    *)
THEOREM Invariance == Spec => []IInv
<1> QED  BY InitIInv, NextIInv, PTL DEF Spec

(* Connections, chunks and packets have their types, and neither the        *)
(* construct nor the resend buffer overflows.                               *)
THEOREM TypeCorrectness == Spec => []TypeOK
<1>1. IInv => TypeOK
  BY DEF IInv
<1> QED  BY <1>1, Invariance, PTL

(* The takeover in the middle of a packet loses, repeats and reorders       *)
(* nothing of what the client says.                                         *)
THEOREM UplinkOrder == Spec => []UplinkInOrder
<1>1. IInv => UplinkInOrder
  BY DEF IInv, Uplink, UplinkReceiver, UplinkInOrder
<1> QED  BY <1>1, Invariance, PTL

(* What the client has said and the server has not accepted can be sent     *)
(* again by the client, before the takeover and after it.                   *)
THEOREM UplinkRetention == Spec => []UplinkRetained
<1>1. IInv => UplinkRetained
  <2> SUFFICES ASSUME IInv, conn["client"].state = "ONLINE",
                      NEW k \in Len(conn[Session].got) + 1 .. conn["client"].sent
               PROVE  \/ k \in conn["client"].unsaved
                      \/ \E i \in DOMAIN conn["client"].buffer :
                           conn["client"].buffer[i].data = k
    BY DEF UplinkRetained
  <2> DEFINE c == conn["client"]
             g == Len(conn[Session].got)
  <2>1. UplinkSender(c, g) /\ c.acked \in Nat /\ c.sent \in Nat /\ g \in Nat
    BY SessionFacts DEF IInv, Uplink
  <2> HIDE DEF c, g
  <2>2. k \in g + 1 .. c.sent /\ c.state = "ONLINE"
    BY DEF c, g
  <2>3. k \in c.acked + 1 .. c.sent
    BY <2>1, <2>2 DEF UplinkSender
  <2>4. k \in c.unsaved \/ \E i \in DOMAIN c.buffer : c.buffer[i].data = k
    BY <2>1, <2>2, <2>3 DEF UplinkSender
  <2> QED  BY <2>4 DEF c
<1> QED  BY <1>1, Invariance, PTL

(* What the server says reaches the client in its places, if the slot was   *)
(* building no packet when it timed out: of a left-over chunk, which has a  *)
(* number of the session before, nothing can be said.                       *)
THEOREM DownlinkOrder ==
  ASSUME OldConstructs = {}
  PROVE  Spec => []DownlinkInStep
<1>1. IInv => DownlinkInStep
  BY DEF IInv, Downlink, DownlinkReceiver, DownlinkInStep
<1> QED  BY <1>1, Invariance, PTL
-----------------------------------------------------------------------------
(* What a step does to the client's stream, wherever its session is: one    *)
(* more payload is queued, one more handed up, or neither.                  *)
Streamed ==
    LET sent == conn["client"].sent
        got  == conn[Session].got
    IN  \/ conn'["client"].sent = sent /\ conn'[Session'].got = got
        \/ conn'["client"].sent = sent + 1 /\ conn'[Session'].got = got
        \/ /\ conn'["client"].sent = sent
           /\ Len(conn'[Session'].got) = Len(got) + 1

(* A connection that keeps what it got leaves the session where it is.      *)
LEMMA KeptStream ==
  ASSUME IInv, NEW x \in Slot \cup {"client"}, NEW d,
         conn' = [conn EXCEPT ![x] = d], d.got = conn[x].got,
         d.sent = conn[x].sent \/ x # "client" \/ d.sent = conn[x].sent + 1
  PROVE  Streamed
<1>1. conn \in [Slot \cup {"client"} -> Connection] /\ "old" \in Slot /\ "new" \in Slot
      /\ "client" \notin Slot
  BY DEF IInv, TypeOK, Slot
<1>2. \A y \in Slot \cup {"client"} : conn'[y].got = conn[y].got
  BY <1>1
<1>3. Session' = Session /\ Session \in Slot
  BY <1>1, <1>2 DEF Session
<1>4. conn'[Session'].got = conn[Session].got
  BY <1>2, <1>3
<1>5. conn'["client"].sent = IF x = "client" THEN d.sent ELSE conn["client"].sent
  BY <1>1
<1> QED  BY <1>4, <1>5 DEF Streamed

LEMMA SendStreams ==
  ASSUME IInv, NEW x \in Slot \cup {"client"},
         \/ QueueChunkAt(x) \/ FlushAt(x)
         \/ \E due \in SUBSET Expiring : UpdateAt(x, due)
  PROVE  Streamed
<1> DEFINE c == conn[x]
<1>1. WellFormed(c, Chunk) /\ Chunk \subseteq Chunk
  BY DEF IInv, TypeOK, WellFormed, Connection
<1>2. CASE QueueChunkAt(x)
  <2> DEFINE r == QueueChunk(c, TRUE)
  <2>1. conn' = [conn EXCEPT ![x] = r.conn] /\ c.state = "ONLINE"
    BY <1>2 DEF QueueChunkAt, Apply
  <2>2. NextChunk(c) \in Chunk
    <3>1. c.sequence \in SeqNumbers /\ c.sent \in Nat
      BY <1>1 DEF WellFormed, Connection
    <3>2. (c.sequence + 1) % MaxSequence \in SeqNumbers
      BY <3>1, PlainNumbers, SMTT(60) DEF SeqNumbers
    <3> QED  BY <3>1, <3>2 DEF NextChunk, Chunk
  <2> HIDE DEF c
  <2>3. r.conn.got = c.got /\ r.conn.sent = c.sent + 1
    BY <1>1, <2>1, <2>2, QueueChunkWell
  <2> HIDE DEF r
  <2> QED  BY <2>1, <2>3, KeptStream DEF c
<1>3. CASE FlushAt(x)
  <2> DEFINE r == Flush(c)
  <2>1. conn' = [conn EXCEPT ![x] = r.conn] /\ c.state = "ONLINE"
    BY <1>3 DEF FlushAt, Apply
  <2> HIDE DEF c
  <2>2. r.conn = [c EXCEPT !.construct = r.conn.construct]
    BY <1>1, <2>1, FlushWell
  <2> HIDE DEF r
  <2>3. r.conn.got = c.got /\ r.conn.sent = c.sent
    BY <1>1, <2>2 DEF WellFormed, Connection
  <2> QED  BY <2>1, <2>3, KeptStream DEF c
<1>4. ASSUME NEW due \in SUBSET Expiring, UpdateAt(x, due)  PROVE Streamed
  <2> DEFINE protected == \/ x = "old"
                          \/ x = "new" /\ \E i \in DOMAIN conn[x].got : conn[x].got[i] = Command
             r == LetGo(Update(c, due), protected)
  <2>1. conn' = [conn EXCEPT ![x] = r.conn]
    BY <1>4 DEF UpdateAt
  <2> HIDE DEF c, protected
  <2>2. WellFormed(r.conn, Chunk) /\ Carries(c, Chunk, r.out) /\ LetGoChange(c, r.conn)
    BY <1>1, LetGoWell
  <2> HIDE DEF r
  <2> QED  BY <2>1, <2>2, KeptStream DEF c, LetGoChange
<1> QED  BY <1>2, <1>3, <1>4

LEMMA ReceiveStreams ==
  ASSUME IInv, NEW s \in Side, NEW p \in net[s], NEW dup \in BOOLEAN, Receive(s, p, dup)
  PROVE  Streamed
<1> DEFINE x == IF s = "client" THEN "client" ELSE Serving
           c == conn[x]
           r == Feed(c, p)
<1>1. x \in Slot \cup {"client"} /\ p \in Packet
  BY DEF Serving, Slot, IInv, TypeOK
<1>2. WellFormed(c, Chunk) /\ Chunk \subseteq Chunk
  BY <1>1 DEF IInv, TypeOK, WellFormed, Connection
<1>3. conn' = [conn EXCEPT ![x] = r.conn] /\ c.state = "ONLINE"
  BY DEF Receive, Apply
<1> HIDE DEF x, c
<1>4. r.conn.got = c.got /\ r.conn.sent = c.sent
  <2>1. CASE AckIsValid(c, p.ack)
    <3>1. FedChange(c, p, r.conn)
      BY <1>1, <1>2, <1>3, <2>1, FeedWell
    <3> QED  BY <3>1 DEF FedChange
  <2>2. CASE ~AckIsValid(c, p.ack)
    BY <2>2 DEF Feed
  <2> QED  BY <2>1, <2>2
<1> HIDE DEF r
<1> QED  BY <1>1, <1>3, <1>4, KeptStream DEF c

(* A chunk is handed up for the client, for the session, or, after the      *)
(* move, for nobody.                                                        *)
LEMMA FetchStreams ==
  ASSUME IInv, NEW s \in Side, FetchChunkAt(s),
         ~IsCommand(unpacker[s].of, Head(unpacker[s].chunks))
  PROVE  Streamed
<1> DEFINE u  == unpacker[s]
           x  == u.of
           c  == conn[x]
           ch == Head(u.chunks)
           d  == FetchChunk(c, ch)
<1>1. /\ x \in Slot \cup {"client"} /\ u.chunks # <<>> /\ u.chunks \in Seq(Chunk)
      /\ conn' = [conn EXCEPT ![x] = d]
      /\ conn \in [Slot \cup {"client"} -> Connection]
  BY DEF FetchChunkAt, IInv, TypeOK
<1>2. WellFormed(c, Chunk) /\ Chunk \subseteq Chunk /\ ch \in Chunk
  BY <1>1, HeadTailProperties DEF IInv, TypeOK, WellFormed, Connection
<1>3. FetchChange(c, ch, d)
  <2> HIDE DEF c, ch
  <2> QED  BY <1>2, FetchChunkWell
<1>4. d.sent = c.sent
  <2> HIDE DEF c, ch, d
  <2> QED  BY <1>3 DEF FetchChange
<1>5. CASE s = "client"
  <2>1. x = "client" /\ "client" \notin Slot /\ Session \in Slot /\ "old" \in Slot
    BY <1>5, ApplyTypes, SessionFacts DEF Slot
  <2> HIDE DEF d
  <2>2. conn'["client"].sent = conn["client"].sent
    BY <1>1, <1>4, <2>1
  <2>3. Session' = Session /\ conn'[Session] = conn[Session]
    BY <1>1, <2>1 DEF Session
  <2> QED  BY <2>2, <2>3 DEF Streamed
<1>6. CASE s = "server" /\ x # Session
  <2>1. x = "new" /\ Session = "old" /\ c.state = "OFFLINE"
    BY <1>1, <1>6, ApplyTypes, SessionFacts DEF IInv, OneSession, Slot
  <2> HIDE DEF c, ch, d
  <2>2. d.got = c.got
    BY <1>3, <2>1 DEF FetchChange
  <2> QED  BY <1>1, <1>4, <2>2, KeptStream DEF c
<1>7. CASE s = "server" /\ x = Session
  <2> DEFINE n == conn["client"].sent
  <2>1. /\ n \in Nat /\ n <= MaxSent["client"] /\ c \in Connection /\ UplinkReceiver(c, n)
        /\ ~c.unknownSeq /\ Len(c.got) \in Nat /\ Session \in Slot
    BY <1>7, SessionFacts DEF IInv, Uplink, UplinkSender
  <2>2. ch \in Queued(n)
    <3>1. u.chunks \in Seq(Queued(n))
      BY <1>7, ApplyTypes
    <3> HIDE DEF n
    <3> QED  BY <1>1, <3>1, HeadTailProperties
  <2> HIDE DEF c, ch, d, n
  <2>3. Len(d.got) \in {Len(c.got), Len(c.got) + 1} /\ UplinkReceiver(d, n)
    BY <1>3, <2>1, <2>2, FetchUplink
  <2>4. CASE d.got = c.got
    BY <1>1, <1>4, <2>4, KeptStream DEF c
  <2>5. CASE Len(d.got) = Len(c.got) + 1
    <3>1. d.got # <<>>
      BY <2>1, <2>5, EmptySeq
    <3>2. /\ conn'[x] = d /\ \A y \in Slot \cup {"client"} : y # x => conn'[y] = conn[y]
          /\ "old" \in Slot /\ "client" \notin Slot
      BY <1>1 DEF Slot
    <3>3. Session' = Session
      BY <1>7, <2>1, <3>1, <3>2 DEF Session, Slot
    <3>4. conn'["client"] = conn["client"] /\ conn'[Session'] = d
      BY <1>7, <2>1, <3>2, <3>3
    <3> QED  BY <1>7, <2>5, <3>4 DEF Streamed, c
  <2>6. Len(d.got) = Len(c.got) => d.got = c.got
    BY <2>1, <2>3 DEF UplinkReceiver
  <2> QED  BY <2>3, <2>4, <2>5, <2>6
<1> QED  BY <1>5, <1>6, <1>7 DEF Side

(* The move hands up the command, and what was got goes along.              *)
LEMMA MoveStreams ==
  ASSUME IInv, NEW s \in Side, FetchChunkAt(s),
         IsCommand(unpacker[s].of, Head(unpacker[s].chunks))
  PROVE  Streamed
<1> DEFINE c  == conn["new"]
           u  == unpacker[s]
           ch == Head(u.chunks)
           d  == FetchChunk(c, ch)
           o  == SetTimedOut(conn["old"], d)
           n  == conn["client"].sent
<1>1. /\ u.of = "new" /\ c.state = "ONLINE" /\ ch.vital /\ IsNext(c, ch) /\ u.chunks # <<>>
      /\ conn' = [conn EXCEPT !["old"] = o, !["new"] = Reset(d)]
      /\ conn \in [Slot \cup {"client"} -> Connection]
  BY DEF FetchChunkAt, IsCommand, IInv, TypeOK
<1>2. s = "server" /\ Session = "new" /\ "new" \in Slot /\ "old" \in Slot /\ "client" \notin Slot
  BY <1>1, ApplyTypes, SessionFacts DEF Side, Slot
<1>3. /\ n \in Nat /\ n <= MaxSent["client"] /\ c \in Connection /\ UplinkReceiver(c, n)
      /\ ~c.unknownSeq /\ Len(c.got) \in Nat /\ WellFormed(c, Chunk) /\ Chunk \subseteq Chunk
  BY <1>2, SessionFacts DEF IInv, TypeOK, Uplink, UplinkSender, WellFormed, Connection
<1>4. ch \in Queued(n) /\ ch \in Chunk
  <2>1. u.chunks \in Seq(Queued(n)) /\ Queued(n) \subseteq Chunk
    BY <1>2, <1>3, ApplyTypes, KnownSubset
  <2> HIDE DEF n
  <2> QED  BY <1>1, <2>1, HeadTailProperties
<1> HIDE DEF c, ch, n
<1>5. FetchChange(c, ch, d)
  BY <1>3, <1>4, FetchChunkWell
<1> HIDE DEF d
<1>6. Len(d.got) = Len(c.got) + 1
  BY <1>1, <1>3, <1>4, <1>5, FetchUplink
<1>7. o.got = d.got /\ o.got # <<>>
  <2>1. conn["old"] \in Connection
    BY <1>1, <1>2
  <2>2. o.got = d.got
    BY <2>1 DEF SetTimedOut, Connection
  <2> QED  BY <1>3, <1>6, <2>2, EmptySeq
<1> HIDE DEF o
<1>8. conn'["client"] = conn["client"] /\ conn'["old"] = o
  BY <1>1, <1>2
<1>9. Session' = "old"
  BY <1>7, <1>8 DEF Session
<1> QED  BY <1>2, <1>6, <1>7, <1>8, <1>9 DEF Streamed, c

LEMMA NextStreamed == IInv /\ [Next]_vars => Streamed
<1> SUFFICES ASSUME IInv, [Next]_vars  PROVE Streamed
  OBVIOUS
<1>1. ASSUME NEW s \in Side, FetchChunkAt(s)  PROVE Streamed
  BY <1>1, FetchStreams, MoveStreams
<1>2. CASE conn' = conn
  BY <1>2 DEF Streamed, Session
<1>3. ASSUME NEW s \in Side, NEW p \in net[s], Lose(s, p)  PROVE Streamed
  BY <1>2, <1>3 DEF Lose
<1>4. CASE UNCHANGED vars
  BY <1>2, <1>4 DEF vars
<1> QED  BY <1>1, <1>3, <1>4, SendStreams, ReceiveStreams DEF Next

(* The client and the server's side of its session implement one stream of  *)
(* the channel, across the takeover in the middle of a packet and whichever *)
(* timers run out (CNetServer::SetTimedOut).                                *)
THEOREM UplinkRefinement == Spec => UplinkImplementsStream
<1> DEFINE chSent == [s \in Side |-> IF s = "client" THEN conn["client"].sent ELSE 0]
           chGot  == [s \in Side |-> IF s = "server" THEN conn[Session].got ELSE <<>>]
<1>1. ClientStream!Ends = Side /\ ClientStream!OtherEnd("server") = "client"
  <2>1. ClientStream!Ends = Side /\ Side = {"client", "server"}
    BY DEF ClientStream!Ends, Side
  <2> QED  BY <2>1 DEF ClientStream!OtherEnd
<1>2. Init => ClientStream!Init
  <2> SUFFICES ASSUME Init  PROVE ClientStream!Init
    OBVIOUS
  <2>1. PICK ack \in OldAcks, left \in LeftOver :
          conn = [x \in Slot \cup {"client"} |->
                    IF x = "old" THEN TimedOutSlot(ack, left) ELSE OnlineConnection]
    BY DEF Init
  <2>3. /\ conn["client"] = OnlineConnection /\ conn["new"] = OnlineConnection
        /\ conn["old"] = TimedOutSlot(ack, left)
    BY <2>1 DEF Slot
  <2>4. /\ OnlineConnection.sent = 0 /\ OnlineConnection.got = <<>>
        /\ TimedOutSlot(ack, left).got = <<>>
    BY DEF OnlineConnection, TimedOutSlot
  <2>2. conn[Session].got = <<>>
    BY <2>3, <2>4 DEF Session
  <2> QED  BY <1>1, <2>2, <2>3, <2>4 DEF ClientStream!Init
<1>3. IInv /\ [Next]_vars => [ClientStream!Next]_<<chSent, chGot>>
  <2> SUFFICES ASSUME IInv, [Next]_vars
               PROVE  ClientStream!Next \/ (chSent' = chSent /\ chGot' = chGot)
    OBVIOUS
  <2> DEFINE n == conn["client"].sent
             g == conn[Session].got
  <2>1. IInv' /\ Streamed
    BY NextIInv, NextStreamed
  <2>2. n \in Nat /\ Len(g) \in Nat /\ g = [i \in 1 .. Len(g) |-> i] /\ g \in Seq(Nat)
    BY SessionFacts DEF IInv, Uplink, UplinkReceiver, Connection
  <2>3. g' = [i \in 1 .. Len(g') |-> i] /\ Len(g') <= n'
    BY <2>1 DEF IInv, Uplink, UplinkReceiver
  <2>4. /\ chSent = [s \in Side |-> IF s = "client" THEN n ELSE 0]
        /\ chGot = [s \in Side |-> IF s = "server" THEN g ELSE <<>>]
        /\ chSent' = [s \in Side |-> IF s = "client" THEN n' ELSE 0]
        /\ chGot' = [s \in Side |-> IF s = "server" THEN g' ELSE <<>>]
        /\ "client" \in Side /\ "server" \in Side
    BY DEF Side
  <2>5. \/ n' = n /\ g' = g
        \/ n' = n + 1 /\ g' = g
        \/ n' = n /\ Len(g') = Len(g) + 1
    BY <2>1 DEF Streamed
  <2> HIDE DEF n, g, chSent, chGot
  <2>6. CASE n' = n /\ g' = g
    BY <2>4, <2>6
  <2>7. CASE n' = n + 1 /\ g' = g
    <3>1. chSent' = [chSent EXCEPT !["client"] = @ + 1] /\ chGot' = chGot
      BY <2>4, <2>7
    <3>2. ClientStream!SendNext("client")
      BY <3>1 DEF ClientStream!SendNext, chSent, chGot
    <3> QED  BY <1>1, <2>4, <3>2 DEF ClientStream!Next
  <2>8. CASE n' = n /\ Len(g') = Len(g) + 1
    <3>1. g' = Append(g, Len(g) + 1)
      <4> DEFINE m == Len(g)
                 a == Append(g, m + 1)
      <4>1. /\ a \in Seq(Nat) /\ Len(a) = m + 1
            /\ \A i \in 1 .. m : a[i] = g[i]
            /\ a[m + 1] = m + 1
            /\ g = [i \in 1 .. m |-> i] /\ m \in Nat
        BY <2>2, AppendProperties
      <4> HIDE DEF a, m
      <4>2. a = [i \in 1 .. m + 1 |-> a[i]]
        BY <4>1, LenProperties
      <4>3. \A i \in 1 .. m + 1 : a[i] = i
        BY <4>1
      <4>4. a = [i \in 1 .. m + 1 |-> i]
        BY <4>2, <4>3
      <4> QED  BY <2>3, <2>8, <4>4 DEF a, m
    <3>2. /\ chGot' = [chGot EXCEPT !["server"] = Append(@, Len(@) + 1)]
          /\ chSent' = chSent
      BY <2>4, <2>8, <3>1
    <3>3. Len(chGot["server"]) < chSent[ClientStream!OtherEnd("server")]
      BY <1>1, <2>2, <2>3, <2>4, <2>8
    <3>4. ClientStream!HandUpNext("server")
      BY <3>2, <3>3 DEF ClientStream!HandUpNext, chSent, chGot
    <3> QED  BY <1>1, <2>4, <3>4 DEF ClientStream!Next
  <2> QED  BY <2>5, <2>6, <2>7, <2>8
<1> QED  BY <1>2, <1>3, Invariance, PTL
         DEF Spec, UplinkImplementsStream, ClientStream!Spec

-----------------------------------------------------------------------------
(* What is handed up for the slot that was left: c becomes d, the           *)
(* connection x, and the server unpacks v instead of u, but nothing is      *)
(* handed up late.                                                          *)
NotLate(x, c, d) ==
    /\ d.sent \in Nat /\ c.sent <= d.sent
    /\ d.got = <<>> => c.got = <<>>
    /\ d.state # "OFFLINE" => c.state # "OFFLINE"
    /\ x = "new" =>
         /\ d.late = c.late
         /\ d.state = "OFFLINE" => d.ack = IF c.state = "OFFLINE" THEN c.ack ELSE 0

Unpacks(x, c, d, u, v) ==
    /\ Len(v.chunks) \in Nat /\ Len(v.chunks) <= PacketCap
    /\ x = "new" /\ d.state = "OFFLINE" /\ c.state # "OFFLINE" => v.chunks = <<>>
    /\ \/ /\ v.of = u.of /\ Len(v.chunks) <= Len(u.chunks)
          /\ u.chunks = <<>> => v.chunks = <<>>
       \/ v.of = "new" => x = "new" /\ d.state # "OFFLINE"

LEMMA RestKept ==
  ASSUME IInv, Rest, NEW x \in Slot \cup {"client"}, NEW d,
         conn' = [conn EXCEPT ![x] = d], NotLate(x, conn[x], d),
         Unpacks(x, conn[x], d, unpacker["server"], unpacker'["server"])
  PROVE  Rest'
<1> DEFINE n == conn["new"]
           m == conn'["new"]
           u == unpacker["server"]
           v == unpacker'["server"]
<1>1. /\ conn \in [Slot \cup {"client"} -> Connection] /\ Slot = {"old", "new"}
      /\ conn["client"].sent \in Nat /\ n.late \in Seq(Nat) /\ Len(u.chunks) \in Nat
  BY LenProperties DEF IInv, TypeOK, Connection, Slot, Side
<1>2. Len(n.late) \in Nat /\ Len(<<>>) = 0
  BY <1>1, LenProperties, EmptySeq
<1>3. /\ conn'["client"] = IF x = "client" THEN d ELSE conn["client"]
      /\ m = IF x = "new" THEN d ELSE n
      /\ conn'["old"] = IF x = "old" THEN d ELSE conn["old"]
  BY <1>1
<1>4. conn'["client"].sent \in Nat /\ conn["client"].sent <= conn'["client"].sent
  BY <1>1, <1>3 DEF NotLate
<1>5. Session' = "new" => Session = "new"
  BY <1>3 DEF Session, NotLate
<1>6. /\ m.late = n.late
      /\ m.state # "OFFLINE" => n.state # "OFFLINE"
      /\ m.state = "OFFLINE" =>
           IF n.state = "OFFLINE" THEN m.ack = n.ack ELSE m.ack = 0
  BY <1>3 DEF NotLate
<1>7. /\ m.state = "OFFLINE" /\ n.state # "OFFLINE" => v.chunks = <<>>
      /\ Len(v.chunks) \in Nat /\ Len(v.chunks) <= PacketCap
      /\ m.state = "OFFLINE" /\ v.of = "new" =>
           /\ v.of = u.of /\ Len(v.chunks) <= Len(u.chunks)
           /\ u.chunks = <<>> => v.chunks = <<>>
  BY <1>3 DEF Unpacks
<1>8. /\ n.late = [i \in 1 .. Len(n.late) |-> i]
      /\ Len(n.late) < PacketCap /\ Len(n.late) <= conn["client"].sent
      /\ n.state # "OFFLINE" => n.late = <<>>
      /\ n.state = "OFFLINE" =>
           /\ n.ack = Len(n.late)
           /\ u.of = "new" => Len(n.late) + Len(u.chunks) < PacketCap
           /\ Session = "new" => n.late = <<>> /\ (u.of = "new" => u.chunks = <<>>)
  BY DEF Rest
<1>9. PacketCap \in Nat \ {0}
  BY CapacityAssumption
<1> HIDE DEF n, m, u, v
<1>10. /\ m.late = [i \in 1 .. Len(m.late) |-> i]
       /\ Len(m.late) < PacketCap /\ Len(m.late) <= conn'["client"].sent
       /\ m.state # "OFFLINE" => m.late = <<>>
  BY <1>1, <1>2, <1>4, <1>6, <1>8
<1>11. ASSUME m.state = "OFFLINE"
       PROVE  /\ m.ack = Len(m.late)
              /\ v.of = "new" => Len(m.late) + Len(v.chunks) < PacketCap
              /\ Session' = "new" => m.late = <<>> /\ (v.of = "new" => v.chunks = <<>>)
  <2>1. CASE n.state # "OFFLINE"
    <3>1. m.late = <<>> /\ m.ack = 0 /\ v.chunks = <<>>
      BY <1>6, <1>7, <1>8, <1>11, <2>1
    <3> QED  BY <1>2, <1>9, <3>1
  <2>2. CASE n.state = "OFFLINE"
    <3>1. m.ack = Len(m.late) /\ (Session' = "new" => m.late = <<>>)
      BY <1>5, <1>6, <1>8, <1>11, <2>2
    <3>2. ASSUME v.of = "new"
          PROVE  /\ Len(m.late) + Len(v.chunks) < PacketCap
                 /\ Session' = "new" => v.chunks = <<>>
      <4>1. /\ u.of = "new" /\ Len(v.chunks) <= Len(u.chunks) /\ Len(v.chunks) \in Nat
            /\ u.chunks = <<>> => v.chunks = <<>>
        BY <1>7, <1>11, <3>2
      <4>2. Len(m.late) + Len(v.chunks) < PacketCap
        <5>1. Len(m.late) = Len(n.late) /\ Len(n.late) + Len(u.chunks) < PacketCap
          BY <1>6, <1>8, <2>2, <4>1
        <5> DEFINE a == Len(m.late)
                   b == Len(v.chunks)
                   e == Len(u.chunks)
        <5>2. a \in Nat /\ b \in Nat /\ e \in Nat /\ b <= e /\ a + e < PacketCap
          BY <1>1, <1>2, <4>1, <5>1
        <5> HIDE DEF a, b, e
        <5>3. a + b < PacketCap
          BY <1>9, <5>2
        <5> QED  BY <5>3 DEF a, b
      <4> QED  BY <1>5, <1>8, <2>2, <4>1, <4>2
    <3> QED  BY <3>1, <3>2
  <2> QED  BY <2>1, <2>2
<1> QED  BY <1>7, <1>10, <1>11 DEF Rest, m, v

(* A chunk queued, a flush, an update.                                      *)
LEMMA SendRest ==
  ASSUME IInv, Rest, NEW x \in Slot \cup {"client"},
         \/ QueueChunkAt(x) \/ FlushAt(x)
         \/ \E due \in SUBSET Expiring : UpdateAt(x, due)
  PROVE  Rest'
<1> DEFINE c == conn[x]
<1>1. /\ WellFormed(c, Chunk) /\ Chunk \subseteq Chunk /\ c \in Connection
      /\ c.sent \in Nat /\ c.state \in {"ONLINE", "ERROR", "OFFLINE"}
      /\ unpacker["server"].chunks \in Seq(Chunk)
  BY DEF IInv, TypeOK, WellFormed, Connection, Side
<1>2. Len(unpacker["server"].chunks) \in Nat /\ Len(unpacker["server"].chunks) <= PacketCap
  BY <1>1, LenProperties DEF Rest
<1>3. CASE QueueChunkAt(x)
  <2> DEFINE r == QueueChunk(c, TRUE)
  <2>1. conn' = [conn EXCEPT ![x] = r.conn] /\ c.state = "ONLINE" /\ unpacker' = unpacker
    BY <1>3 DEF QueueChunkAt, Apply
  <2>2. NextChunk(c) \in Chunk
    <3> DEFINE k == c.sequence + 1
    <3>4. MaxSequence \in Nat \ {0}
      BY PlainNumbers
    <3>5. c.sequence \in SeqNumbers
      BY <1>1 DEF Connection
    <3>2. k \in Nat
      BY <3>4, <3>5 DEF SeqNumbers
    <3> HIDE DEF k
    <3>3. k % MaxSequence \in 0 .. MaxSequence - 1
      BY <3>2, <3>4, SMTT(60)
    <3>1. (c.sequence + 1) % MaxSequence \in SeqNumbers
      BY <3>3 DEF k, SeqNumbers
    <3> QED  BY <1>1, <3>1 DEF NextChunk, Chunk
  <2> HIDE DEF c
  <2>3. /\ r.conn.got = c.got /\ r.conn.late = c.late /\ r.conn.sent = c.sent + 1
        /\ r.conn.state = "ONLINE"
    BY <1>1, <2>1, <2>2, QueueChunkWell
  <2> HIDE DEF r
  <2>4. NotLate(x, c, r.conn)
    BY <1>1, <2>1, <2>3 DEF NotLate
  <2>5. Unpacks(x, c, r.conn, unpacker["server"], unpacker'["server"])
    BY <1>2, <2>1, <2>3 DEF Unpacks
  <2> QED  BY <2>1, <2>4, <2>5, RestKept DEF c
<1>4. CASE FlushAt(x)
  <2> DEFINE r == Flush(c)
  <2>1. conn' = [conn EXCEPT ![x] = r.conn] /\ c.state = "ONLINE" /\ unpacker' = unpacker
    BY <1>4 DEF FlushAt, Apply
  <2> HIDE DEF c
  <2>2. r.conn = [c EXCEPT !.construct = r.conn.construct]
    BY <1>1, <2>1, FlushWell
  <2> HIDE DEF r
  <2>3. /\ r.conn.got = c.got /\ r.conn.late = c.late /\ r.conn.sent = c.sent
        /\ r.conn.state = c.state
    BY <1>1, <2>2 DEF Connection
  <2>4. NotLate(x, c, r.conn)
    BY <1>1, <2>1, <2>3 DEF NotLate
  <2>5. Unpacks(x, c, r.conn, unpacker["server"], unpacker'["server"])
    BY <1>2, <2>1, <2>3 DEF Unpacks
  <2> QED  BY <2>1, <2>4, <2>5, RestKept DEF c
<1>5. ASSUME NEW due \in SUBSET Expiring, UpdateAt(x, due)  PROVE Rest'
  <2> DEFINE protected == \/ x = "old"
                          \/ x = "new" /\ \E i \in DOMAIN conn[x].got : conn[x].got[i] = Command
             r == LetGo(Update(c, due), protected)
  <2>1. /\ conn' = [conn EXCEPT ![x] = r.conn] /\ unpacker' = unpacker
        /\ x = "new" => unpacker["server"].chunks = <<>>
    BY <1>5 DEF UpdateAt, SideOf
  <2> HIDE DEF c, protected
  <2>2. WellFormed(r.conn, Chunk) /\ Carries(c, Chunk, r.out) /\ LetGoChange(c, r.conn)
    BY <1>1, LetGoWell
  <2> HIDE DEF r
  <2>3. /\ r.conn.sent = c.sent /\ r.conn.got = c.got /\ r.conn.late = c.late
        /\ r.conn.state # "OFFLINE" => c.state # "OFFLINE"
        /\ r.conn.state = "OFFLINE" => r.conn.ack = IF c.state = "OFFLINE" THEN c.ack ELSE 0
    BY <2>2 DEF LetGoChange
  <2>4. NotLate(x, c, r.conn)
    BY <1>1, <2>1, <2>3 DEF NotLate
  <2>5. Unpacks(x, c, r.conn, unpacker["server"], unpacker'["server"])
    BY <1>2, <2>1, <2>3 DEF Unpacks
  <2> QED  BY <2>1, <2>4, <2>5, RestKept DEF c
<1> QED  BY <1>3, <1>4, <1>5

(* A packet is unpacked for a slot that is not offline.                     *)
LEMMA ReceiveRest ==
  ASSUME IInv, Rest, NEW s \in Side, NEW p \in net[s], NEW dup \in BOOLEAN,
         Receive(s, p, dup)
  PROVE  Rest'
<1> DEFINE x == IF s = "client" THEN "client" ELSE Serving
           c == conn[x]
           r == Feed(c, p)
           d == r.conn
           v == unpacker'["server"]
<1>1. x \in Slot \cup {"client"} /\ p \in Packet
  BY DEF Serving, Slot, IInv, TypeOK
<1>2. /\ WellFormed(c, Chunk) /\ Chunk \subseteq Chunk /\ c.sent \in Nat
      /\ unpacker \in [Side -> [of : Slot \cup {"client"}, chunks : Seq(Chunk)]]
      /\ conn \in [Slot \cup {"client"} -> Connection]
  BY <1>1 DEF IInv, TypeOK, WellFormed, Connection
<1>3. /\ conn' = [conn EXCEPT ![x] = d] /\ c.state = "ONLINE"
      /\ v = unpacker["server"] \/ v = [of |-> x, chunks |-> p.chunks]
  <2>1. /\ conn' = [conn EXCEPT ![x] = d] /\ c.state = "ONLINE"
        /\ unpacker' = [unpacker EXCEPT ![s] =
                          IF r.start THEN [of |-> x, chunks |-> p.chunks] ELSE @]
    BY DEF Receive, Apply
  <2> HIDE DEF x, c, r
  <2>2. v = unpacker["server"] \/ v = [of |-> x, chunks |-> p.chunks]
    BY <1>2, <2>1 DEF Side
  <2> QED  BY <2>1, <2>2
<1>4. /\ Len(v.chunks) \in Nat /\ Len(v.chunks) <= PacketCap
  <2>1. /\ Len(p.chunks) <= PacketCap /\ p.chunks \in Seq(Chunk)
        /\ Len(unpacker["server"].chunks) <= PacketCap
        /\ unpacker["server"].chunks \in Seq(Chunk)
    BY <1>1, <1>2 DEF Packet, Rest, Side
  <2>2. Len(p.chunks) \in Nat /\ Len(unpacker["server"].chunks) \in Nat
    BY <2>1, LenProperties
  <2> HIDE DEF v
  <2> QED  BY <1>3, <2>1, <2>2
<1> HIDE DEF x, c, v
<1>5. d.got = c.got /\ d.sent = c.sent /\ d.late = c.late /\ d.state # "OFFLINE"
  <2>1. CASE AckIsValid(c, p.ack)
    <3>1. FedChange(c, p, d)
      BY <1>1, <1>2, <1>3, <2>1, FeedWell
    <3> HIDE DEF d
    <3> QED  BY <3>1 DEF FedChange
  <2>2. CASE ~AckIsValid(c, p.ack)
    BY <1>3, <2>2 DEF Feed
  <2> QED  BY <2>1, <2>2
<1> HIDE DEF r, d
<1>6. NotLate(x, c, d)
  BY <1>2, <1>3, <1>5 DEF NotLate
<1>7. Unpacks(x, c, d, unpacker["server"], v)
  BY <1>3, <1>4, <1>5 DEF Unpacks
<1> QED  BY <1>1, <1>3, <1>6, <1>7, RestKept DEF c, v

(* The next chunk of the packet: only the slot that was left hands one up   *)
(* late, and that is the one its ack asks for.                              *)
LEMMA FetchRest ==
  ASSUME IInv, Rest, NEW s \in Side, FetchChunkAt(s),
         ~IsCommand(unpacker[s].of, Head(unpacker[s].chunks))
  PROVE  Rest'
<1> DEFINE u  == unpacker[s]
           x  == u.of
           c  == conn[x]
           ch == Head(u.chunks)
           d  == FetchChunk(c, ch)
           v  == unpacker'["server"]
           w  == unpacker["server"]
           n  == conn["client"].sent
<1>1. /\ x \in Slot \cup {"client"} /\ u.chunks # <<>> /\ u.chunks \in Seq(Chunk)
      /\ conn' = [conn EXCEPT ![x] = d]
      /\ unpacker' = [unpacker EXCEPT ![s].chunks = Tail(@)]
      /\ conn \in [Slot \cup {"client"} -> Connection]
      /\ unpacker \in [Side -> [of : Slot \cup {"client"}, chunks : Seq(Chunk)]]
  BY DEF FetchChunkAt, IInv, TypeOK
<1>2. WellFormed(c, Chunk) /\ Chunk \subseteq Chunk /\ ch \in Chunk
  BY <1>1, HeadTailProperties DEF IInv, TypeOK, WellFormed, Connection
<1>3. FetchChange(c, ch, d)
  <2> HIDE DEF c, ch
  <2> QED  BY <1>2, FetchChunkWell
<1>4. /\ Len(w.chunks) \in Nat /\ Len(w.chunks) <= PacketCap
      /\ Len(v.chunks) \in Nat /\ v.of = w.of
      /\ Len(v.chunks) <= Len(w.chunks) /\ (w.chunks = <<>> => v.chunks = <<>>)
      /\ s = "server" => Len(v.chunks) = Len(w.chunks) - 1
  <2>1. w.chunks \in Seq(Chunk) /\ Len(w.chunks) \in Nat /\ Len(w.chunks) <= PacketCap
    BY <1>1, LenProperties DEF Rest, Side
  <2>2. CASE s = "client"
    BY <1>1, <2>1, <2>2 DEF Side
  <2>3. CASE s = "server"
    <3>1. v = [w EXCEPT !.chunks = Tail(w.chunks)] /\ w.chunks # <<>>
      BY <1>1, <2>3 DEF Side
    <3>2. Len(Tail(w.chunks)) = Len(w.chunks) - 1 /\ Len(w.chunks) \in Nat \ {0}
      BY <2>1, <3>1, HeadTailProperties, EmptySeq
    <3>3. w \in [of : Slot \cup {"client"}, chunks : Seq(Chunk)]
      BY <1>1 DEF Side
    <3>4. v.of = w.of /\ v.chunks = Tail(w.chunks)
      BY <3>1, <3>3
    <3> QED  BY <2>1, <3>1, <3>2, <3>4
  <2> QED  BY <2>2, <2>3 DEF Side
<1>5. /\ c.sent \in Nat /\ c.got \in Seq(Nat) /\ c.late \in Seq(Nat) /\ ch.data \in Nat
      /\ n \in Nat /\ n <= MaxSequence - 2 /\ MaxSequence \in Nat /\ ~c.unknownSeq
  <2>1. MaxSent["client"] \in Nat /\ MaxSent["client"] <= MaxSequence - 2
    BY PlainNumbers DEF Side
  <2>2. n \in Nat /\ n <= MaxSent["client"]
    BY SessionFacts DEF IInv, Uplink, UplinkSender
  <2>3. /\ c.sent \in Nat /\ c.got \in Seq(Nat) /\ c.late \in Seq(Nat) /\ ch.data \in Nat
        /\ ~c.unknownSeq
    BY <1>1, <1>2, SessionFacts DEF WellFormed, Connection, Chunk
  <2> HIDE DEF n
  <2> QED  BY <2>1, <2>2, <2>3, PlainNumbers
<1> HIDE DEF c, ch, d, u, v, w, n
<1>6. d.sent = c.sent /\ d.state = c.state /\ (d.got = <<>> => c.got = <<>>)
  <2>1. Append(c.got, ch.data) # <<>>
    BY <1>5, NotEmptyAfterAppend
  <2> QED  BY <1>3, <2>1 DEF FetchChange
<1>7. CASE ~(x = "new" /\ c.state = "OFFLINE" /\ ch.vital /\ IsNext(c, ch))
  <2>1. x = "new" =>
          d.late = c.late /\ (c.state = "OFFLINE" => d.ack = c.ack)
    BY <1>3, <1>7 DEF FetchChange
  <2>2. NotLate(x, c, d)
    BY <1>5, <1>6, <2>1 DEF NotLate
  <2>3. Unpacks(x, c, d, w, v)
    <3>1. x = "new" /\ d.state = "OFFLINE" /\ c.state # "OFFLINE" => v.chunks = <<>>
      BY <1>6
    <3>2. /\ Len(v.chunks) \in Nat /\ Len(v.chunks) <= PacketCap
          /\ v.of = w.of /\ Len(v.chunks) <= Len(w.chunks)
          /\ w.chunks = <<>> => v.chunks = <<>>
      <4>1. Len(v.chunks) <= PacketCap
        BY <1>4, CapacityAssumption
      <4> QED  BY <1>4, <4>1
    <3> QED  BY <3>1, <3>2, Zenon DEF Unpacks
  <2> QED  BY <1>1, <2>2, <2>3, RestKept DEF c, v, w
<1>8. CASE x = "new" /\ c.state = "OFFLINE" /\ ch.vital /\ IsNext(c, ch)
  <2> DEFINE k == Len(c.late)
  <2>1. s = "server"
    BY <1>1, <1>8, ApplyTypes DEF Side, u, IInv, OneSession
  <2>2. /\ c.late = [i \in 1 .. k |-> i] /\ k \in Nat /\ k < PacketCap /\ k <= n
        /\ c.ack = k /\ k + Len(w.chunks) < PacketCap
        /\ Session # "new"
    BY <1>1, <1>5, <1>8, <2>1, LenProperties DEF Rest, c, n, u, w
  <2>3. ch \in Queued(n)
    <3>1. u.chunks \in Seq(Queued(n))
      BY <2>1, ApplyTypes DEF n, u
    <3> QED  BY <1>1, <3>1, HeadTailProperties DEF ch
  <2>4. ch.data = k + 1 /\ k + 1 <= n
    <3>1. /\ ch.data \in 1 .. n /\ ch.sequence = ch.data % MaxSequence
          /\ ch.sequence = (k + 1) % MaxSequence
      BY <1>5, <1>8, <2>2, <2>3 DEF Queued, IsNext
    <3>2. /\ ch.data < MaxSequence /\ k + 1 < MaxSequence /\ k + 1 \in Nat
          /\ ch.data \in Nat
      BY <1>5, <2>2, <3>1
    <3>3. ch.data % MaxSequence = ch.data /\ (k + 1) % MaxSequence = k + 1
      BY <3>2, PlainNumbers
    <3> QED  BY <3>1, <3>3
  <2>5. d.late = Append(c.late, k + 1) /\ d.ack = ch.sequence /\ ch.sequence = k + 1
    <3>1. ch.sequence = (k + 1) % MaxSequence
      BY <1>5, <1>8, <2>2 DEF IsNext
    <3>2. k + 1 \in Nat /\ k + 1 < MaxSequence
      BY <1>5, <2>2, <2>4
    <3>3. (k + 1) % MaxSequence = k + 1
      BY <3>2, PlainNumbers
    <3> QED  BY <1>3, <1>8, <2>4, <3>1, <3>3 DEF FetchChange
  <2> DEFINE late == Append(c.late, k + 1)
  <2>6. late = [i \in 1 .. Len(late) |-> i] /\ Len(late) = k + 1
    <3>1. /\ late \in Seq(Nat) /\ Len(late) = k + 1
          /\ \A i \in 1 .. k : late[i] = c.late[i]
          /\ late[k + 1] = k + 1
      BY <1>5, <2>2, AppendProperties
    <3> HIDE DEF late
    <3>2. \A i \in 1 .. k + 1 : late[i] = i
      BY <2>2, <3>1
    <3>3. late = [i \in 1 .. Len(late) |-> late[i]]
      BY <3>1, LenProperties
    <3> QED  BY <3>1, <3>2, <3>3
  <2>7. /\ conn'["new"] = d /\ conn'["client"] = conn["client"] /\ conn'["old"] = conn["old"]
    BY <1>1, <1>8 DEF Slot
  <2>8. Session' = Session
    BY <2>7 DEF Session
  <2> HIDE DEF late, k
  <2>9. conn'["client"].sent = n
    BY <2>7 DEF n
  <2>10. Len(d.late) + Len(v.chunks) < PacketCap
    <3>1. Len(d.late) = k + 1
      BY <2>5, <2>6 DEF late
    <3>2. /\ Len(v.chunks) = Len(w.chunks) - 1 /\ Len(w.chunks) \in Nat
          /\ k \in Nat /\ k + Len(w.chunks) < PacketCap /\ PacketCap \in Nat
      BY <1>4, <2>1, <2>2, CapacityAssumption
    <3> DEFINE a == Len(d.late)
               b == Len(v.chunks)
               e == Len(w.chunks)
    <3>3. a = k + 1 /\ b = e - 1 /\ e \in Nat /\ k + e < PacketCap
      BY <3>1, <3>2
    <3> HIDE DEF a, b, e
    <3>4. a + b < PacketCap
      BY <3>2, <3>3
    <3> QED  BY <3>4 DEF a, b
  <2>11. d.late = late /\ d.ack = Len(d.late) /\ d.state = "OFFLINE"
    BY <1>6, <1>8, <2>5, <2>6 DEF late
  <2>12. Len(d.late) < PacketCap /\ Len(d.late) <= n
    BY <1>4, <2>2, <2>4, <2>6, <2>10, <2>11, CapacityAssumption
  <2>13. Len(v.chunks) <= PacketCap
    BY <1>4, CapacityAssumption
  <2> QED  BY <2>2, <2>6, <2>7, <2>8, <2>9, <2>10, <2>11, <2>12, <2>13 DEF Rest, v
<1> QED  BY <1>7, <1>8

(* The move leaves fewer chunks behind the command than fill a packet.      *)
LEMMA MoveRest ==
  ASSUME IInv, Rest, NEW s \in Side, FetchChunkAt(s),
         IsCommand(unpacker[s].of, Head(unpacker[s].chunks))
  PROVE  Rest'
<1> DEFINE c  == conn["new"]
           u  == unpacker[s]
           ch == Head(u.chunks)
           d  == FetchChunk(c, ch)
           o  == SetTimedOut(conn["old"], d)
           m  == Reset(d)
           v  == unpacker'["server"]
<1>1. /\ u.of = "new" /\ c.state = "ONLINE" /\ ch.vital /\ IsNext(c, ch) /\ u.chunks # <<>>
      /\ conn' = [conn EXCEPT !["old"] = o, !["new"] = m]
      /\ unpacker' = [unpacker EXCEPT ![s].chunks = Tail(@)]
      /\ conn \in [Slot \cup {"client"} -> Connection]
      /\ unpacker \in [Side -> [of : Slot \cup {"client"}, chunks : Seq(Chunk)]]
  BY DEF FetchChunkAt, IsCommand, IInv, TypeOK
<1>2. s = "server" /\ "new" \in Slot /\ "old" \in Slot /\ "client" \notin Slot
  BY <1>1, ApplyTypes DEF Side, Slot, IInv, OneSession
<1>3. /\ WellFormed(c, Chunk) /\ Chunk \subseteq Chunk /\ ch \in Chunk /\ ch.data \in Nat
      /\ c.got \in Seq(Nat) /\ u.chunks \in Seq(Chunk) /\ conn["client"].sent \in Nat
  <2>1. u.chunks \in Seq(Chunk) /\ c \in Connection
    BY <1>1, <1>2
  <2>2. ch \in Chunk /\ ch.data \in Nat
    <3>1. ch \in Chunk
      BY <1>1, <2>1, HeadTailProperties
    <3> HIDE DEF ch
    <3> QED  BY <3>1 DEF Chunk
  <2>3. WellFormed(c, Chunk)
    BY <1>2, <2>1 DEF IInv, TypeOK, WellFormed, Connection
  <2>4. c.got \in Seq(Nat)
    BY <2>1 DEF Connection
  <2> HIDE DEF c, ch, u
  <2> QED  BY <2>1, <2>2, <2>3, <2>4, SessionFacts
<1>4. c.late = <<>> /\ Len(u.chunks) <= PacketCap
  BY <1>1, <1>2 DEF Rest
<1> HIDE DEF c, ch
<1>5. WellFormed(d, Chunk) /\ FetchChange(c, ch, d)
  BY <1>3, FetchChunkWell
<1> HIDE DEF d
<1>6. d \in Connection /\ d.late = <<>> /\ d.got = Append(c.got, ch.data)
  BY <1>1, <1>4, <1>5 DEF FetchChange, WellFormed
<1>7. d.got # <<>>
  <2>1. c.got \in Seq(Nat) /\ ch.data \in Nat
    BY <1>3
  <2>2. Append(c.got, ch.data) # <<>>
    BY <2>1, NotEmptyAfterAppend
  <2> QED  BY <1>6, <2>2
<1>8. m.late = <<>> /\ m.ack = 0 /\ m.state = "OFFLINE"
  BY <1>6 DEF Reset, Connection
<1>9. o.got # <<>>
  <2>1. conn["old"] \in Connection
    BY <1>1, <1>2
  <2>2. o.got = d.got
    BY <2>1 DEF SetTimedOut, Connection
  <2> QED  BY <1>7, <2>2
<1> HIDE DEF o, m
<1>10. conn'["client"] = conn["client"] /\ conn'["old"] = o /\ conn'["new"] = m
  BY <1>1, <1>2
<1>11. Session' # "new"
  BY <1>9, <1>10 DEF Session
<1>12. v.chunks = Tail(u.chunks)
  BY <1>1, <1>2 DEF Side
<1>13. /\ Len(v.chunks) \in Nat /\ Len(v.chunks) < PacketCap /\ Len(<<>>) = 0
       /\ PacketCap \in Nat \ {0}
  <2>1. Len(Tail(u.chunks)) = Len(u.chunks) - 1 /\ Len(u.chunks) \in Nat \ {0}
    BY <1>1, <1>3, HeadTailProperties, EmptySeq, LenProperties
  <2> HIDE DEF u, v
  <2> QED  BY <1>4, <1>12, <2>1, CapacityAssumption, EmptySeq
<1>14. <<>> = [i \in 1 .. 0 |-> i]
  OBVIOUS
<1> HIDE DEF u
<1>15. /\ conn'["new"].late = [i \in 1 .. Len(conn'["new"].late) |-> i]
       /\ Len(conn'["new"].late) < PacketCap
       /\ Len(conn'["new"].late) <= conn'["client"].sent
       /\ conn'["new"].ack = Len(conn'["new"].late)
       /\ Len(conn'["new"].late) + Len(v.chunks) < PacketCap /\ Len(v.chunks) <= PacketCap
       /\ conn'["new"].state = "OFFLINE"
  <2>1. conn'["new"].late = <<>> /\ conn'["new"].ack = 0 /\ conn'["new"].state = "OFFLINE"
    BY <1>8, <1>10
  <2>2. conn'["client"].sent \in Nat
    BY <1>3, <1>10
  <2> HIDE DEF v
  <2> QED  BY <1>13, <1>14, <2>1, <2>2
<1> QED  BY <1>11, <1>15 DEF Rest, v

(* Of what is behind the command in its packet the slot that was left hands *)
(* up only a first part of the stream, again (network.cpp, FetchChunk).     *)
THEOREM LateRest == Spec => []LateIsRest
<1>1. Init => Rest
  <2> SUFFICES ASSUME Init  PROVE Rest
    OBVIOUS
  <2>1. conn["new"] = OnlineConnection /\ conn["client"] = OnlineConnection
    BY DEF Init, Slot
  <2>2. /\ OnlineConnection.late = <<>> /\ OnlineConnection.state = "ONLINE"
        /\ OnlineConnection.sent = 0
    BY DEF OnlineConnection
  <2>3. unpacker["server"].chunks = <<>>
    BY DEF Init, Side
  <2>4. <<>> = [i \in 1 .. 0 |-> i] /\ Len(<<>>) = 0
    BY EmptySeq
  <2> QED  BY <2>1, <2>2, <2>3, <2>4, CapacityAssumption DEF Rest
<1>2. IInv /\ Rest /\ [Next]_vars => Rest'
  <2> SUFFICES ASSUME IInv, Rest, [Next]_vars  PROVE Rest'
    OBVIOUS
  <2>1. ASSUME NEW s \in Side, FetchChunkAt(s)  PROVE Rest'
    BY <2>1, FetchRest, MoveRest
  <2>2. CASE conn' = conn /\ unpacker' = unpacker
    BY <2>2 DEF Rest, Session
  <2>3. ASSUME NEW s \in Side, NEW p \in net[s], Lose(s, p)  PROVE Rest'
    BY <2>2, <2>3 DEF Lose
  <2>4. CASE UNCHANGED vars
    BY <2>2, <2>4 DEF vars
  <2> QED  BY <2>1, <2>3, <2>4, SendRest, ReceiveRest DEF Next
<1>3. Rest => LateIsRest
  BY DEF Rest, LateIsRest, Session
<1> QED  BY <1>1, <1>2, <1>3, Invariance, PTL DEF Spec
=============================================================================
