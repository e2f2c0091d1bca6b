--------------------------- MODULE NetConn_proofs ---------------------------
(***************************************************************************)
(* Lemmas about the operators of NetConn: the tests on the circle of       *)
(* sequence numbers, and what each operation does to a connection.         *)
(***************************************************************************)
EXTENDS NetConn, ModArithmetic_proofs, SequenceTheorems, WellFoundedInduction

-----------------------------------------------------------------------------
(* A number is in the back room of an ack exactly when its count is not     *)
(* beyond the ack's, as long as the two are within half a turn.             *)
LEMMA BackroomExact ==
  ASSUME NEW m \in Nat, NEW k \in Nat,
         k - m <= MaxSequence \div 2, m - k < MaxSequence \div 2
  PROVE  IsSeqInBackroom(m % MaxSequence, k % MaxSequence) <=> m <= k
<1> DEFINE N == MaxSequence
           H == MaxSequence \div 2
<1>1. N \in Nat \ {0} /\ N >= 4
  BY SequenceAssumption
<1>2. H \in Nat /\ 2 * H <= N /\ H < N /\ N <= 2 * H + 1
  BY <1>1, SMT
<1> HIDE DEF N, H
<1>3. CASE m <= k
  <2>1. k - m \in 0 .. N - 1 /\ m + (k - m) = k
    BY <1>1, <1>2, <1>3 DEF H
  <2>2. /\ k % N = IF (m % N) + (k - m) < N THEN (m % N) + (k - m) ELSE (m % N) + (k - m) - N
        /\ m % N \in 0 .. N - 1
    <3>1. PICK d \in 0 .. N - 1 : d = k - m /\ m + d = k
      BY <2>1
    <3>2. /\ (m + d) % N = IF (m % N) + d < N THEN (m % N) + d ELSE (m % N) + d - N
          /\ m % N \in 0 .. N - 1
      BY <1>1, ModShift
    <3> QED  BY <3>1, <3>2
  <2>3. k - m <= H
    BY DEF H
  <2>4. IsSeqInBackroom(m % N, k % N)
    BY <1>1, <1>2, <1>3, <2>1, <2>2, <2>3 DEF IsSeqInBackroom, N, H
  <2> QED  BY <1>3, <2>4 DEF N
<1>4. CASE k < m
  <2>1. m - k \in 0 .. N - 1 /\ k + (m - k) = m
    BY <1>1, <1>2, <1>4 DEF H
  <2>2. /\ m % N = IF (k % N) + (m - k) < N THEN (k % N) + (m - k) ELSE (k % N) + (m - k) - N
        /\ k % N \in 0 .. N - 1
    <3>1. PICK d \in 0 .. N - 1 : d = m - k /\ k + d = m
      BY <2>1
    <3>2. /\ (k + d) % N = IF (k % N) + d < N THEN (k % N) + d ELSE (k % N) + d - N
          /\ k % N \in 0 .. N - 1
      BY <1>1, ModShift
    <3> QED  BY <3>1, <3>2
  <2>3. m - k < H
    BY DEF H
  <2>4. ~IsSeqInBackroom(m % N, k % N)
    BY <1>1, <1>2, <1>4, <2>1, <2>2, <2>3 DEF IsSeqInBackroom, N, H
  <2> QED  BY <1>4, <2>4 DEF N
<1> QED  BY <1>3, <1>4

(* Feed's test of an ack is exact as long as neither the latest ack nor the *)
(* tested one is a whole turn behind the connection's sequence number.      *)
LEMMA AckIsValidExact ==
  ASSUME NEW c, NEW s \in Nat, NEW p \in Nat, NEW k \in Nat,
         c.sequence = s % MaxSequence, c.peerAck = p % MaxSequence,
         p <= s, s - p < MaxSequence, k <= s, s - k < MaxSequence
  PROVE  AckIsValid(c, k % MaxSequence) <=> k >= p
<1> DEFINE N == MaxSequence
<1>1. N \in Nat \ {0}
  BY SequenceAssumption
<1>2. \A x \in Nat : x <= s /\ s - x < N =>
         /\ s % N = IF (x % N) + (s - x) < N THEN (x % N) + (s - x) ELSE (x % N) + (s - x) - N
         /\ x % N \in 0 .. N - 1
  <2> SUFFICES ASSUME NEW x \in Nat, x <= s, s - x < N
               PROVE  /\ s % N = IF (x % N) + (s - x) < N
                                 THEN (x % N) + (s - x) ELSE (x % N) + (s - x) - N
                      /\ x % N \in 0 .. N - 1
    OBVIOUS
  <2> DEFINE d == s - x
  <2>1. d \in 0 .. N - 1 /\ x + d = s
    BY <1>1
  <2> HIDE DEF d
  <2>2. /\ (x + d) % N = IF (x % N) + d < N THEN (x % N) + d ELSE (x % N) + d - N
        /\ x % N \in 0 .. N - 1
    BY <1>1, <2>1, ModShift
  <2> QED  BY <2>1, <2>2 DEF d
<1>3. s % N \in 0 .. N - 1
  BY <1>1, SMT
<1> HIDE DEF N
<1>4. c.sequence = s % N /\ c.peerAck = p % N
  BY DEF N
<1>5. p <= s /\ s - p < N /\ k <= s /\ s - k < N
  BY DEF N
<1>6. /\ s % N = IF (p % N) + (s - p) < N THEN (p % N) + (s - p) ELSE (p % N) + (s - p) - N
      /\ p % N \in 0 .. N - 1
  BY <1>2, <1>5
<1>7. /\ s % N = IF (k % N) + (s - k) < N THEN (k % N) + (s - k) ELSE (k % N) + (s - k) - N
      /\ k % N \in 0 .. N - 1
  BY <1>2, <1>5
<1>8. AckIsValid(c, k % N) <=> k >= p
  BY <1>1, <1>3, <1>4, <1>5, <1>6, <1>7 DEF AckIsValid
<1> QED  BY <1>8 DEF N

-----------------------------------------------------------------------------
(* A nonempty set of natural numbers has a least element.                   *)
LessThan == {ss \in Nat \X Nat : ss[1] < ss[2]}

LEMMA LeastElement ==
  ASSUME NEW T, T \subseteq Nat, T # {}
  PROVE  \E x \in T : \A y \in T : ~(y < x)
<1>1. LessThan = OpToRel(<, Nat)
  BY Zenon DEF LessThan, OpToRel
<1>2. IsWellFoundedOn(LessThan, Nat)
  BY <1>1, NatLessThanWellFounded, Zenon
<1>3. PICK x \in T : \A y \in T : ~(<<y, x>> \in LessThan)
  BY <1>2, WFMin
<1> QED  BY <1>3 DEF LessThan

(* AckChunks pops a prefix of the resend buffer, all of it in the back      *)
(* room of the ack.                                                         *)
LEMMA LeadingRunExists ==
  ASSUME NEW b \in Seq(Chunk), NEW ack
  PROVE  /\ LeadingRun(b, ack) \in 0 .. Len(b)
         /\ \A i \in 1 .. LeadingRun(b, ack) : IsSeqInBackroom(b[i].sequence, ack)
<1> DEFINE Stay == {i \in 1 .. Len(b) : ~IsSeqInBackroom(b[i].sequence, ack)}
           IsRun(k) == /\ \A i \in 1 .. k : IsSeqInBackroom(b[i].sequence, ack)
                       /\ k < Len(b) => ~IsSeqInBackroom(b[k + 1].sequence, ack)
<1>1. Len(b) \in Nat
  BY LenProperties
<1>2. \E k \in 0 .. Len(b) : IsRun(k)
  <2>1. CASE Stay = {}
    <3>1. IsRun(Len(b)) /\ Len(b) \in 0 .. Len(b)
      BY <1>1, <2>1
    <3> QED  BY <3>1
  <2>2. CASE Stay # {}
    <3>1. Stay \subseteq Nat
      BY <1>1
    <3> HIDE DEF Stay
    <3>2. PICK x \in Stay : \A y \in Stay : ~(y < x)
      BY <2>2, <3>1, LeastElement
    <3> USE DEF Stay
    <3>4. x - 1 \in 0 .. Len(b) /\ (x - 1) + 1 = x
      BY <1>1
    <3>5. IsRun(x - 1)
      BY <1>1, <3>2, <3>4
    <3> QED  BY <3>4, <3>5
  <2> QED  BY <2>1, <2>2
<1>3. LeadingRun(b, ack) = CHOOSE k \in 0 .. Len(b) : IsRun(k)
  BY DEF LeadingRun
<1> QED  BY <1>2, <1>3

LEMMA AckChunksSuffix ==
  ASSUME NEW S, S \subseteq Chunk, NEW b \in Seq(S), NEW ack
  PROVE  LET k == LeadingRun(b, ack)
         IN  /\ k \in 0 .. Len(b)
             /\ AckChunks(b, ack) \in Seq(S)
             /\ Len(AckChunks(b, ack)) = Len(b) - k
             /\ \A i \in 1 .. Len(b) - k : AckChunks(b, ack)[i] = b[k + i]
             /\ \A i \in 1 .. k : IsSeqInBackroom(b[i].sequence, ack)
<1> DEFINE k == LeadingRun(b, ack)
<1>1. b \in Seq(Chunk)
  BY SeqMonotonic
<1>2. k \in 0 .. Len(b) /\ \A i \in 1 .. k : IsSeqInBackroom(b[i].sequence, ack)
  BY <1>1, LeadingRunExists
<1>3. Len(b) \in Nat /\ \A i \in 1 .. Len(b) : b[i] \in S
  BY LenProperties, ElementOfSeq
<1> HIDE DEF k
<1>4. \A i \in k + 1 .. Len(b) : b[i] \in S
  BY <1>2, <1>3
<1>5. /\ SubSeq(b, k + 1, Len(b)) \in Seq(S)
      /\ Len(SubSeq(b, k + 1, Len(b))) = IF k + 1 <= Len(b) THEN Len(b) - (k + 1) + 1 ELSE 0
      /\ \A i \in 1 .. Len(b) - (k + 1) + 1 : SubSeq(b, k + 1, Len(b))[i] = b[k + 1 + i - 1]
  BY <1>2, <1>3, <1>4, SubSeqProperties
<1> QED  BY <1>2, <1>3, <1>5 DEF AckChunks, k

(* A packet carries the connection's ack and only chunks of those given.    *)
LEMMA MakePacketType ==
  ASSUME NEW c \in Connection, NEW S, S \subseteq Chunk, NEW cs \in Seq(S),
         Len(cs) <= PacketCap, NEW resend \in BOOLEAN, NEW ctrl \in Control
  PROVE  LET p == MakePacket(c, cs, resend, ctrl)
         IN  /\ p \in Packet /\ p.chunks \in Seq(S)
             /\ p.ack = c.ack /\ p.accepted = Len(c.got)
<1> DEFINE m == Len(cs) % ChunkCountMod
<1>1. Len(cs) \in Nat /\ \A i \in 1 .. Len(cs) : cs[i] \in S
  BY LenProperties, ElementOfSeq
<1>2. m \in 0 .. Len(cs)
  BY <1>1, CapacityAssumption, SMT
<1>3. SubSeq(cs, 1, m) \in Seq(S) /\ Len(SubSeq(cs, 1, m)) = m
  <2> HIDE DEF m
  <2>1. \A i \in 1 .. m : cs[i] \in S
    BY <1>1, <1>2
  <2>2. m \in Nat
    BY <1>1, <1>2
  <2> QED  BY <1>2, <2>1, <2>2, SubSeqProperties
<1>4. SubSeq(cs, 1, m) \in Seq(Chunk) /\ m <= PacketCap
  BY <1>1, <1>2, <1>3, SeqMonotonic, CapacityAssumption
<1>5. Len(c.got) \in Nat /\ c.ack \in SeqNumbers
  BY LenProperties DEF Connection
<1> HIDE DEF m
<1>6. MakePacket(c, cs, resend, ctrl) =
        [ack |-> c.ack, resend |-> resend, ctrl |-> ctrl,
         chunks |-> SubSeq(cs, 1, m), accepted |-> Len(c.got)]
  BY DEF MakePacket, m
<1> QED  BY <1>3, <1>4, <1>5, <1>6 DEF Packet

(* QueueChunkEx touches only the construct, and every chunk in the new      *)
(* construct or in a packet it sends was in the construct or queued.        *)
LEMMA QueueChunkExEffect ==
  ASSUME NEW c \in Connection, NEW S, S \subseteq Chunk, NEW cs \in Seq(S),
         c.construct.chunks \in Seq(S), Len(c.construct.chunks) <= PacketCap
  PROVE  LET r == QueueChunkEx(c, cs)
         IN  /\ r.conn = [c EXCEPT !.construct = r.conn.construct]
             /\ r.conn.construct \in [chunks : Seq(S), resend : BOOLEAN]
             /\ Len(r.conn.construct.chunks) <= PacketCap
             /\ \A p \in r.out : /\ p \in Packet /\ p.chunks \in Seq(S)
                                 /\ p.ack = c.ack /\ p.accepted = Len(c.got)
             /\ c.state # "ONLINE" => r.out = {}
<1> DEFINE all     == c.construct.chunks \o cs
           flushes == (Len(all) - 1) \div PacketCap
           Part(k) == MakePacket(c, SubSeq(all, (k - 1) * PacketCap + 1, k * PacketCap),
                                 c.construct.resend /\ k = 1, "none")
           rest    == SubSeq(all, flushes * PacketCap + 1, Len(all))
<1>1. c.construct \in [chunks : Seq(Chunk), resend : BOOLEAN]
  BY DEF Connection
<1>2. CASE c.state # "ONLINE" \/ cs = <<>>
  BY <1>1, <1>2 DEF QueueChunkEx, Connection
<1>3. CASE c.state = "ONLINE" /\ cs # <<>>
  <2>1. /\ all \in Seq(S)
        /\ Len(all) = Len(c.construct.chunks) + Len(cs)
    BY ConcatProperties
  <2>2. Len(cs) \in Nat \ {0} /\ Len(c.construct.chunks) \in Nat
    BY <1>3, EmptySeq, LenProperties
  <2>3. Len(all) \in Nat \ {0} /\ \A i \in 1 .. Len(all) : all[i] \in S
    BY <2>1, <2>2, ElementOfSeq
  <2> HIDE DEF all
  <2>4. /\ flushes \in Nat
        /\ flushes * PacketCap \in 0 .. Len(all) - 1
        /\ Len(all) - 1 - flushes * PacketCap < PacketCap
    BY <2>3, CapacityAssumption, SMTT(60)
  <2> HIDE DEF flushes
  <2>5. \A i \in flushes * PacketCap + 1 .. Len(all) : all[i] \in S
    BY <2>3, <2>4
  <2>6. rest \in Seq(S) /\ Len(rest) <= PacketCap
    BY <2>3, <2>4, <2>5, SubSeqProperties, CapacityAssumption
  <2> HIDE DEF rest
  <2>7. ASSUME NEW k \in 1 .. flushes
        PROVE  /\ Part(k) \in Packet /\ Part(k).chunks \in Seq(S)
               /\ Part(k).ack = c.ack /\ Part(k).accepted = Len(c.got)
    <3> DEFINE lo    == (k - 1) * PacketCap + 1
               hi    == k * PacketCap
               first == c.construct.resend /\ k = 1
               part  == SubSeq(all, lo, hi)
    <3>1. /\ lo \in Int /\ hi \in Int /\ 1 <= lo /\ hi <= flushes * PacketCap
          /\ lo <= hi /\ hi - lo + 1 = PacketCap
      BY <2>4, <2>7, CapacityAssumption, SMT
    <3> HIDE DEF lo, hi
    <3>2. \A i \in lo .. hi : all[i] \in S
      BY <2>3, <2>4, <3>1
    <3>3. part \in Seq(S) /\ Len(part) <= PacketCap
      BY <3>1, <3>2, SubSeqProperties, CapacityAssumption
    <3>4. first \in BOOLEAN /\ "none" \in Control
      BY <1>1 DEF Control
    <3>5. Part(k) = MakePacket(c, part, first, "none")
      BY DEF lo, hi
    <3> HIDE DEF Part, part, first
    <3>6. LET p == MakePacket(c, part, first, "none")
          IN  /\ p \in Packet /\ p.chunks \in Seq(S)
              /\ p.ack = c.ack /\ p.accepted = Len(c.got)
      BY <3>3, <3>4, MakePacketType
    <3> QED  BY <3>5, <3>6
  <2> HIDE DEF Part
  <2>8. QueueChunkEx(c, cs) =
          [conn |-> [c EXCEPT !.construct =
                       [chunks |-> rest, resend |-> c.construct.resend /\ flushes = 0]],
           out |-> {Part(k) : k \in 1 .. flushes}]
    BY <1>3 DEF QueueChunkEx, all, flushes, Part, rest
  <2> DEFINE r == QueueChunkEx(c, cs)
             k0 == [chunks |-> rest, resend |-> c.construct.resend /\ flushes = 0]
  <2>9. k0 \in [chunks : Seq(S), resend : BOOLEAN] /\ Len(k0.chunks) <= PacketCap
    BY <1>1, <2>6
  <2>10. r.conn = [c EXCEPT !.construct = k0] /\ r.out = {Part(k) : k \in 1 .. flushes}
    BY <2>8
  <2> HIDE DEF r, k0
  <2>11. r.conn.construct = k0
    BY <2>10 DEF Connection
  <2>12. \A p \in r.out : /\ p \in Packet /\ p.chunks \in Seq(S)
                         /\ p.ack = c.ack /\ p.accepted = Len(c.got)
    BY <2>7, <2>10
  <2> QED  BY <1>3, <2>9, <2>10, <2>11, <2>12 DEF r
<1> QED  BY <1>2, <1>3

-----------------------------------------------------------------------------
(* A connection whose chunks are all in S, and packets that it may send.    *)
WellFormed(c, S) ==
    /\ c \in Connection
    /\ c.construct.chunks \in Seq(S)
    /\ c.buffer \in Seq(S)
    /\ Len(c.construct.chunks) <= PacketCap
    /\ Len(c.buffer) <= BufferCap

Carries(c, S, out) ==
    /\ \A p \in out : /\ p \in Packet /\ p.chunks \in Seq(S)
                      /\ p.ack = c.ack /\ p.accepted = Len(c.got)
    /\ c.state = "OFFLINE" => out = {}

(* Update never touches the stream: it may time the connection out, resend  *)
(* from the buffer and empty the construct.                                 *)
QuietChange(c, d) ==
    /\ d.sequence = c.sequence /\ d.ack = c.ack /\ d.peerAck = c.peerAck
    /\ d.unknownSeq = c.unknownSeq /\ d.buffer = c.buffer
    /\ d.sent = c.sent /\ d.got = c.got /\ d.late = c.late
    /\ d.acked = c.acked /\ d.unsaved = c.unsaved

(* What each operation does to a connection whose chunks are all in S, and  *)
(* what the packets it sends carry.                                         *)
LEMMA QueueChunkExWell ==
  ASSUME NEW S, S \subseteq Chunk, NEW c, WellFormed(c, S), NEW cs \in Seq(S)
  PROVE  LET r == QueueChunkEx(c, cs)
         IN  /\ WellFormed(r.conn, S) /\ Carries(c, S, r.out)
             /\ r.conn = [c EXCEPT !.construct = r.conn.construct]
<1> DEFINE r == QueueChunkEx(c, cs)
<1>1. c \in Connection /\ c.sent \in Nat
  BY DEF WellFormed, Connection
<1>2. /\ r.conn = [c EXCEPT !.construct = r.conn.construct]
      /\ r.conn.construct \in [chunks : Seq(S), resend : BOOLEAN]
      /\ Len(r.conn.construct.chunks) <= PacketCap
      /\ \A p \in r.out : /\ p \in Packet /\ p.chunks \in Seq(S)
                          /\ p.ack = c.ack /\ p.accepted = Len(c.got)
      /\ c.state # "ONLINE" => r.out = {}
  <2> QED  BY <1>1, QueueChunkExEffect DEF WellFormed
<1>3. r.conn.construct.chunks \in Seq(Chunk)
  BY <1>1, <1>2, SeqMonotonic
<1> HIDE DEF r
<1>4. r.conn \in Connection
  BY <1>1, <1>2, <1>3 DEF Connection
<1>5. r.conn.sent = c.sent /\ r.conn.buffer = c.buffer
  BY <1>1, <1>2 DEF Connection
<1>6. WellFormed(r.conn, S)
  BY <1>2, <1>4, <1>5 DEF WellFormed
<1>7. Carries(c, S, r.out)
  BY <1>2 DEF Carries
<1> QED  BY <1>2, <1>6, <1>7 DEF r

LEMMA FlushWell ==
  ASSUME NEW S, S \subseteq Chunk, NEW c, WellFormed(c, S), c.state # "OFFLINE"
  PROVE  LET r == Flush(c)
         IN  /\ WellFormed(r.conn, S) /\ Carries(c, S, r.out)
             /\ r.conn = [c EXCEPT !.construct = r.conn.construct]
<1>1. c \in Connection /\ c.sent \in Nat
  BY DEF WellFormed, Connection
<1>2. CASE c.construct = NoChunks
  BY <1>1, <1>2 DEF Flush, Connection, Carries
<1>3. CASE c.construct # NoChunks
  <2> DEFINE p == MakePacket(c, c.construct.chunks, c.construct.resend, "none")
  <2>1. /\ c.construct.chunks \in Seq(S) /\ c.construct.resend \in BOOLEAN
        /\ Len(c.construct.chunks) <= PacketCap /\ "none" \in Control
    BY <1>1 DEF WellFormed, Connection, Control
  <2>2. /\ p \in Packet /\ p.chunks \in Seq(S)
        /\ p.ack = c.ack /\ p.accepted = Len(c.got)
    <3> QED  BY <1>1, <2>1, MakePacketType
  <2> HIDE DEF p
  <2>3. Flush(c) = [conn |-> [c EXCEPT !.construct = NoChunks], out |-> {p}]
    BY <1>3 DEF Flush, p
  <2>4. Carries(c, S, {p})
    BY <2>2 DEF Carries
  <2>5. <<>> \in Seq(S) /\ <<>> \in Seq(Chunk) /\ Len(<<>>) = 0
    BY EmptySeq
  <2> DEFINE d == [c EXCEPT !.construct = NoChunks]
  <2>6. /\ d \in Connection
        /\ d.sent = c.sent /\ d.buffer = c.buffer /\ d.construct = NoChunks
    BY <1>1, <2>5 DEF Connection, NoChunks
  <2> HIDE DEF d
  <2>7. WellFormed(d, S)
    BY <2>5, <2>6, CapacityAssumption DEF WellFormed, NoChunks
  <2> QED  BY <2>3, <2>4, <2>6, <2>7 DEF d
<1> QED  BY <1>2, <1>3

LEMMA TimeoutWell ==
  ASSUME NEW S, S \subseteq Chunk, NEW c, WellFormed(c, S), NEW d,
         NEW s \in {c.state, "ERROR"}, NEW t \in BOOLEAN,
         d = [c EXCEPT !.state = s, !.timeoutSituation = t]
  PROVE  WellFormed(d, S) /\ QuietChange(c, d) /\ d.state = s
<1>1. /\ d \in Connection /\ d.state = s /\ d.timeoutSituation = t
      /\ d.sent = c.sent /\ d.got = c.got /\ d.ack = c.ack
      /\ d.buffer = c.buffer /\ d.construct = c.construct
  BY DEF WellFormed, Connection
<1>2. QuietChange(c, d)
  BY DEF QuietChange, WellFormed, Connection
<1>3. WellFormed(d, S)
  BY <1>1 DEF WellFormed
<1> QED  BY <1>1, <1>2, <1>3

LEMMA UpdateWell ==
  ASSUME NEW S, S \subseteq Chunk, NEW c, WellFormed(c, S), NEW due
  PROVE  LET r == Update(c, due)
         IN  /\ WellFormed(r.conn, S) /\ Carries(c, S, r.out) /\ QuietChange(c, r.conn)
             /\ r.conn.state \in {c.state, "ERROR"}
             /\ c.state = "OFFLINE" => r.conn.state = "OFFLINE"
<1>1. c \in Connection /\ c.state \in {"ONLINE", "ERROR", "OFFLINE"}
  BY DEF WellFormed, Connection
<1>2. CASE c.state = "OFFLINE"
  BY <1>1, <1>2 DEF Update, QuietChange, Carries, Connection
<1>3. CASE c.state = "ERROR"
  <2>1. Update(c, due).out = {}
    BY <1>3 DEF Update
  <2>2. \/ Update(c, due).conn = c
        \/ Update(c, due).conn = [c EXCEPT !.state = "ERROR", !.timeoutSituation = FALSE]
    BY <1>1, <1>3 DEF Update, Connection
  <2>3. QuietChange(c, c)
    BY <1>1 DEF QuietChange, Connection
  <2> DEFINE d == [c EXCEPT !.state = "ERROR", !.timeoutSituation = FALSE]
  <2>4. "ERROR" \in {c.state, "ERROR"} /\ FALSE \in BOOLEAN
    OBVIOUS
  <2>5. d = [c EXCEPT !.state = "ERROR", !.timeoutSituation = FALSE]
    OBVIOUS
  <2> HIDE DEF d
  <2>6. WellFormed(d, S) /\ QuietChange(c, d) /\ d.state = "ERROR"
    BY <2>4, <2>5, TimeoutWell
  <2>7. Update(c, due).conn \in {c, d}
    BY <2>2, <2>5
  <2> QED  BY <1>3, <2>1, <2>3, <2>6, <2>7 DEF Carries
<1>4. CASE c.state = "ONLINE"
  <2> DEFINE c1 == CheckTimeout(c, due)
             r2 == FixResends(c1, due)
             r3 == KeepAlive(r2, due)
  <2>1. Update(c, due) = r3
    BY <1>4 DEF Update
  <2>2. PICK s \in {c.state, "ERROR"}, t \in BOOLEAN :
           c1 = [c EXCEPT !.state = s, !.timeoutSituation = t]
    BY <1>1 DEF CheckTimeout, TimeOut, Connection
  <2>3. WellFormed(c1, S) /\ QuietChange(c, c1) /\ c1.state \in {c.state, "ERROR"}
    BY <2>2, TimeoutWell
  <2> HIDE DEF c1
  <2>4. /\ WellFormed(r2.conn, S) /\ Carries(c1, S, r2.out) /\ QuietChange(c1, r2.conn)
        /\ r2.conn.state \in {c1.state, "ERROR"}
    <3>1. c1 \in Connection /\ c1.buffer \in Seq(S) /\ c1.sent \in Nat
      BY <2>3 DEF WellFormed, Connection
    <3>2. QuietChange(c1, c1)
      BY <3>1 DEF QuietChange, Connection
    <3>3. CASE c1.buffer # <<>> /\ "first" \in due
      <4>1. r2 = [conn |-> [c1 EXCEPT !.state = "ERROR", !.timeoutSituation = TRUE], out |-> {}]
        BY <3>3 DEF FixResends, TimeOut
      <4> DEFINE d == [c1 EXCEPT !.state = "ERROR", !.timeoutSituation = TRUE]
      <4>2. r2.conn = d /\ r2.out = {}
        BY <4>1
      <4>3. /\ "ERROR" \in {c1.state, "ERROR"} /\ TRUE \in BOOLEAN
            /\ d = [c1 EXCEPT !.state = "ERROR", !.timeoutSituation = TRUE]
        OBVIOUS
      <4> HIDE DEF d, r2
      <4>4. WellFormed(d, S) /\ QuietChange(c1, d) /\ d.state = "ERROR"
        BY <2>3, <4>3, TimeoutWell
      <4> QED  BY <2>3, <4>2, <4>4 DEF Carries
    <3>4. CASE c1.buffer # <<>> /\ "first" \notin due /\ "resend" \in due
      <4> DEFINE cs == <<Head(c1.buffer)>>
      <4>1. r2 = QueueChunkEx(c1, cs)
        BY <3>4 DEF FixResends
      <4>2. Head(c1.buffer) \in S
        BY <3>1, <3>4, HeadTailProperties
      <4>3. cs \in Seq(S)
        BY <4>2
      <4> HIDE DEF cs, r2
      <4>4. /\ WellFormed(r2.conn, S) /\ Carries(c1, S, r2.out)
            /\ r2.conn = [c1 EXCEPT !.construct = r2.conn.construct]
        BY <2>3, <4>1, <4>3, QueueChunkExWell
      <4>5. QuietChange(c1, r2.conn) /\ r2.conn.state = c1.state
        BY <3>1, <4>4 DEF QuietChange, Connection
      <4> QED  BY <2>3, <4>4, <4>5
    <3>5. CASE ~(c1.buffer # <<>> /\ "first" \in due) /\ ~(c1.buffer # <<>> /\ "resend" \in due)
      BY <2>3, <3>2, <3>5 DEF FixResends, Carries
    <3> QED  BY <3>3, <3>4, <3>5
  <2>5. Carries(c, S, r2.out)
    BY <2>3, <2>4, <1>4 DEF Carries, QuietChange
  <2>6. QuietChange(c, r2.conn) /\ r2.conn.state \in {c.state, "ERROR"}
    BY <2>3, <2>4 DEF QuietChange
  <2> HIDE DEF r2
  <2>7. CASE r3 = r2
    BY <1>4, <2>1, <2>4, <2>5, <2>6, <2>7
  <2>8. CASE r2.conn.state = "ONLINE" /\ r3 = Flush(r2.conn)
    <3>1. /\ WellFormed(r3.conn, S) /\ Carries(r2.conn, S, r3.out)
          /\ r3.conn = [r2.conn EXCEPT !.construct = r3.conn.construct]
      BY <2>4, <2>8, FlushWell
    <3> HIDE DEF r3
    <3>2. Carries(c, S, r3.out)
      BY <1>4, <2>6, <3>1 DEF Carries, QuietChange
    <3>3. QuietChange(c, r3.conn) /\ r3.conn.state = r2.conn.state
      <4>1. r2.conn \in Connection
        BY <2>4 DEF WellFormed
      <4> QED  BY <2>6, <3>1, <4>1 DEF QuietChange, Connection
    <3> QED  BY <1>4, <2>1, <2>6, <3>1, <3>2, <3>3
  <2>9. CASE /\ r2.conn.state = "ONLINE"
             /\ r3 = [conn |-> r2.conn, out |-> {SendControl(r2.conn, "keepalive")}]
    <3> DEFINE p == MakePacket(r2.conn, <<>>, FALSE, "keepalive")
    <3>1. /\ <<>> \in Seq(S) /\ Len(<<>>) <= PacketCap
          /\ FALSE \in BOOLEAN /\ "keepalive" \in Control
      BY EmptySeq, CapacityAssumption DEF Control
    <3>2. r2.conn \in Connection
      BY <2>4 DEF WellFormed
    <3>3. /\ p \in Packet /\ p.chunks \in Seq(S)
          /\ p.ack = r2.conn.ack /\ p.accepted = Len(r2.conn.got)
      <4>1. PICK x \in Connection : x = r2.conn
        BY <3>2
      <4> DEFINE packet == MakePacket(x, <<>>, FALSE, "keepalive")
      <4>2. /\ packet \in Packet /\ packet.chunks \in Seq(S)
            /\ packet.ack = x.ack /\ packet.accepted = Len(x.got)
        BY <3>1, MakePacketType
      <4>3. packet = p
        BY <4>1
      <4> HIDE DEF packet, p
      <4> QED  BY <4>1, <4>2, <4>3
    <3> HIDE DEF p
    <3>4. r3.out = {p} /\ r3.conn = r2.conn
      BY <2>9 DEF SendControl, p
    <3>5. Carries(c, S, r3.out)
      BY <1>4, <2>6, <3>3, <3>4 DEF Carries, QuietChange
    <3> QED  BY <1>4, <2>1, <2>4, <2>6, <3>4, <3>5
  <2>10. \/ r3 = r2
         \/ r2.conn.state = "ONLINE" /\ r3 = Flush(r2.conn)
         \/ /\ r2.conn.state = "ONLINE"
            /\ r3 = [conn |-> r2.conn, out |-> {SendControl(r2.conn, "keepalive")}]
    BY DEF KeepAlive
  <2> QED  BY <2>7, <2>8, <2>9, <2>10
<1> QED  BY <1>1, <1>2, <1>3, <1>4

(* d keeps every chunk that c kept, and the one queued next.                *)
KeepsAll(c, d) ==
    \A k \in 1 .. c.sent + 1 :
      \/ k = c.sent + 1
      \/ k \in c.unsaved
      \/ \E i \in DOMAIN c.buffer : c.buffer[i].data = k
      => \/ k \in d.unsaved
         \/ \E i \in DOMAIN d.buffer : d.buffer[i].data = k

(* Saving the next chunk extends the stream by one.                         *)
LEMMA SaveWell ==
  ASSUME NEW S, S \subseteq Chunk, NEW c, WellFormed(c, S), NextChunk(c) \in S
  PROVE  LET d == Save(c, NextChunk(c))
         IN  /\ WellFormed(d, S) /\ d.construct = c.construct
             /\ d.state = c.state /\ d.ack = c.ack /\ d.peerAck = c.peerAck
             /\ d.unknownSeq = c.unknownSeq /\ d.got = c.got /\ d.late = c.late /\ d.acked = c.acked
             /\ d.sent = c.sent + 1 /\ d.sequence = NextChunk(c).sequence
             /\ KeepsAll(c, d)
<1> DEFINE ch == NextChunk(c)
           d  == Save(c, ch)
<1>1. c \in Connection /\ c.sent \in Nat
  BY DEF WellFormed, Connection
<1>2. ch \in S /\ ch \in Chunk /\ ch.data = c.sent + 1
  BY DEF NextChunk
<1> HIDE DEF ch
<1>3. ch.sequence \in SeqNumbers /\ ch.data \in Nat
  BY <1>2 DEF Chunk
<1>4. c.construct.chunks \in Seq(S) /\ c.buffer \in Seq(S)
  BY DEF WellFormed
<1>5. Len(c.buffer) \in Nat /\ DOMAIN c.buffer = 1 .. Len(c.buffer)
  BY <1>4, LenProperties
<1>6. CASE Len(c.buffer) < BufferCap
  <2> DEFINE b == Append(c.buffer, ch)
  <2>1. /\ b \in Seq(S) /\ Len(b) = Len(c.buffer) + 1
        /\ \A i \in 1 .. Len(c.buffer) : b[i] = c.buffer[i]
        /\ b[Len(c.buffer) + 1] = ch
    BY <1>2, <1>4, AppendProperties
  <2>2. b \in Seq(Chunk) /\ DOMAIN b = 1 .. Len(b)
    BY <2>1, SeqMonotonic, LenProperties
  <2> HIDE DEF b
  <2>3. d = [c EXCEPT !.sequence = ch.sequence, !.sent = ch.data, !.buffer = b]
    BY <1>6 DEF Save, b
  <2> HIDE DEF d
  <2>4. /\ d \in Connection /\ d.buffer = b /\ d.construct = c.construct
        /\ d.state = c.state /\ d.ack = c.ack /\ d.peerAck = c.peerAck
        /\ d.unknownSeq = c.unknownSeq /\ d.got = c.got /\ d.late = c.late /\ d.acked = c.acked
        /\ d.sent = c.sent + 1 /\ d.sequence = ch.sequence
        /\ d.unsaved = c.unsaved
    BY <1>1, <1>2, <1>3, <2>2, <2>3 DEF Connection
  <2>5. WellFormed(d, S)
    BY <1>4, <1>5, <1>6, <2>1, <2>4, CapacityAssumption DEF WellFormed
  <2>6. KeepsAll(c, d)
    BY <1>2, <1>5, <2>1, <2>2, <2>4 DEF KeepsAll
  <2> QED  BY <2>4, <2>5, <2>6 DEF d, ch
<1>7. CASE ~(Len(c.buffer) < BufferCap)
  <2>1. d = [c EXCEPT !.sequence = ch.sequence, !.sent = ch.data,
                      !.unsaved = @ \cup {ch.data}]
    BY <1>7 DEF Save
  <2> HIDE DEF d
  <2>2. /\ d \in Connection /\ d.buffer = c.buffer /\ d.construct = c.construct
        /\ d.state = c.state /\ d.ack = c.ack /\ d.peerAck = c.peerAck
        /\ d.unknownSeq = c.unknownSeq /\ d.got = c.got /\ d.late = c.late /\ d.acked = c.acked
        /\ d.sent = c.sent + 1 /\ d.sequence = ch.sequence
        /\ d.unsaved = c.unsaved \cup {c.sent + 1}
    BY <1>1, <1>2, <1>3, <2>1 DEF Connection
  <2>3. WellFormed(d, S)
    BY <1>4, <2>2 DEF WellFormed
  <2>4. KeepsAll(c, d)
    BY <2>2 DEF KeepsAll
  <2> QED  BY <2>2, <2>3, <2>4 DEF d, ch
<1> QED  BY <1>6, <1>7

(* A vital chunk queued on a connection that is online: the stream is one   *)
(* longer, and the chunk is in the buffer or known to be unsaved.           *)
LEMMA QueueChunkWell ==
  ASSUME NEW S, S \subseteq Chunk, NEW c, WellFormed(c, S), NextChunk(c) \in S,
         c.state = "ONLINE"
  PROVE  LET r == QueueChunk(c, TRUE)
             d == r.conn
         IN  /\ WellFormed(d, S)
             /\ \A p \in r.out : /\ p \in Packet /\ p.chunks \in Seq(S)
                                 /\ p.ack = c.ack /\ p.accepted = Len(c.got)
             /\ d.state = "ONLINE" /\ d.ack = c.ack /\ d.peerAck = c.peerAck
             /\ d.unknownSeq = c.unknownSeq /\ d.got = c.got /\ d.late = c.late /\ d.acked = c.acked
             /\ d.sent = c.sent + 1 /\ d.sequence = NextChunk(c).sequence
             /\ KeepsAll(c, d)
<1> DEFINE c1 == Save(c, NextChunk(c))
           q  == QueueChunkEx(c1, <<NextChunk(c)>>)
           r  == QueueChunk(c, TRUE)
<1>1. /\ WellFormed(c1, S)
      /\ c1.state = c.state /\ c1.ack = c.ack /\ c1.peerAck = c.peerAck
      /\ c1.unknownSeq = c.unknownSeq /\ c1.got = c.got /\ c1.late = c.late /\ c1.acked = c.acked
      /\ c1.sent = c.sent + 1 /\ c1.sequence = NextChunk(c).sequence
      /\ KeepsAll(c, c1)
  BY SaveWell
<1>2. r = q
  BY DEF QueueChunk
<1> HIDE DEF c1
<1>3. /\ WellFormed(q.conn, S) /\ Carries(c1, S, q.out)
      /\ q.conn = [c1 EXCEPT !.construct = q.conn.construct]
  <2> DEFINE cs == <<NextChunk(c)>>
  <2>1. cs \in Seq(S)
    OBVIOUS
  <2> HIDE DEF cs
  <2>2. LET u == QueueChunkEx(c1, cs)
        IN  /\ WellFormed(u.conn, S) /\ Carries(c1, S, u.out)
            /\ u.conn = [c1 EXCEPT !.construct = u.conn.construct]
    BY <1>1, <2>1, QueueChunkExWell
  <2> QED  BY <2>2, Zenon DEF cs
<1> HIDE DEF q, r
<1>4. QuietChange(c1, q.conn) /\ q.conn.state = c1.state
  <2>1. c1 \in Connection
    BY <1>1 DEF WellFormed
  <2> QED  BY <1>3, <2>1 DEF QuietChange, Connection
<1>5. \A p \in q.out : /\ p \in Packet /\ p.chunks \in Seq(S)
                       /\ p.ack = c.ack /\ p.accepted = Len(c.got)
  BY <1>1, <1>3 DEF Carries
<1>6. KeepsAll(c, q.conn)
  BY <1>1, <1>4 DEF KeepsAll, QuietChange
<1> QED  BY <1>1, <1>2, <1>3, <1>4, <1>5, <1>6 DEF QuietChange, r

LEMMA DisconnectWell ==
  ASSUME NEW S, S \subseteq Chunk, NEW c, WellFormed(c, S)
  PROVE  LET r == Disconnect(c)
         IN  /\ WellFormed(r.conn, S) /\ Carries(c, S, r.out) /\ r.conn.state = "OFFLINE"
             /\ r.conn.sent = c.sent /\ r.conn.got = c.got /\ r.conn.late = c.late
             /\ r.conn.acked = c.acked /\ r.conn.unsaved = c.unsaved /\ r.conn.ack = 0
<1> DEFINE r == Disconnect(c)
           d == r.conn
           out == r.out
<1>1. c \in Connection /\ d = Reset(c)
  BY DEF Disconnect, WellFormed
<1>2. /\ <<>> \in Seq(Chunk) /\ <<>> \in Seq(S) /\ Len(<<>>) = 0
      /\ 0 \in SeqNumbers
  BY EmptySeq, SequenceAssumption DEF SeqNumbers
<1>3. /\ d \in Connection /\ d.state = "OFFLINE" /\ d.sent = c.sent /\ d.got = c.got
      /\ d.late = c.late /\ d.acked = c.acked /\ d.unsaved = c.unsaved /\ d.ack = 0
      /\ d.buffer = <<>> /\ d.construct.chunks = <<>>
  <2>1. NoChunks \in [chunks : Seq(Chunk), resend : BOOLEAN] /\ NoChunks.chunks = <<>>
    BY <1>2 DEF NoChunks
  <2> HIDE DEF d
  <2>2. /\ d.state = "OFFLINE" /\ d.sent = c.sent /\ d.got = c.got
        /\ d.late = c.late /\ d.acked = c.acked /\ d.unsaved = c.unsaved /\ d.ack = 0
        /\ d.buffer = <<>> /\ d.construct = NoChunks
    BY <1>1 DEF Reset, Connection
  <2>3. d \in Connection
    BY <1>1, <1>2, <2>1 DEF Reset, Connection
  <2> QED  BY <2>1, <2>2, <2>3
<1>4. Carries(c, S, out)
  <2> DEFINE p == MakePacket(c, <<>>, FALSE, "close")
  <2>1. FALSE \in BOOLEAN /\ "close" \in Control /\ Len(<<>>) <= PacketCap
    BY <1>2, CapacityAssumption DEF Control
  <2>2. /\ p \in Packet /\ p.chunks \in Seq(S)
        /\ p.ack = c.ack /\ p.accepted = Len(c.got)
    BY <1>1, <1>2, <2>1, MakePacketType
  <2> HIDE DEF p
  <2>3. out \subseteq {p} /\ (c.state = "OFFLINE" => out = {})
    BY DEF Disconnect, SendControl, p
  <2> HIDE DEF out
  <2> QED  BY <2>2, <2>3 DEF Carries
<1> HIDE DEF r, d, out
<1>5. WellFormed(d, S)
  BY <1>2, <1>3, CapacityAssumption DEF WellFormed
<1> QED  BY <1>3, <1>4, <1>5 DEF r, d, out

(* A packet whose ack is taken changes neither stream; it may empty the     *)
(* buffer and close the connection.                                         *)
FedChange(c, p, d) ==
    /\ d.sequence = c.sequence /\ d.ack = c.ack /\ d.unknownSeq = c.unknownSeq
    /\ d.sent = c.sent /\ d.got = c.got /\ d.late = c.late /\ d.unsaved = c.unsaved
    /\ d.peerAck = p.ack /\ d.acked = p.accepted
    /\ d.state \in {"ONLINE", "ERROR"}
    /\ d.state = "ONLINE" => d.buffer = AckChunks(c.buffer, p.ack)

(* What a packet with a valid ack does to a connection that is online.      *)
LEMMA FeedWell ==
  ASSUME NEW S, S \subseteq Chunk, NEW c, WellFormed(c, S),
         c.state = "ONLINE", NEW p \in Packet, AckIsValid(c, p.ack)
  PROVE  LET r == Feed(c, p)
         IN  /\ WellFormed(r.conn, S)
             /\ \A q \in r.out : /\ q \in Packet /\ q.chunks \in Seq(S)
                                 /\ q.ack = c.ack /\ q.accepted = Len(c.got)
             /\ FedChange(c, p, r.conn)
             /\ r.start <=> r.conn.state = "ONLINE"
<1> DEFINE c1 == TakeAck(c, p)
           r1 == Resend(c1, p)
           d1 == r1.conn
           o1 == r1.out
<1>1. c \in Connection /\ c.sent \in Nat /\ p.ack \in SeqNumbers /\ p.accepted \in Nat
  BY DEF WellFormed, Connection, Packet
<1>2. /\ c1 \in Connection /\ c1.sequence = c.sequence /\ c1.ack = c.ack
      /\ c1.unknownSeq = c.unknownSeq /\ c1.sent = c.sent /\ c1.got = c.got /\ c1.late = c.late
      /\ c1.unsaved = c.unsaved /\ c1.peerAck = p.ack /\ c1.acked = p.accepted
      /\ c1.state = "ONLINE" /\ c1.buffer = c.buffer /\ c1.construct = c.construct
  BY <1>1 DEF TakeAck, Connection
<1> HIDE DEF c1
<1>3. WellFormed(c1, S)
  BY <1>2 DEF WellFormed
<1>4. WellFormed(d1, S) /\ Carries(c1, S, o1) /\ d1 = [c1 EXCEPT !.construct = d1.construct]
  <2>1. CASE p.resend
    <3> DEFINE q == QueueChunkEx(c1, c1.buffer)
    <3>1. c1.buffer \in Seq(S)
      BY <1>3 DEF WellFormed
    <3>2. /\ WellFormed(q.conn, S) /\ Carries(c1, S, q.out)
          /\ q.conn = [c1 EXCEPT !.construct = q.conn.construct]
      BY <1>3, <3>1, QueueChunkExWell
    <3> HIDE DEF q
    <3>3. r1 = q
      BY <2>1 DEF Resend, q
    <3> HIDE DEF r1
    <3> QED  BY <3>2, <3>3
  <2>2. CASE ~p.resend
    <3>1. d1 = c1 /\ o1 = {}
      BY <2>2 DEF Resend
    <3> HIDE DEF d1, o1
    <3> QED  BY <1>2, <1>3, <3>1 DEF Carries, Connection
  <2> QED  BY <2>1, <2>2
<1>5. Feed(c, p) = IF p.ctrl = "close"
        THEN [conn |-> [d1 EXCEPT !.state = "ERROR", !.remoteClosed = TRUE],
              out |-> o1, start |-> FALSE]
        ELSE [conn |-> IF d1.state = "ONLINE"
                       THEN [d1 EXCEPT !.buffer = AckChunks(@, p.ack)] ELSE d1,
              out |-> o1, start |-> TRUE]
  BY DEF Feed, c1
<1> HIDE DEF r1, d1, o1
<1>6. /\ d1 \in Connection /\ d1.sequence = c.sequence /\ d1.ack = c.ack
      /\ d1.unknownSeq = c.unknownSeq /\ d1.sent = c.sent /\ d1.got = c.got /\ d1.late = c.late
      /\ d1.unsaved = c.unsaved /\ d1.peerAck = p.ack /\ d1.acked = p.accepted
      /\ d1.state = "ONLINE" /\ d1.buffer = c.buffer
  <2>1. d1 \in Connection
    BY <1>4 DEF WellFormed
  <2> QED  BY <1>2, <1>4, <2>1 DEF Connection
<1>7. \A q \in o1 : /\ q \in Packet /\ q.chunks \in Seq(S)
                    /\ q.ack = c.ack /\ q.accepted = Len(c.got)
  BY <1>2, <1>4 DEF Carries
<1> DEFINE r == Feed(c, p)
           d == r.conn
<1>8. CASE p.ctrl = "close"
  <2>1. /\ d = [d1 EXCEPT !.state = "ERROR", !.remoteClosed = TRUE] /\ r.out = o1
        /\ r.start = FALSE
    BY <1>5, <1>8
  <2> HIDE DEF r, d
  <2>2. /\ d \in Connection /\ d.sequence = c.sequence /\ d.ack = c.ack
        /\ d.unknownSeq = c.unknownSeq /\ d.sent = c.sent /\ d.got = c.got /\ d.late = c.late
        /\ d.unsaved = c.unsaved /\ d.peerAck = p.ack /\ d.acked = p.accepted
        /\ d.state = "ERROR" /\ d.buffer = d1.buffer /\ d.construct = d1.construct
    BY <1>6, <2>1 DEF Connection
  <2>3. WellFormed(d, S)
    BY <1>4, <1>6, <2>2 DEF WellFormed
  <2> QED  BY <1>7, <2>1, <2>2, <2>3 DEF r, d, FedChange
<1>9. CASE p.ctrl # "close"
  <2> DEFINE b == AckChunks(c.buffer, p.ack)
  <2>1. d = [d1 EXCEPT !.buffer = b] /\ r.out = o1 /\ r.start = TRUE
    BY <1>5, <1>6, <1>9
  <2>2. b \in Seq(S) /\ Len(b) <= Len(c.buffer) /\ Len(c.buffer) \in Nat /\ Len(b) \in Nat
    <3> DEFINE k == LeadingRun(c.buffer, p.ack)
    <3>1. S \subseteq Chunk /\ c.buffer \in Seq(S)
      BY DEF WellFormed
    <3>2. Len(c.buffer) \in Nat
      BY <3>1, LenProperties
    <3>3. k \in 0 .. Len(c.buffer) /\ b \in Seq(S) /\ Len(b) = Len(c.buffer) - k
      BY <3>1, AckChunksSuffix
    <3> HIDE DEF b, k
    <3> QED  BY <3>2, <3>3
  <2>3. b \in Seq(Chunk)
    BY <1>1, <2>2, SeqMonotonic
  <2> HIDE DEF r, d, b
  <2>4. /\ d \in Connection /\ d.sequence = c.sequence /\ d.ack = c.ack
        /\ d.unknownSeq = c.unknownSeq /\ d.sent = c.sent /\ d.got = c.got /\ d.late = c.late
        /\ d.unsaved = c.unsaved /\ d.peerAck = p.ack /\ d.acked = p.accepted
        /\ d.state = "ONLINE" /\ d.buffer = b /\ d.construct = d1.construct
    BY <1>6, <2>1, <2>3 DEF Connection
  <2>5. WellFormed(d, S)
    <3>1. Len(c.buffer) <= BufferCap /\ BufferCap \in Nat
      BY CapacityAssumption DEF WellFormed
    <3>2. Len(b) <= BufferCap
      BY <2>2, <3>1
    <3> QED  BY <1>4, <1>6, <2>2, <2>4, <3>2 DEF WellFormed
  <2> QED  BY <1>7, <2>1, <2>4, <2>5 DEF r, d, b, FedChange
<1> QED  BY <1>8, <1>9

(* The unpacker takes a chunk that is next, or leaves the ack alone.        *)
FetchChange(c, ch, d) ==
    /\ d.state = c.state /\ d.sequence = c.sequence /\ d.peerAck = c.peerAck
    /\ d.buffer = c.buffer /\ d.sent = c.sent /\ d.acked = c.acked
    /\ d.unsaved = c.unsaved /\ d.construct.chunks = c.construct.chunks
    /\ d.unknownSeq \in {c.unknownSeq, FALSE}
    /\ IF ch.vital /\ IsNext(c, ch)
       THEN /\ d.ack = ch.sequence
            /\ d.got = IF c.state = "OFFLINE" THEN c.got ELSE Append(c.got, ch.data)
            /\ d.late = IF c.state = "OFFLINE" THEN Append(c.late, ch.data) ELSE c.late
       ELSE d.ack = c.ack /\ d.got = c.got /\ d.late = c.late

LEMMA FetchChunkWell ==
  ASSUME NEW S, S \subseteq Chunk, NEW c, WellFormed(c, S), NEW ch \in Chunk
  PROVE  LET d == FetchChunk(c, ch)
         IN  WellFormed(d, S) /\ FetchChange(c, ch, d)
<1> DEFINE d == FetchChunk(c, ch)
<1>1. /\ c \in Connection /\ c.got \in Seq(Nat) /\ c.late \in Seq(Nat)
      /\ ch.sequence \in SeqNumbers
      /\ ch.data \in Nat /\ ch.vital \in BOOLEAN
  BY DEF WellFormed, Connection, Chunk
<1>2. CASE d = c /\ ~(ch.vital /\ IsNext(c, ch))
  <2> HIDE DEF d
  <2> QED  BY <1>1, <1>2 DEF d, WellFormed, FetchChange
<1>3. CASE ch.vital /\ IsNext(c, ch)
  <2> DEFINE got  == IF c.state = "OFFLINE" THEN c.got ELSE Append(c.got, ch.data)
             late == IF c.state = "OFFLINE" THEN Append(c.late, ch.data) ELSE c.late
             c1   == [c EXCEPT !.ack = ch.sequence, !.unknownSeq = FALSE]
  <2>1. got \in Seq(Nat) /\ late \in Seq(Nat)
    BY <1>1, AppendProperties
  <2>2. d = HandUp(c1, ch)
    BY <1>3 DEF FetchChunk
  <2>3. /\ c1 \in Connection /\ c1.ack = ch.sequence /\ c1.unknownSeq = FALSE
        /\ c1.state = c.state /\ c1.sequence = c.sequence /\ c1.peerAck = c.peerAck
        /\ c1.buffer = c.buffer /\ c1.sent = c.sent /\ c1.acked = c.acked
        /\ c1.unsaved = c.unsaved /\ c1.construct = c.construct
        /\ c1.got = c.got /\ c1.late = c.late
    BY <1>1 DEF Connection
  <2> HIDE DEF d, c1
  <2>4. d = IF c.state = "OFFLINE" THEN [c1 EXCEPT !.late = late] ELSE [c1 EXCEPT !.got = got]
    BY <2>2, <2>3 DEF HandUp
  <2> HIDE DEF got, late
  <2>5. got = c.got \/ c.state # "OFFLINE"
    BY DEF got
  <2>6. late = c.late \/ c.state = "OFFLINE"
    BY DEF late
  <2>7. /\ d \in Connection /\ d.ack = ch.sequence /\ d.got = got /\ d.late = late
        /\ d.unknownSeq = FALSE
        /\ d.state = c.state /\ d.sequence = c.sequence /\ d.peerAck = c.peerAck
        /\ d.buffer = c.buffer /\ d.sent = c.sent /\ d.acked = c.acked
        /\ d.unsaved = c.unsaved /\ d.construct = c.construct
    BY <2>1, <2>3, <2>4, <2>5, <2>6 DEF Connection
  <2>8. WellFormed(d, S)
    BY <2>7 DEF WellFormed
  <2> QED  BY <1>3, <2>7, <2>8 DEF d, got, late, FetchChange
<1>4. CASE d = [c EXCEPT !.construct.resend = TRUE] /\ ~(ch.vital /\ IsNext(c, ch))
  <2> HIDE DEF d
  <2>1. /\ d \in Connection /\ d.ack = c.ack /\ d.got = c.got /\ d.late = c.late
        /\ d.unknownSeq = c.unknownSeq
        /\ d.state = c.state /\ d.sequence = c.sequence /\ d.peerAck = c.peerAck
        /\ d.buffer = c.buffer /\ d.sent = c.sent /\ d.acked = c.acked
        /\ d.unsaved = c.unsaved /\ d.construct.chunks = c.construct.chunks
    BY <1>1, <1>4 DEF Connection
  <2>2. WellFormed(d, S)
    BY <2>1 DEF WellFormed
  <2> QED  BY <1>4, <2>1, <2>2 DEF d, FetchChange
<1> QED  BY <1>1, <1>2, <1>3, <1>4 DEF FetchChunk

(* Update and what follows it: the connection goes on as it was, or it is   *)
(* let go of; only its history remains then.                                *)
LetGoChange(c, d) ==
    /\ d.sent = c.sent /\ d.got = c.got /\ d.late = c.late
    /\ d.acked = c.acked /\ d.unsaved = c.unsaved
    /\ d.state # "OFFLINE" => c.state # "OFFLINE" /\ QuietChange(c, d)
    /\ d.state = "ONLINE" => c.state = "ONLINE"
    /\ d.unknownSeq \in {c.unknownSeq, FALSE}
    /\ d.state = "OFFLINE" => d.ack = IF c.state = "OFFLINE" THEN c.ack ELSE 0

LEMMA LetGoWell ==
  ASSUME NEW S, S \subseteq Chunk, NEW c, WellFormed(c, S), NEW due, NEW protected
  PROVE  LET r == LetGo(Update(c, due), protected)
         IN  WellFormed(r.conn, S) /\ Carries(c, S, r.out) /\ LetGoChange(c, r.conn)
<1> DEFINE u == Update(c, due)
           g == Disconnect(u.conn)
           r == LetGo(u, protected)
<1>1. c.state \in {"ONLINE", "ERROR", "OFFLINE"}
  BY DEF WellFormed, Connection
<1>2. /\ WellFormed(u.conn, S) /\ Carries(c, S, u.out) /\ QuietChange(c, u.conn)
      /\ u.conn.state \in {c.state, "ERROR"}
      /\ c.state = "OFFLINE" => u.conn.state = "OFFLINE"
  BY UpdateWell
<1>3. \/ r = u
      \/ u.conn.state = "ERROR" /\ r.conn = g.conn /\ r.out = u.out \cup g.out
  BY DEF LetGo
<1> HIDE DEF u
<1>4. /\ WellFormed(g.conn, S) /\ Carries(u.conn, S, g.out) /\ g.conn.state = "OFFLINE"
      /\ g.conn.sent = u.conn.sent /\ g.conn.got = u.conn.got /\ g.conn.late = u.conn.late
      /\ g.conn.acked = u.conn.acked /\ g.conn.unsaved = u.conn.unsaved /\ g.conn.ack = 0
  BY <1>2, DisconnectWell
<1>5. g.conn.unknownSeq = FALSE
  BY <1>2 DEF Disconnect, Reset, WellFormed, Connection
<1> HIDE DEF g, r
<1>6. CASE r = u
  <2>1. u.conn.unknownSeq \in {c.unknownSeq, FALSE}
    BY <1>2 DEF QuietChange
  <2>2. /\ u.conn.state # "OFFLINE" => c.state # "OFFLINE"
        /\ u.conn.state = "ONLINE" => c.state = "ONLINE"
        /\ u.conn.state = "OFFLINE" => c.state = "OFFLINE"
    BY <1>1, <1>2
  <2> QED  BY <1>2, <1>6, <2>1, <2>2 DEF r, u, QuietChange, LetGoChange
<1>7. CASE u.conn.state = "ERROR" /\ r.conn = g.conn /\ r.out = u.out \cup g.out
  <2>1. Carries(c, S, r.out)
    <3>1. c.state # "OFFLINE"
      BY <1>2, <1>7
    <3> QED  BY <1>2, <1>4, <1>7, <3>1 DEF Carries, QuietChange
  <2>2. /\ WellFormed(r.conn, S) /\ r.conn.state = "OFFLINE" /\ r.conn.unknownSeq = FALSE
        /\ r.conn.sent = c.sent /\ r.conn.got = c.got /\ r.conn.late = c.late
        /\ r.conn.acked = c.acked /\ r.conn.unsaved = c.unsaved /\ r.conn.ack = 0
    BY <1>2, <1>4, <1>5, <1>7 DEF QuietChange
  <2>3. c.state # "OFFLINE"
    BY <1>2, <1>7
  <2> QED  BY <2>1, <2>2, <2>3 DEF r, u, LetGoChange
<1> QED  BY <1>3, <1>6, <1>7
=============================================================================
