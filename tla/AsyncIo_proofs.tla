--------------------------- MODULE AsyncIo_proofs ---------------------------
(***************************************************************************)
(* The ring of an ASYNCIO is a queue of bytes: a write, whether it wraps,  *)
(* fits or makes the ring grow, puts its bytes behind those that are       *)
(* there, and the thread takes bytes from the front.                       *)
(***************************************************************************)
EXTENDS AsyncIo, ModArithmetic_proofs, SequenceTheorems

-----------------------------------------------------------------------------
(* The structure, with a lock that members of L take.                       *)
Aio(L) ==
    [lock : L, signals : Nat, buffer : Seq(Byte), read : Nat, write : Nat,
     error : BOOLEAN, finish : {"running", "close", "exit"}, refs : 0 .. 2]

Ring(a) == a.read < Size(a) /\ a.write < Size(a)

(* The place in the buffer of the i-th byte in the ring.                    *)
Place(a, i) == IF a.read + i <= Size(a) THEN a.read + i ELSE a.read + i - Size(a)

(* Two rings with the same buffer and positions hold the same bytes.        *)
LEMMA SameRing ==
  ASSUME NEW a, NEW b, b.buffer = a.buffer, b.read = a.read, b.write = a.write
  PROVE  /\ Size(b) = Size(a) /\ BufferLen(b) = BufferLen(a)
         /\ Contents(b) = Contents(a) /\ Taken(b) = Taken(a)
         /\ Ring(a) => Ring(b)
<1>1. Size(b) = Size(a)
  BY DEF Size
<1>2. BufferLen(b) = BufferLen(a)
  BY <1>1 DEF BufferLen
<1>3. BufferPtrs(b) = BufferPtrs(a)
  BY <1>1 DEF BufferPtrs, Cells
<1>4. Contents(b) = Contents(a)
  BY <1>3 DEF Contents
<1> QED  BY <1>1, <1>2, <1>4 DEF Taken, Ring

(* The positions and the number of bytes are below the size.                *)
LEMMA RingNumbers ==
  ASSUME NEW L, NEW a \in Aio(L), Ring(a)
  PROVE  /\ Size(a) \in Nat \ {0}
         /\ a.read \in 0 .. Size(a) - 1 /\ a.write \in 0 .. Size(a) - 1
         /\ BufferLen(a) \in 0 .. Size(a) - 1
         /\ a.buffer \in Seq(Byte) /\ Len(a.buffer) = Size(a)
         /\ \A i \in 1 .. Size(a) : a.buffer[i] \in Byte
<1>1. a.buffer \in Seq(Byte) /\ a.read \in Nat /\ a.write \in Nat
  BY DEF Aio
<1>2. Size(a) \in Nat
  BY <1>1, LenProperties DEF Size
<1>3. a.read \in 0 .. Size(a) - 1 /\ a.write \in 0 .. Size(a) - 1
  BY <1>1, <1>2 DEF Ring
<1>4. BufferLen(a) \in 0 .. Size(a) - 1
  BY <1>2, <1>3 DEF BufferLen
<1>5. \A i \in 1 .. Size(a) : a.buffer[i] \in Byte
  BY <1>1, ElementOfSeq DEF Size
<1> QED  BY <1>1, <1>2, <1>3, <1>4, <1>5 DEF Size

(* What the ring holds, byte for byte.                                      *)
LEMMA RingContents ==
  ASSUME NEW L, NEW a \in Aio(L), Ring(a)
  PROVE  /\ Contents(a) \in Seq(Byte)
         /\ Len(Contents(a)) = BufferLen(a)
         /\ \A i \in 1 .. BufferLen(a) : Contents(a)[i] = a.buffer[Place(a, i)]
<1>1. /\ Size(a) \in Nat \ {0}
      /\ a.read \in 0 .. Size(a) - 1 /\ a.write \in 0 .. Size(a) - 1
      /\ \A i \in 1 .. Size(a) : a.buffer[i] \in Byte
  BY RingNumbers
<1>2. ASSUME NEW from \in 0 .. Size(a), NEW to \in 0 .. Size(a), from <= to
      PROVE  /\ Cells(a, from, to) \in Seq(Byte)
             /\ Len(Cells(a, from, to)) = to - from
             /\ \A i \in 1 .. to - from : Cells(a, from, to)[i] = a.buffer[from + i]
  <2>1. from + 1 \in Int /\ to \in Int /\ \A i \in from + 1 .. to : a.buffer[i] \in Byte
    BY <1>1, <1>2
  <2>2. /\ Cells(a, from, to) \in Seq(Byte)
        /\ Len(Cells(a, from, to)) =
             IF from + 1 <= to THEN to - (from + 1) + 1 ELSE 0
        /\ \A i \in 1 .. to - (from + 1) + 1 :
             Cells(a, from, to)[i] = a.buffer[(from + 1) + i - 1]
    BY <2>1, SubSeqProperties DEF Cells
  <2> QED  BY <2>2, <1>2, <1>1
<1>3. /\ a.read \in 0 .. Size(a) /\ a.write \in 0 .. Size(a)
      /\ Size(a) \in 0 .. Size(a) /\ 0 \in 0 .. Size(a)
      /\ a.read <= Size(a) /\ 0 <= a.write
  BY <1>1
<1>4. CASE a.read <= a.write
  <2>1. Contents(a) = Cells(a, a.read, a.write) \o <<>>
    BY <1>4 DEF Contents, BufferPtrs
  <2>2. Contents(a) = Cells(a, a.read, a.write)
    BY <2>1, <1>2, <1>4, <1>3, ConcatEmptySeq
  <2>3. BufferLen(a) = a.write - a.read
    BY <1>1, <1>4 DEF BufferLen
  <2>4. \A i \in 1 .. BufferLen(a) : Place(a, i) = a.read + i
    BY <1>1, <1>4, <2>3 DEF Place
  <2>5. /\ Cells(a, a.read, a.write) \in Seq(Byte)
        /\ Len(Cells(a, a.read, a.write)) = a.write - a.read
        /\ \A i \in 1 .. a.write - a.read :
             Cells(a, a.read, a.write)[i] = a.buffer[a.read + i]
    BY <1>2, <1>4, <1>3
  <2> QED  BY <2>2, <2>3, <2>4, <2>5
<1>5. CASE a.read > a.write
  <2> DEFINE s == Cells(a, a.read, Size(a))
             t == Cells(a, 0, a.write)
  <2>1. Contents(a) = s \o t
    BY <1>1, <1>5 DEF Contents, BufferPtrs
  <2>2. /\ s \in Seq(Byte) /\ Len(s) = Size(a) - a.read
        /\ \A i \in 1 .. Size(a) - a.read : s[i] = a.buffer[a.read + i]
    BY <1>2, <1>3
  <2>3. /\ t \in Seq(Byte) /\ Len(t) = a.write
        /\ \A i \in 1 .. a.write : t[i] = a.buffer[i]
    <3>1. /\ t \in Seq(Byte) /\ Len(t) = a.write - 0
          /\ \A i \in 1 .. a.write - 0 : t[i] = a.buffer[0 + i]
      BY <1>2, <1>3
    <3> HIDE DEF t
    <3> QED  BY <3>1, <1>3
  <2>4. BufferLen(a) = Len(s) + Len(t)
    <3>1. BufferLen(a) = Size(a) + a.write - a.read
      BY <1>1, <1>5 DEF BufferLen
    <3> HIDE DEF s, t
    <3> QED  BY <1>1, <2>2, <2>3, <3>1
  <2> HIDE DEF s, t
  <2>5. /\ s \o t \in Seq(Byte) /\ Len(s \o t) = Len(s) + Len(t)
        /\ \A i \in 1 .. Len(s) + Len(t) :
             (s \o t)[i] = IF i <= Len(s) THEN s[i] ELSE t[i - Len(s)]
    BY <2>2, <2>3, ConcatProperties
  <2>6. ASSUME NEW i \in 1 .. BufferLen(a)
        PROVE  (s \o t)[i] = a.buffer[Place(a, i)]
    <3>1. CASE i <= Len(s)
      <4>1. i \in 1 .. Size(a) - a.read /\ Place(a, i) = a.read + i
        BY <1>1, <2>2, <2>4, <2>6, <3>1 DEF Place
      <4> QED  BY <2>2, <2>4, <2>5, <2>6, <3>1, <4>1
    <3>2. CASE ~(i <= Len(s))
      <4>1. /\ i - Len(s) \in 1 .. a.write
            /\ Place(a, i) = i - Len(s)
        BY <1>1, <2>2, <2>3, <2>4, <2>6, <3>2, SMTT(60) DEF Place
      <4> QED  BY <2>3, <2>4, <2>5, <2>6, <3>2, <4>1
    <3> QED  BY <3>1, <3>2
  <2> QED  BY <2>1, <2>4, <2>5, <2>6
<1> QED  BY <1>1, <1>4, <1>5

-----------------------------------------------------------------------------
(* Writing n bytes at w, when len bytes from r on are in use and n more     *)
(* leave a cell free: where the end is, and which cells are written.        *)
Written(S, r, w, n, len, v) ==
    /\ v \in 0 .. S - 1
    /\ (IF v >= r THEN v - r ELSE S + v - r) = len + n
    /\ \A i \in 1 .. len + n : \A p :
         p = (IF r + i <= S THEN r + i ELSE r + i - S) =>
           /\ p \in 1 .. S
           /\ i <= len => ~(w < p /\ p <= w + n) /\ ~(p <= w + n - S)
           /\ i > len => \/ w < p /\ p <= w + n /\ p - w = i - len
                         \/ /\ ~(w < p /\ p <= w + n) /\ p <= w + n - S
                            /\ p + S - w = i - len

LEMMA RingArithmetic ==
  ASSUME NEW S \in Nat \ {0}, NEW r \in 0 .. S - 1, NEW w \in 0 .. S - 1, NEW n \in Nat,
         NEW len, len = IF w >= r THEN w - r ELSE S + w - r, n < S - len,
         NEW v, v = (w + n) % S
  PROVE  Written(S, r, w, n, len, v)
<1>1. n \in 0 .. S - 1 /\ w \in Nat /\ len \in 0 .. S - 1
  OBVIOUS
<1>2. \A m \in Nat \ {0} : \A p \in 0 .. m - 1 : p % m = p
  BY SMT
<1>3. w % S = w
  BY <1>2
<1>4. (w + n) % S = IF (w % S) + n < S THEN (w % S) + n ELSE (w % S) + n - S
  BY <1>1, ModShift
<1>5. v = IF w + n < S THEN w + n ELSE w + n - S
  BY <1>3, <1>4
<1>6. v \in 0 .. S - 1 /\ (IF v >= r THEN v - r ELSE S + v - r) = len + n
  BY <1>1, <1>5
<1>7. ASSUME NEW i \in 1 .. len + n, NEW p, p = (IF r + i <= S THEN r + i ELSE r + i - S)
      PROVE  /\ p \in 1 .. S
             /\ i <= len => ~(w < p /\ p <= w + n) /\ ~(p <= w + n - S)
             /\ i > len => \/ w < p /\ p <= w + n /\ p - w = i - len
                           \/ /\ ~(w < p /\ p <= w + n) /\ p <= w + n - S
                              /\ p + S - w = i - len
  BY <1>1, <1>7
<1> QED  BY <1>6, <1>7 DEF Written

(* Bytes that fit go behind those in the ring.                              *)
LEMMA PutFits ==
  ASSUME NEW L, NEW a \in Aio(L), Ring(a), NEW bytes \in Seq(Byte), Fits(a, bytes)
  PROVE  /\ Put(a, bytes) \in Aio(L) /\ Ring(Put(a, bytes))
         /\ Contents(Put(a, bytes)) = Contents(a) \o bytes
<1> DEFINE S == Size(a)
           n == Len(bytes)
           w == a.write
           end == w + n
           r == a.read
           len == BufferLen(a)
           v == end % S
           b == Put(a, bytes)
           cells == [i \in DOMAIN a.buffer |->
                       IF w < i /\ i <= end THEN bytes[i - w]
                       ELSE IF i <= end - S THEN bytes[i + S - w]
                       ELSE a.buffer[i]]
<1>1. /\ S \in Nat \ {0} /\ r \in 0 .. S - 1 /\ w \in 0 .. S - 1
      /\ a.buffer \in Seq(Byte) /\ Len(a.buffer) = S
      /\ \A i \in 1 .. S : a.buffer[i] \in Byte
  BY RingNumbers
<1>2. n \in Nat /\ \A i \in 1 .. n : bytes[i] \in Byte
  BY LenProperties, ElementOfSeq
<1>3. n < S - len
  BY DEF Fits
<1>4. len = IF w >= r THEN w - r ELSE S + w - r
  BY DEF BufferLen
<1>5. b = [a EXCEPT !.buffer = cells, !.write = v]
  BY Zenon DEF Put
<1>6. DOMAIN a.buffer = 1 .. S
  BY <1>1, LenProperties
<1>7. \A i \in 1 .. S : cells[i] = IF w < i /\ i <= end THEN bytes[i - w]
                                   ELSE IF i <= end - S THEN bytes[i + S - w]
                                   ELSE a.buffer[i]
  BY <1>6
<1>8. b.buffer = cells /\ b.read = r /\ b.write = v
  BY <1>5 DEF Aio
<1>9. Size(b) = Len(cells)
  BY <1>8 DEF Size
<1>10. Put(a, bytes) = b /\ Len(bytes) = n
  OBVIOUS
<1>11. cells \in [1 .. S -> Byte]
  <2> SUFFICES ASSUME NEW i \in 1 .. S
               PROVE  cells[i] \in Byte
    BY <1>6
  <2> HIDE DEF S, n, w, r, len, v, b, cells
  <2>1. CASE w < i /\ i <= end
    <3>1. i - w \in 1 .. n
      BY <1>1, <1>2, <2>1
    <3> QED  BY <1>2, <1>7, <2>1, <3>1
  <2>2. CASE ~(w < i /\ i <= end) /\ i <= end - S
    <3>1. i + S - w \in 1 .. n
      BY <1>1, <1>2, <2>2
    <3> QED  BY <1>2, <1>7, <2>2, <3>1
  <2>3. CASE ~(w < i /\ i <= end) /\ ~(i <= end - S)
    BY <1>1, <1>7, <2>3
  <2> QED  BY <2>1, <2>2, <2>3
<1>12. cells \in Seq(Byte) /\ Len(cells) = S
  <2> HIDE DEF S, n, w, r, len, v, b, cells
  <2> QED  BY <1>1, <1>11
<1>13. v = (w + n) % S /\ Contents(a) \in Seq(Byte) /\ Len(Contents(a)) = len
  BY RingContents
<1>14. \A i \in 1 .. len : Contents(a)[i] =
         a.buffer[IF r + i <= S THEN r + i ELSE r + i - S]
  BY RingContents DEF Place
<1> HIDE DEF S, n, w, r, len, v
<1>15. Written(S, r, w, n, len, v)
  <2> HIDE DEF cells, b
  <2> QED  BY <1>1, <1>2, <1>3, <1>4, <1>13, RingArithmetic
<1>16. b \in Aio(L)
  <2>1. v \in Nat
    BY <1>1, <1>15 DEF Written
  <2> HIDE DEF cells, b
  <2> QED  BY <1>5, <1>12, <2>1 DEF Aio
<1> HIDE DEF cells, b
<1>17. Ring(b) /\ Size(b) = S
  BY <1>1, <1>8, <1>9, <1>12, <1>15 DEF Ring, Written
<1>18. BufferLen(b) = len + n
  BY <1>8, <1>15, <1>17 DEF BufferLen, Written
<1>19. ASSUME NEW i \in 1 .. len + n
       PROVE  cells[Place(b, i)] =
                IF i <= len THEN Contents(a)[i] ELSE bytes[i - len]
  <2> DEFINE p == IF r + i <= S THEN r + i ELSE r + i - S
  <2>1. Place(b, i) = p
    BY <1>8, <1>17 DEF Place
  <2>2. /\ p \in 1 .. S
        /\ i <= len => ~(w < p /\ p <= w + n) /\ ~(p <= w + n - S)
        /\ i > len => \/ w < p /\ p <= w + n /\ p - w = i - len
                      \/ /\ ~(w < p /\ p <= w + n) /\ p <= w + n - S
                         /\ p + S - w = i - len
    BY <1>15 DEF Written
  <2>3. len \in Nat /\ (i <= len => i \in 1 .. len) /\ (i > len <=> ~(i <= len))
    BY <1>1, <1>4
  <2>4. i <= len => Contents(a)[i] = a.buffer[p]
    BY <1>14, <2>3
  <2> HIDE DEF p
  <2>5. CASE i <= len
    <3>1. ~(w < p /\ p <= end) /\ ~(p <= end - S)
      BY <1>1, <1>2, <2>2, <2>5
    <3>2. cells[p] = a.buffer[p]
      BY <1>7, <2>2, <3>1
    <3> QED  BY <2>1, <2>4, <2>5, <3>2
  <2>6. CASE i > len
    <3>1. \/ w < p /\ p <= end /\ p - w = i - len
          \/ /\ ~(w < p /\ p <= end) /\ p <= end - S
             /\ p + S - w = i - len
      BY <1>1, <1>2, <2>2, <2>6
    <3>2. cells[p] = bytes[i - len]
      <4>1. CASE w < p /\ p <= end /\ p - w = i - len
        BY <1>7, <2>2, <4>1
      <4>2. CASE /\ ~(w < p /\ p <= end) /\ p <= end - S
                 /\ p + S - w = i - len
        BY <1>7, <2>2, <4>2
      <4> QED  BY <3>1, <4>1, <4>2
    <3> QED  BY <2>1, <2>3, <2>6, <3>2
  <2> QED  BY <2>3, <2>5, <2>6
<1>20. Contents(b) = Contents(a) \o bytes
  <2> DEFINE c == Contents(a) \o bytes
  <2>1. /\ Contents(b) \in Seq(Byte) /\ Len(Contents(b)) = len + n
        /\ \A i \in 1 .. len + n : Contents(b)[i] = cells[Place(b, i)]
    BY <1>8, <1>16, <1>17, <1>18, RingContents
  <2>2. /\ c \in Seq(Byte) /\ Len(c) = len + n
        /\ \A i \in 1 .. len + n :
             c[i] = IF i <= len THEN Contents(a)[i] ELSE bytes[i - len]
    BY <1>10, <1>13, ConcatProperties
  <2> HIDE DEF c
  <2>3. Contents(b) = c
    BY <1>19, <2>1, <2>2, SeqEqual
  <2> QED  BY <2>3 DEF c
<1> QED  BY <1>10, <1>16, <1>17, <1>20

(* A bigger ring starts with all of them.                                   *)
LEMMA GrowKeeps ==
  ASSUME NEW L, NEW a \in Aio(L), Ring(a), NEW bytes \in Seq(Byte),
         NEW size \in NextBufferSizes(Size(a), BufferLen(a) + Len(bytes) + 1)
  PROVE  /\ Grow(a, bytes, size) \in Aio(L) /\ Ring(Grow(a, bytes, size))
         /\ Contents(Grow(a, bytes, size)) = Contents(a) \o bytes
<1> DEFINE all == Contents(a) \o bytes
           n == Len(all)
           blanks == Blanks(size - n)
           b == Grow(a, bytes, size)
<1>1. /\ all \in Seq(Byte) /\ n = BufferLen(a) + Len(bytes) /\ n \in Nat
  <2>1. Contents(a) \in Seq(Byte) /\ Len(Contents(a)) = BufferLen(a)
    BY RingContents
  <2> QED  BY <2>1, ConcatProperties, LenProperties
<1>2. size \in Int /\ n + 1 <= size
  <2>1. size \in n + 1 .. 2 * (n + 1) - 1
    BY <1>1 DEF NextBufferSizes
  <2> HIDE DEF n, all
  <2> QED  BY <1>1, <2>1
<1>3. b = [a EXCEPT !.buffer = all \o blanks, !.read = 0, !.write = n]
  BY Zenon DEF Grow, Kept
<1>4. blanks \in Seq(Byte) /\ Len(blanks) = size - n
  <2> HIDE DEF n, all
  <2>1. size - n \in Nat
    BY <1>1, <1>2
  <2>2. blanks \in [1 .. size - n -> Byte]
    BY DEF Blanks, Blank, Byte
  <2> HIDE DEF blanks
  <2> QED  BY <2>1, <2>2
<1> HIDE DEF blanks, n
<1>5. /\ all \o blanks \in Seq(Byte) /\ Len(all \o blanks) = size
      /\ \A i \in 1 .. n : (all \o blanks)[i] = all[i]
  <2>1. /\ all \o blanks \in Seq(Byte) /\ Len(all \o blanks) = n + (size - n)
        /\ \A i \in 1 .. n + (size - n) :
             (all \o blanks)[i] = IF i <= n THEN all[i] ELSE blanks[i - n]
    <3> DEFINE c == all \o blanks
    <3>1. /\ c \in Seq(Byte) /\ Len(c) = Len(all) + Len(blanks)
          /\ \A i \in 1 .. Len(all) + Len(blanks) :
               c[i] = IF i <= Len(all) THEN all[i] ELSE blanks[i - Len(all)]
      <4>1. all \in Seq(Byte) /\ blanks \in Seq(Byte)
        BY <1>1, <1>4
      <4> HIDE DEF all
      <4> QED  BY <4>1, ConcatProperties
    <3>2. Len(all) = n /\ Len(blanks) = size - n
      BY <1>4 DEF n
    <3> HIDE DEF c, all
    <3>3. /\ c \in Seq(Byte) /\ Len(c) = n + (size - n)
          /\ \A i \in 1 .. n + (size - n) :
               c[i] = IF i <= n THEN all[i] ELSE blanks[i - n]
      BY <3>1, <3>2
    <3> QED  BY <3>3, Zenon DEF c
  <2> HIDE DEF all
  <2>2. n + (size - n) = size /\ \A i \in 1 .. n : i \in 1 .. size /\ i <= n
    BY <1>1, <1>2
  <2> QED  BY <2>1, <2>2
<1> HIDE DEF b
<1>6. b \in Aio(L) /\ b.buffer = all \o blanks /\ b.read = 0 /\ b.write = n
  <2> HIDE DEF all
  <2> QED  BY <1>1, <1>3, <1>5 DEF Aio
<1> HIDE DEF all
<1>7. Size(b) = size /\ Ring(b)
  BY <1>1, <1>2, <1>5, <1>6 DEF Size, Ring
<1>8. BufferLen(b) = n /\ \A i \in 1 .. n : Place(b, i) = i
  BY <1>1, <1>2, <1>6, <1>7 DEF BufferLen, Place
<1>9. /\ Contents(b) \in Seq(Byte) /\ Len(Contents(b)) = n
      /\ \A i \in 1 .. n : Contents(b)[i] = all[i]
  <2>1. /\ Contents(b) \in Seq(Byte) /\ Len(Contents(b)) = BufferLen(b)
        /\ \A i \in 1 .. BufferLen(b) : Contents(b)[i] = b.buffer[Place(b, i)]
    BY <1>6, <1>7, RingContents
  <2> QED  BY <1>5, <1>6, <1>8, <2>1
<1>10. Contents(b) = all
  BY <1>1, <1>9, SeqEqual DEF n
<1> QED  BY <1>6, <1>7, <1>10 DEF all, b

(* aio_write_unlocked puts the bytes behind those in the ring, and changes  *)
(* nothing but the ring.                                                    *)
THEOREM WritesAppend ==
  ASSUME NEW L, NEW a \in Aio(L), Ring(a), NEW bytes \in Seq(Byte),
         NEW b \in WriteUnlocked(a, bytes)
  PROVE  /\ b \in Aio(L) /\ Ring(b)
         /\ Contents(b) = Contents(a) \o bytes
         /\ b.lock = a.lock /\ b.signals = a.signals /\ b.error = a.error
         /\ b.finish = a.finish /\ b.refs = a.refs
<1>1. CASE Fits(a, bytes)
  <2>1. b = Put(a, bytes)
    BY <1>1 DEF WriteUnlocked
  <2>2. b \in Aio(L) /\ Ring(b) /\ Contents(b) = Contents(a) \o bytes
    BY <1>1, <2>1, PutFits
  <2> QED  BY <2>1, <2>2 DEF Put, Aio
<1>2. CASE ~Fits(a, bytes)
  <2>1. PICK size \in NextBufferSizes(Size(a), BufferLen(a) + Len(bytes) + 1) :
          b = Grow(a, bytes, size)
    BY <1>2 DEF WriteUnlocked
  <2>2. b \in Aio(L) /\ Ring(b) /\ Contents(b) = Contents(a) \o bytes
    BY <2>1, GrowKeeps
  <2> QED  BY <2>1, <2>2 DEF Grow, Aio
<1> QED  BY <1>1, <1>2

-----------------------------------------------------------------------------
(* A turn of aio_thread takes bytes from the front of the ring.             *)
THEOREM TakesFront ==
  ASSUME NEW L, NEW a \in Aio(L), Ring(a)
  PROVE  /\ Take(a) \in Aio(L) /\ Ring(Take(a))
         /\ Taken(a) \in Seq(Byte)
         /\ Contents(a) = Taken(a) \o Contents(Take(a))
         /\ Take(a).lock = a.lock /\ Take(a).error = a.error
         /\ Take(a).finish = a.finish /\ Take(a).refs = a.refs
<1> DEFINE S == Size(a)
           w == a.write
           r == a.read
           len == BufferLen(a)
           all == Contents(a)
           k == IF len <= LocalSize THEN len ELSE LocalSize
           v == (r + k) % S
           b == Take(a)
<1>1. /\ S \in Nat \ {0} /\ r \in 0 .. S - 1 /\ w \in 0 .. S - 1
      /\ a.buffer \in Seq(Byte) /\ Len(a.buffer) = S
      /\ len \in 0 .. S - 1
  BY RingNumbers
<1>2. k \in 0 .. len
  BY <1>1, SizeAssumption
<1>3. /\ all \in Seq(Byte) /\ Len(all) = len
      /\ \A i \in 1 .. len : all[i] = a.buffer[IF r + i <= S THEN r + i ELSE r + i - S]
  BY RingContents DEF Place
<1>4. Taken(a) = SubSeq(all, 1, k)
  BY <1>3 DEF Taken
<1>5. len = IF w >= r THEN w - r ELSE S + w - r
  BY DEF BufferLen
<1> HIDE DEF S, w, r, len, all
<1>6. /\ Taken(a) \in Seq(Byte) /\ Len(Taken(a)) = k
      /\ \A i \in 1 .. k : Taken(a)[i] = all[i]
  <2>1. 1 \in Int /\ k \in Int /\ \A i \in 1 .. k : all[i] \in Byte
    BY <1>1, <1>2, <1>3, ElementOfSeq
  <2>2. /\ Taken(a) \in Seq(Byte) /\ Len(Taken(a)) = IF 1 <= k THEN k - 1 + 1 ELSE 0
        /\ \A i \in 1 .. k - 1 + 1 : Taken(a)[i] = all[1 + i - 1]
    BY <1>4, <2>1, SubSeqProperties
  <2> HIDE DEF k
  <2> QED  BY <1>1, <1>2, <2>2
<1>7. b = [a EXCEPT !.read = v]
  BY <1>6 DEF Take, S, r
<1> HIDE DEF k
<1>8. v = IF r + k < S THEN r + k ELSE r + k - S
  <2>1. r \in Nat /\ k \in 0 .. S - 1
    BY <1>1, <1>2
  <2>2. \A m \in Nat \ {0} : \A p \in 0 .. m - 1 : p % m = p
    BY SMT
  <2>3. (r + k) % S = IF (r % S) + k < S THEN (r % S) + k ELSE (r % S) + k - S
    BY <1>1, <2>1, ModShift
  <2>4. r % S = r
    BY <1>1, <2>2
  <2> QED  BY <2>3, <2>4
<1> HIDE DEF v
<1>9. /\ v \in 0 .. S - 1
      /\ (IF w >= v THEN w - v ELSE S + w - v) = len - k
      /\ \A i \in 1 .. len - k :
           (IF v + i <= S THEN v + i ELSE v + i - S) =
           (IF r + (k + i) <= S THEN r + (k + i) ELSE r + (k + i) - S)
  BY <1>1, <1>2, <1>5, <1>8
<1> HIDE DEF b
<1>10. /\ b \in Aio(L) /\ b.buffer = a.buffer /\ b.read = v /\ b.write = w
  BY <1>1, <1>7, <1>9, SMTT(60) DEF Aio, w
<1>11. Size(b) = S /\ Ring(b)
  BY <1>1, <1>9, <1>10 DEF Size, Ring, S
<1>12. BufferLen(b) = len - k
  BY <1>9, <1>10, <1>11 DEF BufferLen
<1>13. /\ Contents(b) \in Seq(Byte) /\ Len(Contents(b)) = len - k
       /\ \A i \in 1 .. len - k : Contents(b)[i] = all[k + i]
  <2>1. /\ Contents(b) \in Seq(Byte) /\ Len(Contents(b)) = len - k
        /\ \A i \in 1 .. len - k :
             Contents(b)[i] = a.buffer[IF v + i <= S THEN v + i ELSE v + i - S]
    BY <1>10, <1>11, <1>12, RingContents DEF Place
  <2>2. \A i \in 1 .. len - k : k + i \in 1 .. len
    BY <1>1, <1>2
  <2> QED  BY <1>3, <1>9, <2>1, <2>2, SMTT(60)
<1>14. all = Taken(a) \o Contents(b)
  <2> DEFINE c == Taken(a) \o Contents(b)
  <2>1. /\ c \in Seq(Byte) /\ Len(c) = k + (len - k)
        /\ \A i \in 1 .. k + (len - k) :
             c[i] = IF i <= k THEN Taken(a)[i] ELSE Contents(b)[i - k]
    <3>1. /\ c \in Seq(Byte) /\ Len(c) = Len(Taken(a)) + Len(Contents(b))
          /\ \A i \in 1 .. Len(Taken(a)) + Len(Contents(b)) :
               c[i] = IF i <= Len(Taken(a)) THEN Taken(a)[i]
                      ELSE Contents(b)[i - Len(Taken(a))]
      BY <1>6, <1>13, ConcatProperties, ZenonT(60)
    <3>2. Len(Taken(a)) = k /\ Len(Contents(b)) = len - k
      BY <1>6, <1>13
    <3> HIDE DEF c
    <3> QED  BY <3>1, <3>2
  <2> HIDE DEF c
  <2>2. Len(c) = len
    BY <1>1, <1>2, <2>1
  <2>3. ASSUME NEW i \in 1 .. len
        PROVE  c[i] = all[i]
    <3>1. i \in 1 .. k + (len - k)
      BY <1>1, <1>2
    <3>2. CASE i <= k
      BY <1>6, <2>1, <3>1, <3>2
    <3>3. CASE ~(i <= k)
      <4>1. i - k \in 1 .. len - k /\ k + (i - k) = i
        BY <1>1, <1>2, <3>3
      <4> QED  BY <1>13, <2>1, <3>1, <3>3, <4>1
    <3> QED  BY <3>2, <3>3
  <2>4. c = all
    BY <1>3, <2>1, <2>2, <2>3, SeqEqual
  <2> QED  BY <2>4 DEF c
<1>15. b.lock = a.lock /\ b.error = a.error /\ b.finish = a.finish /\ b.refs = a.refs
  BY <1>7 DEF Aio
<1> QED  BY <1>6, <1>10, <1>11, <1>14, <1>15 DEF b, all

=============================================================================
