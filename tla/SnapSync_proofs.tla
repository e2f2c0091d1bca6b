--------------------------- MODULE SnapSync_proofs ---------------------------
(***************************************************************************)
(* The inductive invariant of SnapSync, for every value of the constants,  *)
(* and what follows from it: the lists of snapshots are in order, the      *)
(* client never follows a pointer to a snapshot it has freed, and, through *)
(* map reloads as well, it stores and shows what the server built, in the  *)
(* order it was built.                                                     *)
(***************************************************************************)
EXTENDS SnapSync, SequenceTheorems, WellFoundedInduction, TLAPS

-----------------------------------------------------------------------------
(* Lists of holders.                                                        *)
LessThan == {ss \in Nat \X Nat : ss[1] < ss[2]}

(* A nonempty set of natural numbers has a least element.                   *)
LEMMA LeastElement ==
  ASSUME NEW T, T \subseteq Nat, T # {}
  PROVE  \E x \in T : \A y \in T : ~(y < x)
<1>1. LessThan = OpToRel(<, Nat)
  BY Zenon DEF LessThan, OpToRel
<1>2. IsWellFoundedOn(LessThan, Nat)
  BY <1>1, NatLessThanWellFounded, Zenon
<1>3. PICK x \in T : \A y \in T : ~(<<y, x>> \in LessThan)
  BY <1>2, WFMin
<1> QED  BY <1>3 DEF LessThan

(* What a holder is made of.                                                *)
LEMMA HolderType ==
  ASSUME NEW snaps \in Holders
  PROVE  /\ Len(snaps) \in Nat /\ DOMAIN snaps = 1 .. Len(snaps)
         /\ \A i \in DOMAIN snaps : /\ snaps[i] \in [tick : Tick, shot : Shot]
                                    /\ snaps[i].tick \in Tick /\ snaps[i].shot \in Shot
                                    /\ snaps[i] = Holder(snaps[i].tick, snaps[i].shot)
<1>1. /\ Len(snaps) \in Nat /\ DOMAIN snaps = 1 .. Len(snaps)
      /\ \A i \in DOMAIN snaps : snaps[i] \in [tick : Tick, shot : Shot]
  BY LenProperties, ElementOfSeq DEF Holders
<1> QED  BY <1>1 DEF Holder

(* Get finds the holder of a tick that is in the list.                      *)
LEMMA AtFinds ==
  ASSUME NEW snaps \in Holders, NEW tick, Has(snaps, tick)
  PROVE  /\ At(snaps, tick) \in DOMAIN snaps
         /\ snaps[At(snaps, tick)].tick = tick
<1> DEFINE T == {i \in DOMAIN snaps : snaps[i].tick = tick}
<1>1. T # {} /\ T \subseteq Nat
  BY HolderType DEF Has, Ticks
<1> HIDE DEF T
<1>2. PICK x \in T : \A y \in T : ~(y < x)
  BY <1>1, LeastElement
<1> USE DEF T
<1>3. x \in DOMAIN snaps /\ snaps[x].tick = tick
  BY <1>2
<1>4. \A j \in 1 .. x - 1 : snaps[j].tick # tick
  BY <1>2, HolderType
<1> QED  BY <1>3, <1>4 DEF At

(* In a list in order a tick has one place.                                 *)
LEMMA AtIs ==
  ASSUME NEW snaps \in Holders, Increasing(snaps), NEW i \in DOMAIN snaps
  PROVE  /\ Has(snaps, snaps[i].tick)
         /\ At(snaps, snaps[i].tick) = i
<1>1. Has(snaps, snaps[i].tick)
  BY DEF Has, Ticks
<1> DEFINE k == At(snaps, snaps[i].tick)
<1>2. k \in DOMAIN snaps /\ snaps[k].tick = snaps[i].tick
  BY <1>1, AtFinds
<1> HIDE DEF k
<1>3. ~(k < i) /\ ~(i < k)
  BY <1>2, HolderType DEF Increasing, Tick
<1>4. k = i
  BY <1>2, <1>3, HolderType
<1> QED  BY <1>1, <1>4 DEF k

(* Where PurgeUntil stops.                                                  *)
LEMMA KeptFinds ==
  ASSUME NEW snaps \in Holders, NEW tick \in Int,
         ~\A i \in DOMAIN snaps : snaps[i].tick < tick
  PROVE  /\ Kept(snaps, tick) \in DOMAIN snaps
         /\ snaps[Kept(snaps, tick)].tick >= tick
         /\ \A j \in 1 .. Kept(snaps, tick) - 1 : snaps[j].tick < tick
<1> DEFINE T == {i \in DOMAIN snaps : snaps[i].tick >= tick}
<1>1. T # {} /\ T \subseteq Nat
  BY HolderType DEF Tick
<1> HIDE DEF T
<1>2. PICK x \in T : \A y \in T : ~(y < x)
  BY <1>1, LeastElement
<1> USE DEF T
<1>3. x \in DOMAIN snaps /\ snaps[x].tick >= tick
  BY <1>2
<1>4. \A j \in 1 .. x - 1 : snaps[j].tick < tick
  BY <1>2, HolderType, SMT DEF Tick
<1> QED  BY <1>3, <1>4 DEF Kept

(* PurgeUntil leaves the holders that are not too old, in their order.      *)
LEMMA PurgeUntilKeeps ==
  ASSUME NEW snaps \in Holders, Increasing(snaps), NEW tick \in Int
  PROVE  LET rest == PurgeUntil(snaps, tick)
         IN  /\ rest \in Holders /\ Increasing(rest)
             /\ \A i \in DOMAIN rest : /\ rest[i].tick >= tick
                                       /\ \E j \in DOMAIN snaps : rest[i] = snaps[j]
             /\ \A j \in DOMAIN snaps :
                  snaps[j].tick >= tick => \E i \in DOMAIN rest : rest[i] = snaps[j]
<1> DEFINE rest == PurgeUntil(snaps, tick)
<1>1. CASE \A i \in DOMAIN snaps : snaps[i].tick < tick
  <2>1. rest = <<>>
    BY <1>1 DEF PurgeUntil
  <2>2. rest \in Holders /\ DOMAIN rest = {}
    BY <2>1 DEF Holders
  <2>3. \A j \in DOMAIN snaps : ~(snaps[j].tick >= tick)
    BY <1>1, HolderType DEF Tick
  <2> HIDE DEF rest
  <2> QED  BY <2>2, <2>3 DEF rest, Increasing
<1>2. CASE ~\A i \in DOMAIN snaps : snaps[i].tick < tick
  <2> DEFINE k == Kept(snaps, tick)
             n == Len(snaps)
  <2>1. k \in 1 .. n /\ snaps[k].tick >= tick /\ \A j \in 1 .. k - 1 : snaps[j].tick < tick
    BY <1>2, KeptFinds, HolderType
  <2>2. n \in Nat /\ DOMAIN snaps = 1 .. n
    BY HolderType
  <2>3. rest = SubSeq(snaps, k, n)
    BY <1>2 DEF PurgeUntil
  <2> HIDE DEF k, n
  <2>4. \A i \in k .. n : snaps[i] \in [tick : Tick, shot : Shot]
    BY <2>1, <2>2, HolderType
  <2>5. /\ SubSeq(snaps, k, n) \in Seq([tick : Tick, shot : Shot])
        /\ Len(SubSeq(snaps, k, n)) = n - k + 1
        /\ \A i \in 1 .. n - k + 1 : SubSeq(snaps, k, n)[i] = snaps[k + i - 1]
    BY <2>1, <2>2, <2>4, SubSeqProperties
  <2>6. /\ rest \in Holders /\ DOMAIN rest = 1 .. n - k + 1
        /\ \A i \in 1 .. n - k + 1 : rest[i] = snaps[k + i - 1]
    BY <2>3, <2>5, HolderType DEF Holders
  <2> HIDE DEF rest
  <2>7. \A i \in DOMAIN rest : k + i - 1 \in DOMAIN snaps /\ rest[i] = snaps[k + i - 1]
    BY <2>1, <2>2, <2>6
  <2>8. \A i \in k .. n : snaps[i].tick >= tick
    <3> SUFFICES ASSUME NEW i \in k .. n PROVE snaps[i].tick >= tick
      OBVIOUS
    <3>1. i \in DOMAIN snaps /\ k \in DOMAIN snaps /\ k \in Int /\ i \in Int
      BY <2>1, <2>2
    <3>2. snaps[i].tick \in Tick /\ snaps[k].tick \in Tick
      BY <3>1, HolderType
    <3>3. snaps[i].tick \in Int /\ snaps[k].tick \in Int
      BY <3>2 DEF Tick
    <3>4. CASE i = k
      BY <2>1, <3>4
    <3>5. CASE k < i
      <4>1. snaps[k].tick < snaps[i].tick
        BY <3>1, <3>5, Zenon DEF Increasing
      <4> QED  BY <2>1, <3>3, <4>1
    <3> QED  BY <3>1, <3>4, <3>5
  <2>9. \A i \in DOMAIN rest : rest[i].tick >= tick
    BY <2>1, <2>2, <2>6, <2>7, <2>8
  <2>10. Increasing(rest)
    <3> SUFFICES ASSUME NEW i \in DOMAIN rest, NEW j \in DOMAIN rest, i < j
                 PROVE  rest[i].tick < rest[j].tick
      BY DEF Increasing
    <3>1. k + i - 1 < k + j - 1
      BY <2>1, <2>2, <2>6
    <3>2. snaps[k + i - 1].tick < snaps[k + j - 1].tick
      BY <2>7, <3>1, Zenon DEF Increasing
    <3> QED  BY <2>7, <3>2
  <2>11. ASSUME NEW j \in DOMAIN snaps, snaps[j].tick >= tick
         PROVE  \E i \in DOMAIN rest : rest[i] = snaps[j]
    <3>1. ~(j < k)
      BY <2>1, <2>2, <2>11, HolderType DEF Tick
    <3>2. j - k + 1 \in 1 .. n - k + 1 /\ k + (j - k + 1) - 1 = j
      BY <2>1, <2>2, <3>1
    <3> QED  BY <2>6, <3>2
  <2>12. \A i \in DOMAIN rest : \E j \in DOMAIN snaps : rest[i] = snaps[j]
    BY <2>7
  <2> QED  BY <2>6, <2>9, <2>10, <2>11, <2>12 DEF rest
<1> QED  BY <1>1, <1>2

(* A purged list holds the ticks that are not too old.                      *)
LEMMA PurgeUntilHas ==
  ASSUME NEW snaps \in Holders, Increasing(snaps), NEW tick \in Int, NEW t \in Int,
         Has(snaps, t), tick <= t
  PROVE  /\ Has(PurgeUntil(snaps, tick), t)
         /\ Get(PurgeUntil(snaps, tick), t) = Get(snaps, t)
         /\ PurgeUntil(snaps, tick)[At(PurgeUntil(snaps, tick), t)] = snaps[At(snaps, t)]
<1> DEFINE rest == PurgeUntil(snaps, tick)
<1>1. PICK j \in DOMAIN snaps : snaps[j].tick = t
  BY DEF Has, Ticks
<1>2. /\ rest \in Holders /\ Increasing(rest)
      /\ \E i \in DOMAIN rest : rest[i] = snaps[j]
  BY <1>1, PurgeUntilKeeps
<1> HIDE DEF rest
<1>3. PICK i \in DOMAIN rest : rest[i] = snaps[j]
  BY <1>2
<1>4. Has(rest, t) /\ At(rest, t) = i
  BY <1>1, <1>2, <1>3, AtIs
<1>5. At(snaps, t) = j
  BY <1>1, AtIs
<1> QED  BY <1>3, <1>4, <1>5 DEF rest, Get

(* A holder that is newer than the rest is added at the end.                *)
LEMMA AddKeeps ==
  ASSUME NEW snaps \in Holders, Increasing(snaps), NEW tick \in Tick, NEW shot \in Shot,
         \A i \in DOMAIN snaps : snaps[i].tick < tick
  PROVE  LET more == Add(snaps, tick, shot)
         IN  /\ more \in Holders /\ Increasing(more)
             /\ more # <<>>
             /\ \A i \in DOMAIN more : more[i] = Holder(tick, shot) \/ \E j \in DOMAIN snaps : more[i] = snaps[j]
             /\ \A j \in DOMAIN snaps : j \in DOMAIN more /\ more[j] = snaps[j]
             /\ Has(more, tick) /\ more[At(more, tick)] = Holder(tick, shot)
             /\ more[Len(more)] = Holder(tick, shot)
             /\ snaps # <<>> => Head(more) = snaps[1] /\ 1 \in DOMAIN snaps
<1> DEFINE h == Holder(tick, shot)
           n == Len(snaps)
           more == Append(snaps, h)
<1>1. h \in [tick : Tick, shot : Shot] /\ h.tick = tick
  BY DEF Holder
<1>2. /\ more \in Holders /\ Len(more) = n + 1
      /\ \A i \in 1 .. n : more[i] = snaps[i]
      /\ more[n + 1] = h
  BY <1>1, AppendProperties DEF Holders
<1>3. n \in Nat /\ DOMAIN snaps = 1 .. n /\ DOMAIN more = 1 .. n + 1
  BY <1>2, HolderType
<1>4. more # <<>>
  BY <1>2, <1>3
<1>5. snaps # <<>> => 1 \in DOMAIN snaps /\ Head(more) = more[1]
  BY <1>2, <1>3, <1>4, EmptySeq, HeadTailProperties DEF Holders
<1> HIDE DEF h, n, more
<1>6. Increasing(more)
  BY <1>1, <1>2, <1>3 DEF Increasing
<1>7. n + 1 \in DOMAIN more /\ more[n + 1].tick = tick
  BY <1>1, <1>2, <1>3
<1>8. Has(more, tick) /\ At(more, tick) = n + 1
  BY <1>2, <1>6, <1>7, AtIs
<1>9. \A i \in DOMAIN more : more[i] = h \/ \E j \in DOMAIN snaps : more[i] = snaps[j]
  BY <1>2, <1>3
<1>10. \A j \in DOMAIN snaps : j \in DOMAIN more /\ more[j] = snaps[j]
  BY <1>2, <1>3
<1>11. more = Add(snaps, tick, shot)
  BY DEF more, h, Add
<1>12. snaps # <<>> => Head(more) = snaps[1] /\ 1 \in DOMAIN snaps
  BY <1>5, <1>10
<1>13. more[Len(more)] = h
  BY <1>2
<1> QED  BY <1>2, <1>4, <1>6, <1>8, <1>9, <1>10, <1>11, <1>12, <1>13 DEF h
-----------------------------------------------------------------------------
(* What the invariant says of the client alone, and what a step of it       *)
(* keeps: the bases it can use, and the origin of what it stores.           *)
ClientOK(c) ==
    /\ Increasing(c.snaps)
    /\ c.received >= 2 => c.cur # NoTick
    /\ c.cur = NoTick <=> c.prev = NoTick
    /\ c.cur # NoTick => Has(c.snaps, c.prev) /\ Has(c.snaps, c.cur) /\ c.prev < c.cur
    /\ c.ack # NoTick => Has(c.snaps, c.ack)
    /\ c.ack <= c.recvTick
    /\ \A i \in DOMAIN c.snaps :
         /\ c.snaps[i].tick <= c.recvTick
         /\ c.snaps[i].tick = c.recvTick => c.ack = c.recvTick
         /\ c.ack # NoTick => c.snaps[i].tick <= c.ack
    /\ c.received >= 1 => c.snaps # <<>>

Holds(c, t) == t = NoTick \/ t < c.based \/ Has(c.snaps, t)

ShownBy(c) ==
    IF c.cur = NoTick THEN Holder(NoTick, EmptyShot) ELSE c.snaps[At(c.snaps, c.cur)]

FineShot(c, p, shot) ==
    shot = p.to \/ (p.from = p.to /\ Has(c.snaps, p.base) /\ shot = Get(c.snaps, p.base))

Follows(c, d) ==
    /\ d \in ClientState /\ ClientOK(d)
    /\ \A t \in Int : Holds(c, t) => Holds(d, t)
    /\ ShownBy(d) = ShownBy(c) \/ (d.cur # NoTick /\ c.cur < d.cur)

StoresOf(c, d, p) ==
    \A i \in DOMAIN d.snaps :
        \/ \E j \in DOMAIN c.snaps : d.snaps[i] = c.snaps[j]
        \/ \E shot \in Shot : d.snaps[i] = Holder(p.tick, shot) /\ FineShot(c, p, shot)

(* The client when all the parts of p are there.                            *)
Ready(c, p) ==
    /\ c.recvTick = p.tick /\ c.ack < p.tick
    /\ \A i \in DOMAIN c.snaps : c.snaps[i].tick < p.tick

LEMMA Ticks_Int ==
  /\ Tick \subseteq Nat /\ NoTick = -1
  /\ \A t \in Tick : t \in Nat /\ t # NoTick
  /\ \A t \in Tick \cup {NoTick} : t \in Int /\ t >= -1
  /\ 0 \in Tick
BY SnapAssumption DEF Tick, NoTick

LEMMA EmptyList ==
  /\ <<>> \in Holders
  /\ DOMAIN <<>> = {}
<1>1. <<>> \in Holders /\ Len(<<>>) = 0
  BY EmptySeq DEF Holders
<1>2. DOMAIN <<>> = 1 .. 0
  BY <1>1, HolderType
<1> QED  BY <1>1, <1>2

LEMMA PartType ==
  ASSUME NEW p \in Part
  PROVE  /\ p.tick \in Tick /\ p.tick \in Nat /\ p.tick # NoTick
         /\ p.base \in Tick \cup {NoTick} /\ p.base \in Int /\ p.base >= -1
         /\ p.to \in Shot /\ p.from \in AnyShot /\ p.part \in Nat /\ p.ack \in Nat
<1>1. /\ p.tick \in Tick /\ p.base \in Tick \cup {NoTick} /\ p.to \in Shot
      /\ p.from \in AnyShot /\ p.part \in Nat /\ p.ack \in Nat
  BY DEF Part
<1>2. p.tick \in Nat /\ p.tick # NoTick
  BY <1>1, Ticks_Int
<1>3. p.base \in Int /\ p.base >= -1
  BY <1>1, Ticks_Int
<1> QED  BY <1>1, <1>2, <1>3

LEMMA ClientType ==
  ASSUME NEW c \in ClientState
  PROVE  /\ c.snaps \in Holders /\ c.received \in 0 .. 3
         /\ c.cur \in Tick \cup {NoTick} /\ c.cur \in Int /\ c.cur >= -1
         /\ c.prev \in Tick \cup {NoTick} /\ c.prev \in Int /\ c.prev >= -1
         /\ c.ack \in Tick \cup {NoTick} /\ c.ack \in Int /\ c.ack >= -1
         /\ c.based \in Tick \cup {NoTick} /\ c.based \in Int /\ c.based >= -1
         /\ c.recvTick \in Tick /\ c.recvTick \in Nat
         /\ c.heard \in Nat /\ c.peer \in Nat
         /\ \A i \in DOMAIN c.snaps : c.snaps[i].tick \in Nat
<1>1. /\ c.snaps \in Holders /\ c.received \in 0 .. 3 /\ c.cur \in Tick \cup {NoTick}
      /\ c.prev \in Tick \cup {NoTick} /\ c.ack \in Tick \cup {NoTick}
      /\ c.based \in Tick \cup {NoTick} /\ c.recvTick \in Tick
      /\ c.heard \in Nat /\ c.peer \in Nat
  BY DEF ClientState
<1>2. \A t \in Tick \cup {NoTick} : t \in Int /\ t >= -1
  BY Ticks_Int
<1>3. c.recvTick \in Nat /\ \A i \in DOMAIN c.snaps : c.snaps[i].tick \in Nat
  BY <1>1, Ticks_Int, HolderType
<1> QED  BY <1>1, <1>2, <1>3

(* A step that leaves alone the list, the pointers, the base and the        *)
(* acknowledgement, or takes back the latter.                               *)
LEMMA SameListFollows ==
  ASSUME NEW c \in ClientState, ClientOK(c), NEW d \in ClientState,
         d.snaps = c.snaps, d.cur = c.cur, d.prev = c.prev, d.based = c.based,
         d.ack = c.ack, d.recvTick = c.recvTick, d.received = c.received \/ d.received = 0
  PROVE  /\ Follows(c, d)
         /\ \A p : StoresOf(c, d, p)
<1>1. ClientOK(d)
  BY DEF ClientOK, ClientState
<1>2. ShownBy(d) = ShownBy(c) /\ \A t \in Int : Holds(c, t) => Holds(d, t)
  BY DEF ShownBy, Holds
<1> QED  BY <1>1, <1>2 DEF Follows, StoresOf

(* A part that is wanted belongs to a tick later than all that is stored.   *)
LEMMA CollectReady ==
  ASSUME NEW c \in ClientState, ClientOK(c), NEW p \in Part, Wanted(c, p),
         NEW d \in ClientState,
         d.snaps = c.snaps, d.cur = c.cur, d.prev = c.prev, d.based = c.based,
         d.ack = c.ack, d.recvTick = p.tick, d.received = c.received
  PROVE  /\ Follows(c, d) /\ Ready(d, p)
         /\ StoresOf(c, d, p)
<1>1. /\ c.ack \in Int /\ c.recvTick \in Nat /\ p.tick \in Nat
      /\ \A i \in DOMAIN c.snaps : c.snaps[i].tick \in Nat
  BY ClientType, PartType
<1>2. p.tick >= c.recvTick /\ p.tick > c.ack
  BY DEF Wanted
<1>3. \A i \in DOMAIN c.snaps : c.snaps[i].tick < p.tick
  BY <1>1, <1>2 DEF ClientOK
<1>4. ClientOK(d)
  BY <1>1, <1>2, <1>3 DEF ClientOK
<1>5. ShownBy(d) = ShownBy(c) /\ \A t \in Int : Holds(c, t) => Holds(d, t)
  BY DEF ShownBy, Holds
<1> QED  BY <1>1, <1>2, <1>3, <1>4, <1>5 DEF Follows, StoresOf, Ready

(* The purge leaves the base and what is shown.                             *)
LEMMA PurgedFollows ==
  ASSUME NEW c \in ClientState, ClientOK(c), NEW p \in Part, Ready(c, p),
         ~BaseMissing(c, p)
  PROVE  LET d == Purged(c, p)
         IN  /\ Follows(c, d) /\ Ready(d, p)
             /\ ShownBy(d) = ShownBy(c)
             /\ StoresOf(c, d, p)
             /\ d.cur = c.cur /\ d.prev = c.prev /\ d.received = c.received
<1> DEFINE d == Purged(c, p)
           x == PurgeTick(c, p)
<1>1. /\ c.snaps \in Holders /\ Increasing(c.snaps)
      /\ c.cur \in Int /\ c.prev \in Int /\ c.ack \in Int /\ c.based \in Int
      /\ c.recvTick \in Nat /\ p.base \in Int /\ p.base >= -1 /\ p.tick \in Nat
  BY ClientType, PartType DEF ClientOK
<1>2. /\ x \in Int /\ x <= p.base
      /\ c.cur # NoTick => x <= c.cur /\ x <= c.prev
      /\ c.cur = NoTick => x = p.base
  BY <1>1, Ticks_Int DEF PurgeTick, Older, ClientOK
<1>3. p.base = NoTick \/ Has(c.snaps, p.base)
  BY <1>1, Ticks_Int DEF BaseMissing
<1>4. /\ d.snaps = PurgeUntil(c.snaps, x)
      /\ d.based = IF c.based < p.base THEN p.base ELSE c.based
      /\ d.cur = c.cur /\ d.prev = c.prev /\ d.received = c.received /\ d.ack = c.ack
      /\ d.recvTick = c.recvTick
  BY DEF Purged, ClientState
<1>5. /\ PurgeUntil(c.snaps, x) \in Holders /\ Increasing(PurgeUntil(c.snaps, x))
      /\ \A i \in DOMAIN PurgeUntil(c.snaps, x) :
           \E j \in DOMAIN c.snaps : PurgeUntil(c.snaps, x)[i] = c.snaps[j]
      /\ \A j \in DOMAIN c.snaps : c.snaps[j].tick >= x =>
           \E i \in DOMAIN PurgeUntil(c.snaps, x) : PurgeUntil(c.snaps, x)[i] = c.snaps[j]
  BY <1>1, <1>2, PurgeUntilKeeps
<1>6. d \in ClientState
  BY <1>5, ZenonT(60) DEF Purged, ClientState, Part
<1>7. \A t \in Int : Has(c.snaps, t) /\ x <= t =>
        Has(d.snaps, t) /\ d.snaps[At(d.snaps, t)] = c.snaps[At(c.snaps, t)]
  BY <1>1, <1>2, <1>4, PurgeUntilHas
<1> HIDE DEF d, x
<1>8. \A i \in DOMAIN d.snaps : \E j \in DOMAIN c.snaps : d.snaps[i] = c.snaps[j]
  BY <1>4, <1>5
<1>9. \A t \in Int : Has(c.snaps, t) => c.snaps # <<>>
  BY DEF Has, Ticks
<1>10. ASSUME c.ack # NoTick
       PROVE  x <= c.ack
  <2>1. CASE p.base = NoTick
    BY <1>1, <1>2, <1>10, <2>1, Ticks_Int DEF ClientState
  <2>2. CASE Has(c.snaps, p.base)
    <3>1. PICK i \in DOMAIN c.snaps : c.snaps[i].tick = p.base
      BY <2>2 DEF Has, Ticks
    <3>2. p.base <= c.ack
      BY <1>10, <3>1 DEF ClientOK
    <3> QED  BY <1>1, <1>2, <3>2
  <2> QED  BY <1>3, <2>1, <2>2
<1>11. c.received >= 1 => d.snaps # <<>>
  <2>1. c.received >= 1 => \E j \in DOMAIN c.snaps : c.snaps[j].tick >= x
    <3>1. CASE c.cur # NoTick
      <4>1. PICK j \in DOMAIN c.snaps : c.snaps[j].tick = c.cur
        BY <3>1 DEF ClientOK, Has, Ticks
      <4> QED  BY <1>1, <1>2, <3>1, <4>1
    <3>2. CASE c.cur = NoTick /\ Has(c.snaps, p.base)
      <4>1. PICK j \in DOMAIN c.snaps : c.snaps[j].tick = p.base
        BY <3>2 DEF Has, Ticks
      <4> QED  BY <1>1, <1>2, <3>2, <4>1
    <3>3. CASE c.cur = NoTick /\ p.base = NoTick
      <4>1. \A j \in DOMAIN c.snaps : c.snaps[j].tick >= x
        BY <1>2, <3>3, ClientType, Ticks_Int
      <4>2. c.snaps # <<>> => 1 \in DOMAIN c.snaps
        BY <1>1, HolderType, EmptySeq DEF Holders
      <4> QED  BY <4>1, <4>2 DEF ClientOK
    <3> QED  BY <1>3, <3>1, <3>2, <3>3
  <2> QED  BY <1>4, <1>5, <2>1
<1>12. ClientOK(d)
  <2>1. Increasing(d.snaps)
    BY <1>4, <1>5
  <2>2. d.ack # NoTick => Has(d.snaps, d.ack)
    BY <1>1, <1>4, <1>7, <1>10 DEF ClientOK
  <2>3. d.cur # NoTick => Has(d.snaps, d.prev) /\ Has(d.snaps, d.cur) /\ d.prev < d.cur
    BY <1>1, <1>2, <1>4, <1>7 DEF ClientOK
  <2>4. \A i \in DOMAIN d.snaps :
         /\ d.snaps[i].tick <= d.recvTick
         /\ d.snaps[i].tick = d.recvTick => d.ack = d.recvTick
         /\ d.ack # NoTick => d.snaps[i].tick <= d.ack
    BY <1>4, <1>8 DEF ClientOK
  <2> QED  BY <1>4, <1>11, <2>1, <2>2, <2>3, <2>4 DEF ClientOK
<1>13. ShownBy(d) = ShownBy(c)
  <2>1. c.cur # NoTick => d.snaps[At(d.snaps, c.cur)] = c.snaps[At(c.snaps, c.cur)]
    BY <1>1, <1>2, <1>7 DEF ClientOK
  <2> QED  BY <1>4, <2>1 DEF ShownBy
<1>14. ASSUME NEW t \in Int, Holds(c, t)
       PROVE  Holds(d, t)
  <2>1. CASE t = NoTick \/ t < c.based
    BY <1>1, <1>4, <2>1 DEF Holds
  <2>2. CASE Has(c.snaps, t) /\ x <= t
    BY <1>7, <2>2 DEF Holds
  <2>3. CASE ~(x <= t)
    BY <1>1, <1>2, <1>4, <2>3 DEF Holds
  <2> QED  BY <1>14, <2>1, <2>2, <2>3 DEF Holds
<1>15. Ready(d, p) /\ StoresOf(c, d, p)
  BY <1>4, <1>8 DEF Ready, StoresOf
<1> QED  BY <1>4, <1>6, <1>12, <1>13, <1>14, <1>15 DEF Follows, d

(* A snapshot is stored.                                                    *)
LEMMA AcceptFollows ==
  ASSUME NEW c \in ClientState, ClientOK(c), NEW p \in Part, Ready(c, p),
         ~BaseMissing(c, p), NEW shot \in Shot, FineShot(c, p, shot)
  PROVE  LET e == Accept(c, p, shot)
         IN  Follows(c, e) /\ StoresOf(c, e, p)
<1> DEFINE d == Purged(c, p)
           e == Accept(c, p, shot)
           more == Add(d.snaps, p.tick, shot)
<1>1. /\ Follows(c, d) /\ Ready(d, p) /\ ShownBy(d) = ShownBy(c) /\ StoresOf(c, d, p)
      /\ d.cur = c.cur /\ d.prev = c.prev /\ d.received = c.received
  BY PurgedFollows
<1>2. /\ d \in ClientState /\ ClientOK(d) /\ d.snaps \in Holders /\ Increasing(d.snaps)
      /\ p.tick \in Tick /\ \A i \in DOMAIN d.snaps : d.snaps[i].tick < p.tick
  BY <1>1 DEF Follows, ClientOK, ClientState, Ready, Part
<1>3. /\ more \in Holders /\ Increasing(more) /\ more # <<>>
      /\ \A i \in DOMAIN more : more[i] = Holder(p.tick, shot) \/ \E j \in DOMAIN d.snaps : more[i] = d.snaps[j]
      /\ \A j \in DOMAIN d.snaps : j \in DOMAIN more /\ more[j] = d.snaps[j]
      /\ Has(more, p.tick) /\ more[At(more, p.tick)] = Holder(p.tick, shot)
      /\ d.snaps # <<>> => Head(more) = d.snaps[1] /\ 1 \in DOMAIN d.snaps
  BY <1>2, AddKeeps
<1>4. c.received = 1 => /\ d.snaps # <<>> /\ Head(more).tick \in Tick
                        /\ Head(more).tick < p.tick /\ Has(more, Head(more).tick)
  <2>1. c.received = 1 => d.snaps # <<>>
    BY <1>1, <1>2 DEF ClientOK
  <2>2. c.received = 1 => Head(more) = d.snaps[1] /\ 1 \in DOMAIN d.snaps /\ 1 \in DOMAIN more /\ more[1] = d.snaps[1]
    BY <1>3, <2>1
  <2> QED  BY <1>2, <2>1, <2>2, HolderType DEF Has, Ticks
<1> HIDE DEF more
<1>5. /\ e.snaps = more /\ e.ack = p.tick /\ e.recvTick = d.recvTick /\ e.based = d.based
      /\ e.received = IF d.received < 3 THEN d.received + 1 ELSE 3
      /\ e.prev = (IF c.received = 1 THEN Head(more).tick ELSE d.prev)
      /\ e.cur = (IF c.received = 1 THEN p.tick ELSE d.cur)
      /\ e.online = (d.online \/ c.received = 1)
      /\ e = [d EXCEPT !.snaps = e.snaps, !.ack = e.ack, !.received = e.received,
                       !.prev = e.prev, !.cur = e.cur, !.online = e.online]
  BY <1>2 DEF Accept, ClientState, more
<1> HIDE DEF d, e
<1>6. e \in ClientState
  <2>1. /\ e.snaps \in Holders /\ e.ack \in Tick \cup {NoTick} /\ e.received \in 0 .. 3
        /\ e.prev \in Tick \cup {NoTick} /\ e.cur \in Tick \cup {NoTick} /\ e.online \in BOOLEAN
    BY <1>2, <1>3, <1>4, <1>5 DEF ClientState
  <2> QED  BY <1>2, <1>5, <2>1 DEF ClientState
<1>7. /\ p.tick \in Nat /\ d.recvTick = p.tick /\ d.cur \in Int /\ d.prev \in Int /\ d.received \in 0 .. 3
      /\ p.tick # NoTick
  BY <1>1, <1>2, ClientType, PartType DEF Ready
<1>8. \A j \in DOMAIN d.snaps : Has(more, d.snaps[j].tick)
  <2> SUFFICES ASSUME NEW j \in DOMAIN d.snaps  PROVE  Has(more, d.snaps[j].tick)
    OBVIOUS
  <2>1. j \in DOMAIN more /\ more[j] = d.snaps[j]
    BY <1>3
  <2> QED  BY <2>1 DEF Has, Ticks
<1>9. \A t : Has(d.snaps, t) => Has(more, t)
  BY <1>8 DEF Has, Ticks
<1>10. ClientOK(e)
  <2>1. e.cur # NoTick => Has(e.snaps, e.prev) /\ Has(e.snaps, e.cur) /\ e.prev < e.cur
    BY <1>2, <1>3, <1>4, <1>5, <1>9 DEF ClientOK
  <2>2. /\ e.received >= 2 => e.cur # NoTick
        /\ e.cur = NoTick <=> e.prev = NoTick
    BY <1>1, <1>2, <1>4, <1>5, <1>7, Ticks_Int DEF ClientOK
  <2>3. \A i \in DOMAIN more : more[i].tick <= p.tick
    <3>1. Holder(p.tick, shot).tick = p.tick
      BY DEF Holder
    <3>2. \A j \in DOMAIN d.snaps : d.snaps[j].tick <= p.tick
      BY <1>2, <1>7, ClientType
    <3> QED  BY <1>3, <1>7, <3>1, <3>2
  <2>4. \A i \in DOMAIN e.snaps :
         /\ e.snaps[i].tick <= e.recvTick
         /\ e.snaps[i].tick = e.recvTick => e.ack = e.recvTick
         /\ e.ack # NoTick => e.snaps[i].tick <= e.ack
    BY <1>5, <1>7, <2>3
  <2> QED  BY <1>3, <1>5, <1>7, <2>1, <2>2, <2>4 DEF ClientOK
<1>11. ASSUME NEW t \in Int, Holds(c, t)
       PROVE  Holds(e, t)
  BY <1>1, <1>5, <1>9, <1>11 DEF Follows, Holds
<1>12. ShownBy(e) = ShownBy(c) \/ (e.cur # NoTick /\ c.cur < e.cur)
  <2>1. CASE c.received = 1
    <3>1. c.cur < p.tick
      <4>1. CASE c.cur = NoTick
        BY <1>7, <4>1, Ticks_Int
      <4>2. CASE c.cur # NoTick
        <5>1. PICK i \in DOMAIN d.snaps : d.snaps[i].tick = c.cur
          BY <1>1, <1>2, <4>2 DEF ClientOK, Has, Ticks
        <5> QED  BY <1>2, <5>1
      <4> QED  BY <4>1, <4>2
    <3> QED  BY <1>5, <1>7, <2>1, <3>1
  <2>2. CASE c.received # 1 /\ c.cur = NoTick
    BY <1>1, <1>5, <2>2 DEF ShownBy
  <2>3. CASE c.received # 1 /\ c.cur # NoTick
    <3>1. Has(d.snaps, c.cur)
      BY <1>1, <1>2, <2>3 DEF ClientOK
    <3>2. /\ At(d.snaps, c.cur) \in DOMAIN d.snaps
          /\ d.snaps[At(d.snaps, c.cur)].tick = c.cur
      BY <1>2, <3>1, AtFinds
    <3>3. /\ At(d.snaps, c.cur) \in DOMAIN more
          /\ more[At(d.snaps, c.cur)] = d.snaps[At(d.snaps, c.cur)]
      BY <1>3, <3>2
    <3>4. At(more, c.cur) = At(d.snaps, c.cur)
      BY <1>3, <3>2, <3>3, AtIs
    <3>5. ShownBy(e) = ShownBy(d)
      BY <1>1, <1>5, <2>3, <3>3, <3>4 DEF ShownBy
    <3> QED  BY <1>1, <3>5
  <2> QED  BY <2>1, <2>2, <2>3
<1>13. StoresOf(c, e, p)
  <2>1. \A i \in DOMAIN e.snaps : e.snaps[i] = Holder(p.tick, shot) \/ \E j \in DOMAIN d.snaps : e.snaps[i] = d.snaps[j]
    BY <1>3, <1>5
  <2>2. \A j \in DOMAIN d.snaps :
          \/ \E k \in DOMAIN c.snaps : d.snaps[j] = c.snaps[k]
          \/ \E s \in Shot : d.snaps[j] = Holder(p.tick, s) /\ FineShot(c, p, s)
    BY <1>1 DEF StoresOf
  <2> QED  BY <2>1, <2>2, Zenon DEF StoresOf
<1> QED  BY <1>6, <1>10, <1>11, <1>12, <1>13 DEF Follows, e
-----------------------------------------------------------------------------
(* The invariant by the state it speaks of.                                 *)
ServerOK(s) ==
    Increasing(s.snaps) /\ \A i \in DOMAIN s.snaps : s.snaps[i].tick <= s.tick

DownOK(parts) ==
    \A p \in parts : /\ p.base # NoTick => p.tick - p.base <= KeepTicks
                     /\ p.base = NoTick => p.from = EmptyShot

OneRound ==
    /\ Token /\ Contents
    /\ \A p \in down : HeldOrOlder(p.base)

ByState ==
    /\ TypeOK
    /\ ClientOK(client) /\ ServerOK(server) /\ DownOK(down)
    /\ MaxRound = 0 => OneRound

LEMMA InvByState ==
  IInv <=> ByState
<1>1. ClientOK(client) <=>
        /\ Increasing(client.snaps) /\ PointersStored /\ AckHeld
        /\ client.ack <= client.recvTick
        /\ \A i \in DOMAIN client.snaps :
             /\ client.snaps[i].tick <= client.recvTick
             /\ client.snaps[i].tick = client.recvTick => client.ack = client.recvTick
             /\ client.ack # NoTick => client.snaps[i].tick <= client.ack
        /\ client.received >= 1 => client.snaps # <<>>
  BY DEF ClientOK, PointersStored, AckHeld
<1>2. ServerOK(server) /\ DownOK(down) <=>
        /\ Increasing(server.snaps) /\ DeltasRecent
        /\ \A i \in DOMAIN server.snaps : server.snaps[i].tick <= server.tick
        /\ \A p \in down : p.base = NoTick => p.from = EmptyShot
  BY DEF ServerOK, DownOK, DeltasRecent
<1> QED  BY <1>1, <1>2, Zenon DEF IInv, ByState, OneRound, StoredInOrder, ListsInStep, BaseHeld

LEMMA InvByStatePrime ==
  IInv' <=> ByState'
BY InvByState, PTL

-----------------------------------------------------------------------------
(* The steps of the handshake.                                              *)
LEMMA QueueTail ==
  ASSUME NEW S, NEW q \in Seq(S), q # <<>>
  PROVE  Tail(q) \in Seq(S) /\ Head(q) \in S /\ Len(Tail(q)) = Len(q) - 1
         /\ Len(q) \in Nat /\ Len(q) > 0
BY HeadTailProperties, EmptySeq, LenProperties

LEMMA QueueAppend ==
  ASSUME NEW S, NEW q \in Seq(S), NEW m \in S
  PROVE  Append(q, m) \in Seq(S) /\ Len(Append(q, m)) = Len(q) + 1 /\ Len(q) \in Nat
BY AppendProperties, LenProperties

LEMMA ClientHears ==
  ASSUME TypeOK, NEW kind, NEW c \in Hearing(client, server, toClient, kind)
  PROVE  /\ c \in ClientState
         /\ c.snaps = client.snaps /\ c.cur = client.cur /\ c.prev = client.prev
         /\ c.based = client.based /\ c.ack = client.ack /\ c.recvTick = client.recvTick
         /\ c.received = client.received /\ c.download = client.download
         /\ toClient # <<>> /\ Head(toClient) \in DownMessage
         /\ Tail(toClient) \in Seq(DownMessage)
         /\ Len(Tail(toClient)) = Len(toClient) - 1 /\ Len(toClient) \in Nat \ {0}
<1>1. PICK ack \in 0 .. server.heard : c = [client EXCEPT !.heard = @ + 1, !.peer = ack]
  BY DEF Hearing
<1>2. toClient # <<>> /\ client \in ClientState /\ server.heard \in Nat
      /\ toClient \in Seq(DownMessage)
  BY DEF Hearing, TypeOK, ServerState
<1>3. client.heard + 1 \in Nat /\ ack \in Nat
  BY <1>1, <1>2 DEF ClientState
<1>4. c \in ClientState
  BY <1>1, <1>2, <1>3 DEF ClientState
<1> QED  BY <1>1, <1>2, <1>4, QueueTail DEF ClientState

LEMMA ServerHears ==
  ASSUME TypeOK, NEW kind, NEW s \in Hearing(server, client, toServer, kind)
  PROVE  /\ s \in ServerState
         /\ s.snaps = server.snaps /\ s.tick = server.tick /\ s.acked = server.acked
         /\ s.state = server.state
         /\ toServer # <<>> /\ Tail(toServer) \in Seq(UpMessage)
         /\ Len(Tail(toServer)) = Len(toServer) - 1 /\ Len(toServer) \in Nat \ {0}
<1>1. PICK ack \in 0 .. client.heard : s = [server EXCEPT !.heard = @ + 1, !.peer = ack]
  BY DEF Hearing
<1>2. toServer # <<>> /\ server \in ServerState /\ client.heard \in Nat
      /\ toServer \in Seq(UpMessage)
  BY DEF Hearing, TypeOK, ClientState
<1>3. server.heard + 1 \in Nat /\ ack \in Nat
  BY <1>1, <1>2 DEF ServerState
<1>4. s \in ServerState
  BY <1>1, <1>2, <1>3 DEF ServerState
<1> QED  BY <1>1, <1>2, <1>4, QueueTail DEF ServerState

LEMMA VitalType ==
  ASSUME TypeOK
  PROVE  /\ \A s \in ServerState, kind \in {"map_change", "con_ready", "ready_to_enter"} :
              Vital(kind, s) \in DownMessage
         /\ \A c \in ClientState, kind \in {"ready", "start_info", "enter_game"} :
              Vital(kind, c) \in UpMessage
BY DEF TypeOK, Vital, DownMessage, UpMessage, ServerState, ClientState

(* While a message of the handshake is under way nothing else is.           *)
Quiet ==
    /\ down = {} /\ up = {} /\ built = {}
    /\ server.acked = NoTick /\ server.snaps = <<>>
    /\ client.snaps = <<>> /\ client.received = 0

LEMMA TokenQuiet ==
  ASSUME TypeOK, Token, toClient # <<>> \/ toServer # <<>> \/ client.download
  PROVE  /\ Quiet /\ server.state # "ingame"
         /\ Len(toClient) + Len(toServer) + (IF client.download THEN 1 ELSE 0) = 1
         /\ Len(toClient) \in Nat /\ Len(toServer) \in Nat
<1>1. /\ Len(toClient) \in Nat /\ Len(toServer) \in Nat /\ client.download \in BOOLEAN
      /\ toClient # <<>> => Len(toClient) > 0
      /\ toServer # <<>> => Len(toServer) > 0
  BY QueueTail, LenProperties DEF TypeOK, ClientState
<1>2. server.state # "ingame"
  BY <1>1 DEF Token
<1>3. Len(toClient) + Len(toServer) + (IF client.download THEN 1 ELSE 0) <= 1
  BY <1>2 DEF Token
<1>4. Quiet
  BY <1>2 DEF Token, Quiet
<1>5. CASE client.download
  BY <1>1, <1>2, <1>3, <1>4, <1>5
<1>6. CASE toClient # <<>>
  BY <1>1, <1>2, <1>3, <1>4, <1>6
<1>7. CASE toServer # <<>>
  BY <1>1, <1>2, <1>3, <1>4, <1>7
<1> QED  BY <1>5, <1>6, <1>7

LEMMA QuietOneRound ==
  ASSUME Quiet',
         (Len(toClient) + Len(toServer) + (IF client.download THEN 1 ELSE 0)
           + (IF server.state = "ingame" THEN 1 ELSE 0) <= 1)'
  PROVE  OneRound'
BY DEF Quiet, OneRound, Token, Contents, HeldOrOlder

(* What a step of the handshake has to show.                                *)
TokenKept ==
    Len(toClient) + Len(toServer) + (IF client.download THEN 1 ELSE 0) = 1
      /\ server.state # "ingame" =>
    Len(toClient') + Len(toServer') + (IF client'.download THEN 1 ELSE 0)
      + (IF server'.state = "ingame" THEN 1 ELSE 0) <= 1

LEMMA HandshakeStep ==
  ASSUME ByState, toClient # <<>> \/ toServer # <<>> \/ client.download,
         TypeOK', ClientOK(client)', ServerOK(server)',
         UNCHANGED <<down, up, built>>,
         server'.acked = server.acked, server'.snaps = server.snaps,
         client'.snaps = client.snaps \/ client'.snaps = <<>>,
         client'.received = client.received \/ client'.received = 0,
         TokenKept
  PROVE  ByState'
<1>1. DownOK(down)'
  BY DEF ByState, DownOK
<1>2. ASSUME MaxRound = 0
      PROVE  OneRound'
  <2>1. TypeOK /\ Token
    BY <1>2 DEF ByState, OneRound
  <2>2. /\ Quiet /\ server.state # "ingame"
        /\ Len(toClient) + Len(toServer) + (IF client.download THEN 1 ELSE 0) = 1
    BY <2>1, TokenQuiet
  <2>3. Quiet'
    BY <2>2 DEF Quiet
  <2> QED  BY <2>2, <2>3, QuietOneRound DEF TokenKept
<1> QED  BY <1>1, <1>2 DEF ByState

LEMMA TokenMoves ==
  ASSUME NEW a \in Nat, a = Len(toClient), NEW b \in Nat, b = Len(toServer),
         NEW c \in Nat, c = Len(toClient'), NEW d \in Nat, d = Len(toServer'),
         NEW w \in {0, 1}, w = IF client.download THEN 1 ELSE 0,
         NEW v \in {0, 1}, v = IF client'.download THEN 1 ELSE 0,
         NEW n \in {0, 1}, server'.state = "ingame" /\ server.state # "ingame" => n = 1,
         c + d + v + n <= a + b + w
  PROVE  TokenKept
<1>1. ASSUME server.state # "ingame", a + b + w = 1
      PROVE  c + d + v + (IF server'.state = "ingame" THEN 1 ELSE 0) <= 1
  BY <1>1
<1> QED  BY <1>1 DEF TokenKept

LEMMA OnReadyStep ==
  ASSUME ByState, OnReady
  PROVE  ByState'
<1>1. TypeOK
  BY DEF ByState
<1>2. PICK s \in Hearing(server, client, toServer, "ready") :
        /\ server' = IF s.state = "connecting" THEN [s EXCEPT !.state = "ready"] ELSE s
        /\ toServer' = Tail(toServer)
        /\ toClient' = Append(toClient, Vital("con_ready", s))
        /\ UNCHANGED <<client, down, up, built>>
  BY DEF OnReady
<1>3. /\ s \in ServerState /\ s.snaps = server.snaps /\ s.tick = server.tick
      /\ s.acked = server.acked /\ s.state = server.state
      /\ toServer # <<>> /\ Tail(toServer) \in Seq(UpMessage)
      /\ Len(Tail(toServer)) = Len(toServer) - 1 /\ Len(toServer) \in Nat \ {0}
  BY <1>1, ServerHears
<1>4. /\ server' \in ServerState /\ server'.snaps = server.snaps /\ server'.tick = server.tick
      /\ server'.acked = server.acked
      /\ server'.state = "ingame" => server.state = "ingame"
  BY <1>2, <1>3 DEF ServerState
<1>5. /\ toClient' \in Seq(DownMessage) /\ Len(toClient') = Len(toClient) + 1
      /\ Len(toClient) \in Nat
  BY <1>1, <1>2, <1>3, VitalType, QueueAppend DEF TypeOK
<1>6. TypeOK'
  BY <1>1, <1>2, <1>3, <1>4, <1>5 DEF TypeOK
<1>7. ClientOK(client)' /\ ServerOK(server)'
  BY <1>2, <1>4 DEF ByState, ClientOK, ServerOK
<1>8. TokenKept
  <2> DEFINE a == Len(toClient)
             b == Len(toServer)
             c0 == Len(toClient')
             d0 == Len(toServer')
             w == IF client.download THEN 1 ELSE 0
             v == IF client'.download THEN 1 ELSE 0
  <2>1. c0 = a + 1 /\ d0 = b - 1 /\ a \in Nat /\ b \in Nat \ {0}
    BY <1>2, <1>3, <1>5
  <2>2. w \in {0, 1} /\ v \in {0, 1} /\ v = w
    BY <1>2
  <2>3. ~(server'.state = "ingame" /\ server.state # "ingame")
    BY <1>4
  <2> HIDE DEF a, b, c0, d0, w, v
  <2>4. c0 \in Nat /\ d0 \in Nat
    BY <2>1
  <2>5. c0 + d0 + v + 0 <= a + b + w
    BY <2>1, <2>2
  <2> QED  BY <2>1, <2>2, <2>3, <2>4, <2>5, TokenMoves DEF a, b, c0, d0, w, v
<1> QED  BY <1>1, <1>2, <1>3, <1>4, <1>5, <1>6, <1>7, <1>8, HandshakeStep

LEMMA OnStartInfoStep ==
  ASSUME ByState, OnStartInfo
  PROVE  ByState'
<1>1. TypeOK
  BY DEF ByState
<1>2. PICK s \in Hearing(server, client, toServer, "start_info") :
        LET first == s.state # "connecting" /\ ~s.isReady
        IN  /\ server' = IF first THEN [s EXCEPT !.isReady = TRUE] ELSE s
            /\ toServer' = Tail(toServer)
            /\ toClient' = IF first THEN Append(toClient, Vital("ready_to_enter", s))
                           ELSE toClient
            /\ UNCHANGED <<client, down, up, built>>
  BY DEF OnStartInfo
<1>3. /\ s \in ServerState /\ s.snaps = server.snaps /\ s.tick = server.tick
      /\ s.acked = server.acked /\ s.state = server.state
      /\ toServer # <<>> /\ Tail(toServer) \in Seq(UpMessage)
      /\ Len(Tail(toServer)) = Len(toServer) - 1 /\ Len(toServer) \in Nat \ {0}
  BY <1>1, ServerHears
<1>4. /\ server' \in ServerState /\ server'.snaps = server.snaps /\ server'.tick = server.tick
      /\ server'.acked = server.acked /\ server'.state = server.state
  BY <1>2, <1>3 DEF ServerState
<1>5. /\ toClient' \in Seq(DownMessage)
      /\ Len(toClient') \in {Len(toClient), Len(toClient) + 1}
      /\ Len(toClient) \in Nat
  BY <1>1, <1>2, <1>3, VitalType, QueueAppend, LenProperties DEF TypeOK
<1>6. TypeOK'
  BY <1>1, <1>2, <1>3, <1>4, <1>5 DEF TypeOK
<1>7. ClientOK(client)' /\ ServerOK(server)'
  BY <1>2, <1>4 DEF ByState, ClientOK, ServerOK
<1>8. TokenKept
  <2> DEFINE a == Len(toClient)
             b == Len(toServer)
             c0 == Len(toClient')
             d0 == Len(toServer')
             w == IF client.download THEN 1 ELSE 0
             v == IF client'.download THEN 1 ELSE 0
  <2>1. c0 <= a + 1 /\ c0 \in Nat /\ d0 = b - 1 /\ a \in Nat /\ b \in Nat \ {0}
    BY <1>2, <1>3, <1>5
  <2>2. w \in {0, 1} /\ v \in {0, 1} /\ v = w
    BY <1>2
  <2>3. ~(server'.state = "ingame" /\ server.state # "ingame")
    BY <1>4
  <2> HIDE DEF a, b, c0, d0, w, v
  <2>4. c0 \in Nat /\ d0 \in Nat
    BY <2>1
  <2>5. c0 + d0 + v + 0 <= a + b + w
    BY <2>1, <2>2
  <2> QED  BY <2>1, <2>2, <2>3, <2>4, <2>5, TokenMoves DEF a, b, c0, d0, w, v
<1> QED  BY <1>1, <1>2, <1>3, <1>4, <1>5, <1>6, <1>7, <1>8, HandshakeStep

LEMMA OnEnterGameMsgStep ==
  ASSUME ByState, OnEnterGameMsg
  PROVE  ByState'
<1>1. TypeOK
  BY DEF ByState
<1>2. PICK s \in Hearing(server, client, toServer, "enter_game") :
        /\ server' = IF s.state = "ready" /\ s.isReady THEN [s EXCEPT !.state = "ingame"]
                     ELSE s
        /\ toServer' = Tail(toServer)
        /\ UNCHANGED <<client, toClient, down, up, built>>
  BY DEF OnEnterGameMsg
<1>3. /\ s \in ServerState /\ s.snaps = server.snaps /\ s.tick = server.tick
      /\ s.acked = server.acked /\ s.state = server.state
      /\ toServer # <<>> /\ Tail(toServer) \in Seq(UpMessage)
      /\ Len(Tail(toServer)) = Len(toServer) - 1 /\ Len(toServer) \in Nat \ {0}
  BY <1>1, ServerHears
<1>4. /\ server' \in ServerState /\ server'.snaps = server.snaps /\ server'.tick = server.tick
      /\ server'.acked = server.acked
  BY <1>2, <1>3 DEF ServerState
<1>5. Len(toClient) \in Nat
  BY <1>1, LenProperties DEF TypeOK
<1>6. TypeOK'
  BY <1>1, <1>2, <1>3, <1>4 DEF TypeOK
<1>7. ClientOK(client)' /\ ServerOK(server)'
  BY <1>2, <1>4 DEF ByState, ClientOK, ServerOK
<1>8. TokenKept
  <2> DEFINE a == Len(toClient)
             b == Len(toServer)
             c0 == Len(toClient')
             d0 == Len(toServer')
             w == IF client.download THEN 1 ELSE 0
             v == IF client'.download THEN 1 ELSE 0
  <2>1. c0 = a /\ d0 = b - 1 /\ a \in Nat /\ b \in Nat \ {0}
    BY <1>2, <1>3, <1>5
  <2>2. w \in {0, 1} /\ v \in {0, 1} /\ v = w
    BY <1>2
  <2> HIDE DEF a, b, c0, d0, w, v
  <2>4. c0 \in Nat /\ d0 \in Nat
    BY <2>1
  <2>5. c0 + d0 + v + 1 <= a + b + w
    BY <2>1, <2>2
  <2> QED  BY <2>1, <2>2, <2>4, <2>5, TokenMoves DEF a, b, c0, d0, w, v
<1> QED  BY <1>1, <1>2, <1>3, <1>4, <1>5, <1>6, <1>7, <1>8, HandshakeStep

(* The map is there: LoadMap.                                               *)
LEMMA LoadedType ==
  ASSUME NEW c \in ClientState, ClientOK(c)
  PROVE  LET d == Loaded(c)
         IN  /\ d \in ClientState /\ ClientOK(d)
             /\ d.snaps = c.snaps /\ d.received = 0 /\ ~d.download
             /\ d.heard = c.heard
<1>1. Loaded(c) \in ClientState
  <2>1. 0 \in 0 .. 3 /\ FALSE \in BOOLEAN
    OBVIOUS
  <2> QED  BY <2>1 DEF Loaded, ClientState
<1>2. /\ Loaded(c).snaps = c.snaps /\ Loaded(c).received = 0 /\ ~Loaded(c).download
      /\ Loaded(c).cur = c.cur /\ Loaded(c).prev = c.prev /\ Loaded(c).based = c.based
      /\ Loaded(c).ack = c.ack /\ Loaded(c).recvTick = c.recvTick /\ Loaded(c).heard = c.heard
  BY DEF Loaded, ClientState
<1> QED  BY <1>1, <1>2, SameListFollows DEF Follows

LEMMA OnMapChangeStep ==
  ASSUME ByState, OnMapChange
  PROVE  ByState'
<1>1. TypeOK /\ client \in ClientState /\ ClientOK(client)
  BY DEF ByState, TypeOK
<1>2. PICK c \in Hearing(client, server, toClient, "map_change") :
        /\ toClient' = Tail(toClient)
        /\ \/ /\ client' = [c EXCEPT !.online = FALSE, !.download = TRUE]
              /\ UNCHANGED toServer
           \/ /\ client' = Loaded(c)
              /\ toServer' = Append(toServer, Vital("ready", c))
        /\ UNCHANGED <<server, down, up, built>>
  BY DEF OnMapChange
<1>3. /\ c \in ClientState
      /\ c.snaps = client.snaps /\ c.cur = client.cur /\ c.prev = client.prev
      /\ c.based = client.based /\ c.ack = client.ack /\ c.recvTick = client.recvTick
      /\ c.received = client.received /\ c.download = client.download
      /\ toClient # <<>> /\ Tail(toClient) \in Seq(DownMessage)
      /\ Len(Tail(toClient)) = Len(toClient) - 1 /\ Len(toClient) \in Nat \ {0}
  BY <1>1, ClientHears
<1>4. ClientOK(c)
  BY <1>1, <1>3, SameListFollows DEF Follows
<1>5. Len(toServer) \in Nat
  BY <1>1, LenProperties DEF TypeOK
<1>6. ServerOK(server)'
  BY <1>2 DEF ByState, ServerOK
<1>7. CASE client' = [c EXCEPT !.online = FALSE, !.download = TRUE] /\ UNCHANGED toServer
  <2>1. /\ client' \in ClientState
        /\ client'.snaps = c.snaps /\ client'.cur = c.cur /\ client'.prev = c.prev
        /\ client'.based = c.based /\ client'.ack = c.ack /\ client'.recvTick = c.recvTick
        /\ client'.received = c.received /\ client'.download
    BY <1>3, <1>7 DEF ClientState
  <2>2. ClientOK(client)'
    BY <1>3, <1>4, <2>1, SameListFollows DEF Follows
  <2>3. TypeOK'
    BY <1>1, <1>2, <1>3, <1>7, <2>1 DEF TypeOK
  <2>4. TokenKept
    <3> DEFINE a == Len(toClient)
               b == Len(toServer)
               c0 == Len(toClient')
               d0 == Len(toServer')
               w == IF client.download THEN 1 ELSE 0
               v == IF client'.download THEN 1 ELSE 0
    <3>1. c0 = a - 1 /\ d0 = b /\ a \in Nat \ {0} /\ b \in Nat
      BY <1>2, <1>3, <1>5, <1>7
    <3>2. w \in {0, 1} /\ v \in {0, 1} /\ v <= w + 1
      BY <1>7
    <3>3. ~(server'.state = "ingame" /\ server.state # "ingame")
      BY <1>2
    <3> HIDE DEF a, b, c0, d0, w, v
    <3>4. c0 \in Nat /\ d0 \in Nat
      BY <3>1
    <3>5. c0 + d0 + v + 0 <= a + b + w
      BY <3>1, <3>2
    <3> QED  BY <3>1, <3>2, <3>3, <3>4, <3>5, TokenMoves DEF a, b, c0, d0, w, v
  <2> QED  BY <1>1, <1>2, <1>3, <1>5, <1>6, <1>7, <2>1, <2>2, <2>3, <2>4, HandshakeStep
<1>8. CASE client' = Loaded(c) /\ toServer' = Append(toServer, Vital("ready", c))
  <2>1. /\ client' \in ClientState /\ ClientOK(client)'
        /\ client'.snaps = c.snaps /\ client'.received = 0 /\ ~client'.download
    BY <1>3, <1>4, <1>8, LoadedType
  <2>2. toServer' \in Seq(UpMessage) /\ Len(toServer') = Len(toServer) + 1
    BY <1>1, <1>3, <1>8, VitalType, QueueAppend DEF TypeOK
  <2>3. TypeOK'
    BY <1>1, <1>2, <1>3, <2>1, <2>2 DEF TypeOK
  <2>4. TokenKept
    <3> DEFINE a == Len(toClient)
               b == Len(toServer)
               c0 == Len(toClient')
               d0 == Len(toServer')
               w == IF client.download THEN 1 ELSE 0
               v == IF client'.download THEN 1 ELSE 0
    <3>1. c0 = a - 1 /\ d0 = b + 1 /\ a \in Nat \ {0} /\ b \in Nat
      BY <1>2, <1>3, <1>5, <2>2
    <3>2. w \in {0, 1} /\ v \in {0, 1} /\ v = 0
      BY <2>1
    <3>3. ~(server'.state = "ingame" /\ server.state # "ingame")
      BY <1>2
    <3> HIDE DEF a, b, c0, d0, w, v
    <3>4. c0 \in Nat /\ d0 \in Nat
      BY <3>1
    <3>5. c0 + d0 + v + 0 <= a + b + w
      BY <3>1, <3>2
    <3> QED  BY <3>1, <3>2, <3>3, <3>4, <3>5, TokenMoves DEF a, b, c0, d0, w, v
  <2> QED  BY <1>1, <1>2, <1>3, <1>5, <1>6, <2>1, <2>2, <2>3, <2>4, HandshakeStep
<1> QED  BY <1>2, <1>7, <1>8

LEMMA FinishMapDownloadStep ==
  ASSUME ByState, FinishMapDownload
  PROVE  ByState'
<1>1. TypeOK /\ client \in ClientState /\ ClientOK(client) /\ client.download
  BY DEF ByState, TypeOK, FinishMapDownload
<1>2. /\ client' = Loaded(client)
      /\ toServer' = Append(toServer, Vital("ready", client))
      /\ UNCHANGED <<server, toClient, down, up, built>>
  BY DEF FinishMapDownload
<1>3. /\ client' \in ClientState /\ ClientOK(client)'
      /\ client'.snaps = client.snaps /\ client'.received = 0 /\ ~client'.download
  BY <1>1, <1>2, LoadedType
<1>4. /\ toServer' \in Seq(UpMessage) /\ Len(toServer') = Len(toServer) + 1
      /\ Len(toServer) \in Nat /\ Len(toClient) \in Nat
  BY <1>1, <1>2, VitalType, QueueAppend, LenProperties DEF TypeOK
<1>5. TypeOK'
  BY <1>1, <1>2, <1>3, <1>4 DEF TypeOK
<1>6. ServerOK(server)'
  BY <1>2 DEF ByState, ServerOK
<1>7. TokenKept
  <2> DEFINE a == Len(toClient)
             b == Len(toServer)
             c0 == Len(toClient')
             d0 == Len(toServer')
             w == IF client.download THEN 1 ELSE 0
             v == IF client'.download THEN 1 ELSE 0
  <2>1. c0 = a /\ d0 = b + 1 /\ a \in Nat /\ b \in Nat
    BY <1>2, <1>4
  <2>2. w \in {0, 1} /\ v \in {0, 1} /\ v = 0 /\ w = 1
    BY <1>1, <1>3
  <2>3. ~(server'.state = "ingame" /\ server.state # "ingame")
    BY <1>2
  <2> HIDE DEF a, b, c0, d0, w, v
  <2>4. c0 \in Nat /\ d0 \in Nat
    BY <2>1
  <2>5. c0 + d0 + v + 0 <= a + b + w
    BY <2>1, <2>2
  <2> QED  BY <2>1, <2>2, <2>3, <2>4, <2>5, TokenMoves DEF a, b, c0, d0, w, v
<1> QED  BY <1>1, <1>2, <1>3, <1>4, <1>5, <1>6, <1>7, HandshakeStep

LEMMA OnConReadyStep ==
  ASSUME ByState, OnConReady
  PROVE  ByState'
<1>1. TypeOK /\ client \in ClientState /\ ClientOK(client)
  BY DEF ByState, TypeOK
<1>2. PICK c \in Hearing(client, server, toClient, "con_ready") :
        /\ client' = c
        /\ toClient' = Tail(toClient)
        /\ toServer' = Append(toServer, Vital("start_info", c))
        /\ UNCHANGED <<server, down, up, built>>
  BY DEF OnConReady
<1>3. /\ c \in ClientState
      /\ c.snaps = client.snaps /\ c.cur = client.cur /\ c.prev = client.prev
      /\ c.based = client.based /\ c.ack = client.ack /\ c.recvTick = client.recvTick
      /\ c.received = client.received /\ c.download = client.download
      /\ toClient # <<>> /\ Tail(toClient) \in Seq(DownMessage)
      /\ Len(Tail(toClient)) = Len(toClient) - 1 /\ Len(toClient) \in Nat \ {0}
  BY <1>1, ClientHears
<1>4. ClientOK(client)'
  BY <1>1, <1>2, <1>3, SameListFollows DEF Follows
<1>5. /\ toServer' \in Seq(UpMessage) /\ Len(toServer') = Len(toServer) + 1
      /\ Len(toServer) \in Nat
  BY <1>1, <1>2, <1>3, VitalType, QueueAppend DEF TypeOK
<1>6. TypeOK'
  BY <1>1, <1>2, <1>3, <1>5 DEF TypeOK
<1>7. ServerOK(server)'
  BY <1>2 DEF ByState, ServerOK
<1>8. TokenKept
  <2> DEFINE a == Len(toClient)
             b == Len(toServer)
             c0 == Len(toClient')
             d0 == Len(toServer')
             w == IF client.download THEN 1 ELSE 0
             v == IF client'.download THEN 1 ELSE 0
  <2>1. c0 = a - 1 /\ d0 = b + 1 /\ a \in Nat \ {0} /\ b \in Nat
    BY <1>2, <1>3, <1>5
  <2>2. w \in {0, 1} /\ v \in {0, 1} /\ v = w
    BY <1>2, <1>3
  <2>3. ~(server'.state = "ingame" /\ server.state # "ingame")
    BY <1>2
  <2> HIDE DEF a, b, c0, d0, w, v
  <2>4. c0 \in Nat /\ d0 \in Nat
    BY <2>1
  <2>5. c0 + d0 + v + 0 <= a + b + w
    BY <2>1, <2>2
  <2> QED  BY <2>1, <2>2, <2>3, <2>4, <2>5, TokenMoves DEF a, b, c0, d0, w, v
<1> QED  BY <1>1, <1>2, <1>3, <1>4, <1>5, <1>6, <1>7, <1>8, HandshakeStep

LEMMA EnterGameStep ==
  ASSUME ByState, EnterGame
  PROVE  ByState'
<1>1. TypeOK /\ client \in ClientState
  BY DEF ByState, TypeOK
<1>2. PICK c \in Hearing(client, server, toClient, "ready_to_enter") :
        /\ client' = Entered(c, Head(toClient).round)
        /\ toClient' = Tail(toClient)
        /\ toServer' = Append(toServer, Vital("enter_game", c))
        /\ UNCHANGED <<server, down, up, built>>
  BY DEF EnterGame
<1>3. /\ c \in ClientState /\ c.download = client.download
      /\ toClient # <<>> /\ Tail(toClient) \in Seq(DownMessage)
      /\ Head(toClient) \in DownMessage
      /\ Len(Tail(toClient)) = Len(toClient) - 1 /\ Len(toClient) \in Nat \ {0}
  BY <1>1, ClientHears
<1>4. Head(toClient).round \in Round
  BY <1>3 DEF DownMessage
<1>5. /\ client' \in ClientState /\ client'.download = client.download
      /\ client'.snaps = <<>> /\ client'.cur = NoTick /\ client'.prev = NoTick
      /\ client'.ack = NoTick /\ client'.recvTick = 0 /\ client'.received = 0
  <2>1. /\ 0 \in Tick /\ <<>> \in Holders /\ 0 \in 0 .. 3 /\ {} \in SUBSET Nat
        /\ NoTick \in Tick \cup {NoTick} /\ FALSE \in BOOLEAN
    BY Ticks_Int, EmptyList
  <2>2. client' = Entered(c, Head(toClient).round)
    BY <1>2
  <2> QED  BY <1>3, <1>4, <2>1, <2>2 DEF Entered, ClientState
<1>6. ClientOK(client)'
  <2>1. DOMAIN client'.snaps = {}
    BY <1>5, EmptyList
  <2>2. Increasing(client'.snaps)
    BY <2>1 DEF Increasing
  <2> QED  BY <1>5, <2>1, <2>2, Ticks_Int DEF ClientOK
<1>7. /\ toServer' \in Seq(UpMessage) /\ Len(toServer') = Len(toServer) + 1
      /\ Len(toServer) \in Nat
  BY <1>1, <1>2, <1>3, VitalType, QueueAppend DEF TypeOK
<1>8. TypeOK'
  BY <1>1, <1>2, <1>3, <1>5, <1>7 DEF TypeOK
<1>9. ServerOK(server)'
  BY <1>2 DEF ByState, ServerOK
<1>10. TokenKept
  <2> DEFINE a == Len(toClient)
             b == Len(toServer)
             c0 == Len(toClient')
             d0 == Len(toServer')
             w == IF client.download THEN 1 ELSE 0
             v == IF client'.download THEN 1 ELSE 0
  <2>1. c0 = a - 1 /\ d0 = b + 1 /\ a \in Nat \ {0} /\ b \in Nat
    BY <1>2, <1>3, <1>7
  <2>2. w \in {0, 1} /\ v \in {0, 1} /\ v = w
    BY <1>5
  <2>3. ~(server'.state = "ingame" /\ server.state # "ingame")
    BY <1>2
  <2> HIDE DEF a, b, c0, d0, w, v
  <2>4. c0 \in Nat /\ d0 \in Nat
    BY <2>1
  <2>5. c0 + d0 + v + 0 <= a + b + w
    BY <2>1, <2>2
  <2> QED  BY <2>1, <2>2, <2>3, <2>4, <2>5, TokenMoves DEF a, b, c0, d0, w, v
<1> QED  BY <1>1, <1>2, <1>3, <1>5, <1>6, <1>7, <1>8, <1>9, <1>10, HandshakeStep
-----------------------------------------------------------------------------
(* The steps of the server.                                                 *)
LEMMA ShotAtType ==
  ASSUME NEW round \in Round, NEW tick \in Tick
  PROVE  ShotAt(round, tick) \in Shot
BY DEF ShotAt, Shot, Value

LEMMA GetType ==
  ASSUME NEW snaps \in Holders, NEW tick
  PROVE  /\ Get(snaps, tick) \in AnyShot
         /\ Has(snaps, tick) =>
              /\ Get(snaps, tick) \in Shot /\ tick \in Tick
              /\ \E i \in DOMAIN snaps : snaps[i] = Holder(tick, Get(snaps, tick))
<1>1. CASE Has(snaps, tick)
  <2>1. /\ At(snaps, tick) \in DOMAIN snaps /\ snaps[At(snaps, tick)].tick = tick
    BY <1>1, AtFinds
  <2>2. Get(snaps, tick) = snaps[At(snaps, tick)].shot
    BY <1>1 DEF Get
  <2> QED  BY <2>1, <2>2, HolderType DEF AnyShot
<1>2. CASE ~Has(snaps, tick)
  BY <1>2 DEF Get, AnyShot
<1> QED  BY <1>1, <1>2

LEMMA TickOnlyStep ==
  ASSUME ByState, TickOnly
  PROVE  ByState'
<1>1. /\ server.tick < MaxTick
      /\ server' = [server EXCEPT !.tick = @ + 1]
      /\ UNCHANGED <<client, toClient, toServer, down, up, built>>
  BY DEF TickOnly
<1>2. server \in ServerState /\ ServerOK(server)
  BY DEF ByState, TypeOK
<1>3. server.tick \in Nat /\ server.tick + 1 \in Tick
  BY <1>1, <1>2, SnapAssumption DEF ServerState, Tick
<1>4. /\ server' \in ServerState /\ server'.tick = server.tick + 1
      /\ server'.snaps = server.snaps /\ server'.acked = server.acked
      /\ server'.state = server.state
  BY <1>1, <1>2, <1>3 DEF ServerState
<1>5. TypeOK'
  BY <1>1, <1>4 DEF ByState, TypeOK
<1>6. ServerOK(server)'
  <2>1. \A i \in DOMAIN server.snaps : server.snaps[i].tick \in Nat
    BY <1>2, HolderType, Ticks_Int DEF ServerState
  <2> QED  BY <1>2, <1>3, <1>4, <2>1 DEF ServerOK
<1>7. ClientOK(client)' /\ DownOK(down)'
  BY <1>1 DEF ByState, ClientOK, DownOK
<1>8. ASSUME OneRound
      PROVE  OneRound'
  <2>1. Token'
    BY <1>1, <1>4, <1>8 DEF OneRound, Token
  <2>2. (built \subseteq {Holder(tick, ShotAt(0, tick)) : tick \in 1 .. server.tick})'
    BY <1>1, <1>3, <1>4, <1>8 DEF OneRound, Contents
  <2> QED  BY <1>1, <1>4, <1>8, <2>1, <2>2 DEF OneRound, Contents, HeldOrOlder
<1> QED  BY <1>5, <1>6, <1>7, <1>8 DEF ByState

LEMMA MapReloadStep ==
  ASSUME ByState, MapReload
  PROVE  ByState'
<1>1. /\ server.round < MaxRound
      /\ server' = [server EXCEPT !.state = "connecting", !.isReady = FALSE,
                      !.round = @ + 1, !.tick = 0, !.acked = NoTick, !.rate = "init",
                      !.snaps = <<>>]
      /\ toClient' = Append(toClient, [kind |-> "map_change", round |-> server.round + 1,
                                       ack |-> server.heard])
      /\ UNCHANGED <<client, toServer, down, up, built>>
  BY DEF MapReload
<1>2. server \in ServerState /\ TypeOK
  BY DEF ByState, TypeOK
<1>3. server.round + 1 \in Round /\ MaxRound # 0
  BY <1>1, <1>2, SnapAssumption, SMTT(60) DEF ServerState, Round
<1>4. server' \in ServerState /\ server'.snaps = <<>>
  <2>1. /\ 0 \in Tick /\ <<>> \in Holders /\ NoTick \in Tick \cup {NoTick}
        /\ FALSE \in BOOLEAN
    BY Ticks_Int, EmptyList
  <2> QED  BY <1>1, <1>2, <1>3, <2>1 DEF ServerState
<1>5. toClient' \in Seq(DownMessage)
  <2>1. [kind |-> "map_change", round |-> server.round + 1, ack |-> server.heard] \in DownMessage
    BY <1>2, <1>3 DEF ServerState, DownMessage
  <2> QED  BY <1>1, <1>2, <2>1, QueueAppend DEF TypeOK
<1>6. TypeOK'
  BY <1>1, <1>2, <1>4, <1>5 DEF TypeOK
<1>7. ServerOK(server)'
  <2>1. DOMAIN server'.snaps = {}
    BY <1>4, EmptyList
  <2> QED  BY <2>1 DEF ServerOK, Increasing
<1>8. ClientOK(client)' /\ DownOK(down)'
  BY <1>1 DEF ByState, ClientOK, DownOK
<1> QED  BY <1>3, <1>6, <1>7, <1>8 DEF ByState

LEMMA OnInputStep ==
  ASSUME ByState, OnInput
  PROVE  ByState'
<1>1. PICK i \in up :
        /\ up' \in {up, up \ {i}}
        /\ server' = [server EXCEPT !.peer = i.ack, !.acked = i.tick,
                                    !.rate = IF i.tick > 0 THEN "full" ELSE @]
        /\ UNCHANGED <<client, toClient, toServer, down, built>>
  BY DEF OnInput
<1>2. server \in ServerState /\ i.tick \in Tick \cup {NoTick} /\ i.ack \in Nat /\ TypeOK
  BY DEF ByState, TypeOK, Input
<1>3. /\ server' \in ServerState /\ server'.tick = server.tick
      /\ server'.snaps = server.snaps /\ server'.acked = i.tick
      /\ server'.state = server.state
  BY <1>1, <1>2 DEF ServerState
<1>4. up' \subseteq up
  BY <1>1
<1>5. TypeOK'
  BY <1>1, <1>2, <1>3, <1>4 DEF TypeOK
<1>6. ClientOK(client)' /\ DownOK(down)' /\ ServerOK(server)'
  BY <1>1, <1>3 DEF ByState, ClientOK, DownOK, ServerOK
<1>7. ASSUME OneRound
      PROVE  OneRound'
  <2>1. Token'
    BY <1>1, <1>3, <1>7 DEF OneRound, Token
  <2>2. HeldOrOlder(i.tick)
    BY <1>7 DEF OneRound, Contents
  <2> QED  BY <1>1, <1>3, <1>4, <1>7, <2>1, <2>2 DEF OneRound, Contents, HeldOrOlder
<1> QED  BY <1>5, <1>6, <1>7 DEF ByState

(* What DoSnapshot has in its storage when it looks for the base.           *)
LEMMA StoredIs ==
  ASSUME NEW s \in ServerState, ServerOK(s), NEW tick \in Tick, s.tick < tick
  PROVE  LET snaps == Stored(s, tick)
         IN  /\ snaps \in Holders /\ Increasing(snaps)
             /\ \A i \in DOMAIN snaps :
                  /\ snaps[i].tick <= tick /\ tick - snaps[i].tick <= KeepTicks
                  /\ \/ snaps[i] = Holder(tick, ShotAt(s.round, tick))
                     \/ \E j \in DOMAIN s.snaps : snaps[i] = s.snaps[j]
<1> DEFINE rest == PurgeUntil(s.snaps, tick - KeepTicks)
           shot == ShotAt(s.round, tick)
           snaps == Add(rest, tick, shot)
<1>1. /\ s.snaps \in Holders /\ Increasing(s.snaps) /\ s.tick \in Nat /\ tick \in Nat
      /\ KeepTicks \in Nat /\ shot \in Shot
  BY Ticks_Int, ShotAtType, SnapAssumption DEF ServerState, ServerOK
<1>2. tick - KeepTicks \in Int
  BY <1>1
<1>3. /\ rest \in Holders /\ Increasing(rest)
      /\ \A i \in DOMAIN rest : /\ rest[i].tick >= tick - KeepTicks
                                /\ \E j \in DOMAIN s.snaps : rest[i] = s.snaps[j]
  BY <1>1, <1>2, PurgeUntilKeeps
<1> HIDE DEF rest, shot
<1>4. \A i \in DOMAIN rest : rest[i].tick \in Nat /\ rest[i].tick < tick
  <2>1. \A i \in DOMAIN rest : rest[i].tick \in Nat
    BY <1>3, HolderType, Ticks_Int
  <2>2. \A j \in DOMAIN s.snaps : s.snaps[j].tick <= s.tick
    BY DEF ServerOK
  <2> QED  BY <1>1, <1>3, <2>1, <2>2
<1>5. /\ snaps \in Holders /\ Increasing(snaps)
      /\ \A i \in DOMAIN snaps : snaps[i] = Holder(tick, shot) \/ \E j \in DOMAIN rest : snaps[i] = rest[j]
  BY <1>1, <1>3, <1>4, AddKeeps
<1> HIDE DEF snaps
<1>6. Holder(tick, shot).tick = tick
  BY DEF Holder
<1>7. \A i \in DOMAIN snaps : snaps[i].tick <= tick /\ tick - snaps[i].tick <= KeepTicks
  BY <1>1, <1>3, <1>4, <1>5, <1>6
<1>8. \A i \in DOMAIN snaps :
        \/ snaps[i] = Holder(tick, shot)
        \/ \E j \in DOMAIN s.snaps : snaps[i] = s.snaps[j]
  BY <1>3, <1>5
<1>9. snaps = Stored(s, tick)
  BY DEF snaps, rest, shot, Stored
<1> QED  BY <1>5, <1>7, <1>8, <1>9 DEF shot

LEMMA PartsOfAre ==
  ASSUME NEW s \in ServerState, NEW tick \in Tick, NEW base \in Tick \cup {NoTick},
         NEW snaps \in Holders, NEW n \in Nat, NEW p \in PartsOf(s, tick, base, snaps, n)
  PROVE  /\ p \in Part
         /\ p.tick = tick /\ p.base = base /\ p.from = Get(snaps, base)
         /\ p.to = ShotAt(s.round, tick)
<1>1. Get(snaps, base) \in AnyShot /\ ShotAt(s.round, tick) \in Shot /\ s.heard \in Nat
  BY GetType, ShotAtType DEF ServerState
<1>2. 0 .. n - 1 \subseteq Nat
  OBVIOUS
<1>3. p \in [tick : {tick}, base : {base}, from : {Get(snaps, base)},
             to : {ShotAt(s.round, tick)}, part : 0 .. n - 1, parts : {n}, ack : {s.heard}]
  BY DEF PartsOf
<1> QED  BY <1>1, <1>2, <1>3 DEF Part

LEMMA DoSnapshotStep ==
  ASSUME ByState, DoSnapshot
  PROVE  ByState'
<1> DEFINE tick  == server.tick + 1
           snaps == Stored(server, tick)
           base  == BaseFor(server, snaps)
           new   == Holder(tick, ShotAt(server.round, tick))
<1>1. /\ server.tick < MaxTick /\ server.state = "ingame"
      /\ server' = [server EXCEPT !.tick = tick, !.snaps = snaps,
                      !.rate = IF base = NoTick /\ @ = "full" THEN "recover" ELSE @]
      /\ built' = built \cup {new}
      /\ UNCHANGED <<client, toClient, toServer, up>>
  BY DEF DoSnapshot, SnapshotDue
<1>2. PICK n \in 1 .. MaxParts :
        \E sent \in SUBSET PartsOf(server, tick, base, snaps, n) : down' = down \cup sent
  BY DEF DoSnapshot, SendDown
<1>3. PICK sent \in SUBSET PartsOf(server, tick, base, snaps, n) : down' = down \cup sent
  BY <1>2
<1>4. TypeOK /\ server \in ServerState /\ ServerOK(server) /\ n \in Nat
  BY SnapAssumption DEF ByState, TypeOK
<1>5. server.tick \in Nat /\ tick \in Tick /\ tick \in Nat /\ server.round \in Round
      /\ server.tick < tick
  BY <1>1, <1>4, SnapAssumption DEF ServerState, Tick
<1> HIDE DEF tick
<1>6. /\ snaps \in Holders /\ Increasing(snaps)
      /\ \A i \in DOMAIN snaps :
           /\ snaps[i].tick <= tick /\ tick - snaps[i].tick <= KeepTicks
           /\ snaps[i] = new \/ \E j \in DOMAIN server.snaps : snaps[i] = server.snaps[j]
  BY <1>4, <1>5, StoredIs
<1>7. /\ base \in Tick \cup {NoTick}
      /\ base # NoTick => base = server.acked /\ Has(snaps, base)
  BY <1>4 DEF BaseFor, ServerState
<1> HIDE DEF snaps, base
<1>8. new \in [tick : Tick, shot : Shot]
  BY <1>5, ShotAtType DEF Holder
<1>9. /\ server' \in ServerState /\ server'.tick = tick /\ server'.snaps = snaps
      /\ server'.acked = server.acked /\ server'.state = server.state
  BY <1>1, <1>4, <1>5, <1>6 DEF ServerState
<1>10. \A p \in sent :
        /\ p \in Part
        /\ p.tick = tick /\ p.base = base /\ p.from = Get(snaps, base)
        /\ p.to = ShotAt(server.round, tick)
  BY <1>4, <1>5, <1>6, <1>7, PartsOfAre
<1>11. TypeOK'
  BY <1>1, <1>3, <1>4, <1>8, <1>9, <1>10 DEF TypeOK
<1>12. ServerOK(server)' /\ ClientOK(client)'
  BY <1>1, <1>6, <1>9 DEF ByState, ServerOK, ClientOK
<1>13. DownOK(down)'
  <2>1. base = NoTick => Get(snaps, base) = EmptyShot
    BY <1>6, GetType, Ticks_Int DEF Get
  <2>2. base # NoTick => tick - base <= KeepTicks
    BY <1>6, <1>7 DEF Has, Ticks
  <2>3. \A p \in sent : /\ p.base # NoTick => p.tick - p.base <= KeepTicks
                        /\ p.base = NoTick => p.from = EmptyShot
    BY <1>10, <2>1, <2>2
  <2> QED  BY <1>3, <2>3 DEF ByState, DownOK
<1>14. ASSUME MaxRound = 0, OneRound
       PROVE  OneRound'
  <2>1. Token'
    BY <1>1, <1>9, <1>14 DEF OneRound, Token
  <2>2. server.round = 0
    BY <1>5, <1>14 DEF Round
  <2>3. built' \subseteq {Holder(t, ShotAt(0, t)) : t \in 1 .. server'.tick}
    <3>1. built \subseteq {Holder(t, ShotAt(0, t)) : t \in 1 .. server.tick}
      BY <1>14 DEF OneRound, Contents
    <3>2. 1 .. server.tick \subseteq 1 .. tick /\ tick \in 1 .. tick
      BY <1>5 DEF tick
    <3> QED  BY <1>1, <1>9, <2>2, <3>1, <3>2
  <2>4. \A i \in DOMAIN snaps : snaps[i] \in built'
    BY <1>1, <1>6, <1>14 DEF OneRound, Contents
  <2>5. ASSUME NEW p \in sent
        PROVE  /\ Holder(p.tick, p.to) \in built'
               /\ p.from = IF p.base = NoTick THEN EmptyShot ELSE ShotAt(0, p.base)
               /\ HeldOrOlder(p.base)
    <3>1. Holder(p.tick, p.to) \in built'
      BY <1>1, <1>10
    <3>2. HeldOrOlder(p.base)
      BY <1>7, <1>10, <1>14 DEF OneRound, Contents, HeldOrOlder
    <3>3. CASE base = NoTick
      <4>1. Get(snaps, base) = EmptyShot
        BY <1>6, <3>3, GetType, Ticks_Int DEF Get
      <4> QED  BY <1>10, <3>1, <3>2, <3>3, <4>1
    <3>4. CASE base # NoTick
      <4>1. PICK i \in DOMAIN snaps : snaps[i] = Holder(base, Get(snaps, base))
        BY <1>6, <1>7, <3>4, GetType
      <4>2. PICK t \in 1 .. server'.tick : snaps[i] = Holder(t, ShotAt(0, t))
        BY <2>3, <2>4
      <4>3. t = base /\ Get(snaps, base) = ShotAt(0, base)
        BY <4>1, <4>2 DEF Holder
      <4> QED  BY <1>10, <3>1, <3>2, <3>4, <4>3
    <3> QED  BY <3>3, <3>4
  <2>6. \A p \in down :
          /\ Holder(p.tick, p.to) \in built'
          /\ p.from = IF p.base = NoTick THEN EmptyShot ELSE ShotAt(0, p.base)
          /\ HeldOrOlder(p.base)
    BY <1>1, <1>14 DEF OneRound, Contents
  <2>7. \A i \in DOMAIN client.snaps : client.snaps[i] \in built'
    BY <1>1, <1>14 DEF OneRound, Contents
  <2>8. HeldOrOlder(server.acked) /\ \A i \in up : HeldOrOlder(i.tick)
    BY <1>14 DEF OneRound, Contents
  <2>9. Contents'
    BY <1>1, <1>3, <1>9, <2>3, <2>4, <2>5, <2>6, <2>7, <2>8 DEF Contents, HeldOrOlder
  <2> QED  BY <1>1, <1>3, <2>1, <2>5, <2>6, <2>9 DEF OneRound, HeldOrOlder
<1> QED  BY <1>11, <1>12, <1>13, <1>14 DEF ByState
-----------------------------------------------------------------------------
(* The steps of the client in the game.                                     *)
Echo(c) == [tick |-> c.ack, ack |-> c.heard]

(* What a step that takes in the part p has to show.                        *)
LEMMA DataStep ==
  ASSUME ByState, Follows(client, client'), NEW p, StoresOf(client, client', p),
         UNCHANGED <<server, toClient, toServer, built>>,
         client'.download = client.download,
         down' \subseteq down, up' \subseteq up \cup {Echo(client')},
         p \in down \/ (client'.snaps = client.snaps /\ client.received >= 1)
  PROVE  ByState'
<1>1. TypeOK /\ client \in ClientState /\ client' \in ClientState /\ ClientOK(client')
  BY DEF ByState, TypeOK, Follows
<1>2. Echo(client') \in Input
  BY <1>1, ClientType DEF Echo, Input
<1>3. TypeOK'
  BY <1>1, <1>2 DEF TypeOK
<1>4. ClientOK(client)' /\ ServerOK(server)' /\ DownOK(down)'
  BY <1>1 DEF ByState, ServerOK, DownOK
<1>5. ASSUME OneRound
      PROVE  OneRound'
  <2>1. server.state = "ingame"
    BY <1>1, <1>5, ClientType DEF OneRound, Token
  <2>2. Token'
    BY <1>5, <2>1 DEF OneRound, Token
  <2>3. ASSUME NEW t \in Int, HeldOrOlder(t)
        PROVE  HeldOrOlder(t)'
    BY <2>3 DEF Follows, HeldOrOlder, Holds
  <2>4. \A q \in down : q.base \in Int /\ HeldOrOlder(q.base)'
    BY <1>1, <1>5, <2>3, PartType DEF OneRound, TypeOK
  <2>5. server.acked \in Int /\ HeldOrOlder(server.acked)'
    <3>1. server.acked \in Int
      BY <1>1, Ticks_Int DEF TypeOK, ServerState
    <3> QED  BY <1>5, <2>3, <3>1 DEF OneRound, Contents
  <2>6. \A i \in up' : HeldOrOlder(i.tick)'
    <3>1. \A i \in up : i.tick \in Int
      BY <1>1, Ticks_Int DEF TypeOK, Input
    <3>2. \A i \in up : HeldOrOlder(i.tick)'
      BY <1>5, <2>3, <3>1 DEF OneRound, Contents
    <3>3. Echo(client').tick = client'.ack
      BY DEF Echo
    <3>4. ASSUME NEW t, t = client'.ack
          PROVE  HeldOrOlder(t)'
      BY <1>1, <3>4 DEF ClientOK, HeldOrOlder
    <3> QED  BY <3>2, <3>3, <3>4
  <2>7. ASSUME NEW i \in DOMAIN client'.snaps
        PROVE  client'.snaps[i] \in built
    <3>1. \A j \in DOMAIN client.snaps : client.snaps[j] \in built
      BY <1>5 DEF OneRound, Contents
    <3>2. CASE \E j \in DOMAIN client.snaps : client'.snaps[i] = client.snaps[j]
      BY <3>1, <3>2
    <3>3. ASSUME p \in down, NEW shot \in Shot, client'.snaps[i] = Holder(p.tick, shot),
                 FineShot(client, p, shot)
          PROVE  client'.snaps[i] \in built
      <4>1. /\ Holder(p.tick, p.to) \in built
            /\ p.from = IF p.base = NoTick THEN EmptyShot ELSE ShotAt(0, p.base)
        BY <1>5, <3>3 DEF OneRound, Contents
      <4>2. CASE p.from = p.to /\ Has(client.snaps, p.base) /\ shot = Get(client.snaps, p.base)
        <5>1. PICK j \in DOMAIN client.snaps : client.snaps[j] = Holder(p.base, shot)
          BY <1>1, <4>2, ClientType, GetType
        <5>2. PICK t \in 1 .. server.tick : client.snaps[j] = Holder(t, ShotAt(0, t))
          BY <1>5, <3>1 DEF OneRound, Contents
        <5>3. p.base \in Tick
          BY <1>1, <4>2, ClientType, GetType
        <5>4. shot = ShotAt(0, p.base) /\ p.base # NoTick
          BY <5>1, <5>2, <5>3, Ticks_Int DEF Holder
        <5>5. shot = p.to
          BY <4>1, <4>2, <5>4
        <5> QED  BY <3>3, <4>1, <5>5
      <4>3. CASE shot = p.to
        BY <3>3, <4>1, <4>3
      <4> QED  BY <3>3, <4>2, <4>3 DEF FineShot
    <3> QED  BY <3>2, <3>3 DEF StoresOf
  <2>8. Contents'
    BY <1>5, <2>5, <2>6, <2>7 DEF OneRound, Contents, HeldOrOlder
  <2> QED  BY <2>2, <2>4, <2>8 DEF OneRound
<1> QED  BY <1>3, <1>4, <1>5 DEF ByState

(* A resync takes back the acknowledgement.                                 *)
LEMMA AckTakenBack ==
  ASSUME NEW c \in ClientState, ClientOK(c), NEW p \in Part, Ready(c, p),
         NEW d \in ClientState,
         d.snaps = c.snaps, d.cur = c.cur, d.prev = c.prev, d.based = c.based,
         d.ack = NoTick, d.recvTick = c.recvTick, d.received = c.received
  PROVE  Follows(c, d) /\ StoresOf(c, d, p)
<1>1. \A i \in DOMAIN c.snaps : c.snaps[i].tick \in Nat /\ c.snaps[i].tick < c.recvTick
  BY ClientType DEF Ready
<1>2. c.recvTick \in Nat
  BY ClientType
<1>3. d.ack <= d.recvTick
  BY <1>2, Ticks_Int
<1>4. ClientOK(d)
  BY <1>1, <1>2, <1>3 DEF ClientOK
<1>5. ShownBy(d) = ShownBy(c) /\ \A t \in Int : Holds(c, t) => Holds(d, t)
  BY DEF ShownBy, Holds
<1> QED  BY <1>4, <1>5 DEF Follows, StoresOf

LEMMA FollowsAfter ==
  ASSUME NEW c, NEW d, NEW e, NEW p, Follows(c, d), Follows(d, e), StoresOf(d, e, p),
         d.cur = c.cur, d.snaps = c.snaps
  PROVE  Follows(c, e) /\ StoresOf(c, e, p)
<1>1. ShownBy(d) = ShownBy(c)
  BY DEF ShownBy
<1>2. StoresOf(c, e, p)
  BY DEF StoresOf, FineShot
<1> QED  BY <1>1, <1>2 DEF Follows

(* The client has all the parts of p.                                       *)
LEMMA ApplyFollows ==
  ASSUME NEW p \in Part, p.base = NoTick => p.from = EmptyShot,
         client \in ClientState, ClientOK(client),
         NEW a \in ClientState, Follows(client, a), Ready(a, p),
         a.snaps = client.snaps, a.cur = client.cur, a.download = client.download,
         ApplySnapshot(a, p)
  PROVE  /\ Follows(client, client') /\ StoresOf(client, client', p)
         /\ client'.download = client.download
         /\ up' \subseteq up \cup {Echo(client')}
<1> DEFINE shot == Unpack(Get(a.snaps, p.base), p)
           b == CrcFine(a)
<1>1. ClientOK(a)
  BY DEF Follows
<1>2. a.crcErrors \in 0 .. MaxCrcErrors /\ MaxCrcErrors \in Nat /\ a.download \in BOOLEAN
  BY SnapAssumption DEF ClientState
<1>3. ASSUME NEW c \in ClientState, SendInput(c)
      PROVE  up' \subseteq up \cup {Echo(c)}
  BY <1>3 DEF SendInput, SendUp, Echo
<1>4. CASE BaseMissing(a, p) /\ ForceResync(a)
  <2>1. client' = [a EXCEPT !.ack = NoTick] /\ SendInput(client')
    BY <1>4 DEF ForceResync
  <2>2. /\ client' \in ClientState
        /\ client'.snaps = a.snaps /\ client'.cur = a.cur /\ client'.prev = a.prev
        /\ client'.based = a.based /\ client'.ack = NoTick /\ client'.recvTick = a.recvTick
        /\ client'.received = a.received /\ client'.download = a.download
    BY <2>1 DEF ClientState
  <2>3. Follows(a, client') /\ StoresOf(a, client', p)
    BY <1>1, <2>2, AckTakenBack
  <2> QED  BY <1>3, <2>1, <2>2, <2>3, FollowsAfter
<1>5. CASE client' = a /\ up' = up
  <2>1. StoresOf(client, a, p)
    BY DEF StoresOf
  <2> QED  BY <1>5, <2>1
<1>6. CASE /\ client' = CrcError(a)
           /\ IF a.crcErrors < MaxCrcErrors THEN up' = up ELSE SendInput(client')
  <2>1. CASE a.crcErrors < MaxCrcErrors
    <3>1. client' = [a EXCEPT !.crcErrors = @ + 1] /\ up' = up
      BY <1>6, <2>1 DEF CrcError
    <3>2. a.crcErrors + 1 \in 0 .. MaxCrcErrors
      BY <1>2, <2>1
    <3>3. /\ client' \in ClientState
          /\ client'.snaps = a.snaps /\ client'.cur = a.cur /\ client'.prev = a.prev
          /\ client'.based = a.based /\ client'.ack = a.ack /\ client'.recvTick = a.recvTick
          /\ client'.received = a.received /\ client'.download = a.download
      BY <3>1, <3>2 DEF ClientState
    <3>4. Follows(a, client') /\ StoresOf(a, client', p)
      BY <1>1, <3>3, SameListFollows
    <3> QED  BY <3>1, <3>3, <3>4, FollowsAfter
  <2>2. CASE ~(a.crcErrors < MaxCrcErrors)
    <3>1. client' = [a EXCEPT !.crcErrors = 0, !.ack = NoTick] /\ SendInput(client')
      BY <1>6, <2>2 DEF CrcError
    <3>2. 0 \in 0 .. MaxCrcErrors
      BY <1>2
    <3>3. /\ client' \in ClientState
          /\ client'.snaps = a.snaps /\ client'.cur = a.cur /\ client'.prev = a.prev
          /\ client'.based = a.based /\ client'.ack = NoTick /\ client'.recvTick = a.recvTick
          /\ client'.received = a.received /\ client'.download = a.download
      BY <3>1, <3>2 DEF ClientState
    <3>4. Follows(a, client') /\ StoresOf(a, client', p)
      BY <1>1, <3>3, AckTakenBack
    <3> QED  BY <1>3, <3>1, <3>3, <3>4, FollowsAfter
  <2> QED  BY <2>1, <2>2
<1>7. CASE /\ ~BaseMissing(a, p) /\ (p.from # p.to => shot = p.to)
           /\ client' = Purged(b, p) \/ client' = Accept(b, p, shot)
           /\ up' = up
  <2>1. /\ b \in ClientState
        /\ b.snaps = a.snaps /\ b.cur = a.cur /\ b.prev = a.prev
        /\ b.based = a.based /\ b.ack = a.ack /\ b.recvTick = a.recvTick
        /\ b.received = a.received /\ b.download = a.download
    <3>1. (IF a.crcErrors > 0 THEN a.crcErrors - 1 ELSE 0) \in 0 .. MaxCrcErrors
      BY <1>2
    <3> QED  BY <3>1 DEF CrcFine, ClientState
  <2>2. Follows(a, b)
    BY <1>1, <2>1, SameListFollows
  <2>3. ClientOK(b) /\ Ready(b, p) /\ ~BaseMissing(b, p)
    BY <1>7, <2>1, <2>2 DEF Follows, Ready, BaseMissing
  <2>4. shot \in Shot /\ FineShot(b, p, shot)
    <3>1. CASE p.from # p.to
      BY <1>7, <3>1, PartType DEF FineShot
    <3>2. CASE p.from = p.to
      <4>1. EmptyShot \notin Shot
        BY DEF EmptyShot, Shot, Round
      <4>2. p.base # NoTick
        BY <3>2, <4>1, PartType
      <4>3. Has(b.snaps, p.base)
        BY <2>1, <2>3, <4>2, PartType, Ticks_Int DEF BaseMissing
      <4>4. shot = Get(b.snaps, p.base)
        BY <2>1, <3>2 DEF Unpack
      <4>5. Get(b.snaps, p.base) \in Shot
        BY <2>1, <4>3, ClientType, GetType
      <4> QED  BY <3>2, <4>3, <4>4, <4>5 DEF FineShot
    <3> QED  BY <3>1, <3>2
  <2> HIDE DEF shot
  <2>5. /\ Follows(b, Purged(b, p)) /\ StoresOf(b, Purged(b, p), p)
        /\ Purged(b, p) \in ClientState
    BY <2>1, <2>3, PurgedFollows DEF Follows
  <2>6. Follows(b, Accept(b, p, shot)) /\ StoresOf(b, Accept(b, p, shot), p)
    BY <2>1, <2>3, <2>4, AcceptFollows
  <2>7. Follows(b, client') /\ StoresOf(b, client', p)
    BY <1>7, <2>5, <2>6
  <2>8. client'.download = b.download
    <3>1. Purged(b, p).download = b.download
      BY <2>1 DEF Purged, ClientState
    <3>2. Accept(b, p, shot).download = Purged(b, p).download
      BY <2>5 DEF Accept, ClientState
    <3> QED  BY <1>7, <3>1, <3>2
  <2>9. Follows(a, client') /\ StoresOf(a, client', p)
    BY <2>1, <2>2, <2>7, FollowsAfter
  <2> QED  BY <1>7, <2>1, <2>8, <2>9, FollowsAfter
<1> QED  BY <1>4, <1>5, <1>6, <1>7 DEF ApplySnapshot

(* Every case of ReceivePart.                                               *)
LEMMA ReceiveFollows ==
  ASSUME ByState, NEW p \in down, 
         LET c == [client EXCEPT !.peer = p.ack]
             d == Collect(c, p)
         IN  \/ ~Wanted(c, p) /\ client' = c /\ up' = up
             \/ Wanted(c, p) /\ ~Complete(d, p) /\ client' = d /\ up' = up
             \/ Wanted(c, p) /\ Complete(d, p) /\ ApplySnapshot([d EXCEPT !.parts = {}], p)
  PROVE  /\ Follows(client, client') /\ StoresOf(client, client', p)
         /\ client'.download = client.download
         /\ up' \subseteq up \cup {Echo(client')}
<1> DEFINE c == [client EXCEPT !.peer = p.ack]
           d == Collect(c, p)
           a == [d EXCEPT !.parts = {}]
<1>1. /\ client \in ClientState /\ ClientOK(client) /\ p \in Part
      /\ p.base = NoTick => p.from = EmptyShot
  BY DEF ByState, TypeOK, DownOK
<1>2. /\ c \in ClientState /\ c.parts \subseteq Nat
      /\ c.snaps = client.snaps /\ c.cur = client.cur /\ c.prev = client.prev
      /\ c.based = client.based /\ c.ack = client.ack /\ c.recvTick = client.recvTick
      /\ c.received = client.received /\ c.download = client.download
  BY <1>1, PartType DEF ClientState
<1> HIDE DEF c
<1>3. /\ d \in ClientState
      /\ d.snaps = c.snaps /\ d.cur = c.cur /\ d.prev = c.prev
      /\ d.based = c.based /\ d.ack = c.ack /\ d.recvTick = p.tick
      /\ d.received = c.received /\ d.download = c.download
  <2>1. ((IF p.tick = c.recvTick THEN c.parts ELSE {}) \cup {p.part}) \in SUBSET Nat
    BY <1>1, <1>2, PartType
  <2>2. p.tick \in Tick
    BY <1>1, PartType
  <2> QED  BY <1>2, <2>1, <2>2, ZenonT(60) DEF Collect, ClientState
<1> HIDE DEF d
<1>4. /\ a \in ClientState
      /\ a.snaps = d.snaps /\ a.cur = d.cur /\ a.prev = d.prev
      /\ a.based = d.based /\ a.ack = d.ack /\ a.recvTick = p.tick
      /\ a.received = d.received /\ a.download = d.download
  BY <1>3 DEF ClientState
<1> HIDE DEF a
<1>5. CASE ~Wanted(c, p) /\ client' = c /\ up' = up
  BY <1>1, <1>2, <1>5, SameListFollows
<1>6. ASSUME Wanted(c, p)  PROVE Wanted(client, p)
  BY <1>2, <1>6 DEF Wanted
<1>7. CASE Wanted(c, p) /\ client' = d /\ up' = up
  BY <1>1, <1>2, <1>3, <1>6, <1>7, CollectReady
<1>8. CASE Wanted(c, p) /\ ApplySnapshot(a, p)
  <2>1. Follows(client, a) /\ Ready(a, p)
    BY <1>1, <1>2, <1>3, <1>4, <1>6, <1>8, CollectReady
  <2> QED  BY <1>1, <1>2, <1>3, <1>4, <1>8, <2>1, ApplyFollows
<1> QED  BY <1>5, <1>7, <1>8 DEF c, d, a

LEMMA ReceivePartStep ==
  ASSUME ByState, ReceivePart
  PROVE  ByState'
<1>1. PICK p \in down :
        /\ down' \in {down, down \ {p}}
        /\ LET c == [client EXCEPT !.peer = p.ack]
               d == Collect(c, p)
           IN  \/ ~Wanted(c, p) /\ client' = c /\ up' = up
               \/ Wanted(c, p) /\ ~Complete(d, p) /\ client' = d /\ up' = up
               \/ Wanted(c, p) /\ Complete(d, p) /\ ApplySnapshot([d EXCEPT !.parts = {}], p)
        /\ UNCHANGED <<server, toClient, toServer, built>>
  BY DEF ReceivePart
<1>2. /\ Follows(client, client') /\ StoresOf(client, client', p)
      /\ client'.download = client.download
      /\ up' \subseteq up \cup {Echo(client')}
  BY <1>1, ReceiveFollows
<1>3. down' \subseteq down
  BY <1>1
<1> QED  BY <1>1, <1>2, <1>3, DataStep

(* The next holder is there, and it is later.                               *)
LEMMA ShowNextFollows ==
  ASSUME ByState, ShowNext
  PROVE  /\ Follows(client, client') /\ \A p : StoresOf(client, client', p)
         /\ client'.download = client.download /\ client'.snaps = client.snaps
<1> DEFINE n == Len(client.snaps)
           k == At(client.snaps, client.cur)
<1>1. /\ client.received >= 3 /\ client.cur # client.snaps[n].tick
      /\ client' = [client EXCEPT !.prev = client.cur, !.cur = client.snaps[k + 1].tick]
  BY DEF ShowNext, NextHolder
<1>2. /\ client \in ClientState /\ ClientOK(client) /\ client.snaps \in Holders
      /\ n \in Nat /\ DOMAIN client.snaps = 1 .. n /\ Increasing(client.snaps)
  BY ClientType, HolderType DEF ByState, TypeOK, ClientOK
<1>3. client.cur # NoTick /\ Has(client.snaps, client.cur)
  BY <1>1, <1>2, ClientType DEF ClientOK
<1>4. k \in 1 .. n /\ client.snaps[k].tick = client.cur
  BY <1>2, <1>3, AtFinds
<1> HIDE DEF n, k
<1>5. k + 1 \in 1 .. n /\ k < k + 1
  BY <1>1, <1>2, <1>4
<1>6. /\ client.snaps[k + 1].tick \in Tick /\ client.snaps[k + 1].tick # NoTick
      /\ client.cur < client.snaps[k + 1].tick
      /\ Has(client.snaps, client.snaps[k + 1].tick)
  <2>1. client.snaps[k + 1].tick \in Tick
    BY <1>2, <1>5, HolderType
  <2>2. client.cur < client.snaps[k + 1].tick
    BY <1>2, <1>4, <1>5 DEF Increasing
  <2> QED  BY <1>2, <1>5, <2>1, <2>2, Ticks_Int DEF Has, Ticks
<1>7. /\ client' \in ClientState
      /\ client'.snaps = client.snaps /\ client'.cur = client.snaps[k + 1].tick
      /\ client'.prev = client.cur /\ client'.based = client.based
      /\ client'.ack = client.ack /\ client'.recvTick = client.recvTick
      /\ client'.received = client.received /\ client'.download = client.download
  BY <1>1, <1>2, <1>6 DEF ClientState
<1>8. ClientOK(client')
  BY <1>2, <1>3, <1>6, <1>7 DEF ClientOK
<1>9. \A t \in Int : Holds(client, t) => Holds(client', t)
  BY <1>7 DEF Holds
<1>10. \A p : StoresOf(client, client', p)
  BY <1>7 DEF StoresOf
<1> QED  BY <1>6, <1>7, <1>8, <1>9, <1>10 DEF Follows

LEMMA ShowNextStep ==
  ASSUME ByState, ShowNext
  PROVE  ByState'
<1>1. /\ Follows(client, client') /\ \A p : StoresOf(client, client', p)
      /\ client'.download = client.download /\ client'.snaps = client.snaps
  BY ShowNextFollows
<1>2. client.received \in 0 .. 3 /\ client.received >= 3
  BY ClientType DEF ShowNext, ByState, TypeOK
<1>3. UNCHANGED <<server, toClient, toServer, down, up, built>>
  BY DEF ShowNext
<1>4. client.received >= 1
  BY <1>2
<1> QED  BY <1>1, <1>3, <1>4, DataStep

LEMMA PredictNextFollows ==
  ASSUME ByState, PredictNext
  PROVE  /\ Follows(client, client') /\ \A p : StoresOf(client, client', p)
         /\ client'.download = client.download /\ client'.snaps = client.snaps
         /\ ShownBy(client') = ShownBy(client)
<1>1. client' = [client EXCEPT !.predicts = TRUE] /\ client \in ClientState /\ ClientOK(client)
  BY DEF PredictNext, ByState, TypeOK
<1>2. /\ client' \in ClientState
      /\ client'.snaps = client.snaps /\ client'.cur = client.cur
      /\ client'.prev = client.prev /\ client'.based = client.based
      /\ client'.ack = client.ack /\ client'.recvTick = client.recvTick
      /\ client'.received = client.received /\ client'.download = client.download
  BY <1>1 DEF ClientState
<1>3. ShownBy(client') = ShownBy(client)
  BY <1>2 DEF ShownBy
<1> QED  BY <1>1, <1>2, <1>3, SameListFollows

LEMMA PredictNextStep ==
  ASSUME ByState, PredictNext
  PROVE  ByState'
<1>1. /\ Follows(client, client') /\ \A p : StoresOf(client, client', p)
      /\ client'.download = client.download /\ client'.snaps = client.snaps
  BY PredictNextFollows
<1>2. client.received \in 0 .. 3 /\ client.received >= 3
  BY ClientType DEF PredictNext, ByState, TypeOK
<1>3. UNCHANGED <<server, toClient, toServer, down, built>> /\ SendInput(client')
  BY DEF PredictNext
<1>4. up' \subseteq up \cup {Echo(client')}
  BY <1>3 DEF SendInput, SendUp, Echo
<1>5. client.received >= 1
  BY <1>2
<1> QED  BY <1>1, <1>3, <1>4, <1>5, DataStep

LEMMA LoseStep ==
  ASSUME ByState, Lose
  PROVE  ByState'
<1>1. /\ down' \subseteq down /\ up' \subseteq up
      /\ UNCHANGED <<server, client, toClient, toServer, built>>
  BY DEF Lose
<1>2. TypeOK'
  BY <1>1 DEF ByState, TypeOK
<1>3. ClientOK(client)' /\ ServerOK(server)' /\ DownOK(down)'
  BY <1>1 DEF ByState, ClientOK, ServerOK, DownOK
<1>4. ASSUME OneRound
      PROVE  OneRound'
  <2>1. Token'
    BY <1>1, <1>4 DEF OneRound, Token
  <2> QED  BY <1>1, <1>4, <2>1 DEF OneRound, Contents, HeldOrOlder
<1> QED  BY <1>2, <1>3, <1>4 DEF ByState
-----------------------------------------------------------------------------
(* The invariant.                                                           *)
LEMMA InitIInv ==
  Init => IInv
<1> SUFFICES ASSUME Init  PROVE ByState
  BY InvByState
<1>1. /\ 0 \in Tick /\ NoTick \in Tick \cup {NoTick} /\ <<>> \in Holders
      /\ {} \in SUBSET Nat /\ 0 \in 0 .. 3 /\ FALSE \in BOOLEAN
      /\ 0 \in 0 .. MaxCrcErrors /\ 0 \in Round /\ 0 \in Nat
  BY Ticks_Int, EmptyList, SnapAssumption DEF Round
<1>2. server \in ServerState /\ server.snaps = <<>> /\ server.state = "connecting"
      /\ server.acked = NoTick
  BY <1>1 DEF Init, ServerState
<1>3. /\ client \in ClientState /\ client.snaps = <<>> /\ client.received = 0
      /\ client.cur = NoTick /\ client.prev = NoTick /\ client.ack = NoTick
      /\ client.recvTick = 0 /\ ~client.download
  BY <1>1 DEF Init, ClientState
<1>4. /\ toClient \in Seq(DownMessage) /\ Len(toClient) = 1
      /\ toServer \in Seq(UpMessage) /\ Len(toServer) = 0
  <2>1. [kind |-> "map_change", round |-> 0, ack |-> 0] \in DownMessage
    BY <1>1 DEF DownMessage
  <2> HIDE DEF DownMessage
  <2>2. \A m \in DownMessage : <<m>> \in Seq(DownMessage) /\ Len(<<m>>) = 1
    OBVIOUS
  <2> QED  BY <2>1, <2>2, EmptySeq DEF Init
<1>5. down = {} /\ up = {} /\ built = {}
  BY DEF Init
<1>6. TypeOK
  BY <1>2, <1>3, <1>4, <1>5 DEF TypeOK
<1>7. DOMAIN client.snaps = {} /\ DOMAIN server.snaps = {}
  BY <1>2, <1>3, EmptyList
<1>8. ClientOK(client) /\ ServerOK(server) /\ DownOK(down)
  BY <1>3, <1>5, <1>7, Ticks_Int DEF ClientOK, ServerOK, DownOK, Increasing
<1>9. OneRound
  BY <1>2, <1>3, <1>4, <1>5, <1>7 DEF OneRound, Token, Contents, HeldOrOlder
<1> QED  BY <1>6, <1>8, <1>9 DEF ByState

LEMMA NextIInv ==
  IInv /\ [Next]_vars => IInv'
<1> SUFFICES ASSUME ByState, [Next]_vars  PROVE ByState'
  BY InvByState, InvByStatePrime
<1>1. CASE TickOnly
  BY <1>1, TickOnlyStep
<1>2. CASE DoSnapshot
  BY <1>2, DoSnapshotStep
<1>3. CASE OnInput
  BY <1>3, OnInputStep
<1>4. CASE MapReload
  BY <1>4, MapReloadStep
<1>5. CASE OnReady
  BY <1>5, OnReadyStep
<1>6. CASE OnStartInfo
  BY <1>6, OnStartInfoStep
<1>7. CASE OnEnterGameMsg
  BY <1>7, OnEnterGameMsgStep
<1>8. CASE OnMapChange
  BY <1>8, OnMapChangeStep
<1>9. CASE FinishMapDownload
  BY <1>9, FinishMapDownloadStep
<1>10. CASE OnConReady
  BY <1>10, OnConReadyStep
<1>11. CASE EnterGame
  BY <1>11, EnterGameStep
<1>12. CASE ReceivePart
  BY <1>12, ReceivePartStep
<1>13. CASE ShowNext
  BY <1>13, ShowNextStep
<1>14. CASE PredictNext
  BY <1>14, PredictNextStep
<1>15. CASE Lose
  BY <1>15, LoseStep
<1>16. CASE UNCHANGED vars
  BY <1>16 DEF vars, ByState, TypeOK, ClientOK, ServerOK, DownOK, OneRound, Token, Contents,
            HeldOrOlder
<1> QED  BY <1>1, <1>2, <1>3, <1>4, <1>5, <1>6, <1>7, <1>8, <1>9, <1>10, <1>11, <1>12,
            <1>13, <1>14, <1>15, <1>16 DEF Next

(* Whatever gets lost, repeated or overtaken, the invariant holds.          *)
THEOREM Invariance ==
  Spec => []IInv
<1>1. Init => IInv
  BY InitIInv
<1>2. IInv /\ [Next]_vars => IInv'
  BY NextIInv
<1> QED  BY <1>1, <1>2, PTL DEF Spec

(* The state keeps to its types.                                            *)
THEOREM TypeCorrect ==
  Spec => []TypeOK
<1>1. IInv => TypeOK
  BY DEF IInv
<1> QED  BY <1>1, Invariance, PTL

(* Both lists of snapshots are in the order of their ticks, in any order    *)
(* of arrival and through any number of map reloads.                        *)
THEOREM InOrder ==
  Spec => []StoredInOrder
<1>1. IInv => StoredInOrder
  BY DEF IInv
<1> QED  BY <1>1, Invariance, PTL

(* The client never follows a pointer to a snapshot it has freed.           *)
THEOREM PointersSafe ==
  Spec => []PointersStored
<1>1. IInv => PointersStored
  BY DEF IInv
<1> QED  BY <1>1, Invariance, PTL

(* Within a round no difference arrives that the client lacks the base of,  *)
(* unless an overtaken input had set the base back.                         *)
THEOREM BaseAtHand ==
  Spec => []BaseHeld
<1>1. IInv => BaseHeld
  BY DEF IInv
<1> QED  BY <1>1, Invariance, PTL

-----------------------------------------------------------------------------
(* Rounds stay apart, through any number of map reloads.                    *)
LEMMA RoundTypes ==
  ASSUME TypeOK
  PROVE  /\ server.heard \in Nat /\ server.peer \in Nat /\ server.round \in Int
         /\ server.isReady \in BOOLEAN
         /\ client.heard \in Nat /\ client.peer \in Nat /\ client.entered \in Int
         /\ toClient \in Seq(DownMessage)
         /\ \A p \in down : p \in Part /\ p.ack \in Nat /\ p.to.round \in Int
         /\ \A i \in DOMAIN toClient : toClient[i].ack \in Nat /\ toClient[i].round \in Int
<1>1. Round \subseteq Int
  BY DEF Round
<1>2. \A p \in down : p \in Part /\ p.ack \in Nat /\ p.to.round \in Int
  BY <1>1, PartType DEF TypeOK, Shot
<1>3. \A i \in DOMAIN toClient : toClient[i] \in DownMessage
  BY ElementOfSeq, LenProperties DEF TypeOK
<1>4. \A m \in DownMessage : m.ack \in Nat /\ m.round \in Int
  BY <1>1 DEF DownMessage
<1> QED  BY <1>1, <1>2, <1>3, <1>4 DEF TypeOK, ServerState, ClientState

LEMMA TailHas ==
  ASSUME NEW S, NEW q \in Seq(S), q # <<>>
  PROVE  /\ 1 \in DOMAIN q /\ Head(q) = q[1]
         /\ \A i \in DOMAIN Tail(q) : \E j \in DOMAIN q : Tail(q)[i] = q[j]
<1>1. /\ Len(q) \in Nat /\ Len(q) > 0 /\ DOMAIN q = 1 .. Len(q)
      /\ Tail(q) \in Seq(S) /\ Len(Tail(q)) = Len(q) - 1
      /\ \A i \in 1 .. Len(Tail(q)) : Tail(q)[i] = q[i + 1]
  BY HeadTailProperties, QueueTail, LenProperties
<1>2. DOMAIN Tail(q) = 1 .. Len(Tail(q))
  BY <1>1, LenProperties
<1>3. ASSUME NEW i \in DOMAIN Tail(q)  PROVE i + 1 \in DOMAIN q /\ Tail(q)[i] = q[i + 1]
  BY <1>1, <1>2, <1>3
<1>4. Head(q) = q[1]
  BY HeadTailProperties
<1> QED  BY <1>1, <1>3, <1>4

LEMMA AppendHas ==
  ASSUME NEW S, NEW q \in Seq(S), NEW m \in S
  PROVE  \A i \in DOMAIN Append(q, m) :
           Append(q, m)[i] = m \/ \E j \in DOMAIN q : Append(q, m)[i] = q[j]
<1> DEFINE more == Append(q, m)
<1>1. /\ more \in Seq(S) /\ Len(more) = Len(q) + 1 /\ Len(q) \in Nat
      /\ \A i \in 1 .. Len(q) : more[i] = q[i]
      /\ more[Len(q) + 1] = m
  BY AppendProperties, LenProperties
<1>2. DOMAIN more = 1 .. Len(q) + 1 /\ DOMAIN q = 1 .. Len(q)
  BY <1>1, LenProperties
<1> HIDE DEF more
<1>3. \A i \in DOMAIN more : more[i] = m \/ \E j \in DOMAIN q : more[i] = q[j]
  BY <1>1, <1>2
<1> QED  BY <1>3 DEF more

(* What a step that neither reloads nor enters may do to the rounds.        *)
SameRound ==
    /\ server'.round = server.round /\ server.heard <= server'.heard
    /\ server'.isReady => server.isReady
    /\ client'.entered = client.entered /\ client.peer <= client'.peer
    /\ \A p \in down' : p \in down
    /\ \A i \in DOMAIN toClient' :
         \/ \E j \in DOMAIN toClient : toClient'[i] = toClient[j]
         \/ toClient'[i].kind # "ready_to_enter" /\ toClient'[i].round = server.round

LEMMA SameRoundStep ==
  ASSUME TypeOK, TypeOK', RoundsApart, SameRound, NoOldRound'
  PROVE  RoundsApart'
<1>1. client'.entered <= server'.round
  BY DEF RoundsApart, SameRound
<1>2. \A i \in DOMAIN toClient' : toClient'[i].round <= server'.round
  BY RoundTypes DEF RoundsApart, SameRound
<1>3. ASSUME NEW p \in down'
      PROVE  /\ p.to.round <= server'.round /\ p.ack <= server'.heard
             /\ server'.isReady /\ p.to.round < server'.round => p.ack < server'.heard
             /\ p.to.round < client'.entered => p.ack < client'.peer
             /\ \A i \in DOMAIN toClient' :
                  toClient'[i].kind = "ready_to_enter" /\ p.to.round < toClient'[i].round
                    => p.ack < toClient'[i].ack
  <2>1. /\ p \in down /\ p.ack \in Nat /\ p.to.round \in Int
        /\ server.heard \in Nat /\ server'.heard \in Nat
        /\ client.peer \in Nat /\ client'.peer \in Nat
    BY RoundTypes, <1>3 DEF SameRound, TypeOK, ServerState, ClientState
  <2>2. /\ p.to.round <= server.round /\ p.ack <= server.heard
        /\ server.isReady /\ p.to.round < server.round => p.ack < server.heard
        /\ p.to.round < client.entered => p.ack < client.peer
    BY <2>1 DEF RoundsApart
  <2>3. ASSUME NEW i \in DOMAIN toClient', toClient'[i].kind = "ready_to_enter",
               p.to.round < toClient'[i].round
        PROVE  p.ack < toClient'[i].ack
    BY <2>1, <2>3 DEF RoundsApart, SameRound
  <2>4. server'.isReady /\ p.to.round < server'.round => p.ack < server'.heard
    BY <2>1, <2>2 DEF SameRound
  <2>5. p.to.round < client'.entered => p.ack < client'.peer
    BY <2>1, <2>2 DEF SameRound
  <2> QED  BY <2>1, <2>2, <2>3, <2>4, <2>5 DEF SameRound
<1> QED  BY <1>1, <1>2, <1>3 DEF RoundsApart

LEMMA ServerHearsRound ==
  ASSUME TypeOK, NEW kind, NEW s \in Hearing(server, client, toServer, kind)
  PROVE  /\ s \in ServerState /\ s.heard = server.heard + 1
         /\ s.round = server.round /\ s.isReady = server.isReady
<1>1. PICK ack \in 0 .. client.heard : s = [server EXCEPT !.heard = @ + 1, !.peer = ack]
  BY DEF Hearing
<1>2. server \in ServerState
  BY DEF TypeOK
<1> QED  BY <1>1, <1>2, ServerHears DEF ServerState

LEMMA ClientHearsRound ==
  ASSUME TypeOK, NEW kind, NEW c \in Hearing(client, server, toClient, kind)
  PROVE  /\ c \in ClientState /\ c.entered = client.entered /\ c.snaps = client.snaps
         /\ client.peer <= c.peer /\ Head(toClient).ack <= c.peer
         /\ Head(toClient).kind = kind
<1>1. PICK ack \in 0 .. server.heard :
        /\ c = [client EXCEPT !.heard = @ + 1, !.peer = ack]
        /\ Head(toClient).kind = kind /\ Head(toClient).ack <= ack /\ Feeds(client, ack)
  BY DEF Hearing
<1>2. client \in ClientState
  BY DEF TypeOK
<1> QED  BY <1>1, <1>2, ClientHears DEF ClientState, Feeds

(* The client's list and its round are as they were.                        *)
LEMMA SameRoundQuietStep ==
  ASSUME TypeOK, TypeOK', RoundsApart, SameRound, client'.snaps = client.snaps
  PROVE  RoundsApart'
<1>1. NoOldRound'
  BY DEF RoundsApart, NoOldRound, SameRound
<1> QED  BY <1>1, SameRoundStep

(* The client takes a message, and does not enter.                          *)
LEMMA ClientMessageStep ==
  ASSUME TypeOK, TypeOK', RoundsApart, NEW kind,
         NEW c \in Hearing(client, server, toClient, kind),
         client'.entered = c.entered, client'.snaps = c.snaps, client'.peer = c.peer,
         toClient' = Tail(toClient), UNCHANGED <<server, down>>
  PROVE  RoundsApart'
<1>1. /\ client'.entered = client.entered /\ client'.snaps = client.snaps
      /\ client.peer <= client'.peer /\ toClient # <<>>
  BY ClientHearsRound, ClientHears
<1>2. \A i \in DOMAIN toClient' : \E j \in DOMAIN toClient : toClient'[i] = toClient[j]
  BY <1>1, TailHas DEF TypeOK
<1>3. SameRound
  BY <1>1, <1>2, RoundTypes DEF SameRound
<1> QED  BY <1>1, <1>3, SameRoundQuietStep

(* The server takes a message, and makes nobody ready.                      *)
LEMMA ServerMessageStep ==
  ASSUME TypeOK, TypeOK', RoundsApart, NEW kind,
         NEW s \in Hearing(server, client, toServer, kind),
         server'.round = s.round, server'.heard = s.heard, server'.isReady = s.isReady,
         \/ toClient' = toClient
         \/ toClient' = Append(toClient, Vital("con_ready", s)),
         UNCHANGED <<client, down>>
  PROVE  RoundsApart'
<1>1. /\ s \in ServerState /\ server'.heard = server.heard + 1
      /\ server'.round = server.round /\ server'.isReady = server.isReady
  BY ServerHearsRound
<1>2. \A i \in DOMAIN toClient' :
        \/ \E j \in DOMAIN toClient : toClient'[i] = toClient[j]
        \/ toClient'[i].kind # "ready_to_enter" /\ toClient'[i].round = server.round
  <2>1. CASE toClient' = toClient
    BY <2>1
  <2>2. CASE toClient' = Append(toClient, Vital("con_ready", s))
    <3> DEFINE m == Vital("con_ready", s)
    <3>1. m \in DownMessage
      BY <1>1, VitalType
    <3>2. m.kind # "ready_to_enter" /\ m.round = server.round
      BY DEF Vital
    <3> HIDE DEF m
    <3>3. \A i \in DOMAIN toClient' :
            toClient'[i] = m \/ \E j \in DOMAIN toClient : toClient'[i] = toClient[j]
      BY <2>2, <3>1, AppendHas DEF TypeOK, m
    <3> QED  BY <3>2, <3>3
  <2> QED  BY <2>1, <2>2
<1>3. SameRound
  BY <1>1, <1>2, RoundTypes DEF SameRound
<1> QED  BY <1>3, SameRoundQuietStep

(* The start info makes the player ready: the server has taken in one more  *)
(* message than whatever it sent in the rounds before says.                 *)
LEMMA StartInfoApart ==
  ASSUME TypeOK, TypeOK', RoundsApart, OnStartInfo
  PROVE  RoundsApart'
<1>1. PICK s \in Hearing(server, client, toServer, "start_info") :
        LET first == s.state # "connecting" /\ ~s.isReady
        IN  /\ server' = IF first THEN [s EXCEPT !.isReady = TRUE] ELSE s
            /\ toClient' = IF first THEN Append(toClient, Vital("ready_to_enter", s))
                           ELSE toClient
            /\ UNCHANGED <<client, down>>
  BY DEF OnStartInfo
<1>2. /\ s \in ServerState /\ s.heard = server.heard + 1
      /\ s.round = server.round /\ s.isReady = server.isReady
  BY ServerHearsRound
<1>3. CASE ~(s.state # "connecting" /\ ~s.isReady)
  BY <1>1, <1>3, ServerMessageStep
<1>4. CASE s.state # "connecting" /\ ~s.isReady
  <2> DEFINE m == Vital("ready_to_enter", s)
  <2>1. /\ server' = [s EXCEPT !.isReady = TRUE] /\ toClient' = Append(toClient, m)
        /\ client' = client /\ down' = down
    BY <1>1, <1>4
  <2>2. m \in DownMessage
    BY <1>2, VitalType
  <2>3. m.round = server.round /\ m.ack = server.heard + 1
    BY <1>2 DEF Vital
  <2>4. server'.round = server.round /\ server'.heard = server.heard + 1
    BY <1>2, <2>1 DEF ServerState
  <2> HIDE DEF m
  <2>5. \A i \in DOMAIN toClient' :
          toClient'[i] = m \/ \E j \in DOMAIN toClient : toClient'[i] = toClient[j]
    BY <2>1, <2>2, AppendHas DEF TypeOK
  <2>6. NoOldRound' /\ client'.entered <= server'.round
    BY <2>1, <2>4 DEF RoundsApart, NoOldRound
  <2>7. \A i \in DOMAIN toClient' : toClient'[i].round <= server'.round
    BY <2>3, <2>4, <2>5, RoundTypes DEF RoundsApart
  <2>8. ASSUME NEW p \in down'
        PROVE  /\ p.to.round <= server'.round /\ p.ack <= server'.heard
               /\ server'.isReady /\ p.to.round < server'.round => p.ack < server'.heard
               /\ p.to.round < client'.entered => p.ack < client'.peer
               /\ \A i \in DOMAIN toClient' :
                    toClient'[i].kind = "ready_to_enter" /\ p.to.round < toClient'[i].round
                      => p.ack < toClient'[i].ack
    <3>1. p \in down /\ p.ack \in Nat /\ server.heard \in Nat /\ p.ack <= server.heard
      BY <2>1, <2>8, RoundTypes DEF RoundsApart
    <3>2. p.ack < server'.heard
      BY <2>4, <3>1
    <3>3. ASSUME NEW i \in DOMAIN toClient', toClient'[i].kind = "ready_to_enter",
                 p.to.round < toClient'[i].round
          PROVE  p.ack < toClient'[i].ack
      BY <2>3, <2>5, <3>1, <3>3 DEF RoundsApart
    <3> QED  BY <2>1, <2>4, <3>1, <3>2, <3>3 DEF RoundsApart
  <2> QED  BY <2>6, <2>7, <2>8 DEF RoundsApart
<1> QED  BY <1>3, <1>4

(* The client enters: the answer that lets it in says more than whatever    *)
(* the server sent in the rounds before.                                    *)
LEMMA EnterGameApart ==
  ASSUME TypeOK, TypeOK', RoundsApart, EnterGame
  PROVE  RoundsApart'
<1>1. PICK c \in Hearing(client, server, toClient, "ready_to_enter") :
        /\ client' = Entered(c, Head(toClient).round)
        /\ toClient' = Tail(toClient)
        /\ UNCHANGED <<server, down>>
  BY DEF EnterGame
<1> DEFINE m == Head(toClient)
<1>2. /\ c \in ClientState /\ client.peer <= c.peer /\ m.ack <= c.peer
      /\ m.kind = "ready_to_enter" /\ toClient # <<>>
  BY ClientHearsRound, ClientHears
<1>3. client'.snaps = <<>> /\ client'.entered = m.round /\ client'.peer = c.peer
  BY <1>1, <1>2 DEF Entered, ClientState
<1>4. /\ 1 \in DOMAIN toClient /\ m = toClient[1]
      /\ \A i \in DOMAIN toClient' : \E j \in DOMAIN toClient : toClient'[i] = toClient[j]
  BY <1>1, <1>2, TailHas DEF TypeOK
<1> HIDE DEF m
<1>5. NoOldRound'
  BY <1>3, EmptyList DEF NoOldRound
<1>6. client'.entered <= server'.round
  BY <1>1, <1>3, <1>4 DEF RoundsApart
<1>7. \A i \in DOMAIN toClient' : toClient'[i].round <= server'.round
  BY <1>1, <1>4 DEF RoundsApart
<1>8. ASSUME NEW p \in down'
      PROVE  /\ p.to.round <= server'.round /\ p.ack <= server'.heard
             /\ server'.isReady /\ p.to.round < server'.round => p.ack < server'.heard
             /\ p.to.round < client'.entered => p.ack < client'.peer
             /\ \A i \in DOMAIN toClient' :
                  toClient'[i].kind = "ready_to_enter" /\ p.to.round < toClient'[i].round
                    => p.ack < toClient'[i].ack
  <2>1. p \in down /\ p.ack \in Nat /\ c.peer \in Nat /\ m.ack \in Nat
    BY <1>1, <1>2, <1>4, <1>8, RoundTypes DEF ClientState
  <2>2. p.to.round < client'.entered => p.ack < client'.peer
    BY <1>2, <1>3, <1>4, <2>1 DEF RoundsApart
  <2>3. \A i \in DOMAIN toClient' :
          toClient'[i].kind = "ready_to_enter" /\ p.to.round < toClient'[i].round
            => p.ack < toClient'[i].ack
    BY <1>4, <2>1 DEF RoundsApart
  <2> QED  BY <1>1, <2>1, <2>2, <2>3 DEF RoundsApart
<1> QED  BY <1>5, <1>6, <1>7, <1>8 DEF RoundsApart

(* Nobody is ready in the new round.                                        *)
LEMMA MapReloadApart ==
  ASSUME TypeOK, TypeOK', RoundsApart, MapReload
  PROVE  RoundsApart'
<1> DEFINE m == [kind |-> "map_change", round |-> server.round + 1, ack |-> server.heard]
<1>1. /\ server'.round = server.round + 1 /\ server'.isReady = FALSE
      /\ server'.heard = server.heard
      /\ toClient' = Append(toClient, m) /\ client' = client /\ down' = down
  BY DEF MapReload, TypeOK, ServerState
<1>2. server'.round \in Round /\ server.heard \in Nat
  BY DEF TypeOK, ServerState
<1>3. m \in DownMessage /\ m.kind # "ready_to_enter" /\ m.round = server'.round
  BY <1>1, <1>2 DEF DownMessage
<1> HIDE DEF m
<1>4. \A i \in DOMAIN toClient' :
        toClient'[i] = m \/ \E j \in DOMAIN toClient : toClient'[i] = toClient[j]
  BY <1>1, <1>3, AppendHas DEF TypeOK
<1>5. NoOldRound' /\ client'.entered <= server'.round
  BY <1>1, RoundTypes DEF RoundsApart, NoOldRound
<1>6. \A i \in DOMAIN toClient' : toClient'[i].round <= server'.round
  BY <1>1, <1>3, <1>4, RoundTypes DEF RoundsApart
<1>7. ASSUME NEW p \in down'
      PROVE  /\ p.to.round <= server'.round /\ p.ack <= server'.heard
             /\ server'.isReady /\ p.to.round < server'.round => p.ack < server'.heard
             /\ p.to.round < client'.entered => p.ack < client'.peer
             /\ \A i \in DOMAIN toClient' :
                  toClient'[i].kind = "ready_to_enter" /\ p.to.round < toClient'[i].round
                    => p.ack < toClient'[i].ack
  <2>1. p \in down /\ p.to.round \in Int /\ server.round \in Int
    BY <1>1, <1>7, RoundTypes
  <2>2. p.to.round <= server'.round /\ p.ack <= server'.heard
    BY <1>1, <2>1 DEF RoundsApart
  <2>3. \A i \in DOMAIN toClient' :
          toClient'[i].kind = "ready_to_enter" /\ p.to.round < toClient'[i].round
            => p.ack < toClient'[i].ack
    BY <1>3, <1>4, <2>1 DEF RoundsApart
  <2> QED  BY <1>1, <2>1, <2>2, <2>3 DEF RoundsApart
<1> QED  BY <1>5, <1>6, <1>7 DEF RoundsApart

(* What is sent belongs to the server's round.                              *)
LEMMA DoSnapshotApart ==
  ASSUME TypeOK, TypeOK', RoundsApart, DoSnapshot
  PROVE  RoundsApart'
<1> DEFINE tick  == server.tick + 1
           snaps == Stored(server, tick)
           base  == BaseFor(server, snaps)
<1>1. /\ \E rate : server' = [server EXCEPT !.tick = tick, !.snaps = snaps, !.rate = rate]
      /\ UNCHANGED <<client, toClient>>
  BY DEF DoSnapshot
<1>2. PICK n \in 1 .. MaxParts :
        \E sent \in SUBSET PartsOf(server, tick, base, snaps, n) : down' = down \cup sent
  BY DEF DoSnapshot, SendDown
<1>3. PICK sent \in SUBSET PartsOf(server, tick, base, snaps, n) : down' = down \cup sent
  BY <1>2
<1>4. \A p \in sent : p.to.round = server.round /\ p.ack = server.heard
  BY DEF PartsOf, ShotAt
<1> HIDE DEF tick, snaps, base
<1>5. /\ server'.round = server.round /\ server'.heard = server.heard
      /\ server'.isReady = server.isReady /\ client' = client /\ toClient' = toClient
  BY <1>1 DEF TypeOK, ServerState
<1>6. NoOldRound' /\ client'.entered <= server'.round
  BY <1>5 DEF RoundsApart, NoOldRound
<1>7. \A i \in DOMAIN toClient' : toClient'[i].round <= server'.round
  BY <1>5 DEF RoundsApart
<1>8. ASSUME NEW p \in down'
      PROVE  /\ p.to.round <= server'.round /\ p.ack <= server'.heard
             /\ server'.isReady /\ p.to.round < server'.round => p.ack < server'.heard
             /\ p.to.round < client'.entered => p.ack < client'.peer
             /\ \A i \in DOMAIN toClient' :
                  toClient'[i].kind = "ready_to_enter" /\ p.to.round < toClient'[i].round
                    => p.ack < toClient'[i].ack
  <2>1. CASE p \in down
    BY <1>5, <2>1 DEF RoundsApart
  <2>2. CASE p \in sent
    <3>1. p.to.round = server.round /\ p.ack = server.heard
      BY <1>4, <2>2
    <3>2. /\ server.round \in Int /\ server.heard \in Nat /\ client.entered \in Int
          /\ client.entered <= server.round
          /\ \A i \in DOMAIN toClient : toClient[i].round \in Int /\ toClient[i].round <= server.round
      BY RoundTypes DEF RoundsApart
    <3> QED  BY <1>5, <3>1, <3>2
  <2> QED  BY <1>3, <1>8, <2>1, <2>2
<1> QED  BY <1>6, <1>7, <1>8 DEF RoundsApart

(* The round of the client and what its connection has seen.                *)
Standing(c) == <<c.entered, c.peer>>

LEMMA ApplyStands ==
  ASSUME NEW p, NEW a \in ClientState, ApplySnapshot(a, p)
  PROVE  Standing(client') = Standing(a)
<1>1. \A c \in ClientState : \A x : /\ Standing([c EXCEPT !.crcErrors = x]) = Standing(c)
                                    /\ Standing([c EXCEPT !.ack = x]) = Standing(c)
  BY DEF Standing, ClientState
<1>2. CASE ForceResync(a)
  BY <1>1, <1>2 DEF ForceResync
<1>3. CASE client' = CrcError(a)
  <2>1. CASE a.crcErrors < MaxCrcErrors
    <3>1. client' = [a EXCEPT !.crcErrors = a.crcErrors + 1]
      BY <1>3, <2>1 DEF CrcError
    <3> QED  BY <1>1, <3>1
  <2>2. CASE ~(a.crcErrors < MaxCrcErrors)
    <3>1. client' = [a EXCEPT !.crcErrors = 0, !.ack = NoTick]
      BY <1>3, <2>2 DEF CrcError
    <3> QED  BY <3>1 DEF Standing, ClientState
  <2> QED  BY <2>1, <2>2
<1>4. CASE client' = Purged(CrcFine(a), p) \/ \E shot : client' = Accept(CrcFine(a), p, shot)
  <2> DEFINE b == CrcFine(a)
             d == Purged(b, p)
  <2>1. Standing(b) = Standing(a) /\ DOMAIN b = DOMAIN a
    BY <1>1 DEF CrcFine
  <2>2. {"entered", "peer"} \subseteq DOMAIN a
    BY DEF ClientState
  <2> HIDE DEF b
  <2>3. Standing(d) = Standing(b) /\ DOMAIN d = DOMAIN b
    BY <2>1, <2>2 DEF Purged, Standing
  <2>4. ASSUME NEW shot  PROVE Standing(Accept(b, p, shot)) = Standing(d)
    <3> HIDE DEF d
    <3>1. Accept(b, p, shot) = LET snaps  == Add(d.snaps, p.tick, shot)
                                   second == b.received = 1
          IN  [d EXCEPT !.snaps = snaps, !.ack = p.tick,
                  !.received = IF @ < 3 THEN @ + 1 ELSE 3,
                  !.prev = IF second THEN Head(snaps).tick ELSE @,
                  !.cur = IF second THEN p.tick ELSE @,
                  !.online = @ \/ second]
      BY DEF Accept, d
    <3> QED  BY <2>1, <2>2, <2>3, <3>1 DEF Standing
  <2> QED  BY <1>4, <2>1, <2>3, <2>4 DEF b
<1>5. CASE client' = a
  BY <1>5
<1> DEFINE shot == Unpack(Get(a.snaps, p.base), p)
<1>6. \/ ForceResync(a) \/ client' = a \/ client' = CrcError(a)
      \/ client' = Purged(CrcFine(a), p) \/ client' = Accept(CrcFine(a), p, shot)
  BY Zenon DEF ApplySnapshot
<1> QED  BY <1>2, <1>3, <1>4, <1>5, <1>6

(* No part moves the client to another round.                               *)
LEMMA ReceiveStands ==
  ASSUME client \in ClientState, NEW p \in Part,
         LET c == [client EXCEPT !.peer = p.ack]
             d == Collect(c, p)
         IN  \/ ~Wanted(c, p) /\ client' = c /\ up' = up
             \/ Wanted(c, p) /\ ~Complete(d, p) /\ client' = d /\ up' = up
             \/ Wanted(c, p) /\ Complete(d, p) /\ ApplySnapshot([d EXCEPT !.parts = {}], p)
  PROVE  client'.entered = client.entered /\ client'.peer = p.ack
<1> DEFINE c == [client EXCEPT !.peer = p.ack]
           d == Collect(c, p)
           a == [d EXCEPT !.parts = {}]
<1>1. c \in ClientState /\ c.entered = client.entered /\ c.peer = p.ack
  BY PartType DEF ClientState
<1> HIDE DEF c
<1>2. Standing(d) = Standing(c) /\ Standing(a) = Standing(c) /\ a \in ClientState
  <2>1. p.tick \in Tick /\ p.part \in Nat /\ c.parts \subseteq Nat
    BY <1>1, PartType DEF ClientState
  <2>2. ((IF p.tick = c.recvTick THEN c.parts ELSE {}) \cup {p.part}) \in SUBSET Nat
    BY <2>1
  <2>3. /\ d \in ClientState
        /\ d.entered = c.entered /\ d.peer = c.peer
    BY <1>1, <2>1, <2>2, ZenonT(60) DEF Collect, ClientState
  <2> HIDE DEF d
  <2>4. a \in ClientState /\ a.entered = d.entered /\ a.peer = d.peer
    BY <2>3 DEF ClientState
  <2> QED  BY <2>3, <2>4 DEF Standing
<1> HIDE DEF d, a
<1>3. Standing(client') = Standing(c)
  BY <1>2, ApplyStands DEF c, d, a
<1> QED  BY <1>1, <1>3 DEF Standing

(* A part the client takes acknowledges enough to be of the client's round. *)
LEMMA ReceivePartApart ==
  ASSUME ByState, TypeOK', RoundsApart, ReceivePart
  PROVE  RoundsApart'
<1>1. PICK p \in down :
        /\ Feeds(client, p.ack)
        /\ down' \in {down, down \ {p}}
        /\ LET c == [client EXCEPT !.peer = p.ack]
               d == Collect(c, p)
           IN  \/ ~Wanted(c, p) /\ client' = c /\ up' = up
               \/ Wanted(c, p) /\ ~Complete(d, p) /\ client' = d /\ up' = up
               \/ Wanted(c, p) /\ Complete(d, p) /\ ApplySnapshot([d EXCEPT !.parts = {}], p)
        /\ UNCHANGED <<server, toClient, toServer, built>>
  BY DEF ReceivePart
<1>2. StoresOf(client, client', p)
  BY <1>1, ReceiveFollows
<1>3. TypeOK /\ client \in ClientState /\ p \in Part
  BY DEF ByState, TypeOK
<1>4. client'.entered = client.entered /\ client'.peer = p.ack
  BY <1>1, <1>3, ReceiveStands
<1>5. ASSUME NEW i \in DOMAIN client'.snaps
      PROVE  client'.snaps[i].shot.round >= client'.entered
  <2>1. CASE \E j \in DOMAIN client.snaps : client'.snaps[i] = client.snaps[j]
    BY <1>4, <2>1 DEF RoundsApart, NoOldRound
  <2>2. CASE \E shot \in Shot : client'.snaps[i] = Holder(p.tick, shot) /\ FineShot(client, p, shot)
    <3>1. PICK shot \in Shot :
            client'.snaps[i] = Holder(p.tick, shot) /\ FineShot(client, p, shot)
      BY <2>2
    <3>2. client'.snaps[i].shot = shot
      BY <3>1 DEF Holder
    <3>3. CASE shot = p.to
      <4>1. ~(p.to.round < client.entered)
        BY <1>1, <1>3, RoundTypes, SMTT(60) DEF RoundsApart, Feeds
      <4> QED  BY <1>1, <1>3, <1>4, <3>2, <3>3, <4>1, RoundTypes
    <3>4. CASE Has(client.snaps, p.base) /\ shot = Get(client.snaps, p.base)
      <4>1. PICK j \in DOMAIN client.snaps : client.snaps[j] = Holder(p.base, shot)
        BY <1>3, <3>4, ClientType, GetType
      <4>2. client.snaps[j].shot = shot
        BY <4>1 DEF Holder
      <4> QED  BY <1>4, <3>2, <4>2 DEF RoundsApart, NoOldRound
    <3> QED  BY <3>1, <3>3, <3>4 DEF FineShot
  <2> QED  BY <1>2, <2>1, <2>2 DEF StoresOf
<1>6. NoOldRound'
  BY <1>5 DEF NoOldRound
<1>7. SameRound
  BY <1>1, <1>3, <1>4, RoundTypes DEF SameRound, Feeds
<1> QED  BY <1>3, <1>6, <1>7, SameRoundStep

LEMMA NextApart ==
  ASSUME ByState, TypeOK', RoundsApart, Next
  PROVE  RoundsApart'
<1>1. TypeOK /\ client \in ClientState /\ server \in ServerState
  BY DEF ByState, TypeOK
<1>2. CASE TickOnly
  <2>1. SameRound /\ client' = client
    BY <1>1, <1>2, RoundTypes DEF TickOnly, SameRound, ServerState
  <2> QED  BY <1>1, <2>1, SameRoundQuietStep
<1>3. CASE OnInput
  <2>1. SameRound /\ client' = client
    BY <1>1, <1>3, RoundTypes DEF OnInput, SameRound, ServerState
  <2> QED  BY <1>1, <2>1, SameRoundQuietStep
<1>4. CASE OnReady
  <2>1. PICK s \in Hearing(server, client, toServer, "ready") :
          /\ server' = IF s.state = "connecting" THEN [s EXCEPT !.state = "ready"] ELSE s
          /\ toClient' = Append(toClient, Vital("con_ready", s))
          /\ UNCHANGED <<client, down>>
    BY <1>4 DEF OnReady
  <2>2. server'.round = s.round /\ server'.heard = s.heard /\ server'.isReady = s.isReady
    BY <1>1, <2>1, ServerHearsRound DEF ServerState
  <2> QED  BY <1>1, <2>1, <2>2, ServerMessageStep
<1>5. CASE OnEnterGameMsg
  <2>1. PICK s \in Hearing(server, client, toServer, "enter_game") :
          /\ server' = IF s.state = "ready" /\ s.isReady THEN [s EXCEPT !.state = "ingame"]
                       ELSE s
          /\ UNCHANGED <<client, toClient, down>>
    BY <1>5 DEF OnEnterGameMsg
  <2>2. server'.round = s.round /\ server'.heard = s.heard /\ server'.isReady = s.isReady
    BY <1>1, <2>1, ServerHearsRound DEF ServerState
  <2> QED  BY <1>1, <2>1, <2>2, ServerMessageStep
<1>6. CASE OnMapChange
  <2>1. PICK c \in Hearing(client, server, toClient, "map_change") :
          /\ toClient' = Tail(toClient)
          /\ \/ client' = [c EXCEPT !.online = FALSE, !.download = TRUE]
             \/ client' = Loaded(c)
          /\ UNCHANGED <<server, down>>
    BY <1>6 DEF OnMapChange
  <2>2. c \in ClientState
    BY <1>1, ClientHearsRound
  <2>3. CASE client' = [c EXCEPT !.online = FALSE, !.download = TRUE]
    <3>1. client'.entered = c.entered /\ client'.snaps = c.snaps /\ client'.peer = c.peer
      BY <2>2, <2>3 DEF ClientState
    <3> QED  BY <1>1, <2>1, <3>1, ClientMessageStep
  <2>4. CASE client' = Loaded(c)
    <3>1. client'.entered = c.entered /\ client'.snaps = c.snaps /\ client'.peer = c.peer
      BY <2>2, <2>4 DEF Loaded, ClientState
    <3> QED  BY <1>1, <2>1, <3>1, ClientMessageStep
  <2> QED  BY <2>1, <2>3, <2>4
<1>7. CASE FinishMapDownload
  <2>1. /\ client'.entered = client.entered /\ client'.snaps = client.snaps
        /\ client'.peer = client.peer /\ UNCHANGED <<server, toClient, down>>
    BY <1>1, <1>7 DEF FinishMapDownload, Loaded, ClientState
  <2>2. SameRound
    BY <1>1, <2>1, RoundTypes DEF SameRound
  <2> QED  BY <1>1, <2>1, <2>2, SameRoundQuietStep
<1>8. CASE OnConReady
  <2>1. PICK c \in Hearing(client, server, toClient, "con_ready") :
          client' = c /\ toClient' = Tail(toClient) /\ UNCHANGED <<server, down>>
    BY <1>8 DEF OnConReady
  <2> QED  BY <1>1, <2>1, ClientMessageStep
<1>9. CASE ShowNext \/ PredictNext
  <2>1. /\ client'.entered = client.entered /\ client'.snaps = client.snaps
        /\ client'.peer = client.peer /\ UNCHANGED <<server, toClient, down>>
    BY <1>1, <1>9 DEF ShowNext, PredictNext, ClientState
  <2>2. SameRound
    BY <1>1, <2>1, RoundTypes DEF SameRound
  <2> QED  BY <1>1, <2>1, <2>2, SameRoundQuietStep
<1>10. CASE Lose
  <2>1. SameRound /\ client' = client
    BY <1>1, <1>10, RoundTypes DEF Lose, SameRound
  <2> QED  BY <1>1, <2>1, SameRoundQuietStep
<1> QED  BY <1>1, <1>2, <1>3, <1>4, <1>5, <1>6, <1>7, <1>8, <1>9, <1>10, StartInfoApart,
            EnterGameApart, MapReloadApart, DoSnapshotApart, ReceivePartApart DEF Next

-----------------------------------------------------------------------------
(* The handshake of up to three rounds lets nobody into a game it has not   *)
(* entered.                                                                 *)
LEMMA TailAt ==
  ASSUME NEW S, NEW q \in Seq(S), q # <<>>
  PROVE  /\ Tail(q) \in Seq(S) /\ Len(Tail(q)) = Len(q) - 1 /\ Len(q) \in Nat \ {0}
         /\ DOMAIN q = 1 .. Len(q) /\ DOMAIN Tail(q) = 1 .. Len(q) - 1
         /\ Head(q) = q[1]
         /\ \A i \in 1 .. Len(q) - 1 : Tail(q)[i] = q[i + 1]
<1>1. /\ Len(q) \in Nat /\ Len(q) > 0 /\ DOMAIN q = 1 .. Len(q)
      /\ Tail(q) \in Seq(S) /\ Len(Tail(q)) = Len(q) - 1
      /\ \A i \in 1 .. Len(Tail(q)) : Tail(q)[i] = q[i + 1]
  BY HeadTailProperties, QueueTail, LenProperties
<1>2. DOMAIN Tail(q) = 1 .. Len(Tail(q)) /\ Head(q) = q[1]
  BY <1>1, LenProperties, HeadTailProperties
<1> QED  BY <1>1, <1>2

LEMMA AppendAt ==
  ASSUME NEW S, NEW q \in Seq(S), NEW m \in S
  PROVE  /\ Append(q, m) \in Seq(S) /\ Len(Append(q, m)) = Len(q) + 1 /\ Len(q) \in Nat
         /\ DOMAIN q = 1 .. Len(q) /\ DOMAIN Append(q, m) = 1 .. Len(q) + 1
         /\ \A i \in 1 .. Len(q) : Append(q, m)[i] = q[i]
         /\ Append(q, m)[Len(q) + 1] = m
BY AppendProperties, LenProperties

(* The queue to the client gets longer: what was announced still is, and    *)
(* what is sent in this round is announced.                                 *)
LEMMA AnnouncedLater ==
  ASSUME TypeOK, NEW m \in DownMessage, server'.round = server.round,
         toClient' \in {toClient, Append(toClient, m)}
  PROVE  /\ \A kind : Announced(kind) => Announced(kind)'
         /\ toClient' = Append(toClient, m) /\ m.round = server.round => Announced(m.kind)'
<1>1. toClient \in Seq(DownMessage)
  BY DEF TypeOK
<1>2. CASE toClient' = toClient /\ toClient' # Append(toClient, m)
  BY <1>2 DEF Announced
<1>3. CASE toClient' = Append(toClient, m)
  <2>1. /\ Len(toClient) \in Nat /\ DOMAIN toClient = 1 .. Len(toClient)
        /\ DOMAIN toClient' = 1 .. Len(toClient) + 1
        /\ \A i \in 1 .. Len(toClient) : toClient'[i] = toClient[i]
        /\ toClient'[Len(toClient) + 1] = m
    BY <1>1, <1>3, AppendAt
  <2>2. /\ \A i \in DOMAIN toClient : i \in DOMAIN toClient' /\ toClient'[i] = toClient[i]
        /\ Len(toClient) + 1 \in DOMAIN toClient'
    BY <2>1
  <2> QED  BY <2>1, <2>2 DEF Announced
<1> QED  BY <1>2, <1>3

(* The client takes the first message: all else is still announced.         *)
LEMMA AnnouncedStill ==
  ASSUME TypeOK, toClient # <<>>, toClient' = Tail(toClient), server'.round = server.round
  PROVE  /\ 1 \in DOMAIN toClient /\ Head(toClient) = toClient[1]
         /\ \A i \in DOMAIN toClient' :
              i + 1 \in DOMAIN toClient /\ 1 < i + 1 /\ toClient'[i] = toClient[i + 1]
         /\ \A kind : Announced(kind) /\ ~(Head(toClient).kind = kind
                                            /\ Head(toClient).round = server.round)
              => Announced(kind)'
<1>1. /\ Len(toClient) \in Nat \ {0} /\ DOMAIN toClient = 1 .. Len(toClient)
      /\ DOMAIN toClient' = 1 .. Len(toClient) - 1 /\ Head(toClient) = toClient[1]
      /\ \A i \in 1 .. Len(toClient) - 1 : toClient'[i] = toClient[i + 1]
  BY TailAt DEF TypeOK
<1>2. ASSUME NEW kind, Announced(kind),
             ~(Head(toClient).kind = kind /\ Head(toClient).round = server.round)
      PROVE  Announced(kind)'
  <2>1. PICK i \in DOMAIN toClient :
          toClient[i].kind = kind /\ toClient[i].round = server.round
    BY <1>2 DEF Announced
  <2>2. i # 1
    BY <1>1, <1>2, <2>1
  <2>3. i - 1 \in DOMAIN toClient' /\ toClient'[i - 1] = toClient[i]
    BY <1>1, <2>2
  <2> QED  BY <2>1, <2>3 DEF Announced
<1>3. \A i \in DOMAIN toClient' :
        i + 1 \in DOMAIN toClient /\ 1 < i + 1 /\ toClient'[i] = toClient[i + 1]
  BY <1>1
<1>4. 1 \in DOMAIN toClient
  BY <1>1
<1> QED  BY <1>1, <1>2, <1>3, <1>4

(* The server takes the first message, which none of the others is behind.  *)
LEMMA AnsweredStill ==
  ASSUME TypeOK, toServer # <<>>, toServer' = Tail(toServer)
  PROVE  \A i \in DOMAIN toServer' :
           /\ i + 1 \in DOMAIN toServer /\ toServer'[i] = toServer[i + 1]
           /\ \A kind : AnsweredAfter(i + 1, kind) => AnsweredAfter(i, kind)'
<1>1. /\ Len(toServer) \in Nat \ {0} /\ DOMAIN toServer = 1 .. Len(toServer)
      /\ DOMAIN toServer' = 1 .. Len(toServer) - 1 /\ Len(toServer') = Len(toServer) - 1
      /\ \A i \in 1 .. Len(toServer) - 1 : toServer'[i] = toServer[i + 1]
  BY TailAt DEF TypeOK
<1>2. ASSUME NEW i \in DOMAIN toServer', NEW kind, AnsweredAfter(i + 1, kind)
      PROVE  AnsweredAfter(i, kind)'
  <2>1. PICK j \in (i + 1) + 1 .. Len(toServer) : toServer[j].kind = kind
    BY <1>2 DEF AnsweredAfter
  <2>2. j - 1 \in i + 1 .. Len(toServer') /\ toServer'[j - 1] = toServer[j]
    BY <1>1, <2>1
  <2> QED  BY <2>1, <2>2 DEF AnsweredAfter
<1>3. \A i \in DOMAIN toServer' : i + 1 \in DOMAIN toServer /\ toServer'[i] = toServer[i + 1]
  BY <1>1
<1> QED  BY <1>2, <1>3

(* The queue to the server gets longer.                                     *)
LEMMA AnsweredLater ==
  ASSUME TypeOK, NEW m \in UpMessage, toServer' \in {toServer, Append(toServer, m)}
  PROVE  \A i \in DOMAIN toServer' :
           \/ /\ i \in DOMAIN toServer /\ toServer'[i] = toServer[i]
              /\ \A kind : AnsweredAfter(i, kind) => AnsweredAfter(i, kind)'
              /\ toServer' = Append(toServer, m) => AnsweredAfter(i, m.kind)'
           \/ toServer' = Append(toServer, m) /\ toServer'[i] = m
<1>1. toServer \in Seq(UpMessage)
  BY DEF TypeOK
<1>2. CASE toServer' = toServer /\ toServer' # Append(toServer, m)
  BY <1>2 DEF AnsweredAfter
<1>3. CASE toServer' = Append(toServer, m)
  <2>1. /\ Len(toServer) \in Nat /\ DOMAIN toServer = 1 .. Len(toServer)
        /\ DOMAIN toServer' = 1 .. Len(toServer) + 1 /\ Len(toServer') = Len(toServer) + 1
        /\ \A i \in 1 .. Len(toServer) : toServer'[i] = toServer[i]
        /\ toServer'[Len(toServer) + 1] = m
    BY <1>1, <1>3, AppendAt
  <2>2. ASSUME NEW i \in DOMAIN toServer
        PROVE  /\ \A kind : AnsweredAfter(i, kind) => AnsweredAfter(i, kind)'
               /\ AnsweredAfter(i, m.kind)'
    <3>1. \A j \in i + 1 .. Len(toServer) :
            j \in i + 1 .. Len(toServer') /\ toServer'[j] = toServer[j]
      BY <2>1, <2>2
    <3>2. Len(toServer) + 1 \in i + 1 .. Len(toServer')
      BY <2>1, <2>2
    <3> QED  BY <2>1, <3>1, <3>2 DEF AnsweredAfter
  <2>3. ASSUME NEW i \in DOMAIN toServer'
        PROVE  (i \in DOMAIN toServer /\ toServer'[i] = toServer[i]) \/ toServer'[i] = m
    BY <2>1, <2>3
  <2> QED  BY <1>3, <2>2, <2>3
<1> QED  BY <1>2, <1>3

LEMMA TokensType ==
  ASSUME TypeOK
  PROVE  /\ Len(toClient) \in Nat /\ Len(toServer) \in Nat /\ Tokens \in Int
         /\ DOMAIN toClient = 1 .. Len(toClient)
         /\ server.round \in Int /\ client.entered \in Int
         /\ \A i \in DOMAIN toClient : toClient[i].round \in Int
<1>1. /\ Len(toClient) \in Nat /\ Len(toServer) \in Nat
      /\ DOMAIN toClient = 1 .. Len(toClient)
  BY LenProperties DEF TypeOK
<1> QED  BY <1>1, RoundTypes DEF Tokens

(* What is sent last is of the latest round.                                *)
LEMMA OrderLater ==
  ASSUME TypeOK, RoundsInOrder, NEW m \in DownMessage, client.entered <= m.round,
         server.round <= m.round, server'.round = m.round, client'.entered = client.entered,
         toClient' \in {toClient, Append(toClient, m)}
  PROVE  RoundsInOrder'
<1>1. /\ DOMAIN toClient = 1 .. Len(toClient) /\ Len(toClient) \in Nat
      /\ server.round \in Int /\ client.entered \in Int /\ m.round \in Int
      /\ \A i \in DOMAIN toClient : toClient[i].round \in Int
  BY TokensType DEF DownMessage, Round
<1>2. \A i \in DOMAIN toClient' :
        \/ i \in DOMAIN toClient /\ toClient'[i] = toClient[i]
        \/ i = Len(toClient) + 1 /\ toClient'[i] = m
  <2>1. CASE toClient' = toClient
    BY <2>1
  <2>2. CASE toClient' = Append(toClient, m)
    BY <2>2, AppendAt DEF TypeOK
  <2> QED  BY <2>1, <2>2
<1>3. ASSUME NEW i \in DOMAIN toClient'
      PROVE  client'.entered <= toClient'[i].round /\ toClient'[i].round <= server'.round
  BY <1>1, <1>2 DEF RoundsInOrder
<1>4. ASSUME NEW i \in DOMAIN toClient', NEW j \in DOMAIN toClient', i < j
      PROVE  toClient'[i].round <= toClient'[j].round
  <2>1. CASE j = Len(toClient) + 1 /\ toClient'[j] = m
    BY <1>1, <1>2, <2>1 DEF RoundsInOrder
  <2>2. CASE j \in DOMAIN toClient /\ toClient'[j] = toClient[j]
    <3>1. i \in DOMAIN toClient /\ toClient'[i] = toClient[i]
      BY <1>1, <1>2, <1>4, <2>2
    <3> QED  BY <1>4, <2>2, <3>1 DEF RoundsInOrder
  <2> QED  BY <1>2, <2>1, <2>2
<1> QED  BY <1>3, <1>4 DEF RoundsInOrder

(* The server takes a message, and sends at most one, of its round.         *)
LEMMA ServerTakes ==
  ASSUME TypeOK, TypeOK', Handshake, client.entered <= server.round,
         toServer # <<>>, toServer' = Tail(toServer),
         client' = client, server'.round = server.round,
         NEW m \in DownMessage, m.round = server.round,
         toClient' \in {toClient, Append(toClient, m)},
         server'.isReady => server'.state # "connecting",
         server'.state # "connecting" =>
           server.state # "connecting" \/ (toClient' = Append(toClient, m) /\ m.kind = "con_ready"),
         server'.isReady =>
           server.isReady \/ (toClient' = Append(toClient, m) /\ m.kind = "ready_to_enter"),
         server'.state = "ingame" => server.state = "ingame" \/ toClient' = toClient,
         server'.state = "ingame" /\ MaxRound <= 2 => client.entered = server.round
  PROVE  Handshake'
<1>1. /\ \A kind : Announced(kind) => Announced(kind)'
      /\ toClient' = Append(toClient, m) => Announced(m.kind)'
  BY AnnouncedLater
<1>2. TokensInStep'
  <2>1. Len(toServer) \in Nat \ {0} /\ Len(toServer') = Len(toServer) - 1
    BY TailAt DEF TypeOK
  <2>2. Len(toClient) \in Nat /\ Len(Append(toClient, m)) = Len(toClient) + 1
    BY AppendAt DEF TypeOK
  <2>3. Tokens' <= Tokens /\ Tokens' \in Int
    <3>1. CASE toClient' = toClient
      BY <2>1, <2>2, <3>1 DEF Tokens
    <3>2. CASE toClient' = Append(toClient, m)
      <4>1. toClient' # toClient
        BY <2>2, <3>2
      <4> QED  BY <2>1, <2>2, <3>2, <4>1 DEF Tokens
    <3> QED  BY <3>1, <3>2
  <2>4. Tokens \in Int /\ server.round \in Int
    BY TokensType
  <2> QED  BY <2>3, <2>4 DEF Handshake, TokensInStep
<1>3. RoundsInOrder'
  <2>1. RoundsInOrder /\ client'.entered = client.entered
    BY DEF Handshake
  <2>2. server.round <= m.round /\ client.entered <= m.round /\ server'.round = m.round
    BY TokensType
  <2> QED  BY <2>1, <2>2, OrderLater
<1>4. AnnouncedBehind'
  <2> SUFFICES ASSUME NEW i \in DOMAIN toClient', toClient'[i].round < server'.round
               PROVE  /\ Announced("map_change")'
                      /\ server'.state # "connecting" => Announced("con_ready")'
    BY DEF AnnouncedBehind
  <2>1. \A j \in DOMAIN toClient' : toClient'[j] = m \/ \E k \in DOMAIN toClient : toClient'[j] = toClient[k]
    <3>1. CASE toClient' = toClient
      BY <3>1
    <3>2. CASE toClient' = Append(toClient, m)
      BY <3>2, AppendHas DEF TypeOK
    <3> QED  BY <3>1, <3>2
  <2>2. PICK k \in DOMAIN toClient : toClient'[i] = toClient[k]
    <3>1. m.round \in Int
      BY TokensType
    <3> QED  BY <2>1, <3>1
  <2>3. /\ Announced("map_change")
        /\ server.state # "connecting" => Announced("con_ready")
    BY <2>2 DEF Handshake, AnnouncedBehind
  <2> QED  BY <1>1, <2>3
<1>5. LetIn'
  BY <1>1 DEF Handshake, LetIn
<1>6. AnsweredBehind'
  <2> SUFFICES ASSUME client'.entered < server'.round,
                      NEW i \in DOMAIN toServer', toServer'[i].kind = "enter_game"
               PROVE  /\ Announced("map_change")' \/ client'.download \/ AnsweredAfter(i, "ready")'
                      /\ server'.state # "connecting" =>
                           Announced("con_ready")' \/ AnsweredAfter(i, "start_info")'
    BY DEF AnsweredBehind
  <2>1. /\ i + 1 \in DOMAIN toServer /\ toServer'[i] = toServer[i + 1]
        /\ \A k : AnsweredAfter(i + 1, k) => AnsweredAfter(i, k)'
    BY AnsweredStill
  <2>2. /\ Announced("map_change") \/ client.download \/ AnsweredAfter(i + 1, "ready")
        /\ server.state # "connecting" =>
             Announced("con_ready") \/ AnsweredAfter(i + 1, "start_info")
    BY <2>1 DEF Handshake, AnsweredBehind
  <2> QED  BY <1>1, <2>1, <2>2
<1>7. MaxRound <= 2 => EntersFirst'
  BY DEF EntersFirst
<1> QED  BY <1>2, <1>3, <1>4, <1>5, <1>6, <1>7 DEF Handshake

(* The client takes a message: what it answers is handed on.                *)
LEMMA ClientTakes ==
  ASSUME TypeOK, TypeOK', Handshake, server' = server,
         toClient # <<>>, toClient' = Tail(toClient),
         NEW m \in UpMessage, toServer' \in {toServer, Append(toServer, m)},
         client'.entered = IF Head(toClient).kind = "ready_to_enter"
                           THEN Head(toClient).round ELSE client.entered,
         Head(toClient).kind = "map_change" =>
           client'.download \/ (toServer' = Append(toServer, m) /\ m.kind = "ready"),
         client.download =>
           client'.download \/ (toServer' = Append(toServer, m) /\ m.kind = "ready"),
         client'.download => client.download \/ toServer' = toServer,
         Head(toClient).kind = "con_ready" =>
           toServer' = Append(toServer, m) /\ m.kind = "start_info",
         m.kind = "enter_game" => Head(toClient).kind = "ready_to_enter"
  PROVE  Handshake'
<1> DEFINE h == Head(toClient)
<1>1. /\ 1 \in DOMAIN toClient /\ h = toClient[1]
      /\ \A i \in DOMAIN toClient' :
           i + 1 \in DOMAIN toClient /\ 1 < i + 1 /\ toClient'[i] = toClient[i + 1]
      /\ \A kind : Announced(kind) /\ ~(h.kind = kind /\ h.round = server.round)
           => Announced(kind)'
  BY AnnouncedStill
<1> HIDE DEF h
<1>2. /\ server.round \in Int /\ client.entered \in Int /\ h.round \in Int
      /\ client.entered <= h.round /\ h.round <= server.round
      /\ client'.entered \in Int
  BY <1>1, TokensType DEF Handshake, RoundsInOrder
<1>3. client.entered <= client'.entered /\ client'.entered <= h.round
  BY <1>2 DEF h
<1>4. \A i \in DOMAIN toClient' : h.round <= toClient'[i].round /\ toClient'[i].round \in Int
  BY <1>1, TokensType DEF Handshake, RoundsInOrder
<1>5. RoundsInOrder'
  <2>1. \A i \in DOMAIN toClient' : toClient'[i].round <= server'.round
    BY <1>1 DEF Handshake, RoundsInOrder
  <2>2. \A i, j \in DOMAIN toClient' : i < j => toClient'[i].round <= toClient'[j].round
    <3>1. \A i \in DOMAIN toClient' : i \in Int
      BY TokensType
    <3> QED  BY <1>1, <3>1 DEF Handshake, RoundsInOrder
  <2>3. \A i \in DOMAIN toClient' : client'.entered <= toClient'[i].round
    BY <1>2, <1>3, <1>4
  <2> QED  BY <2>1, <2>2, <2>3 DEF RoundsInOrder
<1>6. TokensInStep'
  <2>1. Len(toClient) \in Nat \ {0} /\ Len(toClient') = Len(toClient) - 1
    BY TailAt DEF TypeOK
  <2>2. Len(toServer) \in Nat /\ Len(Append(toServer, m)) = Len(toServer) + 1
    BY AppendAt DEF TypeOK
  <2>3. Tokens' <= Tokens /\ Tokens' \in Int
    <3>1. CASE toServer' = toServer
      BY <2>1, <2>2, <3>1 DEF Tokens
    <3>2. CASE toServer' = Append(toServer, m)
      <4>1. toServer' # toServer
        BY <2>2, <3>2
      <4> QED  BY <2>1, <2>2, <3>2, <4>1 DEF Tokens
    <3> QED  BY <3>1, <3>2
  <2>4. Tokens \in Int /\ server.round \in Int
    BY TokensType
  <2> QED  BY <2>3, <2>4 DEF Handshake, TokensInStep
<1>7. AnnouncedBehind'
  <2> SUFFICES ASSUME NEW i \in DOMAIN toClient', toClient'[i].round < server'.round
               PROVE  /\ Announced("map_change")'
                      /\ server'.state # "connecting" => Announced("con_ready")'
    BY DEF AnnouncedBehind
  <2>1. h.round # server.round
    BY <1>2, <1>4
  <2>2. i + 1 \in DOMAIN toClient /\ toClient[i + 1].round < server.round
    BY <1>1
  <2>3. /\ Announced("map_change")
        /\ server.state # "connecting" => Announced("con_ready")
    BY <2>2 DEF Handshake, AnnouncedBehind
  <2> QED  BY <1>1, <2>1, <2>3
<1>8. LetIn'
  <2> SUFFICES ASSUME client'.entered < server'.round, server'.isReady
               PROVE  Announced("ready_to_enter")'
    BY DEF LetIn
  <2>1. Announced("ready_to_enter")
    BY <1>2, <1>3 DEF Handshake, LetIn
  <2>2. ~(h.kind = "ready_to_enter" /\ h.round = server.round)
    BY <1>2 DEF h
  <2> QED  BY <1>1, <2>1, <2>2
<1>9. AnsweredBehind'
  <2> SUFFICES ASSUME client'.entered < server'.round,
                      NEW i \in DOMAIN toServer', toServer'[i].kind = "enter_game"
               PROVE  /\ Announced("map_change")' \/ client'.download \/ AnsweredAfter(i, "ready")'
                      /\ server'.state # "connecting" =>
                           Announced("con_ready")' \/ AnsweredAfter(i, "start_info")'
    BY DEF AnsweredBehind
  <2>1. CASE /\ i \in DOMAIN toServer /\ toServer'[i] = toServer[i]
             /\ \A kind : AnsweredAfter(i, kind) => AnsweredAfter(i, kind)'
             /\ toServer' = Append(toServer, m) => AnsweredAfter(i, m.kind)'
    <3>1. /\ Announced("map_change") \/ client.download \/ AnsweredAfter(i, "ready")
          /\ server.state # "connecting" =>
               Announced("con_ready") \/ AnsweredAfter(i, "start_info")
      BY <1>2, <1>3, <2>1 DEF Handshake, AnsweredBehind
    <3>2. Announced("map_change")' \/ client'.download \/ AnsweredAfter(i, "ready")'
      BY <1>1, <2>1, <3>1 DEF h
    <3>3. server'.state # "connecting" => Announced("con_ready")' \/ AnsweredAfter(i, "start_info")'
      BY <1>1, <2>1, <3>1 DEF h
    <3> QED  BY <3>2, <3>3
  <2>2. CASE toServer' = Append(toServer, m) /\ toServer'[i] = m
    <3>1. h.kind = "ready_to_enter" /\ h.round = client'.entered
      BY <2>2 DEF h
    <3>2. /\ Announced("map_change")
          /\ server.state # "connecting" => Announced("con_ready")
      BY <1>1, <3>1 DEF Handshake, AnnouncedBehind
    <3> QED  BY <1>1, <3>1, <3>2
  <2> QED  BY <2>1, <2>2, AnsweredLater
<1>10. MaxRound <= 2 => EntersFirst'
  BY <1>2, <1>3 DEF Handshake, EntersFirst
<1>11. server'.isReady => server'.state # "connecting"
  BY DEF Handshake
<1> QED  BY <1>5, <1>6, <1>7, <1>8, <1>9, <1>10, <1>11 DEF Handshake

(* What the client and its queues are left at.                              *)
LEMMA HandshakeRests ==
  ASSUME Handshake, server'.round = server.round, server'.state = server.state,
         server'.isReady = server.isReady, client'.entered = client.entered,
         client'.download = client.download, UNCHANGED <<toClient, toServer>>
  PROVE  Handshake'
<1>1. /\ \A kind : Announced(kind)' <=> Announced(kind)
      /\ \A i, kind : AnsweredAfter(i, kind)' <=> AnsweredAfter(i, kind)
      /\ Tokens' = Tokens
  BY DEF Announced, AnsweredAfter, Tokens
<1>2. RoundsInOrder' /\ TokensInStep' /\ (MaxRound <= 2 => EntersFirst')
  BY <1>1 DEF Handshake, RoundsInOrder, TokensInStep, EntersFirst
<1>3. AnnouncedBehind' /\ LetIn'
  BY <1>1 DEF Handshake, AnnouncedBehind, LetIn
<1>4. AnsweredBehind'
  BY <1>1 DEF Handshake, AnsweredBehind
<1>5. server'.isReady => server'.state # "connecting"
  BY DEF Handshake
<1> QED  BY <1>2, <1>3, <1>4, <1>5 DEF Handshake

(* The map that was missing has come: one more answer to the server.        *)
LEMMA FinishMapDownloadHands ==
  ASSUME TypeOK, TypeOK', Handshake, FinishMapDownload
  PROVE  Handshake'
<1>1. /\ client.download /\ ~client'.download /\ client'.entered = client.entered
      /\ server' = server /\ toClient' = toClient
  BY DEF FinishMapDownload, Loaded, TypeOK, ClientState
<1>2. PICK m \in UpMessage : m.kind = "ready" /\ toServer' = Append(toServer, m)
  <2>1. Vital("ready", client) \in UpMessage /\ Vital("ready", client).kind = "ready"
    BY VitalType DEF TypeOK, Vital
  <2> QED  BY <2>1 DEF FinishMapDownload
<1>3. \A kind : Announced(kind)' <=> Announced(kind)
  BY <1>1 DEF Announced
<1>4. TokensInStep'
  <2>1. Len(toServer) \in Nat /\ Len(toServer') = Len(toServer) + 1
    BY <1>2, AppendAt DEF TypeOK
  <2>2. Tokens' = Tokens
    BY <1>1, <2>1, TokensType DEF Tokens
  <2> QED  BY <1>1, <2>2 DEF Handshake, TokensInStep
<1>5. AnsweredBehind'
  <2> SUFFICES ASSUME client'.entered < server'.round,
                      NEW i \in DOMAIN toServer', toServer'[i].kind = "enter_game"
               PROVE  /\ AnsweredAfter(i, "ready")'
                      /\ server'.state # "connecting" =>
                           Announced("con_ready")' \/ AnsweredAfter(i, "start_info")'
    BY DEF AnsweredBehind
  <2>1. /\ i \in DOMAIN toServer /\ toServer'[i] = toServer[i]
        /\ \A kind : AnsweredAfter(i, kind) => AnsweredAfter(i, kind)'
        /\ AnsweredAfter(i, m.kind)'
    BY <1>2, AnsweredLater
  <2>2. server.state # "connecting" => Announced("con_ready") \/ AnsweredAfter(i, "start_info")
    <3>1. client.entered < server.round /\ toServer[i].kind = "enter_game"
      BY <1>1, <2>1
    <3>2. AnsweredBehind
      BY DEF Handshake
    <3> QED  BY <2>1, <3>1, <3>2 DEF AnsweredBehind
  <2>3. AnsweredAfter(i, "ready")'
    BY <1>2, <2>1
  <2>4. server'.state # "connecting" => Announced("con_ready")' \/ AnsweredAfter(i, "start_info")'
    BY <1>1, <1>3, <2>1, <2>2
  <2> QED  BY <2>3, <2>4
<1>6. RoundsInOrder' /\ AnnouncedBehind' /\ LetIn' /\ (MaxRound <= 2 => EntersFirst')
  <2>1. RoundsInOrder' /\ (MaxRound <= 2 => EntersFirst')
    BY <1>1 DEF Handshake, RoundsInOrder, EntersFirst
  <2>2. AnnouncedBehind' /\ LetIn'
    BY <1>1, <1>3 DEF Handshake, AnnouncedBehind, LetIn
  <2> QED  BY <2>1, <2>2
<1>7. server'.isReady => server'.state # "connecting"
  BY <1>1 DEF Handshake
<1> QED  BY <1>4, <1>5, <1>6, <1>7 DEF Handshake

(* The reload comes behind everything that was sent before.                 *)
LEMMA MapReloadHands ==
  ASSUME TypeOK, TypeOK', Handshake, client.entered <= server.round, MapReload
  PROVE  Handshake'
<1> DEFINE m == [kind |-> "map_change", round |-> server.round + 1, ack |-> server.heard]
<1>1. /\ server'.round = server.round + 1 /\ server'.isReady = FALSE
      /\ server'.state = "connecting" /\ toServer' = toServer
      /\ toClient' = Append(toClient, m) /\ client' = client
  BY DEF MapReload, TypeOK, ServerState
<1>2. m \in DownMessage /\ m.kind = "map_change" /\ m.round = server'.round
  <2>1. server'.round \in Round /\ server.heard \in Nat
    BY DEF TypeOK, ServerState
  <2> QED  BY <1>1, <2>1 DEF DownMessage
<1> HIDE DEF m
<1>3. /\ Len(toClient) \in Nat /\ Len(toClient') = Len(toClient) + 1
      /\ DOMAIN toClient' = 1 .. Len(toClient) + 1 /\ toClient'[Len(toClient) + 1] = m
  BY <1>1, <1>2, AppendAt DEF TypeOK
<1>4. Announced("map_change")'
  <2>1. Len(toClient) + 1 \in DOMAIN toClient'
    BY <1>3
  <2> QED  BY <1>2, <1>3, <2>1 DEF Announced
<1>5. TokensInStep'
  <2>1. /\ Tokens' = Len(toClient) + 1 + Len(toServer) + (IF client.download THEN 1 ELSE 0) + 0
        /\ Len(toServer) \in Nat
    BY <1>1, <1>3, TokensType DEF Tokens
  <2>2. Tokens' <= Tokens + 1 /\ Tokens' \in Int
    BY <1>3, <2>1 DEF Tokens
  <2> QED  BY <1>1, <2>1, <2>2, TokensType DEF Handshake, TokensInStep
<1>6. RoundsInOrder'
  <2>1. server.round <= m.round /\ client.entered <= m.round
    BY <1>1, <1>2, TokensType
  <2> QED  BY <1>1, <1>2, <2>1, OrderLater DEF Handshake
<1>7. AnnouncedBehind' /\ LetIn' /\ AnsweredBehind' /\ EntersFirst'
  BY <1>1, <1>4 DEF AnnouncedBehind, LetIn, AnsweredBehind, EntersFirst
<1> QED  BY <1>1, <1>5, <1>6, <1>7 DEF Handshake

(* With a message for each of three rounds, none of them is the enter_game  *)
(* of an earlier round that comes after the other answers of this one: that *)
(* would take a fourth.                                                     *)
LEMMA EnterGameInTime ==
  ASSUME TypeOK, Handshake, client.entered <= server.round, MaxRound <= 2,
         toServer # <<>>, Head(toServer).kind = "enter_game",
         server.state = "ready", server.isReady
  PROVE  client.entered = server.round
<1> SUFFICES ASSUME client.entered < server.round  PROVE FALSE
  BY TokensType
<1> DEFINE n == Len(toClient)
           k == Len(toServer)
           d == IF client.download THEN 1 ELSE 0
<1>1. /\ n \in Nat /\ k \in Nat \ {0} /\ DOMAIN toClient = 1 .. n /\ DOMAIN toServer = 1 .. k
      /\ Head(toServer) = toServer[1]
  BY TailAt, TokensType DEF TypeOK
<1>2. n + k + d <= 3
  <2>1. Tokens = n + k + d
    BY <1>1 DEF Tokens
  <2>2. server.round <= 2 /\ server.round \in Int
    BY SnapAssumption DEF TypeOK, ServerState, Round
  <2> QED  BY <1>1, <2>1, <2>2 DEF Handshake, TokensInStep
<1>3. PICK a \in 1 .. n : toClient[a].kind = "ready_to_enter"
  BY <1>1 DEF Handshake, LetIn, Announced
<1>4. 1 \in DOMAIN toServer
  BY <1>1
<1>5. /\ Announced("map_change") \/ client.download \/ AnsweredAfter(1, "ready")
      /\ Announced("con_ready") \/ AnsweredAfter(1, "start_info")
  BY <1>1, <1>4 DEF Handshake, AnsweredBehind
<1>6. /\ \/ \E b \in 1 .. n : toClient[b].kind = "map_change"
         \/ d = 1
         \/ \E j \in 2 .. k : toServer[j].kind = "ready"
      /\ \/ \E c \in 1 .. n : toClient[c].kind = "con_ready"
         \/ \E j \in 2 .. k : toServer[j].kind = "start_info"
  BY <1>1, <1>5 DEF Announced, AnsweredAfter
<1>7. d \in {0, 1}
  OBVIOUS
<1> HIDE DEF n, k, d
<1>8. CASE \E c \in 1 .. n : toClient[c].kind = "con_ready"
  <2>1. PICK c \in 1 .. n : toClient[c].kind = "con_ready"
    BY <1>8
  <2>2. a # c /\ n >= 2
    BY <1>1, <1>3, <2>1
  <2>3. CASE \E b \in 1 .. n : toClient[b].kind = "map_change"
    <3>1. PICK b \in 1 .. n : toClient[b].kind = "map_change"
      BY <2>3
    <3>2. a # b /\ b # c
      BY <1>3, <2>1, <3>1
    <3> QED  BY <1>1, <1>2, <1>7, <2>2, <3>2
  <2> QED  BY <1>1, <1>2, <1>6, <1>7, <2>2, <2>3
<1>9. CASE \E j \in 2 .. k : toServer[j].kind = "start_info"
  <2>1. PICK i \in 2 .. k : toServer[i].kind = "start_info"
    BY <1>9
  <2>2. CASE \E b \in 1 .. n : toClient[b].kind = "map_change"
    <3>1. PICK b \in 1 .. n : toClient[b].kind = "map_change"
      BY <2>2
    <3>2. a # b
      BY <1>3, <3>1
    <3> QED  BY <1>1, <1>2, <1>7, <2>1, <3>2
  <2>3. CASE d = 1
    BY <1>1, <1>2, <2>1, <2>3
  <2>4. CASE \E j \in 2 .. k : toServer[j].kind = "ready"
    <3>1. PICK j \in 2 .. k : toServer[j].kind = "ready"
      BY <2>4
    <3>2. i # j
      BY <2>1, <3>1
    <3> QED  BY <1>1, <1>2, <1>7, <2>1, <3>2
  <2> QED  BY <1>6, <2>2, <2>3, <2>4
<1> QED  BY <1>6, <1>8, <1>9

(* The messages the server takes.                                           *)
LEMMA ServerHands ==
  ASSUME TypeOK, TypeOK', Handshake, client.entered <= server.round,
         OnReady \/ OnStartInfo \/ OnEnterGameMsg
  PROVE  Handshake'
<1>1. ASSUME NEW kind, NEW s \in Hearing(server, client, toServer, kind)
      PROVE  /\ s \in ServerState /\ s.round = server.round /\ s.state = server.state
             /\ s.isReady = server.isReady /\ toServer # <<>> /\ Head(toServer).kind = kind
             /\ \A k \in {"con_ready", "ready_to_enter"} : Vital(k, s) \in DownMessage
             /\ \A k : Vital(k, s).round = server.round /\ Vital(k, s).kind = k
  <2>1. Head(toServer).kind = kind
    BY <1>1 DEF Hearing
  <2>2. s \in ServerState /\ s.round = server.round /\ s.isReady = server.isReady
    BY <1>1, ServerHearsRound
  <2>3. s.state = server.state /\ toServer # <<>>
    BY <1>1, ServerHears
  <2>4. \A k \in {"con_ready", "ready_to_enter"} : Vital(k, s) \in DownMessage
    BY <2>2, VitalType
  <2>5. \A k : Vital(k, s).round = server.round /\ Vital(k, s).kind = k
    BY DEF Vital
  <2> QED  BY <2>1, <2>2, <2>3, <2>4, <2>5
<1>2. /\ server.isReady => server.state # "connecting"
      /\ server.state = "ingame" /\ MaxRound <= 2 => client.entered = server.round
  BY DEF Handshake, EntersFirst
<1>3. CASE OnReady
  <2>1. PICK s \in Hearing(server, client, toServer, "ready") :
          /\ server' = IF s.state = "connecting" THEN [s EXCEPT !.state = "ready"] ELSE s
          /\ toServer' = Tail(toServer)
          /\ toClient' = Append(toClient, Vital("con_ready", s))
          /\ client' = client
    BY <1>3 DEF OnReady
  <2>2. PICK m \in DownMessage :
          m.round = server.round /\ m.kind = "con_ready" /\ toClient' = Append(toClient, m)
    BY <1>1, <2>1
  <2>3. /\ toServer # <<>> /\ server'.round = server.round /\ server'.isReady = server.isReady
        /\ server'.state # "connecting" /\ server'.state = "ingame" => server.state = "ingame"
    BY <1>1, <2>1 DEF ServerState
  <2>4. server'.state # "connecting"
    BY <1>1, <2>1 DEF ServerState
  <2> QED  BY <1>2, <2>1, <2>2, <2>3, <2>4, ServerTakes
<1>4. CASE OnStartInfo
  <2>1. PICK s \in Hearing(server, client, toServer, "start_info") :
          LET first == s.state # "connecting" /\ ~s.isReady
          IN  /\ server' = IF first THEN [s EXCEPT !.isReady = TRUE] ELSE s
              /\ toServer' = Tail(toServer)
              /\ toClient' = IF first THEN Append(toClient, Vital("ready_to_enter", s))
                             ELSE toClient
              /\ client' = client
    BY <1>4 DEF OnStartInfo
  <2>2. /\ toServer # <<>> /\ server'.round = server.round /\ server'.state = server.state
        /\ server'.isReady => server.isReady \/ server.state # "connecting"
    BY <1>1, <2>1 DEF ServerState
  <2>3. PICK m \in DownMessage :
          /\ m.round = server.round /\ toClient' \in {toClient, Append(toClient, m)}
          /\ server'.isReady =>
               server.isReady \/ (toClient' = Append(toClient, m) /\ m.kind = "ready_to_enter")
    <3>1. Vital("ready_to_enter", s) \in DownMessage
      BY <1>1, <2>1
    <3>2. /\ Vital("ready_to_enter", s).round = server.round
          /\ Vital("ready_to_enter", s).kind = "ready_to_enter"
      BY <1>1, <2>1
    <3>3. server'.isReady => server.isReady \/ toClient' = Append(toClient, Vital("ready_to_enter", s))
      BY <1>1, <2>1
    <3> QED  BY <2>1, <3>1, <3>2, <3>3
  <2> QED  BY <1>2, <2>1, <2>2, <2>3, ServerTakes
<1>5. CASE OnEnterGameMsg
  <2>1. PICK s \in Hearing(server, client, toServer, "enter_game") :
          /\ server' = IF s.state = "ready" /\ s.isReady THEN [s EXCEPT !.state = "ingame"]
                       ELSE s
          /\ toServer' = Tail(toServer)
          /\ toClient' = toClient /\ client' = client
    BY <1>5 DEF OnEnterGameMsg
  <2>2. /\ toServer # <<>> /\ Head(toServer).kind = "enter_game"
        /\ server'.round = server.round /\ server'.isReady = server.isReady
        /\ \/ server'.state = server.state
           \/ server'.state = "ingame" /\ server.state = "ready" /\ server.isReady
    BY <1>1, <2>1 DEF ServerState
  <2>3. PICK m \in DownMessage : m.round = server.round
    BY <1>1, <2>1
  <2>4. server'.state = "ingame" /\ MaxRound <= 2 => client.entered = server.round
    BY <1>2, <2>2, EnterGameInTime
  <2>5. server'.state # "connecting" => server.state # "connecting"
    BY <2>2
  <2> QED  BY <1>2, <2>1, <2>2, <2>3, <2>4, <2>5, ServerTakes
<1> QED  BY <1>3, <1>4, <1>5

(* The messages the client takes.                                           *)
LEMMA ClientHands ==
  ASSUME TypeOK, TypeOK', Handshake, OnMapChange \/ OnConReady \/ EnterGame
  PROVE  Handshake'
<1>1. ASSUME NEW kind, NEW c \in Hearing(client, server, toClient, kind)
      PROVE  /\ c \in ClientState /\ c.entered = client.entered /\ c.download = client.download
             /\ toClient # <<>> /\ Head(toClient).kind = kind
             /\ \A k \in {"ready", "start_info", "enter_game"} : Vital(k, c) \in UpMessage
             /\ \A k : Vital(k, c).kind = k
  <2>1. c \in ClientState /\ c.entered = client.entered /\ Head(toClient).kind = kind
    BY <1>1, ClientHearsRound
  <2>2. c.download = client.download /\ toClient # <<>>
    BY <1>1, ClientHears
  <2>3. \A k \in {"ready", "start_info", "enter_game"} : Vital(k, c) \in UpMessage
    BY <2>1, VitalType
  <2>4. \A k : Vital(k, c).kind = k
    BY DEF Vital
  <2> QED  BY <2>1, <2>2, <2>3, <2>4
<1>2. CASE OnMapChange
  <2>1. PICK c \in Hearing(client, server, toClient, "map_change") :
          /\ toClient' = Tail(toClient) /\ server' = server
          /\ \/ /\ client' = [c EXCEPT !.online = FALSE, !.download = TRUE]
                /\ toServer' = toServer
             \/ /\ client' = Loaded(c)
                /\ toServer' = Append(toServer, Vital("ready", c))
    BY <1>2 DEF OnMapChange
  <2>2. /\ toClient # <<>> /\ Head(toClient).kind = "map_change"
        /\ client'.entered = client.entered
    <3>1. /\ toClient # <<>> /\ Head(toClient).kind = "map_change"
          /\ c \in ClientState /\ c.entered = client.entered
      BY <1>1
    <3>2. [c EXCEPT !.online = FALSE, !.download = TRUE].entered = c.entered
      BY <3>1 DEF ClientState
    <3>3. Loaded(c).entered = c.entered
      BY <3>1 DEF ClientState, Loaded
    <3> QED  BY <2>1, <3>1, <3>2, <3>3
  <2>3. \/ client'.download /\ toServer' = toServer
        \/ ~client'.download /\ toServer' = Append(toServer, Vital("ready", c))
    <3>1. [c EXCEPT !.online = FALSE, !.download = TRUE].download
      BY <1>1, <2>1 DEF ClientState
    <3>2. ~Loaded(c).download
      BY <1>1, <2>1 DEF ClientState, Loaded
    <3> QED  BY <2>1, <3>1, <3>2
  <2>4. PICK m \in UpMessage :
          /\ m.kind = "ready"
          /\ \/ client'.download /\ toServer' = toServer
             \/ ~client'.download /\ toServer' = Append(toServer, m)
    BY <1>1, <2>1, <2>3
  <2> QED  BY <2>1, <2>2, <2>4, ClientTakes
<1>3. CASE OnConReady
  <2>1. PICK c \in Hearing(client, server, toClient, "con_ready") :
          /\ toClient' = Tail(toClient) /\ server' = server
          /\ client' = c /\ toServer' = Append(toServer, Vital("start_info", c))
    BY <1>3 DEF OnConReady
  <2>2. /\ toClient # <<>> /\ Head(toClient).kind = "con_ready"
        /\ client'.entered = client.entered /\ client'.download = client.download
    BY <1>1, <2>1
  <2>3. PICK m \in UpMessage : m.kind = "start_info" /\ toServer' = Append(toServer, m)
    BY <1>1, <2>1
  <2> QED  BY <2>1, <2>2, <2>3, ClientTakes
<1>4. CASE EnterGame
  <2>1. PICK c \in Hearing(client, server, toClient, "ready_to_enter") :
          /\ toClient' = Tail(toClient) /\ server' = server
          /\ client' = Entered(c, Head(toClient).round)
          /\ toServer' = Append(toServer, Vital("enter_game", c))
    BY <1>4 DEF EnterGame
  <2>2. /\ toClient # <<>> /\ Head(toClient).kind = "ready_to_enter"
        /\ client'.entered = Head(toClient).round /\ client'.download = client.download
    BY <1>1, <2>1 DEF Entered, ClientState
  <2>3. PICK m \in UpMessage : m.kind = "enter_game" /\ toServer' = Append(toServer, m)
    BY <1>1, <2>1
  <2> QED  BY <2>1, <2>2, <2>3, ClientTakes
<1> QED  BY <1>2, <1>3, <1>4

LEMMA NextHands ==
  ASSUME ByState, TypeOK', RoundsApart, Handshake, Next
  PROVE  Handshake'
<1>1. TypeOK /\ client \in ClientState /\ server \in ServerState /\ client.entered <= server.round
  BY DEF ByState, TypeOK, RoundsApart
<1>2. CASE TickOnly \/ DoSnapshot \/ OnInput
  <2>1. /\ server'.round = server.round /\ server'.state = server.state
        /\ server'.isReady = server.isReady
        /\ client' = client /\ toClient' = toClient /\ toServer' = toServer
    <3>1. CASE TickOnly
      BY <1>1, <3>1 DEF TickOnly, ServerState
    <3>2. CASE DoSnapshot
      BY <1>1, <3>2 DEF DoSnapshot, ServerState
    <3>3. CASE OnInput
      BY <1>1, <3>3 DEF OnInput, ServerState
    <3> QED  BY <1>2, <3>1, <3>2, <3>3
  <2> QED  BY <2>1, HandshakeRests
<1>3. CASE ReceivePart
  <2>1. PICK p \in down :
          /\ LET c == [client EXCEPT !.peer = p.ack]
                 d == Collect(c, p)
             IN  \/ ~Wanted(c, p) /\ client' = c /\ up' = up
                 \/ Wanted(c, p) /\ ~Complete(d, p) /\ client' = d /\ up' = up
                 \/ Wanted(c, p) /\ Complete(d, p) /\ ApplySnapshot([d EXCEPT !.parts = {}], p)
          /\ UNCHANGED <<server, toClient, toServer>>
    BY <1>3 DEF ReceivePart
  <2>2. client'.download = client.download
    BY <2>1, ReceiveFollows
  <2>3. p \in Part
    BY <1>1 DEF TypeOK
  <2>4. client'.entered = client.entered
    BY <1>1, <2>1, <2>3, ReceiveStands
  <2> QED  BY <2>1, <2>2, <2>4, HandshakeRests
<1>4. CASE ShowNext \/ PredictNext \/ Lose
  <2>1. /\ client'.entered = client.entered /\ client'.download = client.download
        /\ server' = server /\ toClient' = toClient /\ toServer' = toServer
    BY <1>1, <1>4 DEF ShowNext, PredictNext, Lose, ClientState
  <2> QED  BY <2>1, HandshakeRests
<1> QED  BY <1>1, <1>2, <1>3, <1>4, ServerHands, ClientHands, FinishMapDownloadHands,
            MapReloadHands DEF Next

LEMMA InitApart ==
  ASSUME Init
  PROVE  RoundsApart /\ Handshake
<1>1. /\ client.snaps = <<>> /\ client.entered = 0 /\ ~client.download
      /\ server.round = 0 /\ server.state = "connecting" /\ ~server.isReady
      /\ down = {} /\ toServer = <<>>
      /\ toClient = <<[kind |-> "map_change", round |-> 0, ack |-> 0]>>
  BY DEF Init
<1>2. NoOldRound
  BY <1>1, EmptyList DEF NoOldRound
<1>3. \A i \in DOMAIN toClient : toClient[i].round = 0
  BY <1>1
<1>4. RoundsApart
  BY <1>1, <1>2, <1>3 DEF RoundsApart
<1>5. Len(toClient) = 1 /\ Len(toServer) = 0
  BY <1>1
<1>6. TokensInStep
  BY <1>1, <1>5 DEF TokensInStep, Tokens
<1>7. RoundsInOrder /\ AnnouncedBehind /\ LetIn /\ AnsweredBehind /\ EntersFirst
  BY <1>1, <1>3 DEF RoundsInOrder, AnnouncedBehind, LetIn, AnsweredBehind, EntersFirst
<1> QED  BY <1>1, <1>4, <1>6, <1>7 DEF Handshake

(* Whatever arrives late, the handshake stays in step through any number of *)
(* map reloads.                                                             *)
THEOREM HandshakeInStep ==
  Spec => [](RoundsApart /\ Handshake)
<1>1. Init => RoundsApart /\ Handshake
  BY InitApart
<1>2. IInv /\ IInv' /\ RoundsApart /\ Handshake /\ [Next]_vars => RoundsApart' /\ Handshake'
  <2> SUFFICES ASSUME IInv, IInv', RoundsApart, Handshake, [Next]_vars
               PROVE  RoundsApart' /\ Handshake'
    OBVIOUS
  <2>1. ByState /\ TypeOK'
    BY InvByState DEF IInv
  <2>2. CASE Next
    BY <2>1, <2>2, NextApart, NextHands
  <2>3. CASE UNCHANGED vars
    <3>1. RoundsApart'
      BY <2>3 DEF vars, RoundsApart, NoOldRound
    <3>2. Handshake'
      BY <2>3, HandshakeRests DEF vars
    <3> QED  BY <3>1, <3>2
  <2> QED  BY <2>2, <2>3
<1> QED  BY <1>1, <1>2, Invariance, PTL DEF Spec

-----------------------------------------------------------------------------
(* What the client stores, through map reloads.                             *)
LEMMA ContentsKept ==
  ASSUME RoundContents, server'.round = server.round, server'.snaps = server.snaps,
         client'.entered = client.entered, client'.snaps = client.snaps,
         down' \subseteq down, built' = built
  PROVE  RoundContents'
BY DEF RoundContents

(* A reload and an entry start from nothing.                                *)
LEMMA ContentsAnew ==
  ASSUME TypeOK, RoundContents, RoundsInOrder, MapReload \/ EnterGame
  PROVE  RoundContents'
<1>1. client \in ClientState /\ server \in ServerState
  BY DEF TypeOK
<1>2. CASE MapReload
  <2>1. server'.snaps = <<>> /\ client' = client /\ down' = down /\ built' = built
    BY <1>1, <1>2 DEF MapReload, ServerState
  <2>2. \A i \in DOMAIN server'.snaps : FALSE
    BY <2>1, EmptyList
  <2> QED  BY <2>1, <2>2 DEF RoundContents
<1>3. CASE EnterGame
  <2>1. PICK c \in Hearing(client, server, toClient, "ready_to_enter") :
          /\ client' = Entered(c, Head(toClient).round)
          /\ UNCHANGED <<server, down, built>>
    BY <1>3 DEF EnterGame
  <2>2. c \in ClientState /\ toClient # <<>>
    BY ClientHears
  <2>3. client'.snaps = <<>> /\ client'.entered = Head(toClient).round
    BY <2>1, <2>2 DEF Entered, ClientState
  <2>4. 1 \in DOMAIN toClient /\ Head(toClient) = toClient[1]
    BY <2>2, TailHas DEF TypeOK
  <2>5. /\ client.entered <= client'.entered /\ client.entered \in Int
        /\ client'.entered \in Int
    BY <2>3, <2>4, RoundTypes DEF RoundsInOrder
  <2>6. \A i \in DOMAIN client'.snaps : FALSE
    BY <2>3, EmptyList
  <2>7. \A p \in down : p.to.round \in Int
    BY RoundTypes
  <2> QED  BY <2>1, <2>5, <2>6, <2>7 DEF RoundContents
<1> QED  BY <1>2, <1>3

(* The server sends what it has just built, as the difference to a snapshot *)
(* of the same round.                                                       *)
LEMMA ContentsSent ==
  ASSUME ByState, RoundContents, EntersFirst, DoSnapshot
  PROVE  RoundContents'
<1> DEFINE tick  == server.tick + 1
           snaps == Stored(server, tick)
           base  == BaseFor(server, snaps)
           shot  == ShotAt(server.round, tick)
<1>1. /\ server \in ServerState /\ ServerOK(server) /\ server.tick \in Nat
      /\ client.entered = server.round /\ server.round \in Round
      /\ \A p \in down : p \in Part
  BY Ticks_Int DEF ByState, TypeOK, ServerState, DoSnapshot, SnapshotDue, EntersFirst
<1>2. tick \in Tick /\ server.tick < tick
  BY <1>1, SnapAssumption DEF DoSnapshot, Tick
<1>3. /\ server'.round = server.round /\ server'.snaps = snaps /\ client' = client
      /\ built' = built \cup {Holder(tick, shot)}
  BY <1>1 DEF DoSnapshot, ServerState
<1>4. PICK n \in 1 .. MaxParts :
        \E sent \in SUBSET PartsOf(server, tick, base, snaps, n) : down' = down \cup sent
  BY DEF DoSnapshot, SendDown
<1>5. PICK sent \in SUBSET PartsOf(server, tick, base, snaps, n) : down' = down \cup sent
  BY <1>4
<1>6. shot.round = server.round /\ shot = ShotAt(shot.round, tick)
      /\ Holder(tick, shot).tick = tick /\ Holder(tick, shot).shot = shot
  BY DEF ShotAt, Holder
<1>7. /\ snaps \in Holders
      /\ \A i \in DOMAIN snaps : \/ snaps[i] = Holder(tick, shot)
                                 \/ \E j \in DOMAIN server.snaps : snaps[i] = server.snaps[j]
  BY <1>1, <1>2, StoredIs
<1> HIDE DEF snaps
<1>8. \A i \in DOMAIN snaps : snaps[i].shot = ShotAt(server.round, snaps[i].tick)
  BY <1>6, <1>7 DEF RoundContents
<1>9. /\ base \in Tick \cup {NoTick}
      /\ Get(snaps, base) = IF base = NoTick THEN EmptyShot ELSE ShotAt(server.round, base)
  <2>1. CASE base = NoTick
    <3>1. ~Has(snaps, NoTick)
      BY <1>7, GetType, Ticks_Int
    <3> QED  BY <2>1, <3>1 DEF Get
  <2>2. CASE base # NoTick
    <3>1. Has(snaps, base)
      BY <2>2 DEF BaseFor
    <3>2. /\ base \in Tick
          /\ \E i \in DOMAIN snaps : snaps[i] = Holder(base, Get(snaps, base))
      BY <1>7, <3>1, GetType
    <3>3. PICK i \in DOMAIN snaps : snaps[i] = Holder(base, Get(snaps, base))
      BY <3>2
    <3>4. snaps[i].tick = base /\ snaps[i].shot = Get(snaps, base)
      BY <3>3 DEF Holder
    <3> QED  BY <1>8, <2>2, <3>2, <3>4
  <2> QED  BY <2>1, <2>2
<1> HIDE DEF tick, base
<1>10. ASSUME NEW p \in sent
       PROVE  /\ Holder(p.tick, p.to) \in built'
              /\ p.to = ShotAt(p.to.round, p.tick)
              /\ p.from = IF p.base = NoTick THEN EmptyShot ELSE ShotAt(p.to.round, p.base)
              /\ p.to.round <= client'.entered
  <2>1. p.tick = tick /\ p.base = base /\ p.from = Get(snaps, base) /\ p.to = shot
    BY <1>1, <1>2, <1>7, <1>9, PartsOfAre
  <2>2. server.round \in Int
    BY <1>1 DEF Round
  <2> HIDE DEF shot
  <2> QED  BY <1>1, <1>3, <1>6, <1>9, <2>1, <2>2
<1> HIDE DEF shot
<1>11. ASSUME NEW p \in down'
       PROVE  /\ Holder(p.tick, p.to) \in built'
              /\ p.to = ShotAt(p.to.round, p.tick)
              /\ p.from = IF p.base = NoTick THEN EmptyShot ELSE ShotAt(p.to.round, p.base)
              /\ p.to.round <= client'.entered
  <2>1. CASE p \in down
    BY <1>3, <2>1 DEF RoundContents
  <2> QED  BY <1>5, <1>10, <2>1
<1>12. \A i \in DOMAIN client'.snaps :
         /\ client'.snaps[i] \in built'
         /\ client'.snaps[i].shot = ShotAt(client'.entered, client'.snaps[i].tick)
  BY <1>3 DEF RoundContents
<1> QED  BY <1>3, <1>8, <1>11, <1>12 DEF RoundContents

(* A part that is taken is of the client's round, so that its base is what  *)
(* the client has for that tick.                                            *)
LEMMA ContentsReceived ==
  ASSUME ByState, RoundsApart, RoundContents, ReceivePart
  PROVE  RoundContents'
<1>1. PICK p \in down :
        /\ Feeds(client, p.ack)
        /\ down' \in {down, down \ {p}}
        /\ LET c == [client EXCEPT !.peer = p.ack]
               d == Collect(c, p)
           IN  \/ ~Wanted(c, p) /\ client' = c /\ up' = up
               \/ Wanted(c, p) /\ ~Complete(d, p) /\ client' = d /\ up' = up
               \/ Wanted(c, p) /\ Complete(d, p) /\ ApplySnapshot([d EXCEPT !.parts = {}], p)
        /\ UNCHANGED <<server, built>>
  BY DEF ReceivePart
<1>2. StoresOf(client, client', p)
  BY <1>1, ReceiveFollows
<1>3. TypeOK /\ client \in ClientState /\ p \in Part
  BY DEF ByState, TypeOK
<1>4. client'.entered = client.entered
  BY <1>1, <1>3, ReceiveStands
<1>5. p.to.round = client.entered
  <2>1. ~(p.to.round < client.entered)
    BY <1>1, <1>3, RoundTypes DEF RoundsApart, Feeds
  <2>2. p.to.round <= client.entered
    BY DEF RoundContents
  <2> QED  BY <1>3, <2>1, <2>2, RoundTypes
<1>6. /\ Holder(p.tick, p.to) \in built
      /\ p.to = ShotAt(client.entered, p.tick)
      /\ p.from = IF p.base = NoTick THEN EmptyShot ELSE ShotAt(client.entered, p.base)
  BY <1>5 DEF RoundContents
<1>7. ASSUME NEW shot \in Shot, FineShot(client, p, shot)
      PROVE  shot = p.to
  <2>1. CASE p.from = p.to /\ Has(client.snaps, p.base) /\ shot = Get(client.snaps, p.base)
    <3>1. PICK j \in DOMAIN client.snaps : client.snaps[j] = Holder(p.base, shot)
      BY <1>3, <2>1, ClientType, GetType
    <3>2. client.snaps[j].tick = p.base /\ client.snaps[j].shot = shot
      BY <3>1 DEF Holder
    <3>3. shot = ShotAt(client.entered, p.base)
      BY <3>2 DEF RoundContents
    <3>4. p.base # NoTick
      BY <1>3, <2>1, GetType, ClientType, Ticks_Int
    <3> QED  BY <1>6, <2>1, <3>3, <3>4
  <2> QED  BY <1>7, <2>1 DEF FineShot
<1>8. ASSUME NEW i \in DOMAIN client'.snaps
      PROVE  /\ client'.snaps[i] \in built
             /\ client'.snaps[i].shot = ShotAt(client.entered, client'.snaps[i].tick)
  <2>1. CASE \E j \in DOMAIN client.snaps : client'.snaps[i] = client.snaps[j]
    BY <2>1 DEF RoundContents
  <2>2. CASE \E shot \in Shot : client'.snaps[i] = Holder(p.tick, shot) /\ FineShot(client, p, shot)
    <3>1. client'.snaps[i] = Holder(p.tick, p.to)
      BY <1>7, <2>2
    <3>2. client'.snaps[i].tick = p.tick /\ client'.snaps[i].shot = p.to
      BY <3>1 DEF Holder
    <3> QED  BY <1>6, <3>1, <3>2
  <2> QED  BY <1>2, <2>1, <2>2 DEF StoresOf
<1>9. \A q \in down' : q \in down
  BY <1>1
<1> QED  BY <1>1, <1>4, <1>8, <1>9 DEF RoundContents

LEMMA NextContents ==
  ASSUME ByState, RoundsApart, Handshake, EntersFirst, RoundContents, Next
  PROVE  RoundContents'
<1>1. TypeOK /\ client \in ClientState /\ server \in ServerState /\ RoundsInOrder
  BY DEF ByState, TypeOK, Handshake
<1>2. CASE TickOnly \/ OnInput
  <2>1. /\ server'.round = server.round /\ server'.snaps = server.snaps
        /\ UNCHANGED <<client, down, built>>
    BY <1>1, <1>2 DEF TickOnly, OnInput, ServerState
  <2> QED  BY <2>1, ContentsKept
<1>3. CASE OnReady \/ OnStartInfo \/ OnEnterGameMsg
  <2>1. PICK kind : \E s \in Hearing(server, client, toServer, kind) :
          /\ \/ server' = s \/ \E x : server' = [s EXCEPT !.state = x]
             \/ server' = [s EXCEPT !.isReady = TRUE]
          /\ UNCHANGED <<client, down, built>>
    <3>1. CASE OnReady
      BY <3>1 DEF OnReady
    <3>2. CASE OnStartInfo
      BY <3>2 DEF OnStartInfo
    <3>3. CASE OnEnterGameMsg
      BY <3>3 DEF OnEnterGameMsg
    <3> QED  BY <1>3, <3>1, <3>2, <3>3
  <2>2. PICK s \in Hearing(server, client, toServer, kind) :
          /\ \/ server' = s \/ \E x : server' = [s EXCEPT !.state = x]
             \/ server' = [s EXCEPT !.isReady = TRUE]
          /\ UNCHANGED <<client, down, built>>
    BY <2>1
  <2>3. s \in ServerState /\ s.round = server.round /\ s.snaps = server.snaps
    BY <1>1, ServerHears, ServerHearsRound
  <2>4. server'.round = server.round /\ server'.snaps = server.snaps
    BY <2>2, <2>3 DEF ServerState
  <2> QED  BY <2>2, <2>4, ContentsKept
<1>4. CASE OnMapChange \/ OnConReady
  <2>1. PICK kind : \E c \in Hearing(client, server, toClient, kind) :
          /\ \/ client' = c \/ client' = Loaded(c)
             \/ client' = [c EXCEPT !.online = FALSE, !.download = TRUE]
          /\ UNCHANGED <<server, down, built>>
    <3>1. CASE OnMapChange
      BY <3>1 DEF OnMapChange
    <3>2. CASE OnConReady
      BY <3>2 DEF OnConReady
    <3> QED  BY <1>4, <3>1, <3>2
  <2>2. PICK c \in Hearing(client, server, toClient, kind) :
          /\ \/ client' = c \/ client' = Loaded(c)
             \/ client' = [c EXCEPT !.online = FALSE, !.download = TRUE]
          /\ UNCHANGED <<server, down, built>>
    BY <2>1
  <2>3. c \in ClientState /\ c.entered = client.entered /\ c.snaps = client.snaps
    BY <1>1, ClientHearsRound
  <2>4. client'.entered = client.entered /\ client'.snaps = client.snaps
    BY <2>2, <2>3 DEF ClientState, Loaded
  <2> QED  BY <2>2, <2>4, ContentsKept
<1>5. CASE FinishMapDownload \/ ShowNext \/ PredictNext \/ Lose
  <2>1. /\ client'.entered = client.entered /\ client'.snaps = client.snaps
        /\ UNCHANGED <<server, built>> /\ down' \subseteq down
    <3>1. CASE FinishMapDownload
      BY <1>1, <3>1 DEF FinishMapDownload, Loaded, ClientState
    <3>2. CASE ShowNext \/ PredictNext
      BY <1>1, <3>2 DEF ShowNext, PredictNext, ClientState
    <3>3. CASE Lose
      BY <3>3 DEF Lose
    <3> QED  BY <1>5, <3>1, <3>2, <3>3
  <2> QED  BY <2>1, ContentsKept
<1> QED  BY <1>1, <1>2, <1>3, <1>4, <1>5, ContentsAnew, ContentsSent, ContentsReceived DEF Next

LEMMA RoundsKeepContents ==
  Spec /\ []EntersFirst => []RoundContents
<1>1. Init => RoundContents
  <2> SUFFICES ASSUME Init  PROVE RoundContents
    OBVIOUS
  <2>1. client.snaps = <<>> /\ server.snaps = <<>> /\ down = {}
    BY DEF Init
  <2>2. DOMAIN client.snaps = {} /\ DOMAIN server.snaps = {}
    BY <2>1, EmptyList
  <2> QED  BY <2>1, <2>2 DEF RoundContents
<1>2. IInv /\ RoundsApart /\ Handshake /\ EntersFirst /\ RoundContents /\ [Next]_vars
        => RoundContents'
  <2> SUFFICES ASSUME IInv, RoundsApart, Handshake, EntersFirst, RoundContents, [Next]_vars
               PROVE  RoundContents'
    OBVIOUS
  <2>1. ByState
    BY InvByState
  <2>2. CASE Next
    BY <2>1, <2>2, NextContents
  <2>3. CASE UNCHANGED vars
    BY <2>3, ContentsKept DEF vars
  <2> QED  BY <2>2, <2>3
<1> QED  BY <1>1, <1>2, Invariance, HandshakeInStep, PTL DEF Spec

(* What the client stores is what the server built for that tick, through   *)
(* any number of map reloads in which the server lets the client into no    *)
(* game it has not entered.                                                 *)
THEOREM AgreementOnceEntered ==
  Spec /\ []EntersFirst => []SnapshotsAgree
<1>1. RoundContents => SnapshotsAgree
  BY DEF RoundContents, SnapshotsAgree
<1> QED  BY <1>1, RoundsKeepContents, PTL

(* Through up to two map reloads, however close, the server lets the client *)
(* into no game it has not entered.                                         *)
THEOREM EnteredFirst ==
  ASSUME MaxRound <= 2
  PROVE  Spec => []EntersFirst
<1>1. Handshake => EntersFirst
  BY DEF Handshake
<1> QED  BY <1>1, HandshakeInStep, PTL

(* What the client stores is what the server built for that tick, also      *)
(* after an empty difference and through two map reloads, however close.    *)
THEOREM Agreement ==
  ASSUME MaxRound <= 2
  PROVE  Spec => []SnapshotsAgree
BY EnteredFirst, AgreementOnceEntered, PTL

-----------------------------------------------------------------------------
(* The refinement: what the client shows is of the round it has entered.    *)
ShownAsBuilt ==
    /\ client.cur = NoTick => Shown = Holder(NoTick, EmptyShot)
    /\ client.cur # NoTick =>
         Shown \in built /\ Shown = Holder(client.cur, ShotAt(client.entered, client.cur))

LEMMA ShownInRound ==
  ByState /\ RoundContents => ShownAsBuilt
<1> SUFFICES ASSUME ByState, RoundContents  PROVE ShownAsBuilt
  OBVIOUS
<1>1. client \in ClientState /\ client.snaps \in Holders /\ ClientOK(client)
  BY ClientType DEF ByState, TypeOK
<1>2. CASE client.cur = NoTick
  BY <1>2 DEF Shown, ShownAsBuilt
<1>3. CASE client.cur # NoTick
  <2> DEFINE i == At(client.snaps, client.cur)
  <2>1. i \in DOMAIN client.snaps /\ client.snaps[i].tick = client.cur
    BY <1>1, <1>3, AtFinds DEF ClientOK
  <2> HIDE DEF i
  <2>2. Shown = client.snaps[i]
    BY <1>3 DEF Shown, i
  <2>3. Shown \in built /\ Shown.shot = ShotAt(client.entered, client.cur)
    BY <2>1, <2>2 DEF RoundContents
  <2>4. Shown = Holder(Shown.tick, Shown.shot)
    BY <1>1, <2>1, <2>2, HolderType
  <2> QED  BY <1>3, <2>1, <2>2, <2>3, <2>4 DEF ShownAsBuilt
<1> QED  BY <1>2, <1>3

LEMMA ShownInRoundPrime ==
  (ByState /\ RoundContents)' => ShownAsBuilt'
BY ShownInRound, PTL

(* A step of the client's snapshots shows what was shown, or a later one of *)
(* the same round.                                                          *)
LEMMA FollowsShows ==
  ASSUME ByState, RoundContents, ByState', RoundContents', Follows(client, client'),
         client'.entered = client.entered, UNCHANGED built
  PROVE  [Stream!Next]_(Stream!vars)
<1>1. ShownAsBuilt /\ ShownAsBuilt'
  BY ShownInRound, ShownInRoundPrime
<1>2. Shown' = Shown \/ (client'.cur # NoTick /\ client.cur < client'.cur)
  BY DEF Follows, ShownBy, Shown
<1>3. CASE Shown' = Shown
  BY <1>3 DEF Stream!vars
<1>4. CASE client'.cur # NoTick /\ client.cur < client'.cur
  <2>1. Shown' \in built /\ Shown' = Holder(client'.cur, ShotAt(client.entered, client'.cur))
    BY <1>1, <1>4 DEF ShownAsBuilt
  <2>2. CASE client.cur = NoTick
    <3>1. Shown = Stream!Nothing
      BY <1>1, <2>2 DEF ShownAsBuilt, Stream!Nothing, Holder, NoTick, EmptyShot
    <3> QED  BY <2>1, <3>1 DEF Stream!Show, Stream!Next
  <2>3. CASE client.cur # NoTick
    <3>1. Shown = Holder(client.cur, ShotAt(client.entered, client.cur))
      BY <1>1, <2>3 DEF ShownAsBuilt
    <3>2. Stream!Before(Shown, Shown')
      BY <1>4, <2>1, <3>1 DEF Stream!Before, Holder, ShotAt
    <3> QED  BY <2>1, <3>2 DEF Stream!Show, Stream!Next
  <2> QED  BY <2>2, <2>3
<1> QED  BY <1>2, <1>3, <1>4

(* The server's snapshots so far, by rounds and ticks.                      *)
BuiltSoFar ==
    \A b \in built :
        /\ b.shot.round \in Nat /\ b.shot.round <= server.round
        /\ b.tick \in Nat
        /\ b.shot.round = server.round => b.tick <= server.tick

LEMMA BuiltKept ==
  ASSUME BuiltSoFar, server.tick \in Nat, server'.tick \in Nat, server'.round = server.round,
         server.tick <= server'.tick, built' = built
  PROVE  BuiltSoFar'
BY DEF BuiltSoFar

LEMMA SnapshotBuilds ==
  ASSUME TypeOK, BuiltSoFar, DoSnapshot
  PROVE  Stream!Build /\ BuiltSoFar'
<1> DEFINE tick == server.tick + 1
           new  == Holder(tick, ShotAt(server.round, tick))
<1>1. /\ server \in ServerState
      /\ server.tick < MaxTick /\ built' = built \cup {new} /\ client' = client
  BY DEF DoSnapshot, TypeOK
<1>2. server'.tick = tick /\ server'.round = server.round
  BY <1>1 DEF DoSnapshot, ServerState
<1>3. server.tick \in Nat /\ tick \in Tick /\ server.round \in Round /\ server.round \in Nat
  BY <1>1, SnapAssumption DEF ServerState, Tick, Round
<1>4. new \in [tick : Tick, shot : Shot]
  BY <1>3, ShotAtType DEF Holder
<1>5. new.tick = tick /\ new.shot.round = server.round
  BY DEF Holder, ShotAt
<1> HIDE DEF new
<1>6. \A b \in built : b # new /\ Stream!Before(b, new)
  BY <1>3, <1>5 DEF BuiltSoFar, Stream!Before
<1>7. built' # built
  BY <1>1, <1>6
<1>8. Shown' = Shown
  BY <1>1 DEF Shown
<1>9. BuiltSoFar'
  BY <1>1, <1>2, <1>3, <1>5 DEF BuiltSoFar
<1> QED  BY <1>1, <1>4, <1>6, <1>7, <1>8, <1>9 DEF Stream!Build, Stream!Snapshot

(* The steps that show nothing else.                                        *)
LEMMA SameShown ==
  ASSUME client'.snaps = client.snaps, client'.cur = client.cur, UNCHANGED built
  PROVE  UNCHANGED Stream!vars
BY DEF Shown, Stream!vars

LEMMA StreamInit ==
  Init => Stream!Init
BY DEF Init, Stream!Init, Stream!Nothing, Shown, Holder, NoTick, EmptyShot

LEMMA NextBuilt ==
  ASSUME TypeOK, TypeOK', BuiltSoFar, [Next]_vars
  PROVE  BuiltSoFar'
<1>1. /\ server \in ServerState /\ client \in ClientState
      /\ server.tick \in Nat /\ server'.tick \in Nat /\ server.round \in Nat
  BY SnapAssumption DEF TypeOK, ServerState, Tick, Round
<1>2. CASE TickOnly
  <2>1. server'.tick = server.tick + 1 /\ server'.round = server.round /\ built' = built
    BY <1>1, <1>2 DEF TickOnly, ServerState
  <2> QED  BY <1>1, <2>1, BuiltKept
<1>3. CASE OnInput
  <2>1. server'.tick = server.tick /\ server'.round = server.round /\ built' = built
    BY <1>1, <1>3 DEF OnInput, ServerState
  <2> QED  BY <1>1, <2>1, BuiltKept
<1>4. CASE OnReady \/ OnStartInfo \/ OnEnterGameMsg
  <2>1. PICK kind : \E s \in Hearing(server, client, toServer, kind) :
          /\ \/ server' = s \/ \E x : server' = [s EXCEPT !.state = x]
             \/ server' = [s EXCEPT !.isReady = TRUE]
          /\ built' = built
    <3>1. CASE OnReady
      BY <3>1 DEF OnReady
    <3>2. CASE OnStartInfo
      BY <3>2 DEF OnStartInfo
    <3>3. CASE OnEnterGameMsg
      BY <3>3 DEF OnEnterGameMsg
    <3> QED  BY <1>4, <3>1, <3>2, <3>3
  <2>2. PICK s \in Hearing(server, client, toServer, kind) :
          /\ \/ server' = s \/ \E x : server' = [s EXCEPT !.state = x]
             \/ server' = [s EXCEPT !.isReady = TRUE]
          /\ built' = built
    BY <2>1
  <2>3. s \in ServerState /\ s.round = server.round /\ s.tick = server.tick
    BY ServerHears, ServerHearsRound
  <2>4. server'.round = server.round /\ server'.tick = server.tick
    BY <2>2, <2>3 DEF ServerState
  <2> QED  BY <1>1, <2>2, <2>4, BuiltKept
<1>5. CASE MapReload
  <2>1. server'.round = server.round + 1 /\ built' = built
    BY <1>1, <1>5 DEF MapReload, ServerState
  <2> QED  BY <1>1, <2>1 DEF BuiltSoFar
<1>6. CASE DoSnapshot
  BY <1>6, SnapshotBuilds
<1>7. CASE \/ OnMapChange \/ FinishMapDownload \/ OnConReady \/ EnterGame
           \/ ReceivePart \/ ShowNext \/ PredictNext \/ Lose \/ UNCHANGED vars
  <2>1. server' = server /\ built' = built
    BY <1>7 DEF OnMapChange, FinishMapDownload, OnConReady, EnterGame, ReceivePart,
                ShowNext, PredictNext, Lose, vars
  <2> QED  BY <1>1, <2>1, BuiltKept
<1> QED  BY <1>2, <1>3, <1>4, <1>5, <1>6, <1>7 DEF Next

LEMMA StreamNext ==
  ASSUME ByState, ByState', RoundContents, RoundContents', BuiltSoFar, [Next]_vars
  PROVE  [Stream!Next]_(Stream!vars)
<1>1. TypeOK /\ client \in ClientState
  BY DEF ByState, TypeOK
<1>2. CASE TickOnly \/ OnInput \/ OnReady \/ OnStartInfo \/ OnEnterGameMsg \/ MapReload
           \/ Lose \/ UNCHANGED vars
  BY <1>2, SameShown DEF TickOnly, OnInput, OnReady, OnStartInfo, OnEnterGameMsg, MapReload,
                         Lose, vars
<1>3. CASE DoSnapshot
  BY <1>1, <1>3, SnapshotBuilds DEF Stream!Next
<1>4. CASE OnMapChange
  <2>1. PICK c \in Hearing(client, server, toClient, "map_change") :
          \/ client' = [c EXCEPT !.online = FALSE, !.download = TRUE]
          \/ client' = Loaded(c)
    BY <1>4 DEF OnMapChange
  <2>2. c \in ClientState /\ c.snaps = client.snaps /\ c.cur = client.cur
    BY <1>1, ClientHears
  <2>3. client'.snaps = client.snaps /\ client'.cur = client.cur
    BY <2>1, <2>2 DEF Loaded, ClientState
  <2>4. built' = built
    BY <1>4 DEF OnMapChange
  <2> QED  BY <2>3, <2>4, SameShown
<1>5. CASE FinishMapDownload
  <2>1. client' = Loaded(client) /\ built' = built
    BY <1>5 DEF FinishMapDownload
  <2>2. client'.snaps = client.snaps /\ client'.cur = client.cur
    BY <1>1, <2>1 DEF Loaded, ClientState
  <2> QED  BY <2>1, <2>2, SameShown
<1>6. CASE OnConReady
  <2>1. client' \in Hearing(client, server, toClient, "con_ready") /\ built' = built
    BY <1>6 DEF OnConReady
  <2>2. client'.snaps = client.snaps /\ client'.cur = client.cur
    BY <1>1, <2>1, ClientHears
  <2> QED  BY <2>1, <2>2, SameShown
<1>7. CASE EnterGame
  <2>1. PICK c \in Hearing(client, server, toClient, "ready_to_enter") :
          client' = Entered(c, Head(toClient).round)
    BY <1>7 DEF EnterGame
  <2>2. c \in ClientState
    BY <1>1, ClientHears
  <2>3. client'.cur = NoTick
    BY <2>1, <2>2 DEF Entered, ClientState
  <2>4. Shown' = Stream!Nothing
    BY <2>3 DEF Shown, Stream!Nothing, Holder, NoTick, EmptyShot
  <2>5. built' = built
    BY <1>7 DEF EnterGame
  <2> QED  BY <2>4, <2>5 DEF Stream!Enter, Stream!Next
<1>8. CASE ReceivePart
  <2>1. PICK p \in down :
          LET c == [client EXCEPT !.peer = p.ack]
              d == Collect(c, p)
          IN  \/ ~Wanted(c, p) /\ client' = c /\ up' = up
              \/ Wanted(c, p) /\ ~Complete(d, p) /\ client' = d /\ up' = up
              \/ Wanted(c, p) /\ Complete(d, p) /\ ApplySnapshot([d EXCEPT !.parts = {}], p)
    BY <1>8 DEF ReceivePart
  <2>2. p \in Part
    BY <1>1 DEF TypeOK
  <2>3. Follows(client, client')
    BY <2>1, ReceiveFollows
  <2>4. client'.entered = client.entered
    BY <1>1, <2>1, <2>2, ReceiveStands
  <2>5. built' = built
    BY <1>8 DEF ReceivePart
  <2> QED  BY <2>3, <2>4, <2>5, FollowsShows
<1>9. CASE ShowNext
  <2>1. Follows(client, client') /\ built' = built /\ client'.entered = client.entered
    BY <1>1, <1>9, ShowNextFollows DEF ShowNext, ClientState
  <2> QED  BY <2>1, FollowsShows
<1>10. CASE PredictNext
  <2>1. Follows(client, client') /\ built' = built /\ client'.entered = client.entered
    BY <1>1, <1>10, PredictNextFollows DEF PredictNext, ClientState
  <2> QED  BY <2>1, FollowsShows
<1> QED  BY <1>2, <1>3, <1>4, <1>5, <1>6, <1>7, <1>8, <1>9, <1>10 DEF Next

(* The client shows snapshots the server built, in the order they were      *)
(* built, from every entry to the next, and through any number of reloads   *)
(* in which the server lets the client into no game it has not entered.     *)
THEOREM ImplementationOnceEntered ==
  Spec /\ []EntersFirst => ImplementsStream
<1>1. Init => BuiltSoFar
  BY DEF Init, BuiltSoFar
<1>2. IInv /\ IInv' /\ BuiltSoFar /\ [Next]_vars => BuiltSoFar'
  BY NextBuilt DEF IInv
<1>3. IInv /\ IInv' /\ RoundContents /\ RoundContents' /\ BuiltSoFar /\ [Next]_vars
        => [Stream!Next]_(Stream!vars)
  BY InvByState, InvByStatePrime, StreamNext
<1> QED  BY <1>1, <1>2, <1>3, StreamInit, Invariance, RoundsKeepContents, PTL
         DEF Spec, ImplementsStream, Stream!Spec

(* ... and through two reloads, however close.                              *)
THEOREM Implementation ==
  ASSUME MaxRound <= 2
  PROVE  Spec => ImplementsStream
BY EnteredFirst, ImplementationOnceEntered, PTL

(* No snapshot of an earlier round, however late its parts arrive, gets into *)
(* the list of a client that has entered a later one.                       *)
THEOREM OldRoundsStayOut ==
  Spec => []NoOldRound
<1>1. RoundsApart => NoOldRound
  BY DEF RoundsApart
<1> QED  BY <1>1, HandshakeInStep, PTL
=============================================================================
