------------------------------ MODULE SnapSync ------------------------------
(***************************************************************************)
(* Snapshots of the game from a server to one client, and the handshake    *)
(* around them (CServer::DoSnapshot, ProcessClientPacket and the map       *)
(* reload in CServer::Run; CClient::ProcessServerPacket, Update and        *)
(* OnEnterGame; CSnapshotStorage).  The server sends the difference to the *)
(* snapshot the client acknowledged last, in one or more parts; the client *)
(* names the latest snapshot it has with every input.  Parts and inputs    *)
(* are not vital: they get lost, repeated and overtaken.  The messages of  *)
(* the handshake are vital and form two queues.                            *)
(*                                                                         *)
(* Every packet carries the number of vital messages its sender has got,   *)
(* and CNetConnection::Feed drops one that carries less than a packet      *)
(* before it.  That is what keeps snapshots of an earlier round away from  *)
(* a client that has entered the next one.                                 *)
(*                                                                         *)
(* What a snapshot shows is given by its round and tick (World).  The      *)
(* difference of two that show the same is sent without a checksum.        *)
(***************************************************************************)
EXTENDS Integers, FiniteSets, Sequences

CONSTANTS
    MaxRound,      \* bound: map reloads
    MaxTick,       \* bound: ticks in a round, MAX_TICK in the code
    InitEvery,     \* ticks between two snapshots at the rate INIT, 10
    RecoverEvery,  \* the same at the rate RECOVER, 50
    KeepTicks,     \* how long the server keeps a snapshot, 150
    MaxParts,      \* parts of a snapshot, 64
    MaxCrcErrors,  \* checksum errors the client puts up with, 10
    Outcomes,      \* what may become of the data of a snapshot
    DownCap,       \* bound: parts under way
    UpCap,         \* bound: inputs under way
    World          \* what there is to see at each tick

Outcome == {"fine", "undecodable", "crc", "invalid"}

Round == 0 .. MaxRound
Tick == 0 .. MaxTick
NoTick == -1

ASSUME SnapAssumption ==
    /\ MaxRound \in Nat /\ MaxTick \in Nat
    /\ InitEvery \in Nat \ {0} /\ RecoverEvery \in Nat \ {0} /\ KeepTicks \in Nat
    /\ MaxParts \in Nat \ {0} /\ MaxCrcErrors \in Nat
    /\ Outcomes \subseteq Outcome
    /\ World \in [Tick -> Nat]

Value == {World[tick] : tick \in Tick}

Shot == [round : Round, value : Value]

ShotAt(round, tick) == [round |-> round, value |-> World[tick]]

(* CSnapshot::EmptySnapshot, and what comes out of a difference that is     *)
(* applied to something else than it was made from.                         *)
EmptyShot == [round |-> -1, value |-> 0]
Garbage == [round |-> -1, value |-> 1]

AnyShot == Shot \cup {EmptyShot, Garbage}

(* A holder of a CSnapshotStorage.                                          *)
Holder(tick, shot) == [tick |-> tick, shot |-> shot]

(* A part of a snapshot: the contents of its base and its own.              *)
Part == [tick : Tick, base : Tick \cup {NoTick}, from : AnyShot, to : Shot,
         part : Nat, parts : Nat, ack : Nat]

Input == [tick : Tick \cup {NoTick}, ack : Nat]

VARIABLES
    server,    \* the client's slot: state, m_IsReady, snapshots; the clock
    client,
    toClient,  \* vital messages under way, oldest first
    toServer,
    down,      \* parts under way
    up,        \* inputs under way
    built      \* history: the snapshots the server has built

vars == <<server, client, toClient, toServer, down, up, built>>

Init ==
    /\ server = [state |-> "connecting", isReady |-> FALSE, round |-> 0, tick |-> 0,
                 acked |-> NoTick, rate |-> "init", snaps |-> <<>>, heard |-> 0, peer |-> 0]
    /\ client = [online |-> FALSE, download |-> FALSE, ack |-> NoTick, recvTick |-> 0,
                 parts |-> {}, snaps |-> <<>>, received |-> 0, prev |-> NoTick,
                 cur |-> NoTick, predicts |-> FALSE, crcErrors |-> 0, heard |-> 0,
                 peer |-> 0, entered |-> 0, based |-> NoTick]
    /\ toClient = <<[kind |-> "map_change", round |-> 0, ack |-> 0]>>
    /\ toServer = <<>>
    /\ down = {} /\ up = {} /\ built = {}

-----------------------------------------------------------------------------
(* CSnapshotStorage, a list with the oldest holder first.                   *)
Ticks(snaps) == {snaps[i].tick : i \in DOMAIN snaps}

Has(snaps, tick) == tick \in Ticks(snaps)

(* Get finds the first holder of a tick, and leaves the empty snapshot in   *)
(* place if there is none.                                                  *)
At(snaps, tick) ==
    CHOOSE i \in DOMAIN snaps :
        snaps[i].tick = tick /\ \A j \in 1 .. i - 1 : snaps[j].tick # tick

Get(snaps, tick) == IF Has(snaps, tick) THEN snaps[At(snaps, tick)].shot ELSE EmptyShot

(* PurgeUntil frees holders from the front and stops at the first that is   *)
(* not too old.                                                             *)
Kept(snaps, tick) ==
    CHOOSE i \in DOMAIN snaps :
        snaps[i].tick >= tick /\ \A j \in 1 .. i - 1 : snaps[j].tick < tick

(* Seeded fault: the holder of the tick goes as well.                       *)
PurgeBeyond(snaps, tick) == SelectSeq(snaps, LAMBDA h : h.tick > tick)

PurgeUntil(snaps, tick) ==
    IF \A i \in DOMAIN snaps : snaps[i].tick < tick THEN <<>>
    ELSE SubSeq(snaps, Kept(snaps, tick), Len(snaps))

Add(snaps, tick, shot) == Append(snaps, Holder(tick, shot))

(* CreateDelta and UnpackDelta.                                             *)
Unpack(base, p) ==
    IF p.from = p.to THEN base ELSE IF p.from = base THEN p.to ELSE Garbage

-----------------------------------------------------------------------------
(* The network.  Some of what is sent is lost at once; what is under way    *)
(* may arrive any number of times, and get lost later.                      *)
SendDown(parts) ==
    \E sent \in SUBSET parts :
        /\ Cardinality(down \cup sent) <= DownCap
        /\ down' = down \cup sent

SendUp(input) ==
    \/ up' = up
    \/ Cardinality(up \cup {input}) <= UpCap /\ up' = up \cup {input}

Lose ==
    /\ \/ (\E p \in down : down' = down \ {p}) /\ UNCHANGED up
       \/ (\E i \in up : up' = up \ {i}) /\ UNCHANGED down
    /\ UNCHANGED <<server, client, toClient, toServer, built>>

(* Seeded fault: packets that were overtaken are taken as well.             *)
FeedsAny(end, ack) == TRUE

(* CNetConnection::Feed: has this packet been overtaken by one that         *)
(* acknowledges more?                                                       *)
Feeds(end, ack) == ack >= end.peer

(* A vital message travels with every packet from the one it was queued for *)
(* until it is acknowledged; any of them may be the one that arrives.       *)
Vital(kind, sender) == [kind |-> kind, round |-> server.round, ack |-> sender.heard]

Hearing(receiver, sender, queue, kind) ==
    {[receiver EXCEPT !.heard = @ + 1, !.peer = ack] :
        ack \in {a \in 0 .. sender.heard : /\ queue # <<>>
                                           /\ Head(queue).kind = kind
                                           /\ Head(queue).ack <= a
                                           /\ Feeds(receiver, a)}}

-----------------------------------------------------------------------------
(* The server.                                                              *)
(* DoSnapshot sends nothing to a client that is not in the game, and less   *)
(* often to one that starts or recovers.                                    *)
SnapshotDue(s, tick) ==
    /\ s.state = "ingame"
    /\ s.rate = "recover" => tick % RecoverEvery = 0
    /\ s.rate = "init" => tick % InitEvery = 0

Stored(s, tick) ==
    Add(PurgeUntil(s.snaps, tick - KeepTicks), tick, ShotAt(s.round, tick))

(* Seeded fault: the latest snapshot is taken for the base, as if the       *)
(* client must have got it.                                                 *)
LatestBase(s, snaps) == IF Len(snaps) > 1 THEN snaps[Len(snaps) - 1].tick ELSE NoTick

BaseFor(s, snaps) == IF Has(snaps, s.acked) THEN s.acked ELSE NoTick

(* The n parts of the snapshot of a tick, sent at once.                     *)
PartsOf(s, tick, base, snaps, n) ==
    [tick : {tick}, base : {base}, from : {Get(snaps, base)},
     to : {ShotAt(s.round, tick)}, part : 0 .. n - 1, parts : {n}, ack : {s.heard}]

(* The game moves on by a tick.  The main loop may make several before it   *)
(* comes to DoSnapshot, and leaves out odd ones without sv_high_bandwidth.  *)
TickOnly ==
    /\ server.tick < MaxTick
    /\ server' = [server EXCEPT !.tick = @ + 1]
    /\ UNCHANGED <<client, toClient, toServer, down, up, built>>

DoSnapshot ==
    LET tick  == server.tick + 1
        snaps == Stored(server, tick)
        base  == BaseFor(server, snaps)
    IN  /\ server.tick < MaxTick
        /\ SnapshotDue(server, tick)
        /\ server' = [server EXCEPT !.tick = tick, !.snaps = snaps,
                        !.rate = IF base = NoTick /\ @ = "full" THEN "recover" ELSE @]
        /\ \E n \in 1 .. MaxParts :
             /\ Get(snaps, base) = ShotAt(server.round, tick) => n = 1
             /\ SendDown(PartsOf(server, tick, base, snaps, n))
        /\ built' = built \cup {Holder(tick, ShotAt(server.round, tick))}
        /\ UNCHANGED <<client, toClient, toServer, up>>

(* NETMSG_INPUT: the tick is taken as it is, in every state of the client.  *)
OnInput ==
    \E i \in up :
        /\ Feeds(server, i.ack)
        /\ up' \in {up, up \ {i}}
        /\ server' = [server EXCEPT !.peer = i.ack, !.acked = i.tick,
                                    !.rate = IF i.tick > 0 THEN "full" ELSE @]
        /\ UNCHANGED <<client, toClient, toServer, down, built>>

(* The map reload: CClient::Reset, and the clients connect again.           *)
MapReload ==
    /\ server.round < MaxRound
    /\ server' = [server EXCEPT !.state = "connecting", !.isReady = FALSE,
                    !.round = @ + 1, !.tick = 0, !.acked = NoTick, !.rate = "init",
                    !.snaps = <<>>]
    /\ toClient' = Append(toClient, [kind |-> "map_change", round |-> server.round + 1,
                                     ack |-> server.heard])
    /\ UNCHANGED <<client, toServer, down, up, built>>

(* NETMSG_READY: the first in a round makes a player; the answer is sent    *)
(* every time.                                                              *)
OnReady ==
    \E s \in Hearing(server, client, toServer, "ready") :
        /\ server' = IF s.state = "connecting" THEN [s EXCEPT !.state = "ready"] ELSE s
        /\ toServer' = Tail(toServer)
        /\ toClient' = Append(toClient, Vital("con_ready", s))
        /\ UNCHANGED <<client, down, up, built>>

(* CGameContext::OnStartInfoNetMessage takes effect once for a player.      *)
OnStartInfo ==
    \E s \in Hearing(server, client, toServer, "start_info") :
        LET first == s.state # "connecting" /\ ~s.isReady
        IN  /\ server' = IF first THEN [s EXCEPT !.isReady = TRUE] ELSE s
            /\ toServer' = Tail(toServer)
            /\ toClient' = IF first THEN Append(toClient, Vital("ready_to_enter", s))
                           ELSE toClient
            /\ UNCHANGED <<client, down, up, built>>

(* Seeded fault: whoever has a slot is let in.                              *)
EnterAtOnce ==
    \E s \in Hearing(server, client, toServer, "enter_game") :
        /\ server' = [s EXCEPT !.state = "ingame"]
        /\ toServer' = Tail(toServer)
        /\ UNCHANGED <<client, toClient, down, up, built>>

OnEnterGameMsg ==
    \E s \in Hearing(server, client, toServer, "enter_game") :
        /\ server' = IF s.state = "ready" /\ s.isReady THEN [s EXCEPT !.state = "ingame"]
                     ELSE s
        /\ toServer' = Tail(toServer)
        /\ UNCHANGED <<client, toClient, down, up, built>>

-----------------------------------------------------------------------------
(* The client's part of the handshake.                                      *)
(* LoadMap forgets how many snapshots have come, and nothing else.          *)
Loaded(c) == [c EXCEPT !.online = FALSE, !.download = FALSE, !.received = 0]

(* MAP_CHANGE: the map is there, or has to be downloaded.                   *)
OnMapChange ==
    \E c \in Hearing(client, server, toClient, "map_change") :
        /\ toClient' = Tail(toClient)
        /\ \/ /\ client' = [c EXCEPT !.online = FALSE, !.download = TRUE]
              /\ UNCHANGED toServer
           \/ /\ client' = Loaded(c)
              /\ toServer' = Append(toServer, Vital("ready", c))
        /\ UNCHANGED <<server, down, up, built>>

(* Seeded fault: the server is not told.                                    *)
FinishSilently ==
    /\ client.download
    /\ client' = Loaded(client)
    /\ UNCHANGED <<server, toClient, toServer, down, up, built>>

FinishMapDownload ==
    /\ client.download
    /\ client' = Loaded(client)
    /\ toServer' = Append(toServer, Vital("ready", client))
    /\ UNCHANGED <<server, toClient, down, up, built>>

(* CON_READY: CGameClient::OnConnected sends the start info.                *)
OnConReady ==
    \E c \in Hearing(client, server, toClient, "con_ready") :
        /\ client' = c
        /\ toClient' = Tail(toClient)
        /\ toServer' = Append(toServer, Vital("start_info", c))
        /\ UNCHANGED <<server, down, up, built>>

(* OnEnterGame: a client that enters starts from nothing.                   *)
Entered(c, round) ==
    [c EXCEPT !.snaps = <<>>, !.prev = NoTick, !.cur = NoTick, !.received = 0,
              !.parts = {}, !.predicts = FALSE, !.ack = NoTick, !.recvTick = 0,
              !.entered = round, !.based = NoTick]

EnterGame ==
    \E c \in Hearing(client, server, toClient, "ready_to_enter") :
        /\ client' = Entered(c, Head(toClient).round)
        /\ toClient' = Tail(toClient)
        /\ toServer' = Append(toServer, Vital("enter_game", c))
        /\ UNCHANGED <<server, down, up, built>>

-----------------------------------------------------------------------------
(* The client's snapshots.                                                  *)
(* SendInput sends nothing before the client predicts.                      *)
SendInput(c) ==
    IF c.predicts THEN SendUp([tick |-> c.ack, ack |-> c.heard]) ELSE up' = up

(* Seeded fault: parts of a tick that is over are taken.                    *)
WantedAfterAck(c, p) == p.tick > c.ack

Wanted(c, p) == p.tick >= c.recvTick /\ p.tick > c.ack

(* A part of a later tick ends the collection of the parts of this one.     *)
Collect(c, p) ==
    [c EXCEPT !.recvTick = p.tick,
              !.parts = (IF p.tick = c.recvTick THEN @ ELSE {}) \cup {p.part}]

Complete(c, p) == c.parts = 0 .. p.parts - 1

(* Seeded fault: what has no base is unpacked on the empty snapshot.        *)
NeverMissing(c, p) == FALSE

BaseMissing(c, p) == p.base >= 0 /\ ~Has(c.snaps, p.base)

Older(s, t) == IF s # NoTick /\ s < t THEN s ELSE t

(* Seeded fault: what is shown is forgotten.                                *)
PurgeBase(c, p) == p.base

(* The client goes on to need the base and the two snapshots it shows.      *)
PurgeTick(c, p) == Older(c.cur, Older(c.prev, p.base))

Purged(c, p) ==
    [c EXCEPT !.snaps = PurgeUntil(@, PurgeTick(c, p)),
              !.based = IF @ < p.base THEN p.base ELSE @]

(* The second snapshot puts the client online; nothing counts beyond three. *)
Accept(c, p, shot) ==
    LET d      == Purged(c, p)
        snaps  == Add(d.snaps, p.tick, shot)
        second == c.received = 1
    IN  [d EXCEPT !.snaps = snaps, !.ack = p.tick,
                  !.received = IF @ < 3 THEN @ + 1 ELSE 3,
                  !.prev = IF second THEN Head(snaps).tick ELSE @,
                  !.cur = IF second THEN p.tick ELSE @,
                  !.online = @ \/ second]

CrcError(c) ==
    IF c.crcErrors < MaxCrcErrors THEN [c EXCEPT !.crcErrors = @ + 1]
    ELSE [c EXCEPT !.crcErrors = 0, !.ack = NoTick]

CrcFine(c) == [c EXCEPT !.crcErrors = IF @ > 0 THEN @ - 1 ELSE 0]

ForceResync(c) ==
    /\ client' = [c EXCEPT !.ack = NoTick]
    /\ SendInput(client')

(* A snapshot is complete.  The checksum is not compared for an empty       *)
(* difference; validation comes after the purge.                            *)
ApplySnapshot(c, p) ==
    LET shot   == Unpack(Get(c.snaps, p.base), p)
        differ == p.from # p.to
    IN  \/ BaseMissing(c, p) /\ ForceResync(c)
        \/ /\ ~BaseMissing(c, p)
           /\ \/ /\ "undecodable" \in Outcomes
                 /\ client' = c /\ up' = up
              \/ /\ differ /\ (shot # p.to \/ "crc" \in Outcomes)
                 /\ client' = CrcError(c)
                 /\ IF c.crcErrors < MaxCrcErrors THEN up' = up ELSE SendInput(client')
              \/ /\ differ => shot = p.to
                 /\ \/ /\ "invalid" \in Outcomes
                       /\ client' = Purged(CrcFine(c), p)
                    \/ client' = Accept(CrcFine(c), p, shot)
                 /\ up' = up

ReceivePart ==
    \E p \in down :
        /\ Feeds(client, p.ack)
        /\ down' \in {down, down \ {p}}
        /\ LET c == [client EXCEPT !.peer = p.ack]
               d == Collect(c, p)
           IN  \/ ~Wanted(c, p) /\ client' = c /\ up' = up
               \/ Wanted(c, p) /\ ~Complete(d, p) /\ client' = d /\ up' = up
               \/ Wanted(c, p) /\ Complete(d, p) /\ ApplySnapshot([d EXCEPT !.parts = {}], p)
        /\ UNCHANGED <<server, toClient, toServer, built>>

(* Seeded fault: the walk through the list starts anew.                     *)
FirstHolder(c) == Head(c.snaps).tick

NextHolder(c) == c.snaps[At(c.snaps, c.cur) + 1].tick

(* Update: the next snapshot is shown when its time has come, if it is      *)
(* there; an input is sent for every predicted tick.                        *)
ShowNext ==
    /\ client.online /\ client.received >= 3
    /\ client.cur # client.snaps[Len(client.snaps)].tick
    /\ client' = [client EXCEPT !.prev = client.cur, !.cur = NextHolder(client)]
    /\ UNCHANGED <<server, toClient, toServer, down, up, built>>

PredictNext ==
    /\ client.online /\ client.received >= 3
    /\ client' = [client EXCEPT !.predicts = TRUE]
    /\ SendInput(client')
    /\ UNCHANGED <<server, toClient, toServer, down, built>>

-----------------------------------------------------------------------------
Next ==
    \/ TickOnly \/ DoSnapshot \/ OnInput \/ MapReload
    \/ OnReady \/ OnStartInfo \/ OnEnterGameMsg
    \/ OnMapChange \/ FinishMapDownload \/ OnConReady \/ EnterGame
    \/ ReceivePart \/ ShowNext \/ PredictNext
    \/ Lose

Spec == Init /\ [][Next]_vars

(* Vital messages arrive in the end, and a download ends.                   *)
Fairness ==
    /\ WF_vars(OnReady) /\ WF_vars(OnStartInfo) /\ WF_vars(OnEnterGameMsg)
    /\ WF_vars(OnMapChange) /\ WF_vars(FinishMapDownload)
    /\ WF_vars(OnConReady) /\ WF_vars(EnterGame)

FairSpec == Spec /\ Fairness

-----------------------------------------------------------------------------
Holders == Seq([tick : Tick, shot : Shot])

ServerState ==
    [state : {"connecting", "ready", "ingame"}, isReady : BOOLEAN, round : Round,
     tick : Tick, acked : Tick \cup {NoTick}, rate : {"init", "recover", "full"},
     snaps : Holders, heard : Nat, peer : Nat]

ClientState ==
    [online : BOOLEAN, download : BOOLEAN, ack : Tick \cup {NoTick}, recvTick : Tick,
     parts : SUBSET Nat, snaps : Holders, received : 0 .. 3, prev : Tick \cup {NoTick},
     cur : Tick \cup {NoTick}, predicts : BOOLEAN, crcErrors : 0 .. MaxCrcErrors,
     heard : Nat, peer : Nat, entered : Round, based : Tick \cup {NoTick}]

DownMessage == [kind : {"map_change", "con_ready", "ready_to_enter"}, round : Round, ack : Nat]
UpMessage == [kind : {"ready", "start_info", "enter_game"}, round : Round, ack : Nat]

TypeOK ==
    /\ server \in ServerState /\ client \in ClientState
    /\ toClient \in Seq(DownMessage) /\ toServer \in Seq(UpMessage)
    /\ down \in SUBSET Part
    /\ up \in SUBSET Input
    /\ built \in SUBSET [tick : Tick, shot : Shot]

Increasing(snaps) ==
    \A i, j \in DOMAIN snaps : i < j => snaps[i].tick < snaps[j].tick

(* Both lists are in the order of their ticks, each tick once, in whatever  *)
(* order parts arrive and acknowledgements are taken back: PurgeUntil and   *)
(* Get (CSnapshotStorage) rely on it.                                       *)
StoredInOrder == Increasing(client.snaps) /\ Increasing(server.snaps)

(* The two holders the client draws from are in its storage whenever it has *)
(* some, and it has some once it counts as connected: Update follows the    *)
(* pointers without a test.                                                 *)
PointersStored ==
    /\ client.received >= 2 => client.cur # NoTick
    /\ client.cur = NoTick <=> client.prev = NoTick
    /\ client.cur # NoTick => /\ Has(client.snaps, client.prev)
                              /\ Has(client.snaps, client.cur)
                              /\ client.prev < client.cur

(* What the client stores is what the server built for that tick, also      *)
(* after an empty difference, which has no checksum.                        *)
SnapshotsAgree == \A i \in DOMAIN client.snaps : client.snaps[i] \in built

(* The snapshot the client acknowledges is in its storage.                  *)
AckHeld == client.ack # NoTick => Has(client.snaps, client.ack)

(* Within a round, the client can unpack every snapshot that arrives,       *)
(* unless the server went back to an older base after a newer one, because  *)
(* an input was overtaken.                                                  *)
HeldOrOlder(tick) ==
    tick = NoTick \/ tick < client.based \/ Has(client.snaps, tick)

BaseHeld ==
    MaxRound = 0 => \A p \in down : HeldOrOlder(p.base)

(* No difference reaches back further than the server keeps snapshots: a    *)
(* client that goes silent is sent whole ones again.                        *)
DeltasRecent ==
    \A p \in down : p.base # NoTick => p.tick - p.base <= KeepTicks

(* The parts of the inductive invariant.  The client's list ends with what  *)
(* it has acknowledged, and a tick that is over is not collected again.     *)
ListsInStep ==
    /\ \A i \in DOMAIN server.snaps : server.snaps[i].tick <= server.tick
    /\ client.ack <= client.recvTick
    /\ \A i \in DOMAIN client.snaps :
         /\ client.snaps[i].tick <= client.recvTick
         /\ client.snaps[i].tick = client.recvTick => client.ack = client.recvTick
         /\ client.ack # NoTick => client.snaps[i].tick <= client.ack
    /\ client.received >= 1 => client.snaps # <<>>
    /\ \A p \in down : p.base = NoTick => p.from = EmptyShot

(* In a round of its own the handshake is a token that is handed on, and    *)
(* nothing else moves until the client is in the game.                      *)
Token ==
    /\ Len(toClient) + Len(toServer) + (IF client.download THEN 1 ELSE 0)
         + (IF server.state = "ingame" THEN 1 ELSE 0) <= 1
    /\ server.state # "ingame" =>
         /\ down = {} /\ up = {} /\ built = {}
         /\ server.acked = NoTick /\ server.snaps = <<>>
         /\ client.snaps = <<>> /\ client.received = 0

(* Everything that names a tick means the snapshot of that tick, and every  *)
(* base is one the client holds, or has left behind.                        *)
Contents ==
    /\ built \subseteq {Holder(tick, ShotAt(0, tick)) : tick \in 1 .. server.tick}
    /\ \A i \in DOMAIN server.snaps : server.snaps[i] \in built
    /\ \A i \in DOMAIN client.snaps : client.snaps[i] \in built
    /\ \A p \in down :
         /\ Holder(p.tick, p.to) \in built
         /\ p.from = IF p.base = NoTick THEN EmptyShot ELSE ShotAt(0, p.base)
    /\ HeldOrOlder(server.acked)
    /\ \A i \in up : HeldOrOlder(i.tick)

IInv ==
    /\ TypeOK /\ StoredInOrder /\ PointersStored /\ AckHeld /\ DeltasRecent
    /\ ListsInStep
    /\ BaseHeld
    /\ MaxRound = 0 => Token /\ Contents

(* A client that has entered a round stores nothing of an earlier one,      *)
(* however late its parts arrive.                                           *)
NoOldRound == \A i \in DOMAIN client.snaps : client.snaps[i].shot.round >= client.entered

(* Why: the server takes in a message before it lets the client into a      *)
(* round, so that what it sent in the rounds before acknowledges less than  *)
(* the answer that lets the client in.                                      *)
RoundsApart ==
    /\ NoOldRound
    /\ client.entered <= server.round
    /\ \A i \in DOMAIN toClient : toClient[i].round <= server.round
    /\ \A p \in down :
         /\ p.to.round <= server.round /\ p.ack <= server.heard
         /\ server.isReady /\ p.to.round < server.round => p.ack < server.heard
         /\ p.to.round < client.entered => p.ack < client.peer
         /\ \A i \in DOMAIN toClient :
              toClient[i].kind = "ready_to_enter" /\ p.to.round < toClient[i].round
                => p.ack < toClient[i].ack

(* A client that is in the game for the server (ProcessClientPacket) has    *)
(* entered this round: no enter_game of an earlier one was taken for it.    *)
EntersFirst == server.state = "ingame" => client.entered = server.round

(* What it rests on.  The messages to the client are in the order of their  *)
(* rounds.                                                                  *)
RoundsInOrder ==
    /\ \A i \in DOMAIN toClient :
         client.entered <= toClient[i].round /\ toClient[i].round <= server.round
    /\ \A i, j \in DOMAIN toClient : i < j => toClient[i].round <= toClient[j].round

(* Every reload brings in a message, and no message has more than one       *)
(* answer.                                                                  *)
Tokens ==
    Len(toClient) + Len(toServer) + (IF client.download THEN 1 ELSE 0)
      + (IF server.state = "ingame" THEN 1 ELSE 0)

TokensInStep == Tokens <= server.round + 1

Announced(kind) ==
    \E i \in DOMAIN toClient : toClient[i].kind = kind /\ toClient[i].round = server.round

AnsweredAfter(i, kind) == \E j \in i + 1 .. Len(toServer) : toServer[j].kind = kind

(* Behind a message of an earlier round comes what the server has sent in   *)
(* this one.                                                                *)
AnnouncedBehind ==
    \A i \in DOMAIN toClient :
        toClient[i].round < server.round =>
            /\ Announced("map_change")
            /\ server.state # "connecting" => Announced("con_ready")

(* A client that has not entered is still to be let in, and has answered    *)
(* what it was sent in this round, if at all, after every enter_game that   *)
(* is under way.                                                            *)
LetIn ==
    client.entered < server.round /\ server.isReady => Announced("ready_to_enter")

AnsweredBehind ==
    client.entered < server.round =>
        \A i \in DOMAIN toServer : toServer[i].kind = "enter_game" =>
            /\ Announced("map_change") \/ client.download \/ AnsweredAfter(i, "ready")
            /\ server.state # "connecting" =>
                 Announced("con_ready") \/ AnsweredAfter(i, "start_info")

Handshake ==
    /\ server.isReady => server.state # "connecting"
    /\ RoundsInOrder /\ TokensInStep /\ AnnouncedBehind /\ LetIn /\ AnsweredBehind
    /\ MaxRound <= 2 => EntersFirst

(* Whatever names a tick means the snapshot of that tick in its round, and  *)
(* nothing is sent in a round the client has not entered.                   *)
RoundContents ==
    /\ \A i \in DOMAIN server.snaps :
         server.snaps[i].shot = ShotAt(server.round, server.snaps[i].tick)
    /\ \A i \in DOMAIN client.snaps :
         /\ client.snaps[i] \in built
         /\ client.snaps[i].shot = ShotAt(client.entered, client.snaps[i].tick)
    /\ \A p \in down :
         /\ Holder(p.tick, p.to) \in built
         /\ p.to = ShotAt(p.to.round, p.tick)
         /\ p.from = IF p.base = NoTick THEN EmptyShot ELSE ShotAt(p.to.round, p.base)
         /\ p.to.round <= client.entered

(* The client shows snapshots the server built, in the order they were      *)
(* built.                                                                   *)
Shown ==
    IF client.cur = NoTick THEN Holder(NoTick, EmptyShot)
    ELSE client.snaps[At(client.snaps, client.cur)]

Stream == INSTANCE SnapStream WITH shown <- Shown

ImplementsStream == Stream!Spec

(* After the last map reload, everybody gets back into the game.            *)
EventuallyInGame == <>[](server.state = "ingame" /\ client.entered = server.round)
=============================================================================
