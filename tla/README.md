# Models of the infclass client and server

The repository holds infclass-client, a fork of DDNet: a client and a server of
a real-time game over UDP, with accounts of ranks kept in SQL databases.  These
modules describe the parts of it whose correctness depends on the order of
events - packets, threads, statements, timers - in TLA+.  TLC checks them on
small instances, and TLAPS proves their safety properties for every size.

Everything was translated from the code; paths below are under `src/`.

## The system

| Component | State | Operations | Talks to |
|---|---|---|---|
| `CNetConnection`, `CNetRecvUnpacker` (`engine/shared/network_conn.cpp`, `network.cpp`) | sequence number, ack, latest ack of the peer, resend ring buffer, packet under construction, state, timers | `QueueChunk`, `Flush`, `Feed`, `FetchChunk`, `Update`, `Disconnect`, `SetTimedOut`, handshake | the peer, by UDP |
| `CNetClient`, `CNetServer` (`network_client.cpp`, `network_server.cpp`) | one connection; slots with one each, bans, tokens | `Recv`, `Send`, `Update`, `Drop`, `TryAcceptClient`, `SetTimedOut` | connections by calls, `CServer`/`CClient` by callbacks |
| `CServer` client slots (`engine/server/server.cpp`) | per client: state, snapshots, map download position, authentication | message handlers, `DoSnapshot`, tick loop, shutdown | `CNetServer`, the game context, the pool |
| Snapshots (`engine/shared/snapshot.cpp`, `engine/client/client.cpp`) | server: stored snapshots, acked tick, rate; client: parts, stored snapshots, acked tick | build, delta, send, assemble, acknowledge with the input, purge | unreliable chunks |
| Database pool (`engine/server/databases/connection_pool.cpp`, `game/server/scoreworker.cpp`) | ring of queries, two semaphores, fail mode, databases | register, `Execute`, `ExecuteWrite`, backup thread, worker thread, `OnShutdown` | MySQL servers, a SQLite file, `scripts/move_sqlite.py` beside it |
| Job pool (`engine/shared/jobs.cpp`) | list of jobs, threads, shutdown flag | `Add`, worker loop, `Destroy` | downloads, host lookups, registration |
| Asynchronous files (`base/system.cpp`, `ASYNCIO`) | growing ring, positions, finish flag, reference count | `aio_write`, `aio_close`, `aio_wait`, `aio_free`, thread | logs, teehistorian |
| Logging (`base/log.cpp`) | future logger: logger, pending messages, lock; asynchronous logger: its ASYNCIO | `Log`, `Set`, `GlobalFinish` | called by every thread; `ASYNCIO` |
| Registration (`engine/server/register.cpp`) | per protocol: status, challenge, sequence of requests in flight | `Update`, responses | master server over HTTP, job pool |
| Bans (`engine/shared/netban.cpp`), authentication (`authmanager.cpp`) | pools of bans by expiry and address, keys | ban, unban, expiry | server, console |
| Teams, saving, votes, chat commands (`game/server/*`) | team states, locks, saves in flight, vote | per tick and per message | pool results, polled |
| Demo, ghost, teehistorian; configuration, console, storage; graphics, sound, text, menus, editor; physics | files and devices | - | - |

Behaviours that are hard, and what has to hold there:

* Packets are lost, repeated and overtaken, and sequence numbers live on a circle
  of 1024.  Vital chunks must be handed up in order, each once; a saved chunk must
  stay until it was accepted; an overtaken acknowledgement must be told from a
  current one, across the wrap.
* A client that timed out takes its slot back with `/timeout` while the server is
  in the middle of unpacking one of its packets.  The session must go on as if
  nothing had happened.
* Three threads share the query ring with nothing but two semaphores; statements
  fail, answers get lost, the server is killed or shut down at any time.  A rank
  must be neither lost nor doubled, and a shutdown must end.
* Snapshot deltas refer to a snapshot both sides must still have, while
  acknowledgements overtake each other.
* A map reload starts the ticks anew while packets of the round before are still
  under way; the handshake messages of that round arrive in the next one.
* Any thread may log at any time: before the file of the log is known, while it is
  being set, while the ring is replaced by a larger one under the thread that writes
  it, and while the program ends.  Lines must not be mixed, torn or lost.
* Pools and threads must end when they are destroyed, without jobs half done.

PROJECT.json lists every hazard of this kind at its line, with the property that
covers it or the reason why none does.

## The modules

**NetConn** - the operations of `CNetConnection` and of the unpacker, as operators
on a connection record (`state`, `sequence`, `ack`, `peerAck`, `buffer`,
`construct`, ...) that return the new connection and the packets handed to the
socket.  They follow the code in its order: `Feed` tests the ack, drops or takes
it, pops the acknowledged chunks, answers a resend request, handles a control
packet, and only then lets the unpacker start; `Update` tests the timeouts first,
then resends, flushes and keeps alive.  Payload k is the k-th vital chunk queued;
all chunks have one size; a clock is the set of timers that have run out.  Five
fields are history (`sent`, `got`, `late`, `acked`, `unsaved`), to say what the numbers
on the circle stand for; no guard reads them.  The unpacker tests neither the state of
its connection nor whether that was reset since the packet came, so the rest of a packet
that outlives its connection is still handed up, by sequence numbers that count from 0
again.  `got` is what was handed up until the end let go of the connection, `late` what
came after.

**NetTransport** - two connected ends over a network that loses, repeats and
reorders packets.  One action per call of the layer above: `QueueChunkAt`
(`CNetServer::Send`, `CNetClient::Send`), `FlushAt`, `Receive` (one packet read
by `Recv` and fed), `FetchChunkAt` (one chunk unpacked), `UpdateAt` (with `LetGo`
for the end that closes a connection in error, unless it is timeout-protected),
`DisconnectAt`, `Lose`.  It starts where the handshake ends.  What it promises of
delivery, it promises until an end lets go of its own connection.  `DisconnectAt` may
come at any moment between two chunks, which is a little more than the code can do: it
unpacks the first chunk of a packet in the call that has fed it.

**ReliableChannel** - the abstract promise: two FIFO streams, each payload handed
up once and in order.  `ImplementsChannel` is the refinement, with `sent` and `got`
of both connections for the channel's variables; `UplinkImplementsStream` that of one
stream by the takeover, with the history of whichever slot holds the session.

**NetResume** - the takeover of a timed out slot: the client, the slot "old" in
error and the slot "new" it came back in.  Chunk `Command` is the `/timeout`
message; unpacking it moves the connection and resets "new" within the same step
(`CNetServer::SetTimedOut`), and the rest of the packet is unpacked for the reset
slot, as in the code.  `Session` names the slot that holds the client's session.  The
timers of all three connections run out: they resend, flush and fall into error, and one
in error is let go (`LetGo`) unless its player's timeout code protects it.

**DbPool** - the query pool with the main thread, the backup thread and the worker,
and `SaveScore` as the write.  A query is named by its job number.  `rows` says
which places hold which rank: the MySQL servers, the tables `race` and
`race_backup` of the file, and the output file of the script.  Each statement is one
step, so a kill between two statements is the end of a behaviour, and an invariant
speaks about it.  `NORMAL_FAILED` is two steps (`WorkerSettle`, `WorkerClear`)
because it is two statements without a transaction.  `move_sqlite.py` takes three
(`DumpRace`, `DumpBackup`, `Delete`): its dump reads one table after the other without a
transaction, and deletes some time later.

**SnapSync** - snapshots from the server to one client, and the handshake around
them.  One action per handler or step: `DoSnapshot` (storing, choosing the base,
purging, sending the parts), `TickOnly` (a tick without a snapshot), `OnInput`,
`OnReady`, `OnStartInfo`, `OnEnterGameMsg` and `MapReload` of the server;
`OnMapChange`, `FinishMapDownload`, `OnConReady`, `EnterGame`, `ReceivePart` (the
whole handler: collecting, unpacking, the checksum, resync, purging, storing),
`ShowNext` and `PredictNext` of the client; `Lose`.  Parts and inputs are sets of
packets that may arrive any number of times in any order; the vital messages of the
handshake are two queues, as *ReliableChannel* promises them.  Each packet carries the
count of vital messages its sender has got, and is dropped if a packet before it
carried more (`Feeds`, the acknowledgement test of `CNetConnection::Feed`): without
that, snapshots of the round before would reach a client that has entered the next.
What a snapshot shows is the constant `World`, so that two ticks may look the same and
the empty difference, which has no checksum, happens.

**SnapStream** - the abstract promise: the server builds one snapshot after the other,
and the client shows some of them, never one that was not built, and never an older one
after a newer one.  `ImplementsStream` is the refinement, with `Shown`, the holder the
client draws from, for `shown`.

**AsyncIo** - the ring of `ASYNCIO` as operators on a record: `WriteUnlocked` (the
bytes go behind the others, in one or two pieces, or the ring grows by doubling and
starts at 0), `Take` (one round of `aio_thread` copies at most its local buffer),
`Signal`, `Unref`.  A byte is a pair of its message and its place there.

**JobPool** - the list and the semaphore of `CJobPool`, as operators: `Push`, `Post`,
`Fetch`.

**Logging** - both, with the threads that use them: the main thread, the threads of the
pool, whose jobs log one message each, and `aio_thread` (`Turn`, `Sleep`, `Write`).  A
call of `Log` is several steps (`LoadLogger`, `LookAgain`, `LockAio`, `WriteText`,
`WriteLast`, `SignalAio`), because that is where other threads get in; `Set` is three
(`Set`, `LogPending`, `EndSet`); the end of the program is `Destroy`, `WakeWorkers`,
`Join`, `Finish`, `SignalClose`, `SignalWait`, `JoinIo`, `Free`, or `Assert` while the
other threads run.  `main.use` says what is logged to: a file set late through
`CFutureLogger`, stdout, or the teehistorian's file of a server, which only the main
thread writes to, which it asks for errors (`CheckError`), and whose disk may fail.

**LogFile** - the abstract promise: the log is a sequence of whole lines, and the file
a growing first part of it until the disk fails.  `ImplementsLogFile` is the
refinement; a line is logged by the step that puts its last byte into the ring.

**MCNetTransport, MCNetResume, MCDbPool, MCSnapSync, MCLogging** give the constants
their values for TLC.  **ModArithmetic_proofs, NetConn_proofs, NetTransport_proofs,
NetResume_proofs, DbPool_proofs, SnapSync_proofs, AsyncIo_proofs, Logging_proofs** hold
the proofs.  Operators commented as "seeded fault" are mutated versions of the operators
that follow them; they are used by no specification.

## The runs

`IInv` is in each run, and in each theorem, the inductive invariant of the run's own
module.

| Run | Shows | Bounds |
|---|---|---|
| `transport` | `InOrderDelivery`, `SavedUntilAccepted`, `ChunkVerdicts`, `AckVerdicts`, `ErrorIsFinal`, `ImplementsChannel`, `IInv`, `TypeOK` | 6 sequence numbers and 6 vital chunks, so that they wrap; a resend buffer of 1 with 2 chunks outstanding, so that it overflows; 2 packets under way to the server, so that they overtake each other; timeouts, a protected slot, a server that disconnects at any time |
| `transport_live` | `EventuallyAccepted`, `EventuallyAcked` | 2 chunks, a lossy network without a limit that matters |
| `resume` | `UplinkImplementsStream`, `UplinkRetained`, `DownlinkInStep`, `LateIsRest` | packets of up to 2 chunks, 2 chunks of the client, the first of which is the command, 1 of the server, old acks 0 and 1 |
| `resume_acks` | violates `CurrentPacketsFed` | as above, 2 chunks of the server, old acks 0 and 2 |
| `resume_resend` | violates `ResendBufferCopied` | as `resume_acks` |
| `db_pool` | `NoRankLost`, `ReportedIsFinal`, `RankedOnce`, `ShutdownAfterAll`, `CopiesMovedFirst`, `EventuallyAnswered`, `ShutdownCompletes`, `IInv`, of which `TypeOK` is a part | a ring of 3, 4 queries, so that it wraps, 2 outstanding; every statement may fail, MySQL answers may get lost; file or no file, MySQL or not; with and without the script |
| `db_move` | violates `RanksKept` | as above, without faults |
| `db_servers` | violates `ReadServersOnlyRead` | as above, without faults and script |
| `snap` | `PointersStored`, `BaseHeld`, `ImplementsStream`, `IInv`, of which `TypeOK` is a part | one round of 7 ticks with snapshots kept for 4 and a recovery rate of every second, so that bases are purged and the rate changes; 1 part and 2 inputs under way, so that inputs overtake each other; every outcome of unpacking, 1 checksum error borne |
| `snap_reload` | `StoredInOrder`, `SnapshotsAgree`, `NoOldRound`, `EntersFirst`, `EventuallyInGame` | a map reload at any moment, 4 ticks in a round, snapshots of up to 2 parts, 2 parts and 1 input under way, no checksum error borne |
| `logging` | `FinishedFlushed`, `NoSilentLoss`, `JobsInOrder`, `ImplementsLogFile`, `EventuallyWritten`, `EventuallyStarted`, `ProgramEnds`, `IInv`, `TypeOK` | a ring of 3 bytes and a local buffer of 2, with messages of 1 and 2 bytes, so that the ring wraps, fills and grows and one line takes more than one write; 2 threads and 2 jobs; 2 messages to a file or to stdout, 3 to a teehistorian, whose disk may fail |
| `log_set` | violates `SentIsReceived` | 2 threads and 2 jobs that log to a file |

The bounds are small and sufficient for the same reason: sequence numbers and ring slots
enter only through their distance on the circle, and each run's circle is short enough to
be gone around while everything else (a full buffer, two packets in flight, a failing
statement) happens on the way.  The proofs then remove the bounds from the safety
properties.  Two assumptions are not enforced by the code, and both are named: fewer vital
chunks are outstanding than half the sequence space (`WindowAssumption`), and a packet
does not survive in the network for a whole turn of the circle
(`WithinLifetime`).  `DbPool` stays below a full ring (`SlotsSuffice`); with exactly as
many queries outstanding as slots, TLC shows that the backup thread mistakes a query for
the sentinel's slot and that the shutdown hangs.

With one round of snapshots (`snap`) the connection's acknowledgement test decides
nothing, so that run is about storage, bases and purging; `snap_reload` is about the round
before.  One reload is enough for every packet of an old round to meet every state of the
client in a new one.  With several in quick succession the numbers of vital messages alone
do not name the round.  Two may come as close together as they like; with three (`MaxRound
= 3`), TLC finds a behaviour in which the server takes the enter-game message of an
earlier round for that of the current one and counts the client as in game before it has
asked to be (`EntersFirst`). `EntersFirst` and `SnapshotsAgree` are therefore claimed for
at most two reloads, and beyond that `SnapshotsAgree` for the behaviours in which
`EntersFirst` holds.  In `logging` the ring is as small as a ring can be that still both
wraps and grows; the sizes of the code, 8 KiB and 64 KiB, differ from it in nothing but
how many lines fit.

Deadlock checking is off for the runs of `DbPool` and `Logging`, because both end: after
the shutdown all threads have returned and nothing is left to do.  It is off for
`SnapSync` because the clock stops at `MaxTick`: a client without an input to send then
has nothing to do.

### Fairness

* Transport: an end's main loop keeps calling `Update` and drains its unpacker
  (weak fairness of unpacking, strong fairness of an update with all timers due,
  because the timers run out again and again); the network may lose any packet but
  not for ever every packet with a given chunk, or with a given acknowledgement.
* Pool: threads are scheduled and every statement ends, at the latest by the client's
  timeouts (weak fairness of each thread's steps and of the waiting main thread).
  Nobody has to issue a query or to shut down.
* Snapshots: the messages of the handshake arrive, which `transport_live` shows of vital
  chunks, and a map download ends.  Snapshots and inputs may all be lost.
* Logging: every thread is scheduled, a wait for a lock that is free or a semaphore that
  has been signalled ends, and every write to the disk returns, with or without success
  (weak fairness of the steps of each thread).  Nobody has to log, to add a job, to set
  the file of the log or to end the program.

### Disagreements the runs show

* `resume_acks`: `SetTimedOut` leaves `m_PeerAck` of the old session in place
  (`network_conn.cpp:507`), so `Feed` drops current packets of the client until its
  acknowledgement has passed the old one.
* `resume_resend`: the resend entries are copied with data pointers into the other
  slot's buffer (`network_conn.cpp:527`), which is cleared in the next statement.  A
  chunk resent after the takeover carries the wrong bytes; `DownlinkInStep` therefore
  allows `Garbage` where the payload should be.
* `db_move`: a rank that reaches the table `race` between the script's dump and its
  `DELETE` (`scripts/move_sqlite.py:54`) is gone.
* `db_servers`: `add_sqlserver r` adds a server to write to, and `w` one to read from
  (`server.cpp:3515`), against the command's own message.
* `log_set`: a thread that finds no logger, takes the lock and then finds one returns
  with the lock held (`base/log.cpp:477`).  The next thread that had found none waits for
  ever; its message is lost, and a pool it belongs to cannot be destroyed.
  `EventuallyStarted` and `ProgramEnds` are therefore claimed up to that lock
  (`LockLeft`).

## The proofs

**Transport** (`NetTransport_proofs`): `IInv` is inductive under `BoundsAssumption`,
`WindowAssumption` and the constants' types.  It says that every number on the
circle is the remainder of a history count (`Counters`), that every chunk anywhere -
under construction, saved, in flight, being unpacked - is one its sender queued
under its own number (`OwnChunks`, `InFlight`, `Unpacking`), and that what is not
acknowledged is still saved or never was (`Retained`).  Without the history counts the
numbers say nothing after the first wrap, and without the distances in `Unpacking`
and `WithinLifetime` an old chunk could not be told from the next one.
`NetConn_proofs` has the facts about the circle: `BackroomExact` and `AckIsValidExact`
say that the two window tests decide by distance, `AckChunksSuffix` that acknowledging
pops a prefix.  From `IInv` follow `InOrderDelivery`, `SavedUntilAccepted`,
`AckVerdicts`, `ChunkVerdicts` and `TypeOK`.

The same module proves the refinement: each step of the transport appends to one stream
of the channel or leaves both alone, so `Spec => ImplementsChannel`; and `ErrorIsFinal`,
which needs that an end in error has an empty unpacker whenever it is asked for more.

**Takeover** (`NetResume_proofs`): `IInv` is inductive for every size of the buffers and
the network, every point of the session at which the command comes, and every latest ack
the old session may have left behind.  It says that one slot at most is online and that
it is the one with the session (`OneSession`); that what the client sends is in step with
what that slot has accepted, wherever the slot is (`Uplink`); and, unless the old
session left a chunk in its packet under construction (`OldConstructs = {}`), the same of
what the server sends (`Downlink`).  A session stays within one turn of the circle
(`ResumeAssumption`; `NetTransport` covers the wrap), so the numbers are plain counts
and the window tests are comparisons.  The move is the only step that
touches two connections: what `Uplink` says of "new" has to hold of "old" afterwards, with
the counts that `SetTimedOut` copies, and the rest of the packet is then unpacked for a
reset slot without a session.  `UplinkInOrder`, `UplinkRetained` and `TypeOK` follow without
a condition; so does the refinement `UplinkImplementsStream` (`UplinkRefinement`): a step
queues one payload, hands up one, or neither (`Streamed`), the move hands up the command
and takes along what was got before, and `UplinkInOrder` before and after the step says
that the payload handed up is the next.  The channel's other stream is left out of that
refinement on purpose, since a chunk the server resends after the move has lost its
payload.  Proved as well is `DownlinkInStep` for `OldConstructs = {}`: of a left-over
chunk, which carries a number of the session before, nothing can be said.  What
`QueueChunk`, `Feed`, `Unpack` and `Update` do to one connection is stated once, in
`NetConn_proofs`.

`LateIsRest` is about the slot the client has left.  The unpacker goes on with the rest of
the packet for it, and since its ack counts from 0 again, it may hand up a chunk the
session already has, or will get in the other slot: a first part of the client's stream,
shorter than a packet.  It rests on a further invariant, `Rest`: the ack of the reset slot
counts what it has handed up late, and what is in the unpacker has room for the command in
front of it.  TLC checked `Rest` with the bounds of `resume`; the theorem is `LateRest`.

The run `resume` lets the timers for resending and for the protection run out; a
connection in error by the receive timeout is covered by the proof, and was checked with
TLC as well (`Expiring` with `"recv"`), like `IInv` itself.

**Pool** (`DbPool_proofs`): under `SlotsSuffice` - fewer queries outstanding than
slots - `IInv` is inductive, whatever fails and whether the script runs or not.  It has
three parts.  `PoolInv` is about the threads: the ring holds exactly
the queries issued and not yet taken, each in its slot (`SlotsInStep`), the semaphores
count the queries between the threads (`SemaphoresInStep`), the threads end one after
the other (`ThreadsInStep`), and answers come in order (`AnsweredInOrder`).
`DumpInStep` is about the script: what it is about to delete from `race_backup` it has
moved, because the backup thread has since added only the copy of its own job, which
is not older than the script's date.  `RanksInv` is about the ranks: only writes
have them (`KindsInStep`), and the places of the rank in the worker's hands follow
its program counter (`StoredInStep`).  The script deletes from the server's file
from outside, so `RanksInv` is claimed for the behaviours without it (`Unscripted`); the
run `db_move` shows why.  `NoRankLost`, `ReportedIsFinal`, `RankedOnce`,
`ShutdownAfterAll`, `CopiesMovedFirst` and `TypeOK` follow.  `SlotsApart` is why a slot
names one outstanding query: two numbers less than a ring apart with one remainder are
equal.

**Snapshots** (`SnapSync_proofs`): `IInv` is inductive for any number of rounds, ticks,
parts and packets.  It adds to the properties what they rest on: the client's list
ends with the snapshot it acknowledges (`ListsInStep`, `AckHeld`), so a new one goes
behind all others and no tick is stored twice.  From it follow, through any number of
reloads, `StoredInOrder`, `PointersStored` and `TypeOK`.  The hard part is the purge:
`PurgeUntilKeeps` and `PurgeUntilHas` say that what `PurgeUntil` leaves is an end of the
list that still contains every holder that is not too old, so the base, the two holders on
display and the acknowledged one stay.

For one round (`MaxRound = 0`) `IInv` also says that the handshake is a token handed on
(`Token`: nothing of the game moves before the client has entered), and that everything
that names a tick - a holder, a part, a base, an acknowledgement under way - means the
snapshot the server built for that tick (`Contents`), and a base the client holds unless
the server went back to an older one (`HeldOrOlder`).  From it follows `BaseHeld`. That is
claimed for one round only: an input of the round before that the server takes after a
reload, as it does in every state, leaves an acknowledged tick behind that the client may
lack in the new round, and TLC shows a difference built against it.  The client then asks
anew, so nothing that is shown depends on it.

Across reloads three further invariants are proved on top of `IInv`.

* `RoundsApart`: a part of an earlier round acknowledges fewer vital messages than the
  answer with which the client enters, so the acknowledgement test of the connection
  drops it: `NoOldRound`, for any number of reloads.
* `Handshake`: a reload brings one message, and a message at most one answer
  (`TokensInStep`).  For the server to take a stale enter-game message, the answers of an
  earlier round would have to be behind the announcement of the next one
  (`AnnouncedBehind`, `LetIn`, `AnsweredBehind`), which takes four messages under way and
  thus at least three reloads.  `Handshake` holds for any number of reloads, and gives
  `EntersFirst` for at most two.
* `RoundContents`: given `EntersFirst`, what names a tick means the server's snapshot of
  that tick in the round the client has entered (`RoundsKeepContents`).

Two results rest on `RoundContents`, each stated for any number of reloads under
`[]EntersFirst` and without a condition for at most two (`MaxRound <= 2`):
`SnapshotsAgree` (`AgreementOnceEntered`, `Agreement`), and the refinement
`ImplementsStream` (`ImplementationOnceEntered`, `Implementation`), in which a step of the
client shows the same snapshot, a later one of the same round, or, when it enters,
nothing.  TLC checked all of these with the bounds of `snap_reload`, and `Handshake` with
two and three reloads, before they were proved.

**Ring** (`AsyncIo_proofs`): `WritesAppend` says that after a write the ring holds what it
held before and then the bytes, whether they fit in one piece, in two, or not at all;
`TakesFront` that what `aio_thread` copies out and what stays are together what was there.
`RingArithmetic` does the remainders once, for both.

**Log** (`Logging_proofs`): `IInv` is inductive for any number of threads, jobs, messages
and any sizes.  Its centre is `BytesInStep`: the file, the local buffer and the ring,
one after the other, are what was logged and what has been written of the line under the
lock.  It needs `LockInStep` (one thread writes, and it is the one that has the lock) and,
for what is claimed at the end of the program, how far the main thread is
(`MainInStep`), what the thread of the ASYNCIO has seen of the last write (`IoInStep`),
what was logged when the log was told to finish (`DueInStep`) and that a teehistorian
has one writer (`TeeAlone`).  `FinishedFlushed`, `NoSilentLoss`, `JobsInOrder` and `TypeOK`
follow, and `Implements`, the refinement: a write to the file moves a first part of what
was logged.

Assumed by the proofs are only the constants' types and bounds, in the ASSUMEs of the
modules, and `WindowAssumption`, `BoundsAssumption` and `SlotsSuffice` above.

Only model-checked: liveness (`EventuallyAccepted`, `EventuallyAcked`,
`EventuallyAnswered`, `ShutdownCompletes`, `EventuallyInGame`, `EventuallyWritten`,
`EventuallyStarted`, `ProgramEnds`), which is out of the prover's reach under fairness.
Every other property of the passing runs is a theorem.  Not claimed at all:
`DownlinkInStep` with a left-over chunk, `EntersFirst` with three or more reloads in quick
succession, and `BaseHeld` across a reload.

## Not modelled, and why

Of the modelled components:

* *Connection and slots*: CONNECT and PENDING, tokens, `TryAcceptClient`, rejoin with
  `Reset(true)`, the vanilla handshake, limits per address.  Bit packing and
  compression of packets is data without control.
* *Pool*: `SaveTeamScore`, `SaveTeam` and `LoadTeam` are writes of other shapes, and
  points are not in `DbPool`; printing the servers changes no state.
* *Snapshots*: the second connection of a dummy, demo recording, the timing of
  prediction and of the intervals (a snapshot is shown when its time may have come), the
  items inside a snapshot and `CSnapshotBuilder`.  Liveness of the recovery is not stated:
  nothing makes snapshots arrive.
* *Server slots*: PREAUTH and AUTH, passwords, rcon, redirects; the map download is one
  step that may take any time.
* *Logging*: filters and scopes, several loggers in one collection, colours, the console,
  Android and assertion loggers, and a logger destroyed without `GlobalFinish`.  `Set`
  publishes the logger before it has sent it what is pending, so a later line of a thread
  may come before an earlier one; no order between the messages of one thread is claimed.
  `Set` also assigns the pointer to the logger a second time, without atomicity and with
  the same value (`base/log.cpp:456`), while other threads may be loading it: the model
  takes the outcome to be that value, and torn counts of the shared pointer are outside
  it.  Messages of a `CFutureLogger` that is never set are dropped by `GlobalFinish`
  (`base/log.cpp:486`), though `logger.h:94-97` promises them; `FinishedFlushed` is about
  what has reached a file.
  Sizes are integers, not 32-bit, and allocations succeed.
* *Job pool*: what a job does besides logging, and who polls its status.

Components left out: registration with the master server, bans, votes, chat commands and
players, teams and the saving and loading of them are sequential code with timers or
polled results, each a state machine of its own that the order below puts after the
engine's concurrent core.  Physics is floating-point geometry, which TLC cannot
enumerate; graphics, sound, text, menus and the editor, which are most of the source's
lines, are presentation and device access; configuration, console, storage and data files
are sequential parsing and file access; the remaining data tables (Unicode
confusables, key names) are generated.

## Plan

Done: the transport and the takeover of a slot, the query pool, snapshots with their
handshake, the job pool, asynchronous files and the log on top of both.  Next, in this
order:

1. *NetServer*: tokens, `TryAcceptClient`, rejoin with `Reset(true)`, limits per address,
   drops; composed with NetConn.  A slot serves one address at a time, and a packet of the
   session before reaches nobody.
2. *Server slots*: client states with authentication, redirects and their drop.
3. *Register*, *NetBan*: requests in flight and their late answers; expiry order of the
   bans.
4. *Teams and saves*: saving and loading while players join, leave and die, with the
   results of the pool polled later; `SaveTeam` as another write of DbPool.

Theorems next: the safety invariants of *NetServer* with its first runs.
