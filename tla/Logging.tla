------------------------------- MODULE Logging -------------------------------
(***************************************************************************)
(* The log of a program with a job pool: the main thread and the jobs send *)
(* messages to a CFutureLogger, which keeps them until the main thread     *)
(* knows the file, and to a CLoggerAsync, which writes lines to an ASYNCIO *)
(* (src/base/log.cpp).  In the end the main thread destroys the pool and   *)
(* finishes the log.  A program may also log to stdout, without a future   *)
(* logger and without closing it, or be a server whose main thread records *)
(* a teehistorian file (src/game/server/gamecontext.cpp).                  *)
(*                                                                         *)
(* What a thread does under one lock without looking at anything else is   *)
(* one step; a line, which is several writes under the lock of the         *)
(* ASYNCIO, is several steps.                                              *)
(***************************************************************************)
EXTENDS AsyncIo, JobPool

CONSTANTS
    Worker,      \* the threads of the pool
    Uses,        \* bound: what the log is, of "file", "stdout" and "tee"
    MaxJobs,     \* bound: jobs added; each sends one message
    MaxLines,    \* bound: messages of the main thread
    MaxSent,     \* [Uses -> Nat], bound: jobs and messages of the main thread
    LineLength,  \* bound: [Message -> Nat], the bytes of a message
    Failing      \* bound: the uses in which a write to the file may fail

Message == 1 .. MaxJobs + MaxLines

ASSUME LoggingAssumption ==
    /\ MaxJobs \in Nat /\ MaxLines \in Nat /\ IsFiniteSet(Worker)
    /\ LineLength \in [Message -> Nat \ {0}]
    /\ "main" \notin Worker /\ "free" \notin Worker
    /\ Uses \subseteq {"file", "stdout", "tee"} /\ Failing \subseteq Uses
    /\ MaxSent \in [Uses -> Nat]

Thread == Worker \cup {"main"}

VARIABLES
    main,    \* the main thread: pc, use, jobs and messages so far, error seen
    log,     \* [Thread -> the call of Log the thread is in: pc, msg]
    future,  \* CFutureLogger: is m_pLogger set, who holds m_PendingLock, m_vPending
    aio,     \* the ASYNCIO
    io,      \* aio_thread: pc, its local buffer, result_io_error
    disk,    \* the file: bytes, has a write failed, is it open
    pool,    \* the CJobPool
    worker,  \* [Worker -> pc of WorkerThread]
    logged,  \* history: the lines that are in the ASYNCIO or behind it
    due      \* history: what was logged when the log was told to finish

vars == <<main, log, future, aio, io, disk, pool, worker, logged, due>>

Text(m) == [i \in 1 .. LineLength[m] |-> <<m, i>>]

Newline(m) == <<<<m, LineLength[m] + 1>>>>

(* The teehistorian's bytes have no line ends.                              *)
Line(m, use) == IF use = "tee" THEN Text(m) ELSE Text(m) \o Newline(m)

Idle(t) == log[t].pc = "idle"

Init ==
    /\ \E use \in Uses :
         main = [pc |-> "running", use |-> use, jobs |-> 0, lines |-> 0, error |-> FALSE]
    /\ log = [t \in Thread |-> [pc |-> "idle", msg |-> 0]]
    /\ future = [set |-> FALSE, lock |-> "free", pending |-> <<>>]
    /\ aio = NewAio
    /\ io = [pc |-> "turn", local |-> <<>>, error |-> FALSE]
    /\ disk = [bytes |-> <<>>, failed |-> FALSE, open |-> TRUE]
    /\ pool = NewPool
    /\ worker = [w \in Worker |-> "check"]
    /\ logged = <<>> /\ due = <<>>

-----------------------------------------------------------------------------
(* A call of Log.  A thread that finds no logger takes m_PendingLock and    *)
(* looks again; one that finds a logger then sends the message on and       *)
(* returns without having given the lock back.                              *)
Call(m) == [pc |-> IF main.use = "file" THEN "load" ELSE "lock", msg |-> m]

Goto(t, pc) == log' = [log EXCEPT ![t].pc = pc]

LoadLogger(t) ==
    /\ log[t].pc = "load"
    /\ Goto(t, IF future.set THEN "lock" ELSE "pend")
    /\ UNCHANGED <<main, future, aio, io, disk, pool, worker, logged, due>>

LookAgain(t) ==
    /\ log[t].pc = "pend" /\ future.lock = "free"
    /\ IF future.set
       THEN /\ future' = [future EXCEPT !.lock = t]
            /\ Goto(t, "lock")
       ELSE /\ future' = [future EXCEPT !.pending = Append(@, log[t].msg)]
            /\ Goto(t, "idle")
    /\ UNCHANGED <<main, aio, io, disk, pool, worker, logged, due>>

(* Seeded fault: nobody waits for the lock.                                 *)
NeverLocked == TRUE

Unlocked == aio.lock = "free"

LockAio(t) ==
    /\ log[t].pc = "lock" /\ Unlocked
    /\ aio' = [aio EXCEPT !.lock = t]
    /\ Goto(t, IF main.use = "tee" THEN "last" ELSE "text")
    /\ UNCHANGED <<main, future, io, disk, pool, worker, logged, due>>

WriteText(t) ==
    /\ log[t].pc = "text"
    /\ aio' \in WriteUnlocked(aio, Text(log[t].msg))
    /\ Goto(t, "last")
    /\ UNCHANGED <<main, future, io, disk, pool, worker, logged, due>>

(* The last write under the lock, and its release.                          *)
Last(m) == IF main.use = "tee" THEN Text(m) ELSE Newline(m)

WriteLast(t) ==
    /\ log[t].pc = "last"
    /\ \E a \in WriteUnlocked(aio, Last(log[t].msg)) : aio' = [a EXCEPT !.lock = "free"]
    /\ logged' = logged \o Line(log[t].msg, main.use)
    /\ Goto(t, "signal")
    /\ UNCHANGED <<main, future, io, disk, pool, worker, due>>

SignalAio(t) ==
    /\ log[t].pc = "signal"
    /\ aio' = Signal(aio)
    /\ Goto(t, "idle")
    /\ UNCHANGED <<main, future, io, disk, pool, worker, logged, due>>

LogNext(t) ==
    \/ LoadLogger(t) \/ LookAgain(t)
    \/ LockAio(t) \/ WriteText(t) \/ WriteLast(t) \/ SignalAio(t)

-----------------------------------------------------------------------------
(* aio_thread.  A turn starts with the result of the last write and ends    *)
(* when the lock is released.                                               *)
Turn ==
    LET a == [aio EXCEPT !.error = io.error]
    IN  /\ io.pc = "turn" /\ Unlocked
        /\ IF HasBytes(a)
           THEN /\ aio' = Take(a)
                /\ io' = [io EXCEPT !.pc = "write", !.local = Taken(a)]
                /\ UNCHANGED disk
           ELSE IF a.finish = "running"
           THEN /\ aio' = a
                /\ io' = [io EXCEPT !.pc = "sleep"]
                /\ UNCHANGED disk
           ELSE /\ aio' = Unref(a)
                /\ io' = [io EXCEPT !.pc = "exit"]
                /\ disk' = [disk EXCEPT !.open = a.finish # "close"]
        /\ UNCHANGED <<main, log, future, pool, worker, logged, due>>

Sleep ==
    /\ io.pc = "sleep" /\ aio.signals > 0
    /\ aio' = [aio EXCEPT !.signals = @ - 1]
    /\ io' = [io EXCEPT !.pc = "turn"]
    /\ UNCHANGED <<main, log, future, disk, pool, worker, logged, due>>

(* A write that fails may have written a part; the error stays with the     *)
(* file.                                                                    *)
Write ==
    /\ io.pc = "write"
    /\ \E n \in 0 .. Len(io.local) :
         LET failed == disk.failed \/ n < Len(io.local)
         IN  /\ n < Len(io.local) => main.use \in Failing
             /\ disk' = [disk EXCEPT !.bytes = @ \o SubSeq(io.local, 1, n),
                                     !.failed = failed]
             /\ io' = [pc |-> "turn", local |-> <<>>, error |-> failed]
    /\ UNCHANGED <<main, log, future, aio, pool, worker, logged, due>>

IoNext == Turn \/ Sleep \/ Write

-----------------------------------------------------------------------------
(* The threads of the pool.  The job a thread has fetched logs its message. *)
CheckShutdown(w) ==
    /\ worker[w] = "check"
    /\ worker' = [worker EXCEPT ![w] = IF pool.shutdown THEN "exit" ELSE "wait"]
    /\ UNCHANGED <<main, log, future, aio, io, disk, pool, logged, due>>

Wake(w) ==
    /\ worker[w] = "wait" /\ pool.signals > 0
    /\ pool' = Post(pool, -1)
    /\ worker' = [worker EXCEPT ![w] = "fetch"]
    /\ UNCHANGED <<main, log, future, aio, io, disk, logged, due>>

FetchJob(w) ==
    /\ worker[w] = "fetch"
    /\ IF pool.queue = <<>>
       THEN /\ worker' = [worker EXCEPT ![w] = "check"]
            /\ UNCHANGED <<log, pool>>
       ELSE /\ worker' = [worker EXCEPT ![w] = "run"]
            /\ pool' = Fetch(pool)
            /\ log' = [log EXCEPT ![w] = Call(Head(pool.queue))]
    /\ UNCHANGED <<main, future, aio, io, disk, logged, due>>

EndJob(w) ==
    /\ worker[w] = "run" /\ Idle(w)
    /\ worker' = [worker EXCEPT ![w] = "check"]
    /\ UNCHANGED <<main, log, future, aio, io, disk, pool, logged, due>>

WorkerNext(w) == CheckShutdown(w) \/ Wake(w) \/ FetchJob(w) \/ EndJob(w)

-----------------------------------------------------------------------------
(* The main thread.                                                         *)
Running == main.pc = "running" /\ Idle("main")

MaySend == main.jobs + main.lines < MaxSent[main.use]

LogLine ==
    /\ Running /\ MaySend /\ main.lines < MaxLines
    /\ main' = [main EXCEPT !.lines = @ + 1]
    /\ log' = [log EXCEPT !["main"] = Call(MaxJobs + main.lines + 1)]
    /\ UNCHANGED <<future, aio, io, disk, pool, worker, logged, due>>

(* The jobs of a server do not write to the teehistorian.                   *)
AddJob ==
    /\ Running /\ MaySend /\ main.use # "tee" /\ main.jobs < MaxJobs
    /\ main' = [main EXCEPT !.pc = "added", !.jobs = @ + 1]
    /\ pool' = Push(pool, main.jobs + 1)
    /\ UNCHANGED <<log, future, aio, io, disk, worker, logged, due>>

(* Seeded fault: a job that others wait behind is not announced.            *)
PostIfAlone(p) == IF Len(p.queue) = 1 THEN Post(p, 1) ELSE p

PostJob(p) == Post(p, 1)

SignalJob ==
    /\ main.pc = "added"
    /\ main' = [main EXCEPT !.pc = "running"]
    /\ pool' = PostJob(pool)
    /\ UNCHANGED <<log, future, aio, io, disk, worker, logged, due>>

(* CFutureLogger::Set publishes the logger, sends it what is pending, and   *)
(* releases the lock.  It assigns the pointer a second time, without        *)
(* atomicity and with the same value, while others may load it: a data race *)
(* whose outcomes are taken to be that one value (the share counts of the   *)
(* pointer are below this module).                                          *)
Set ==
    /\ Running /\ main.use = "file" /\ ~future.set /\ future.lock = "free"
    /\ main' = [main EXCEPT !.pc = "set"]
    /\ future' = [future EXCEPT !.set = TRUE, !.lock = "main"]
    /\ UNCHANGED <<log, aio, io, disk, pool, worker, logged, due>>

LogPending ==
    /\ main.pc = "set" /\ Idle("main") /\ future.pending # <<>>
    /\ future' = [future EXCEPT !.pending = Tail(@)]
    /\ log' = [log EXCEPT !["main"] = [pc |-> "lock", msg |-> Head(future.pending)]]
    /\ UNCHANGED <<main, aio, io, disk, pool, worker, logged, due>>

EndSet ==
    /\ main.pc = "set" /\ Idle("main") /\ future.pending = <<>>
    /\ main' = [main EXCEPT !.pc = "running"]
    /\ future' = [future EXCEPT !.lock = "free"]
    /\ UNCHANGED <<log, aio, io, disk, pool, worker, logged, due>>

(* OnTick asks the teehistorian's file for errors.                          *)
CheckError ==
    /\ Running /\ main.use = "tee" /\ Unlocked
    /\ main' = [main EXCEPT !.error = @ \/ aio.error]
    /\ UNCHANGED <<log, future, aio, io, disk, pool, worker, logged, due>>

(* CJobPool::Destroy.                                                       *)
Destroy ==
    /\ Running
    /\ main' = [main EXCEPT !.pc = "destroy"]
    /\ pool' = [pool EXCEPT !.shutdown = TRUE]
    /\ UNCHANGED <<log, future, aio, io, disk, worker, logged, due>>

WakeWorkers ==
    /\ main.pc = "destroy"
    /\ main' = [main EXCEPT !.pc = "join"]
    /\ pool' = Post(pool, Cardinality(Worker))
    /\ UNCHANGED <<log, future, aio, io, disk, worker, logged, due>>

Join ==
    /\ main.pc = "join" /\ \A w \in Worker : worker[w] = "exit"
    /\ main' = [main EXCEPT !.pc = "finish"]
    /\ UNCHANGED <<log, future, aio, io, disk, pool, worker, logged, due>>

(* A failed assertion sends its message and finishes the log while the      *)
(* other threads run.                                                       *)
Assert ==
    /\ Running /\ MaySend /\ main.lines < MaxLines /\ main.use # "tee"
    /\ main' = [main EXCEPT !.pc = "finish", !.lines = @ + 1]
    /\ log' = [log EXCEPT !["main"] = Call(MaxJobs + main.lines + 1)]
    /\ UNCHANGED <<future, aio, io, disk, pool, worker, logged, due>>

(* GlobalFinish: nothing for a file that is not known, aio_close for one    *)
(* that is, aio_wait.                                                       *)
Finish ==
    /\ main.pc = "finish" /\ Idle("main") /\ (main.use = "file" => future.set)
    /\ Unlocked
    /\ main' = [main EXCEPT !.pc = IF main.use = "stdout" THEN "waited" ELSE "closed"]
    /\ aio' = [aio EXCEPT !.finish = IF main.use = "stdout" THEN "exit" ELSE "close"]
    /\ due' = logged
    /\ UNCHANGED <<log, future, io, disk, pool, worker, logged>>

FinishNothing ==
    /\ main.pc = "finish" /\ Idle("main") /\ main.use = "file" /\ ~future.set
    /\ main' = [main EXCEPT !.pc = "done"]
    /\ UNCHANGED <<log, future, aio, io, disk, pool, worker, logged, due>>

(* The second half of aio_close; aio_wait then finds finish set already.    *)
SignalClose ==
    /\ main.pc = "closed"
    /\ main' = [main EXCEPT !.pc = "waited"]
    /\ aio' = Signal(aio)
    /\ UNCHANGED <<log, future, io, disk, pool, worker, logged, due>>

SignalWait ==
    /\ main.pc = "waited"
    /\ main' = [main EXCEPT !.pc = "joinio"]
    /\ aio' = Signal(aio)
    /\ UNCHANGED <<log, future, io, disk, pool, worker, logged, due>>

JoinIo ==
    /\ main.pc = "joinio" /\ io.pc = "exit"
    /\ main' = [main EXCEPT !.pc = IF main.use = "tee" THEN "free" ELSE "done"]
    /\ UNCHANGED <<log, future, aio, io, disk, pool, worker, logged, due>>

(* aio_error and aio_free.                                                  *)
Free ==
    /\ main.pc = "free" /\ Unlocked
    /\ main' = [main EXCEPT !.pc = "done", !.error = aio.error]
    /\ aio' = Unref(aio)
    /\ UNCHANGED <<log, future, io, disk, pool, worker, logged, due>>

MainNext ==
    \/ LogLine \/ AddJob \/ SignalJob \/ Set \/ LogPending \/ EndSet \/ CheckError
    \/ Destroy \/ WakeWorkers \/ Join \/ Assert
    \/ Finish \/ FinishNothing \/ SignalClose \/ SignalWait \/ JoinIo \/ Free

Next ==
    \/ MainNext
    \/ \E t \in Thread : LogNext(t)
    \/ IoNext
    \/ \E w \in Worker : WorkerNext(w)

Spec == Init /\ [][Next]_vars

(* Threads are scheduled; nobody has to log, to add a job or to end the     *)
(* program.                                                                 *)
MainBusy ==
    \/ SignalJob \/ LogPending \/ EndSet \/ WakeWorkers \/ Join \/ Finish
    \/ FinishNothing \/ SignalClose \/ SignalWait \/ JoinIo \/ Free

Fairness ==
    /\ WF_vars(MainBusy) /\ WF_vars(IoNext)
    /\ \A t \in Thread : WF_vars(LogNext(t))
    /\ \A w \in Worker : WF_vars(WorkerNext(w))

FairSpec == Spec /\ Fairness
-----------------------------------------------------------------------------
(* The shapes of the variables.                                             *)
MainType ==
    main \in [pc : {"running", "added", "set", "destroy", "join", "finish", "closed",
                    "waited", "joinio", "free", "done"},
              use : {"file", "stdout", "tee"}, jobs : 0 .. MaxJobs,
              lines : 0 .. MaxLines, error : BOOLEAN]

LogType ==
    log \in [Thread -> [pc : {"idle", "load", "pend", "lock", "text", "last", "signal"},
                        msg : Message \cup {0}]]

FutureType ==
    future \in [set : BOOLEAN, lock : Thread \cup {"free"}, pending : Seq(Message)]

AioType ==
    aio \in [lock : Thread \cup {"free"}, signals : Nat, buffer : Seq(Byte),
             read : Nat, write : Nat, error : BOOLEAN,
             finish : {"running", "close", "exit"}, refs : 0 .. 2]

IoType ==
    io \in [pc : {"turn", "sleep", "write", "exit"}, local : Seq(Byte), error : BOOLEAN]

DiskType == disk \in [bytes : Seq(Byte), failed : BOOLEAN, open : BOOLEAN]

PoolType ==
    pool \in [queue : Seq(Message), signals : Nat, shutdown : BOOLEAN,
              started : Seq(Message)]

WorkerType == worker \in [Worker -> {"check", "wait", "fetch", "run", "exit"}]

HistoryType == logged \in Seq(Byte) /\ due \in Seq(Byte)

TypeOK ==
    /\ MainType /\ LogType /\ FutureType /\ AioType /\ IoType /\ DiskType
    /\ PoolType /\ WorkerType /\ HistoryType

(* Lines are never mixed, torn or reordered on their way through the ring,  *)
(* whatever it does meanwhile: what is in the file, until the disk fails,   *)
(* is the first part of a sequence of whole lines.                          *)
File == INSTANCE LogFile WITH
    Lines <- {Line(m, use) : m \in Message, use \in {"file", "tee"}}, Cell <- Byte,
    file <- disk.bytes, failed <- disk.failed

ImplementsLogFile == File!Spec

(* "loggers are supposed to finish writing the log messages they have       *)
(* received so far" (ILogger::GlobalFinish): when the log has finished,     *)
(* every line from before is in the file.                                   *)
FinishedFlushed ==
    main.pc \in {"free", "done"} /\ ~disk.failed =>
        /\ Len(due) <= Len(disk.bytes)
        /\ due = SubSeq(disk.bytes, 1, Len(due))

(* A server whose teehistorian file was closed without an error has all of  *)
(* it on the disk.                                                          *)
NoSilentLoss ==
    main.use = "tee" /\ main.pc = "done" /\ ~main.error => disk.bytes = logged

(* Jobs are started in the order they were added, and each at most once,    *)
(* with as many threads as there are.                                       *)
JobsInOrder == pool.started \o pool.queue = [i \in 1 .. main.jobs |-> i]

(* The lock that LookAgain leaves behind.                                   *)
LockLeft == future.lock \in Worker

(* No wakeup of aio_thread is lost: whatever is logged reaches the file     *)
(* without anybody logging more, unless the log is finished.                *)
EventuallyWritten ==
    logged # disk.bytes ~> logged = disk.bytes \/ disk.failed \/ io.pc = "exit"

(* No wakeup of the pool is lost: the jobs in the list are fetched, unless  *)
(* the pool is destroyed or a thread waits for the lock that was left.      *)
EventuallyStarted ==
    pool.queue # <<>> ~> pool.queue = <<>> \/ pool.shutdown \/ LockLeft

(* Destroying the pool and finishing the log come to an end.                *)
ProgramEnds ==
    main.pc \in {"destroy", "finish"} ~> main.pc = "done" \/ LockLeft

(* CFutureLogger::Set: "Replace the `CFutureLogger` instance with the given *)
(* logger.  It'll receive all log messages sent to the `CFutureLogger` so   *)
(* far."                                                                    *)
SentIsReceived ==
    \A m \in Message :
        (future.set /\ \E t \in Thread : log[t] = [pc |-> "pend", msg |-> m]) ~>
            (\E i \in DOMAIN logged : logged[i][1] = m) \/ aio.finish # "running"
-----------------------------------------------------------------------------
(* The invariant that carries the proofs.  Whoever writes a line holds the  *)
(* lock; the file, the local buffer and the ring make up what was logged    *)
(* and what has been written of the next line.                              *)
Positions == aio.read < Size(aio) /\ aio.write < Size(aio)

LockInStep ==
    \A t \in Thread :
        /\ aio.lock = t <=> log[t].pc \in {"text", "last"}
        /\ log[t].pc # "idle" => log[t].msg \in Message
        /\ log[t].pc = "text" => main.use # "tee"

Begun ==
    IF aio.lock # "free" /\ log[aio.lock].pc = "last" /\ main.use # "tee"
    THEN Text(log[aio.lock].msg) ELSE <<>>

BytesInStep ==
    ~disk.failed =>
        /\ disk.bytes \o io.local \o Contents(aio) = logged \o Begun
        /\ Len(disk.bytes) + Len(io.local) <= Len(logged)

IoInStep ==
    /\ io.pc # "write" => io.local = <<>>
    /\ io.error = disk.failed
    /\ io.pc # "turn" => aio.error = io.error
    /\ aio.refs = (IF io.pc = "exit" THEN 0 ELSE 1)
                  + (IF main.pc = "done" /\ main.use = "tee" THEN 0 ELSE 1)

(* How far the main thread is says who may still log and what is finished.  *)
MainInStep ==
    /\ main.pc \notin {"running", "set", "finish"} => Idle("main")
    /\ main.pc = "set" => main.use = "file"
    /\ aio.finish = "running" <=>
         \/ main.pc \in {"running", "added", "set", "destroy", "join", "finish"}
         \/ main.pc = "done" /\ main.use = "file" /\ ~future.set
    /\ main.use = "file" /\ aio.finish # "running" => future.set
    /\ io.pc = "exit" => aio.finish # "running"
    /\ main.pc = "free" => main.use = "tee" /\ io.pc = "exit"
    /\ main.pc = "done" => io.pc = "exit" \/ due = <<>>
    /\ main.pc = "done" /\ main.use = "tee" => io.pc = "exit" /\ main.error = aio.error

DueInStep ==
    /\ aio.finish = "running" => due = <<>>
    /\ Len(due) <= Len(logged) /\ due = SubSeq(logged, 1, Len(due))
    /\ io.pc = "exit" /\ ~disk.failed =>
         Len(due) <= Len(disk.bytes) /\ due = SubSeq(disk.bytes, 1, Len(due))

(* A thread of the pool logs only while it runs a job.                      *)
WorkerInStep == \A w \in Worker : worker[w] # "run" => Idle(w)

(* Nobody but the main thread writes to a teehistorian, and no more once it *)
(* closes it.                                                               *)
TeeAlone ==
    main.use = "tee" =>
        /\ main.jobs = 0 /\ pool.queue = <<>> /\ \A w \in Worker : Idle(w)
        /\ io.pc = "exit" /\ ~disk.failed => disk.bytes = logged

IInv ==
    /\ TypeOK /\ Positions /\ LockInStep /\ BytesInStep /\ IoInStep
    /\ MainInStep /\ DueInStep /\ WorkerInStep /\ TeeAlone /\ JobsInOrder

=============================================================================
