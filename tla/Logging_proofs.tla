---------------------------- MODULE Logging_proofs ----------------------------
(***************************************************************************)
(* The inductive invariant of Logging, for every value of the constants,   *)
(* and what follows from it: lines are never mixed or torn, a finished log *)
(* is complete, a teehistorian that is incomplete is known to be, and jobs *)
(* start in order.                                                         *)
(***************************************************************************)
EXTENDS Logging, AsyncIo_proofs, FiniteSetTheorems

-----------------------------------------------------------------------------
(* The bytes of a message.                                                  *)
LEMMA LineBytes ==
  ASSUME NEW m \in Message
  PROVE  /\ Text(m) \in Seq(Byte) /\ Newline(m) \in Seq(Byte)
         /\ Text(m) \o Newline(m) \in Seq(Byte)
<1>1. LineLength[m] \in Nat \ {0} /\ m \in Nat
  BY LoggingAssumption DEF Message
<1>2. Text(m) \in [1 .. LineLength[m] -> Byte]
  BY <1>1 DEF Text, Byte
<1>3. Text(m) \in Seq(Byte)
  BY <1>1, <1>2
<1>4. Newline(m) \in Seq(Byte)
  BY <1>1 DEF Newline, Byte
<1> QED  BY <1>3, <1>4, ConcatProperties

(* The numbers of messages.                                                 *)
LEMMA Bounds ==
  /\ MaxJobs \in Nat /\ MaxLines \in Nat
  /\ \A n \in 0 .. MaxJobs - 1 : n + 1 \in 0 .. MaxJobs /\ n + 1 \in Message
  /\ \A n \in 0 .. MaxLines - 1 : n + 1 \in 0 .. MaxLines /\ MaxJobs + n + 1 \in Message
  /\ Cardinality(Worker) \in Nat
  /\ Worker \subseteq Thread /\ "main" \in Thread /\ "main" \notin Worker
  /\ "free" \notin Thread
<1>1. /\ MaxJobs \in Nat /\ MaxLines \in Nat /\ IsFiniteSet(Worker)
      /\ "main" \notin Worker /\ "free" \notin Worker
  BY LoggingAssumption
<1>2. Cardinality(Worker) \in Nat
  BY <1>1, FS_CardinalityType
<1> QED  BY <1>1, <1>2 DEF Message, Thread

(* Jobs enter and leave the list in order.                                  *)
LEMMA AppendBehind ==
  ASSUME NEW S, NEW s \in Seq(S), NEW q \in Seq(S), NEW e \in S
  PROVE  s \o Append(q, e) = Append(s \o q, e)
<1> DEFINE final == <<e>>
<1>1. Append(q, e) = q \o final /\ final \in Seq(S)
  OBVIOUS
<1>2. s \o q \in Seq(S)
  BY ConcatProperties
<1>3. Append(s \o q, e) = (s \o q) \o final
  BY <1>2
<1> HIDE DEF final
<1>4. (s \o q) \o final = s \o (q \o final)
  BY <1>1, ConcatAssociative
<1> QED  BY <1>1, <1>3, <1>4, Zenon

Numbers(n) == [i \in 1 .. n |-> i]

LEMMA PushKeepsOrder ==
  ASSUME NEW S, NEW s \in Seq(S), NEW q \in Seq(S), NEW n \in Nat, n + 1 \in S,
         s \o q = Numbers(n)
  PROVE  s \o Append(q, n + 1) = Numbers(n + 1)
<1> DEFINE t == s \o q
           next == n + 1
<1>1. s \o Append(q, n + 1) = Append(t, n + 1)
  <2>1. next \in S
    OBVIOUS
  <2> HIDE DEF next
  <2>2. s \o Append(q, next) = Append(s \o q, next)
    BY <2>1, AppendBehind
  <2> QED  BY <2>2 DEF next
<1>2. t \in Seq(S)
  BY ConcatProperties
<1>3. Len(t) = n /\ \A i \in 1 .. n : t[i] = i
  BY <1>2 DEF Numbers
<1> HIDE DEF t
<1>4. Append(t, n + 1) = Numbers(n + 1)
  BY <1>2, <1>3 DEF Numbers
<1> QED  BY <1>1, <1>4

LEMMA FetchKeepsOrder ==
  ASSUME NEW S, NEW s \in Seq(S), NEW q \in Seq(S), q # <<>>
  PROVE  /\ Append(s, Head(q)) \o Tail(q) = s \o q
         /\ Head(q) \in S /\ Tail(q) \in Seq(S) /\ Append(s, Head(q)) \in Seq(S)
<1> DEFINE first == <<Head(q)>>
           rest == Tail(q)
<1>1. Head(q) \in S /\ rest \in Seq(S) /\ first \in Seq(S)
  BY HeadTailProperties
<1>2. Append(s, Head(q)) = s \o first /\ Append(s, Head(q)) \in Seq(S)
  BY <1>1
<1>3. first \o rest = q
  BY <1>1
<1> HIDE DEF first, rest
<1>4. (s \o first) \o rest = s \o (first \o rest)
  BY <1>1, ConcatAssociative, SMTT(60)
<1>5. Append(s, Head(q)) \o rest = s \o q
  BY <1>2, <1>3, <1>4, Zenon
<1> QED  BY <1>1, <1>2, <1>5 DEF rest

(* A step that leaves the ring, the file and the line under the lock alone. *)
LEMMA BytesKept ==
  ASSUME IInv,
         aio'.buffer = aio.buffer, aio'.read = aio.read, aio'.write = aio.write,
         aio'.lock = aio.lock,
         disk'.bytes = disk.bytes, disk'.failed = disk.failed, io'.local = io.local,
         UNCHANGED logged, main'.use = main.use,
         aio.lock # "free" => log'[aio.lock] = log[aio.lock]
  PROVE  Positions' /\ BytesInStep'
<1>1. Ring(aio)
  BY DEF IInv, Positions, Ring
<1>2. Ring(aio') /\ Contents(aio') = Contents(aio)
  BY <1>1, SameRing
<1>3. Begun' = Begun
  BY DEF Begun
<1>4. Contents(aio)' = Contents(aio)
  BY <1>2
<1> QED  BY <1>2, <1>3, <1>4 DEF IInv, BytesInStep, Positions, Ring, Size

(* A call of Log.                                                           *)
LEMMA LoadLoggerStep ==
  ASSUME IInv, NEW t \in Thread, LoadLogger(t)
  PROVE  IInv'
<1>1. TypeOK'
  <2>1. /\ MainType' /\ FutureType' /\ AioType' /\ IoType' /\ DiskType'
        /\ PoolType' /\ WorkerType' /\ HistoryType'
    BY DEF IInv, TypeOK, MainType, FutureType, AioType, IoType, DiskType, PoolType,
       WorkerType, HistoryType, LoadLogger
  <2>2. LogType'
    BY DEF IInv, TypeOK, MainType, LogType, LoadLogger, Goto, Idle, Thread, Goto
  <2> QED  BY <2>1, <2>2 DEF TypeOK
<1>2. Positions' /\ BytesInStep'
  BY BytesKept DEF IInv, TypeOK, MainType, LogType, LockInStep, LoadLogger, Goto,
     Idle, Thread
<1>3. LockInStep'
  BY DEF IInv, TypeOK, MainType, LogType, WorkerType, LockInStep, LoadLogger, Goto,
     Idle, Thread
<1>4. IoInStep' /\ MainInStep' /\ DueInStep'
  BY DEF IInv, TypeOK, MainType, LogType, WorkerType, IoInStep, MainInStep,
     DueInStep, LoadLogger, Goto, Idle, Thread
<1>5. WorkerInStep' /\ TeeAlone'
  BY DEF IInv, TypeOK, MainType, LogType, WorkerType, WorkerInStep, TeeAlone,
     LoadLogger, Goto, Idle, Thread
<1>6. JobsInOrder'
  BY DEF IInv, JobsInOrder, LoadLogger
<1> QED  BY <1>1, <1>2, <1>3, <1>4, <1>5, <1>6 DEF IInv

(* The second look for a logger.                                            *)
LEMMA LookAgainStep ==
  ASSUME IInv, NEW t \in Thread, LookAgain(t)
  PROVE  IInv'
<1>1. TypeOK'
  <2>1. /\ MainType' /\ AioType' /\ IoType' /\ DiskType'
        /\ PoolType' /\ WorkerType' /\ HistoryType'
    BY DEF IInv, TypeOK, MainType, AioType, IoType, DiskType, PoolType, WorkerType,
       HistoryType, LookAgain
  <2>2. LogType'
    BY DEF IInv, TypeOK, MainType, LogType, LookAgain, Goto, Idle, Goto
  <2>3. FutureType'
    <3>1. log[t].msg \in Message
      BY DEF IInv, LockInStep, LookAgain
    <3>2. Append(future.pending, log[t].msg) \in Seq(Message)
      BY <3>1 DEF IInv, TypeOK, FutureType
    <3> QED  BY <3>2 DEF IInv, TypeOK, FutureType, LookAgain
  <2> QED  BY <2>1, <2>2, <2>3 DEF TypeOK
<1>2. Positions' /\ BytesInStep'
  <2>1. aio.lock # t
    BY DEF IInv, LockInStep, LookAgain
  <2>2. aio.lock # "free" => log'[aio.lock] = log[aio.lock]
    BY <2>1 DEF IInv, TypeOK, LogType, AioType, LookAgain, Goto
  <2> QED  BY <2>2, BytesKept DEF LookAgain
<1>3. LockInStep'
  <2>1. log'[t] = [log[t] EXCEPT !.pc = log'[t].pc] /\ log'[t].pc \in {"lock", "idle"}
    BY DEF IInv, TypeOK, LogType, LookAgain, Goto
  <2>2. \A u \in Thread : u # t => log'[u] = log[u]
    BY DEF IInv, TypeOK, LogType, LookAgain, Goto
  <2>3. log[t].pc = "pend" /\ log'[t].msg = log[t].msg
    BY <2>1 DEF IInv, TypeOK, LogType, LookAgain
  <2>4. aio' = aio /\ main' = main
    BY DEF LookAgain
  <2> QED  BY <2>1, <2>2, <2>3, <2>4 DEF IInv, LockInStep
<1>4. IoInStep' /\ MainInStep' /\ DueInStep'
  <2>1. log["main"].pc = "idle" => log'["main"].pc = "idle"
    BY Bounds DEF IInv, TypeOK, LogType, LookAgain, Goto
  <2>2. future'.set = future.set
    BY DEF IInv, TypeOK, FutureType, LookAgain
  <2> QED  BY <2>1, <2>2 DEF IInv, IoInStep, MainInStep, DueInStep, LookAgain, Idle
<1>5. WorkerInStep' /\ TeeAlone'
  <2>1. log'[t].pc # "idle" => log[t].pc # "idle"
    BY DEF LookAgain
  <2>2. \A u \in Thread : u # t => log'[u] = log[u]
    BY DEF IInv, TypeOK, LogType, LookAgain, Goto
  <2> QED  BY <2>1, <2>2, Bounds
        DEF IInv, TypeOK, MainType, WorkerInStep, TeeAlone, LookAgain, Idle
<1>6. JobsInOrder'
  BY DEF IInv, JobsInOrder, LookAgain
<1> QED  BY <1>1, <1>2, <1>3, <1>4, <1>5, <1>6 DEF IInv

(* aio_unlock signals the thread of the ASYNCIO.                            *)
LEMMA SignalAioStep ==
  ASSUME IInv, NEW t \in Thread, SignalAio(t)
  PROVE  IInv'
<1>1. TypeOK'
  <2>1. /\ MainType' /\ FutureType' /\ IoType' /\ DiskType'
        /\ PoolType' /\ WorkerType' /\ HistoryType'
    BY DEF IInv, TypeOK, MainType, FutureType, IoType, DiskType, PoolType,
       WorkerType, HistoryType, SignalAio
  <2>2. LogType'
    BY DEF IInv, TypeOK, MainType, LogType, SignalAio, Goto, Idle, Signal, Thread,
       Goto
  <2>3. AioType'
    BY SMTT(60) DEF IInv, TypeOK, MainType, AioType, SignalAio, Goto, Idle, Signal, Thread
  <2> QED  BY <2>1, <2>2, <2>3 DEF TypeOK
<1>2. Positions' /\ BytesInStep'
  BY BytesKept DEF IInv, TypeOK, MainType, LogType, LockInStep, SignalAio, Goto,
     Idle, Signal, Thread
<1>3. LockInStep'
  BY DEF IInv, TypeOK, MainType, LogType, WorkerType, AioType, LockInStep, SignalAio,
     Goto, Idle, Signal, Thread
<1>4. IoInStep' /\ MainInStep' /\ DueInStep'
  BY DEF IInv, TypeOK, MainType, LogType, WorkerType, AioType, IoInStep, MainInStep,
     DueInStep, SignalAio, Goto, Idle, Signal, Thread
<1>5. WorkerInStep' /\ TeeAlone'
  BY DEF IInv, TypeOK, MainType, LogType, WorkerType, AioType, WorkerInStep,
     TeeAlone, SignalAio, Goto, Idle, Signal, Thread
<1>6. JobsInOrder'
  BY DEF IInv, JobsInOrder, SignalAio
<1> QED  BY <1>1, <1>2, <1>3, <1>4, <1>5, <1>6 DEF IInv

(* The threads of the pool.                                                 *)
LEMMA CheckShutdownStep ==
  ASSUME IInv, NEW w \in Worker, CheckShutdown(w)
  PROVE  IInv'
<1>1. TypeOK'
  <2>1. /\ MainType' /\ LogType' /\ FutureType' /\ AioType' /\ IoType'
        /\ DiskType' /\ PoolType' /\ HistoryType'
    BY DEF IInv, TypeOK, MainType, LogType, FutureType, AioType, IoType, DiskType,
       PoolType, HistoryType, CheckShutdown
  <2>2. WorkerType'
    BY DEF IInv, TypeOK, MainType, WorkerType, CheckShutdown, Idle
  <2> QED  BY <2>1, <2>2 DEF TypeOK
<1>2. Positions' /\ BytesInStep'
  BY BytesKept DEF IInv, TypeOK, MainType, LogType, LockInStep, CheckShutdown, Idle
<1>3. LockInStep'
  BY DEF IInv, TypeOK, MainType, LogType, WorkerType, LockInStep, CheckShutdown, Idle
<1>4. IoInStep' /\ MainInStep' /\ DueInStep'
  BY DEF IInv, TypeOK, MainType, LogType, WorkerType, IoInStep, MainInStep,
     DueInStep, CheckShutdown, Idle
<1>5. WorkerInStep' /\ TeeAlone'
  BY DEF IInv, TypeOK, MainType, LogType, WorkerType, WorkerInStep, TeeAlone,
     CheckShutdown, Idle
<1>6. JobsInOrder'
  BY DEF IInv, JobsInOrder, CheckShutdown
<1> QED  BY <1>1, <1>2, <1>3, <1>4, <1>5, <1>6 DEF IInv

(* A thread of the pool takes a signal.                                     *)
LEMMA WakeStep ==
  ASSUME IInv, NEW w \in Worker, Wake(w)
  PROVE  IInv'
<1>1. TypeOK'
  <2>1. /\ MainType' /\ LogType' /\ FutureType' /\ AioType'
        /\ IoType' /\ DiskType' /\ HistoryType'
    BY DEF IInv, TypeOK, MainType, LogType, FutureType, AioType, IoType, DiskType,
       HistoryType, Wake
  <2>2. PoolType'
    BY SMTT(60) DEF IInv, TypeOK, MainType, PoolType, Wake, Idle, Post
  <2>3. WorkerType'
    BY DEF IInv, TypeOK, MainType, WorkerType, Wake, Idle, Post
  <2> QED  BY <2>1, <2>2, <2>3 DEF TypeOK
<1>2. Positions' /\ BytesInStep'
  BY BytesKept DEF IInv, TypeOK, MainType, LogType, LockInStep, Wake, Idle, Post
<1>3. LockInStep'
  BY DEF IInv, TypeOK, MainType, LogType, WorkerType, PoolType, LockInStep, Wake,
     Idle, Post
<1>4. IoInStep' /\ MainInStep' /\ DueInStep'
  BY DEF IInv, TypeOK, MainType, LogType, WorkerType, PoolType, IoInStep, MainInStep,
     DueInStep, Wake, Idle, Post
<1>5. WorkerInStep' /\ TeeAlone'
  BY DEF IInv, TypeOK, MainType, LogType, WorkerType, PoolType, WorkerInStep,
     TeeAlone, Wake, Idle, Post
<1>6. JobsInOrder'
  BY DEF IInv, JobsInOrder, Wake, TypeOK, PoolType, PostJob, Post
<1> QED  BY <1>1, <1>2, <1>3, <1>4, <1>5, <1>6 DEF IInv

(* The job is done.                                                         *)
LEMMA EndJobStep ==
  ASSUME IInv, NEW w \in Worker, EndJob(w)
  PROVE  IInv'
<1>1. TypeOK'
  <2>1. /\ MainType' /\ LogType' /\ FutureType' /\ AioType' /\ IoType'
        /\ DiskType' /\ PoolType' /\ HistoryType'
    BY DEF IInv, TypeOK, MainType, LogType, FutureType, AioType, IoType, DiskType,
       PoolType, HistoryType, EndJob
  <2>2. WorkerType'
    BY DEF IInv, TypeOK, MainType, WorkerType, EndJob, Idle
  <2> QED  BY <2>1, <2>2 DEF TypeOK
<1>2. Positions' /\ BytesInStep'
  BY BytesKept DEF IInv, TypeOK, MainType, LogType, LockInStep, EndJob, Idle
<1>3. LockInStep'
  BY DEF IInv, TypeOK, MainType, LogType, WorkerType, LockInStep, EndJob, Idle
<1>4. IoInStep' /\ MainInStep' /\ DueInStep'
  BY DEF IInv, TypeOK, MainType, LogType, WorkerType, IoInStep, MainInStep,
     DueInStep, EndJob, Idle
<1>5. WorkerInStep' /\ TeeAlone'
  BY DEF IInv, TypeOK, MainType, LogType, WorkerType, WorkerInStep, TeeAlone, EndJob,
     Idle
<1>6. JobsInOrder'
  BY DEF IInv, JobsInOrder, EndJob
<1> QED  BY <1>1, <1>2, <1>3, <1>4, <1>5, <1>6 DEF IInv

(* It takes a job, which starts to log.                                     *)
LEMMA FetchJobStep ==
  ASSUME IInv, NEW w \in Worker, FetchJob(w)
  PROVE  IInv'
<1>0. pool.queue # <<>> =>
        /\ Append(pool.started, Head(pool.queue)) \o Tail(pool.queue)
           = pool.started \o pool.queue
        /\ Head(pool.queue) \in Message /\ Tail(pool.queue) \in Seq(Message)
        /\ Append(pool.started, Head(pool.queue)) \in Seq(Message)
  <2>1. pool.queue \in Seq(Message) /\ pool.started \in Seq(Message)
    BY DEF IInv, TypeOK, PoolType
  <2> QED  BY <2>1, FetchKeepsOrder
<1>1. TypeOK'
  <2>1. MainType' /\ FutureType' /\ AioType' /\ IoType' /\ DiskType' /\ HistoryType'
    BY DEF IInv, TypeOK, MainType, FutureType, AioType, IoType, DiskType,
       HistoryType, FetchJob
  <2>2. LogType'
    <3>1. CASE pool.queue = <<>>
      BY <3>1 DEF IInv, TypeOK, LogType, FetchJob
    <3>2. CASE pool.queue # <<>>
      <4>1. Call(Head(pool.queue)) \in [pc : {"load", "lock"}, msg : Message]
        BY <1>0, <3>2 DEF Call
      <4>2. log' = [log EXCEPT ![w] = Call(Head(pool.queue))]
        BY <3>2 DEF FetchJob
      <4> QED  BY <4>1, <4>2 DEF IInv, TypeOK, LogType
    <3> QED  BY <3>1, <3>2
  <2>3. PoolType'
    <3>1. CASE pool.queue = <<>>
      BY <3>1 DEF IInv, TypeOK, PoolType, FetchJob
    <3>2. CASE pool.queue # <<>>
      BY <1>0, <3>2 DEF IInv, TypeOK, PoolType, FetchJob, Fetch
    <3> QED  BY <3>1, <3>2
  <2>4. WorkerType'
    BY DEF IInv, TypeOK, WorkerType, FetchJob
  <2> QED  BY <2>1, <2>2, <2>3, <2>4 DEF TypeOK
<1>2. Positions' /\ BytesInStep'
  <2>1. aio.lock # w
    BY Bounds DEF IInv, LockInStep, WorkerInStep, FetchJob, Idle
  <2>2. aio.lock # "free" => log'[aio.lock] = log[aio.lock]
    BY <2>1 DEF IInv, TypeOK, LogType, AioType, FetchJob
  <2> QED  BY <2>2, BytesKept DEF FetchJob
<1>3. LockInStep'
  <2>1. CASE pool.queue = <<>>
    BY <2>1 DEF IInv, LockInStep, FetchJob
  <2>2. CASE pool.queue # <<>>
    <3>1. /\ log'[w] = Call(Head(pool.queue)) /\ Idle(w)
          /\ \A u \in Thread : u # w => log'[u] = log[u]
      <4>1. w \in Thread /\ log' = [log EXCEPT ![w] = Call(Head(pool.queue))]
        BY <2>2, Bounds DEF FetchJob
      <4>2. Idle(w)
        BY DEF IInv, WorkerInStep, FetchJob
      <4> QED  BY <4>1, <4>2 DEF IInv, TypeOK, LogType
    <3>2. log'[w].pc \in {"load", "lock"} /\ log'[w].msg \in Message
      <4>1. Call(Head(pool.queue)).pc \in {"load", "lock"}
            /\ Call(Head(pool.queue)).msg = Head(pool.queue)
        BY DEF Call
      <4> QED  BY <1>0, <2>2, <3>1, <4>1
    <3>3. aio' = aio /\ main' = main
      BY DEF FetchJob
    <3> QED  BY <3>1, <3>2, <3>3 DEF IInv, LockInStep, Idle
  <2> QED  BY <2>1, <2>2
<1>4. IoInStep' /\ MainInStep' /\ DueInStep'
  <2>1. log'["main"] = log["main"]
    BY Bounds DEF IInv, TypeOK, LogType, FetchJob
  <2> QED  BY <2>1 DEF IInv, IoInStep, MainInStep, DueInStep, FetchJob, Idle
<1>5. WorkerInStep' /\ TeeAlone'
  <2>1. \A u \in Thread : u # w => log'[u] = log[u]
    BY DEF IInv, TypeOK, LogType, FetchJob
  <2>2. worker'[w] = (IF pool.queue = <<>> THEN "check" ELSE "run")
        /\ \A u \in Worker : u # w => worker'[u] = worker[u]
    BY DEF IInv, TypeOK, WorkerType, FetchJob
  <2>3. pool.queue = <<>> => log' = log /\ pool' = pool
    BY DEF FetchJob
  <2> QED  BY <2>1, <2>2, <2>3, Bounds DEF IInv, WorkerInStep, TeeAlone, FetchJob, Idle
<1>6. JobsInOrder'
  <2>1. CASE pool.queue = <<>>
    BY <2>1 DEF IInv, JobsInOrder, FetchJob
  <2>2. CASE pool.queue # <<>>
    <3>1. pool'.started \o pool'.queue = pool.started \o pool.queue
      BY <1>0, <2>2 DEF IInv, TypeOK, PoolType, FetchJob, Fetch
    <3> QED  BY <3>1 DEF IInv, JobsInOrder, FetchJob
  <2> QED  BY <2>1, <2>2
<1> QED  BY <1>1, <1>2, <1>3, <1>4, <1>5, <1>6 DEF IInv

(* The main thread logs a line.                                             *)
LEMMA LogLineStep ==
  ASSUME IInv, LogLine
  PROVE  IInv'
<1>1. TypeOK'
  <2>1. /\ FutureType' /\ AioType' /\ IoType' /\ DiskType'
        /\ PoolType' /\ WorkerType' /\ HistoryType'
    BY DEF IInv, TypeOK, FutureType, AioType, IoType, DiskType, PoolType, WorkerType,
       HistoryType, LogLine
  <2>2. MainType'
    BY Bounds DEF IInv, TypeOK, MainType, LogLine, Running, MaySend, Call, Idle
  <2>3. LogType'
    BY Bounds DEF IInv, TypeOK, MainType, LogType, LogLine, Running, MaySend, Call,
       Idle
  <2> QED  BY <2>1, <2>2, <2>3 DEF TypeOK
<1>2. Positions' /\ BytesInStep'
  BY Bounds, BytesKept DEF IInv, TypeOK, MainType, LogType, LockInStep, LogLine,
     Running, MaySend, Call, Idle
<1>3. LockInStep'
  BY Bounds DEF IInv, TypeOK, MainType, LogType, WorkerType, LockInStep, LogLine,
     Running, MaySend, Call, Idle
<1>4. IoInStep' /\ MainInStep' /\ DueInStep'
  BY DEF IInv, TypeOK, MainType, LogType, WorkerType, IoInStep, MainInStep,
     DueInStep, LogLine, Running, MaySend, Call, Idle
<1>5. WorkerInStep' /\ TeeAlone'
  BY Bounds DEF IInv, TypeOK, MainType, LogType, WorkerType, WorkerInStep, TeeAlone,
     LogLine, Running, MaySend, Call, Idle
<1>6. JobsInOrder'
  BY DEF IInv, JobsInOrder, LogLine, TypeOK, MainType
<1> QED  BY <1>1, <1>2, <1>3, <1>4, <1>5, <1>6 DEF IInv

(* It adds a job.                                                           *)
LEMMA AddJobStep ==
  ASSUME IInv, AddJob
  PROVE  IInv'
<1>1. TypeOK'
  <2>1. /\ LogType' /\ FutureType' /\ AioType' /\ IoType'
        /\ DiskType' /\ WorkerType' /\ HistoryType'
    BY DEF IInv, TypeOK, LogType, FutureType, AioType, IoType, DiskType, WorkerType,
       HistoryType, AddJob
  <2>2. MainType'
    <3>1. main.jobs \in 0 .. MaxJobs - 1
      BY Bounds DEF IInv, TypeOK, MainType, AddJob
    <3>2. main.jobs + 1 \in 0 .. MaxJobs /\ main.jobs + 1 \in Message
      BY <3>1, Bounds
    <3> QED  BY <3>2 DEF IInv, TypeOK, MainType, AddJob
  <2>3. PoolType'
    <3>1. main.jobs \in 0 .. MaxJobs - 1
      BY Bounds DEF IInv, TypeOK, MainType, AddJob
    <3>2. main.jobs + 1 \in 0 .. MaxJobs /\ main.jobs + 1 \in Message
      BY <3>1, Bounds
    <3>3. Append(pool.queue, main.jobs + 1) \in Seq(Message)
      BY <3>2 DEF IInv, TypeOK, PoolType
    <3> QED  BY <3>3 DEF IInv, TypeOK, PoolType, AddJob, Push
  <2> QED  BY <2>1, <2>2, <2>3 DEF TypeOK
<1>2. Positions' /\ BytesInStep'
  BY BytesKept DEF IInv, TypeOK, MainType, LogType, LockInStep, AddJob, Running,
     MaySend, Idle, Push
<1>3. LockInStep'
  BY DEF IInv, TypeOK, MainType, LogType, WorkerType, PoolType, LockInStep, AddJob,
     Running, MaySend, Idle, Push
<1>4. IoInStep' /\ MainInStep' /\ DueInStep'
  BY DEF IInv, TypeOK, MainType, LogType, WorkerType, PoolType, IoInStep, MainInStep,
     DueInStep, AddJob, Running, MaySend, Idle, Push
<1>5. WorkerInStep' /\ TeeAlone'
  BY DEF IInv, TypeOK, MainType, LogType, WorkerType, PoolType, WorkerInStep,
     TeeAlone, AddJob, Running, MaySend, Idle, Push
<1>6. JobsInOrder'
  <2>1. /\ pool.started \in Seq(Message) /\ pool.queue \in Seq(Message)
        /\ main.jobs \in Nat /\ main.jobs + 1 \in Message
        /\ pool.started \o pool.queue = Numbers(main.jobs)
    BY Bounds DEF IInv, TypeOK, MainType, PoolType, JobsInOrder, AddJob, Numbers
  <2>2. pool.started \o Append(pool.queue, main.jobs + 1) = Numbers(main.jobs + 1)
    BY <2>1, PushKeepsOrder
  <2>3. /\ pool'.started = pool.started
        /\ pool'.queue = Append(pool.queue, main.jobs + 1)
        /\ main'.jobs = main.jobs + 1
    BY DEF IInv, TypeOK, MainType, PoolType, AddJob, Push
  <2> QED  BY <2>2, <2>3 DEF JobsInOrder, Numbers
<1> QED  BY <1>1, <1>2, <1>3, <1>4, <1>5, <1>6 DEF IInv

(* It signals the pool.                                                     *)
LEMMA SignalJobStep ==
  ASSUME IInv, SignalJob
  PROVE  IInv'
<1>1. TypeOK'
  <2>1. /\ LogType' /\ FutureType' /\ AioType' /\ IoType'
        /\ DiskType' /\ WorkerType' /\ HistoryType'
    BY DEF IInv, TypeOK, LogType, FutureType, AioType, IoType, DiskType, WorkerType,
       HistoryType, SignalJob
  <2>2. MainType'
    BY DEF IInv, TypeOK, MainType, SignalJob, Idle, PostJob, Post
  <2>3. PoolType'
    BY DEF IInv, TypeOK, MainType, PoolType, SignalJob, Idle, PostJob, Post
  <2> QED  BY <2>1, <2>2, <2>3 DEF TypeOK
<1>2. Positions' /\ BytesInStep'
  BY BytesKept DEF IInv, TypeOK, MainType, LogType, LockInStep, SignalJob, Idle,
     PostJob, Post
<1>3. LockInStep'
  BY DEF IInv, TypeOK, MainType, LogType, WorkerType, PoolType, LockInStep,
     SignalJob, Idle, PostJob, Post
<1>4. IoInStep' /\ MainInStep' /\ DueInStep'
  BY DEF IInv, TypeOK, MainType, LogType, WorkerType, PoolType, IoInStep, MainInStep,
     DueInStep, SignalJob, Idle, PostJob, Post
<1>5. WorkerInStep' /\ TeeAlone'
  BY DEF IInv, TypeOK, MainType, LogType, WorkerType, PoolType, WorkerInStep,
     TeeAlone, SignalJob, Idle, PostJob, Post
<1>6. JobsInOrder'
  BY DEF IInv, JobsInOrder, SignalJob, TypeOK, MainType, PoolType, PostJob, Post
<1> QED  BY <1>1, <1>2, <1>3, <1>4, <1>5, <1>6 DEF IInv

(* It sets the logger.                                                      *)
LEMMA SetStep ==
  ASSUME IInv, Set
  PROVE  IInv'
<1>1. TypeOK'
  <2>1. /\ LogType' /\ AioType' /\ IoType' /\ DiskType'
        /\ PoolType' /\ WorkerType' /\ HistoryType'
    BY DEF IInv, TypeOK, LogType, AioType, IoType, DiskType, PoolType, WorkerType,
       HistoryType, Set
  <2>2. MainType'
    BY DEF IInv, TypeOK, MainType, Set, Running, Idle, Thread
  <2>3. FutureType'
    BY DEF IInv, TypeOK, MainType, FutureType, Set, Running, Idle, Thread
  <2> QED  BY <2>1, <2>2, <2>3 DEF TypeOK
<1>2. Positions' /\ BytesInStep'
  BY BytesKept DEF IInv, TypeOK, MainType, LogType, LockInStep, Set, Running, Idle,
     Thread
<1>3. LockInStep'
  BY DEF IInv, TypeOK, MainType, LogType, WorkerType, FutureType, LockInStep, Set,
     Running, Idle, Thread
<1>4. IoInStep' /\ MainInStep' /\ DueInStep'
  BY DEF IInv, TypeOK, MainType, LogType, WorkerType, FutureType, IoInStep,
     MainInStep, DueInStep, Set, Running, Idle, Thread
<1>5. WorkerInStep' /\ TeeAlone'
  BY DEF IInv, TypeOK, MainType, LogType, WorkerType, FutureType, WorkerInStep,
     TeeAlone, Set, Running, Idle, Thread
<1>6. JobsInOrder'
  BY DEF IInv, JobsInOrder, Set, TypeOK, MainType
<1> QED  BY <1>1, <1>2, <1>3, <1>4, <1>5, <1>6 DEF IInv

(* It sends a pending message on.                                           *)
LEMMA LogPendingStep ==
  ASSUME IInv, LogPending
  PROVE  IInv'
<1>1. TypeOK'
  <2>1. /\ MainType' /\ AioType' /\ IoType' /\ DiskType'
        /\ PoolType' /\ WorkerType' /\ HistoryType'
    BY DEF IInv, TypeOK, MainType, AioType, IoType, DiskType, PoolType, WorkerType,
       HistoryType, LogPending
  <2>2. LogType'
    <3>1. Head(future.pending) \in Message
      BY HeadTailProperties DEF IInv, TypeOK, FutureType, LogPending
    <3> QED  BY <3>1 DEF IInv, TypeOK, LogType, LogPending
  <2>3. FutureType'
    <3>1. Tail(future.pending) \in Seq(Message)
      BY HeadTailProperties DEF IInv, TypeOK, FutureType, LogPending
    <3> QED  BY <3>1 DEF IInv, TypeOK, FutureType, LogPending
  <2> QED  BY <2>1, <2>2, <2>3 DEF TypeOK
<1>2. Positions' /\ BytesInStep'
  BY BytesKept DEF IInv, TypeOK, MainType, LogType, LockInStep, LogPending, Idle
<1>3. LockInStep'
  <2>1. Head(future.pending) \in Message
    BY HeadTailProperties DEF IInv, TypeOK, FutureType, LogPending
  <2> QED  BY <2>1 DEF IInv, TypeOK, LogType, LockInStep, LogPending, Idle
<1>4. IoInStep' /\ MainInStep' /\ DueInStep'
  BY DEF IInv, TypeOK, MainType, LogType, WorkerType, FutureType, IoInStep,
     MainInStep, DueInStep, LogPending, Idle
<1>5. WorkerInStep' /\ TeeAlone'
  <2>1. \A w \in Worker : log'[w] = log[w]
    BY Bounds DEF IInv, TypeOK, LogType, LogPending
  <2> QED  BY <2>1 DEF IInv, WorkerInStep, TeeAlone, LogPending, Idle
<1>6. JobsInOrder'
  BY DEF IInv, JobsInOrder, LogPending
<1> QED  BY <1>1, <1>2, <1>3, <1>4, <1>5, <1>6 DEF IInv

(* It gives the lock back.                                                  *)
LEMMA EndSetStep ==
  ASSUME IInv, EndSet
  PROVE  IInv'
<1>1. TypeOK'
  <2>1. /\ LogType' /\ AioType' /\ IoType' /\ DiskType'
        /\ PoolType' /\ WorkerType' /\ HistoryType'
    BY DEF IInv, TypeOK, LogType, AioType, IoType, DiskType, PoolType, WorkerType,
       HistoryType, EndSet
  <2>2. MainType'
    BY DEF IInv, TypeOK, MainType, EndSet, Idle, Thread
  <2>3. FutureType'
    BY DEF IInv, TypeOK, MainType, FutureType, EndSet, Idle, Thread
  <2> QED  BY <2>1, <2>2, <2>3 DEF TypeOK
<1>2. Positions' /\ BytesInStep'
  BY BytesKept DEF IInv, TypeOK, MainType, LogType, LockInStep, EndSet, Idle, Thread
<1>3. LockInStep'
  BY DEF IInv, TypeOK, MainType, LogType, WorkerType, FutureType, LockInStep, EndSet,
     Idle, Thread
<1>4. IoInStep' /\ MainInStep' /\ DueInStep'
  BY DEF IInv, TypeOK, MainType, LogType, WorkerType, FutureType, IoInStep,
     MainInStep, DueInStep, EndSet, Idle, Thread
<1>5. WorkerInStep' /\ TeeAlone'
  BY DEF IInv, TypeOK, MainType, LogType, WorkerType, FutureType, WorkerInStep,
     TeeAlone, EndSet, Idle, Thread
<1>6. JobsInOrder'
  BY DEF IInv, JobsInOrder, EndSet, TypeOK, MainType
<1> QED  BY <1>1, <1>2, <1>3, <1>4, <1>5, <1>6 DEF IInv

(* It looks at the error.                                                   *)
LEMMA CheckErrorStep ==
  ASSUME IInv, CheckError
  PROVE  IInv'
<1>1. TypeOK'
  <2>1. /\ LogType' /\ FutureType' /\ AioType' /\ IoType' /\ DiskType'
        /\ PoolType' /\ WorkerType' /\ HistoryType'
    BY DEF IInv, TypeOK, LogType, FutureType, AioType, IoType, DiskType, PoolType,
       WorkerType, HistoryType, CheckError
  <2>2. MainType'
    BY DEF IInv, TypeOK, MainType, CheckError, Running, Idle
  <2> QED  BY <2>1, <2>2 DEF TypeOK
<1>2. Positions' /\ BytesInStep'
  BY BytesKept DEF IInv, TypeOK, MainType, LogType, LockInStep, CheckError, Running,
     Idle
<1>3. LockInStep'
  BY DEF IInv, TypeOK, MainType, LogType, WorkerType, LockInStep, CheckError,
     Running, Idle
<1>4. IoInStep' /\ MainInStep' /\ DueInStep'
  BY DEF IInv, TypeOK, MainType, LogType, WorkerType, IoInStep, MainInStep,
     DueInStep, CheckError, Running, Idle
<1>5. WorkerInStep' /\ TeeAlone'
  BY DEF IInv, TypeOK, MainType, LogType, WorkerType, WorkerInStep, TeeAlone,
     CheckError, Running, Idle
<1>6. JobsInOrder'
  BY DEF IInv, JobsInOrder, CheckError, TypeOK, MainType
<1> QED  BY <1>1, <1>2, <1>3, <1>4, <1>5, <1>6 DEF IInv

(* It destroys the pool.                                                    *)
LEMMA DestroyStep ==
  ASSUME IInv, Destroy
  PROVE  IInv'
<1>1. TypeOK'
  <2>1. /\ LogType' /\ FutureType' /\ AioType' /\ IoType'
        /\ DiskType' /\ WorkerType' /\ HistoryType'
    BY DEF IInv, TypeOK, LogType, FutureType, AioType, IoType, DiskType, WorkerType,
       HistoryType, Destroy
  <2>2. MainType'
    BY DEF IInv, TypeOK, MainType, Destroy, Running, Idle
  <2>3. PoolType'
    BY DEF IInv, TypeOK, MainType, PoolType, Destroy, Running, Idle
  <2> QED  BY <2>1, <2>2, <2>3 DEF TypeOK
<1>2. Positions' /\ BytesInStep'
  BY BytesKept DEF IInv, TypeOK, MainType, LogType, LockInStep, Destroy, Running, Idle
<1>3. LockInStep'
  BY DEF IInv, TypeOK, MainType, LogType, WorkerType, PoolType, LockInStep, Destroy,
     Running, Idle
<1>4. IoInStep' /\ MainInStep' /\ DueInStep'
  BY DEF IInv, TypeOK, MainType, LogType, WorkerType, PoolType, IoInStep, MainInStep,
     DueInStep, Destroy, Running, Idle
<1>5. WorkerInStep' /\ TeeAlone'
  BY DEF IInv, TypeOK, MainType, LogType, WorkerType, PoolType, WorkerInStep,
     TeeAlone, Destroy, Running, Idle
<1>6. JobsInOrder'
  BY DEF IInv, JobsInOrder, Destroy, TypeOK, MainType, PoolType, PostJob, Post
<1> QED  BY <1>1, <1>2, <1>3, <1>4, <1>5, <1>6 DEF IInv

(* It wakes the threads of the pool.                                        *)
LEMMA WakeWorkersStep ==
  ASSUME IInv, WakeWorkers
  PROVE  IInv'
<1>1. TypeOK'
  <2>1. /\ LogType' /\ FutureType' /\ AioType' /\ IoType'
        /\ DiskType' /\ WorkerType' /\ HistoryType'
    BY DEF IInv, TypeOK, LogType, FutureType, AioType, IoType, DiskType, WorkerType,
       HistoryType, WakeWorkers
  <2>2. MainType'
    BY DEF IInv, TypeOK, MainType, WakeWorkers, Idle, Post
  <2>3. PoolType'
    <3>1. pool.signals + Cardinality(Worker) \in Nat
      BY Bounds DEF IInv, TypeOK, PoolType
    <3> QED  BY <3>1 DEF IInv, TypeOK, PoolType, WakeWorkers, Post
  <2> QED  BY <2>1, <2>2, <2>3 DEF TypeOK
<1>2. Positions' /\ BytesInStep'
  BY BytesKept DEF IInv, TypeOK, MainType, LogType, LockInStep, WakeWorkers, Idle,
     Post
<1>3. LockInStep'
  BY DEF IInv, TypeOK, MainType, LogType, WorkerType, PoolType, LockInStep,
     WakeWorkers, Idle, Post
<1>4. IoInStep' /\ MainInStep' /\ DueInStep'
  BY DEF IInv, TypeOK, MainType, LogType, WorkerType, PoolType, IoInStep, MainInStep,
     DueInStep, WakeWorkers, Idle, Post
<1>5. WorkerInStep' /\ TeeAlone'
  BY DEF IInv, TypeOK, MainType, LogType, WorkerType, PoolType, WorkerInStep,
     TeeAlone, WakeWorkers, Idle, Post
<1>6. JobsInOrder'
  BY DEF IInv, JobsInOrder, WakeWorkers, TypeOK, MainType, PoolType, PostJob, Post
<1> QED  BY <1>1, <1>2, <1>3, <1>4, <1>5, <1>6 DEF IInv

(* It waits for them.                                                       *)
LEMMA JoinStep ==
  ASSUME IInv, Join
  PROVE  IInv'
<1>1. TypeOK'
  <2>1. /\ LogType' /\ FutureType' /\ AioType' /\ IoType' /\ DiskType'
        /\ PoolType' /\ WorkerType' /\ HistoryType'
    BY DEF IInv, TypeOK, LogType, FutureType, AioType, IoType, DiskType, PoolType,
       WorkerType, HistoryType, Join
  <2>2. MainType'
    BY DEF IInv, TypeOK, MainType, Join, Idle
  <2> QED  BY <2>1, <2>2 DEF TypeOK
<1>2. Positions' /\ BytesInStep'
  BY BytesKept DEF IInv, TypeOK, MainType, LogType, LockInStep, Join, Idle
<1>3. LockInStep'
  BY DEF IInv, TypeOK, MainType, LogType, WorkerType, LockInStep, Join, Idle
<1>4. IoInStep' /\ MainInStep' /\ DueInStep'
  BY DEF IInv, TypeOK, MainType, LogType, WorkerType, IoInStep, MainInStep,
     DueInStep, Join, Idle
<1>5. WorkerInStep' /\ TeeAlone'
  BY DEF IInv, TypeOK, MainType, LogType, WorkerType, WorkerInStep, TeeAlone, Join,
     Idle
<1>6. JobsInOrder'
  BY DEF IInv, JobsInOrder, Join, TypeOK, MainType
<1> QED  BY <1>1, <1>2, <1>3, <1>4, <1>5, <1>6 DEF IInv

(* An assertion fails.                                                      *)
LEMMA AssertStep ==
  ASSUME IInv, Assert
  PROVE  IInv'
<1>1. TypeOK'
  <2>1. /\ FutureType' /\ AioType' /\ IoType' /\ DiskType'
        /\ PoolType' /\ WorkerType' /\ HistoryType'
    BY DEF IInv, TypeOK, FutureType, AioType, IoType, DiskType, PoolType, WorkerType,
       HistoryType, Assert
  <2>2. MainType'
    <3>1. main.lines \in 0 .. MaxLines - 1
      BY Bounds DEF IInv, TypeOK, MainType, Assert
    <3>2. main.lines + 1 \in 0 .. MaxLines
      BY <3>1, Bounds
    <3> QED  BY <3>2 DEF IInv, TypeOK, MainType, Assert
  <2>3. LogType'
    BY Bounds DEF IInv, TypeOK, MainType, LogType, Assert, Running, MaySend, Call,
       Idle
  <2> QED  BY <2>1, <2>2, <2>3 DEF TypeOK
<1>2. Positions' /\ BytesInStep'
  BY Bounds, BytesKept DEF IInv, TypeOK, MainType, LogType, LockInStep, Assert,
     Running, MaySend, Call, Idle
<1>3. LockInStep'
  BY Bounds DEF IInv, TypeOK, MainType, LogType, WorkerType, LockInStep, Assert,
     Running, MaySend, Call, Idle
<1>4. IoInStep' /\ MainInStep' /\ DueInStep'
  BY DEF IInv, TypeOK, MainType, LogType, WorkerType, IoInStep, MainInStep,
     DueInStep, Assert, Running, MaySend, Call, Idle
<1>5. WorkerInStep' /\ TeeAlone'
  BY Bounds DEF IInv, TypeOK, MainType, LogType, WorkerType, WorkerInStep, TeeAlone,
     Assert, Running, MaySend, Call, Idle
<1>6. JobsInOrder'
  BY DEF IInv, JobsInOrder, Assert, TypeOK, MainType
<1> QED  BY <1>1, <1>2, <1>3, <1>4, <1>5, <1>6 DEF IInv

(* It finishes the log.                                                     *)
LEMMA FinishStep ==
  ASSUME IInv, Finish
  PROVE  IInv'
<1>1. TypeOK'
  <2>1. LogType' /\ FutureType' /\ IoType' /\ DiskType' /\ PoolType' /\ WorkerType'
    BY DEF IInv, TypeOK, LogType, FutureType, IoType, DiskType, PoolType, WorkerType,
       Finish
  <2>2. MainType'
    BY DEF IInv, TypeOK, MainType, Finish, Idle, Unlocked
  <2>3. AioType'
    BY DEF IInv, TypeOK, MainType, AioType, Finish, Idle, Unlocked
  <2>4. HistoryType'
    BY DEF IInv, TypeOK, MainType, HistoryType, Finish, Idle, Unlocked
  <2> QED  BY <2>1, <2>2, <2>3, <2>4 DEF TypeOK
<1>2. Positions' /\ BytesInStep'
  BY BytesKept DEF IInv, TypeOK, MainType, LogType, LockInStep, Finish, Idle, Unlocked
<1>3. LockInStep'
  BY DEF IInv, TypeOK, MainType, LogType, WorkerType, AioType, HistoryType,
     LockInStep, Finish, Idle, Unlocked
<1>4. IoInStep' /\ MainInStep' /\ DueInStep'
  BY DEF IInv, TypeOK, MainType, LogType, WorkerType, AioType, HistoryType, IoInStep,
     MainInStep, DueInStep, Finish, Idle, Unlocked
<1>5. WorkerInStep' /\ TeeAlone'
  BY DEF IInv, TypeOK, MainType, LogType, WorkerType, AioType, HistoryType,
     WorkerInStep, TeeAlone, Finish, Idle, Unlocked
<1>6. JobsInOrder'
  BY DEF IInv, JobsInOrder, Finish, TypeOK, MainType
<1> QED  BY <1>1, <1>2, <1>3, <1>4, <1>5, <1>6 DEF IInv

(* It has no log to finish.                                                 *)
LEMMA FinishNothingStep ==
  ASSUME IInv, FinishNothing
  PROVE  IInv'
<1>1. TypeOK'
  <2>1. /\ LogType' /\ FutureType' /\ AioType' /\ IoType' /\ DiskType'
        /\ PoolType' /\ WorkerType' /\ HistoryType'
    BY DEF IInv, TypeOK, LogType, FutureType, AioType, IoType, DiskType, PoolType,
       WorkerType, HistoryType, FinishNothing
  <2>2. MainType'
    BY DEF IInv, TypeOK, MainType, FinishNothing, Idle
  <2> QED  BY <2>1, <2>2 DEF TypeOK
<1>2. Positions' /\ BytesInStep'
  BY BytesKept DEF IInv, TypeOK, MainType, LogType, LockInStep, FinishNothing, Idle
<1>3. LockInStep'
  BY DEF IInv, TypeOK, MainType, LogType, WorkerType, LockInStep, FinishNothing, Idle
<1>4. IoInStep' /\ MainInStep' /\ DueInStep'
  BY DEF IInv, TypeOK, MainType, LogType, WorkerType, IoInStep, MainInStep,
     DueInStep, FinishNothing, Idle
<1>5. WorkerInStep' /\ TeeAlone'
  BY DEF IInv, TypeOK, MainType, LogType, WorkerType, WorkerInStep, TeeAlone,
     FinishNothing, Idle
<1>6. JobsInOrder'
  BY DEF IInv, JobsInOrder, FinishNothing, TypeOK, MainType
<1> QED  BY <1>1, <1>2, <1>3, <1>4, <1>5, <1>6 DEF IInv

(* aio_close signals.                                                       *)
LEMMA SignalCloseStep ==
  ASSUME IInv, SignalClose
  PROVE  IInv'
<1>1. TypeOK'
  <2>1. /\ LogType' /\ FutureType' /\ IoType' /\ DiskType'
        /\ PoolType' /\ WorkerType' /\ HistoryType'
    BY DEF IInv, TypeOK, LogType, FutureType, IoType, DiskType, PoolType, WorkerType,
       HistoryType, SignalClose
  <2>2. MainType'
    BY DEF IInv, TypeOK, MainType, SignalClose, Idle, Signal
  <2>3. AioType'
    BY DEF IInv, TypeOK, MainType, AioType, SignalClose, Idle, Signal
  <2> QED  BY <2>1, <2>2, <2>3 DEF TypeOK
<1>2. Positions' /\ BytesInStep'
  BY BytesKept DEF IInv, TypeOK, MainType, LogType, LockInStep, SignalClose, Idle,
     Signal
<1>3. LockInStep'
  BY DEF IInv, TypeOK, MainType, LogType, WorkerType, AioType, LockInStep,
     SignalClose, Idle, Signal
<1>4. IoInStep' /\ MainInStep' /\ DueInStep'
  BY DEF IInv, TypeOK, MainType, LogType, WorkerType, AioType, IoInStep, MainInStep,
     DueInStep, SignalClose, Idle, Signal
<1>5. WorkerInStep' /\ TeeAlone'
  BY DEF IInv, TypeOK, MainType, LogType, WorkerType, AioType, WorkerInStep,
     TeeAlone, SignalClose, Idle, Signal
<1>6. JobsInOrder'
  BY DEF IInv, JobsInOrder, SignalClose, TypeOK, MainType
<1> QED  BY <1>1, <1>2, <1>3, <1>4, <1>5, <1>6 DEF IInv

(* aio_wait signals.                                                        *)
LEMMA SignalWaitStep ==
  ASSUME IInv, SignalWait
  PROVE  IInv'
<1>1. TypeOK'
  <2>1. /\ LogType' /\ FutureType' /\ IoType' /\ DiskType'
        /\ PoolType' /\ WorkerType' /\ HistoryType'
    BY DEF IInv, TypeOK, LogType, FutureType, IoType, DiskType, PoolType, WorkerType,
       HistoryType, SignalWait
  <2>2. MainType'
    BY DEF IInv, TypeOK, MainType, SignalWait, Idle, Signal
  <2>3. AioType'
    BY DEF IInv, TypeOK, MainType, AioType, SignalWait, Idle, Signal
  <2> QED  BY <2>1, <2>2, <2>3 DEF TypeOK
<1>2. Positions' /\ BytesInStep'
  BY BytesKept DEF IInv, TypeOK, MainType, LogType, LockInStep, SignalWait, Idle,
     Signal
<1>3. LockInStep'
  BY DEF IInv, TypeOK, MainType, LogType, WorkerType, AioType, LockInStep,
     SignalWait, Idle, Signal
<1>4. IoInStep' /\ MainInStep' /\ DueInStep'
  BY DEF IInv, TypeOK, MainType, LogType, WorkerType, AioType, IoInStep, MainInStep,
     DueInStep, SignalWait, Idle, Signal
<1>5. WorkerInStep' /\ TeeAlone'
  BY DEF IInv, TypeOK, MainType, LogType, WorkerType, AioType, WorkerInStep,
     TeeAlone, SignalWait, Idle, Signal
<1>6. JobsInOrder'
  BY DEF IInv, JobsInOrder, SignalWait, TypeOK, MainType
<1> QED  BY <1>1, <1>2, <1>3, <1>4, <1>5, <1>6 DEF IInv

(* aio_wait waits.                                                          *)
LEMMA JoinIoStep ==
  ASSUME IInv, JoinIo
  PROVE  IInv'
<1>1. TypeOK'
  <2>1. /\ LogType' /\ FutureType' /\ AioType' /\ IoType' /\ DiskType'
        /\ PoolType' /\ WorkerType' /\ HistoryType'
    BY DEF IInv, TypeOK, LogType, FutureType, AioType, IoType, DiskType, PoolType,
       WorkerType, HistoryType, JoinIo
  <2>2. MainType'
    BY DEF IInv, TypeOK, MainType, JoinIo, Idle
  <2> QED  BY <2>1, <2>2 DEF TypeOK
<1>2. Positions' /\ BytesInStep'
  BY BytesKept DEF IInv, TypeOK, MainType, LogType, LockInStep, JoinIo, Idle
<1>3. LockInStep'
  BY DEF IInv, TypeOK, MainType, LogType, WorkerType, LockInStep, JoinIo, Idle
<1>4. IoInStep' /\ MainInStep' /\ DueInStep'
  BY DEF IInv, TypeOK, MainType, LogType, WorkerType, IoInStep, MainInStep,
     DueInStep, JoinIo, Idle
<1>5. WorkerInStep' /\ TeeAlone'
  BY DEF IInv, TypeOK, MainType, LogType, WorkerType, WorkerInStep, TeeAlone, JoinIo,
     Idle
<1>6. JobsInOrder'
  BY DEF IInv, JobsInOrder, JoinIo, TypeOK, MainType
<1> QED  BY <1>1, <1>2, <1>3, <1>4, <1>5, <1>6 DEF IInv

(* The file is checked and freed.                                           *)
LEMMA FreeStep ==
  ASSUME IInv, Free
  PROVE  IInv'
<1>1. TypeOK'
  <2>1. /\ LogType' /\ FutureType' /\ IoType' /\ DiskType'
        /\ PoolType' /\ WorkerType' /\ HistoryType'
    BY DEF IInv, TypeOK, LogType, FutureType, IoType, DiskType, PoolType, WorkerType,
       HistoryType, Free
  <2>2. MainType'
    <3>1. aio.error \in BOOLEAN
      BY DEF IInv, TypeOK, AioType
    <3> QED  BY <3>1 DEF IInv, TypeOK, MainType, Free
  <2>3. AioType'
    <3>1. io.pc = "exit" /\ main.pc # "done"
      BY DEF IInv, MainInStep, Free
    <3>2. aio.refs = 1
      BY <3>1 DEF IInv, IoInStep
    <3> QED  BY <3>2 DEF IInv, TypeOK, AioType, Free, Unref
  <2> QED  BY <2>1, <2>2, <2>3 DEF TypeOK
<1>2. Positions' /\ BytesInStep'
  BY BytesKept DEF IInv, TypeOK, MainType, LogType, LockInStep, Free, Idle, Unref
<1>3. LockInStep'
  BY DEF IInv, TypeOK, MainType, LogType, WorkerType, AioType, LockInStep, Free,
     Idle, Unref
<1>4. IoInStep' /\ MainInStep' /\ DueInStep'
  BY DEF IInv, TypeOK, MainType, LogType, WorkerType, AioType, IoInStep, MainInStep,
     DueInStep, Free, Idle, Unref
<1>5. WorkerInStep' /\ TeeAlone'
  BY DEF IInv, TypeOK, MainType, LogType, WorkerType, AioType, WorkerInStep,
     TeeAlone, Free, Idle, Unref
<1>6. JobsInOrder'
  BY DEF IInv, JobsInOrder, Free, TypeOK, MainType
<1> QED  BY <1>1, <1>2, <1>3, <1>4, <1>5, <1>6 DEF IInv

-----------------------------------------------------------------------------
(* What the invariant says of the bytes.                                    *)
LEMMA Bytes ==
  ASSUME IInv
  PROVE  /\ aio \in Aio(Thread \cup {"free"}) /\ Ring(aio)
         /\ Contents(aio) \in Seq(Byte) /\ Len(Contents(aio)) = BufferLen(aio)
         /\ BufferLen(aio) \in Nat
         /\ disk.bytes \in Seq(Byte) /\ io.local \in Seq(Byte)
         /\ logged \in Seq(Byte) /\ due \in Seq(Byte)
<1>1. aio \in Aio(Thread \cup {"free"}) /\ Ring(aio)
  BY DEF IInv, TypeOK, AioType, Aio, Positions, Ring
<1>2. /\ Contents(aio) \in Seq(Byte) /\ Len(Contents(aio)) = BufferLen(aio)
      /\ BufferLen(aio) \in Nat
  BY <1>1, RingContents, RingNumbers
<1>3. /\ disk.bytes \in Seq(Byte) /\ io.local \in Seq(Byte)
      /\ logged \in Seq(Byte) /\ due \in Seq(Byte)
  BY DEF IInv, TypeOK, DiskType, IoType, HistoryType
<1> QED  BY <1>1, <1>2, <1>3

(* The message a thread writes under the lock.                              *)
LEMMA Writing ==
  ASSUME IInv, NEW t \in Thread, log[t].pc \in {"text", "last"}
  PROVE  /\ aio.lock = t /\ log[t].msg \in Message
         /\ \A u \in Thread : log[u].pc \in {"text", "last"} => u = t
         /\ log[t].pc = "text" => main.use # "tee"
  BY DEF IInv, LockInStep

(* A first part stays one.                                                  *)
LEMMA PrefixKept ==
  ASSUME NEW S, NEW s \in Seq(S), NEW t \in Seq(S), NEW n \in 0 .. Len(s)
  PROVE  SubSeq(s \o t, 1, n) = SubSeq(s, 1, n)
<1> DEFINE st == s \o t
<1>1. /\ st \in Seq(S) /\ Len(st) = Len(s) + Len(t) /\ Len(s) \in Nat /\ Len(t) \in Nat
      /\ \A i \in 1 .. Len(s) : st[i] = s[i]
  BY ConcatProperties, LenProperties
<1> HIDE DEF st
<1>2. /\ SubSeq(st, 1, n) \in Seq(S) /\ Len(SubSeq(st, 1, n)) = n
      /\ \A i \in 1 .. n : SubSeq(st, 1, n)[i] = st[i]
  BY <1>1
<1>3. /\ SubSeq(s, 1, n) \in Seq(S) /\ Len(SubSeq(s, 1, n)) = n
      /\ \A i \in 1 .. n : SubSeq(s, 1, n)[i] = s[i]
  BY <1>1
<1>4. \A i \in 1 .. n : SubSeq(st, 1, n)[i] = SubSeq(s, 1, n)[i]
  BY <1>1, <1>2, <1>3
<1>5. SubSeq(st, 1, n) = SubSeq(s, 1, n)
  BY <1>2, <1>3, <1>4, SeqEqual
<1> QED  BY <1>5 DEF st

(* A thread takes the lock of the ASYNCIO.                                  *)
LEMMA LockAioStep ==
  ASSUME IInv, NEW t \in Thread, LockAio(t)
  PROVE  IInv'
<1>1. TypeOK'
  <2>1. /\ MainType' /\ FutureType' /\ IoType' /\ DiskType'
        /\ PoolType' /\ WorkerType' /\ HistoryType'
    BY DEF IInv, TypeOK, MainType, FutureType, IoType, DiskType, PoolType, WorkerType,
       HistoryType, LockAio
  <2>2. LogType'
    BY DEF IInv, TypeOK, LogType, LockAio, Goto
  <2>3. AioType'
    BY DEF IInv, TypeOK, AioType, LockAio
  <2> QED  BY <2>1, <2>2, <2>3 DEF TypeOK
<1>2. /\ aio'.buffer = aio.buffer /\ aio'.read = aio.read /\ aio'.write = aio.write
      /\ aio'.lock = t /\ aio'.finish = aio.finish /\ aio'.error = aio.error
      /\ aio'.refs = aio.refs
  BY DEF IInv, TypeOK, AioType, LockAio
<1>3. /\ log'[t].pc = (IF main.use = "tee" THEN "last" ELSE "text")
      /\ log'[t].msg = log[t].msg
      /\ \A u \in Thread : u # t => log'[u] = log[u]
  BY DEF IInv, TypeOK, LogType, LockAio, Goto
<1>4. aio.lock = "free" /\ log[t].pc = "lock"
  BY DEF LockAio, Unlocked
<1>5. Positions' /\ BytesInStep'
  <2>1. Ring(aio') /\ Contents(aio') = Contents(aio) /\ Size(aio') = Size(aio)
    BY <1>2, SameRing, Bytes
  <2>2. Begun = <<>> /\ Begun' = <<>>
    BY <1>2, <1>3, <1>4 DEF Begun, LockAio
  <2>3. Contents(aio)' = Contents(aio)
    BY <2>1
  <2> QED  BY <2>1, <2>2, <2>3 DEF IInv, BytesInStep, Positions, Ring, LockAio
<1>6. LockInStep'
  BY <1>2, <1>3, <1>4, Bounds DEF IInv, LockInStep, LockAio
<1>7. IoInStep' /\ MainInStep' /\ DueInStep'
  <2>1. Idle("main") => Idle("main")'
    BY <1>3, <1>4, Bounds DEF Idle
  <2> QED  BY <2>1, <1>2 DEF IInv, IoInStep, MainInStep, DueInStep, LockAio
<1>8. WorkerInStep' /\ TeeAlone'
  BY <1>2, <1>3, <1>4, Bounds DEF IInv, WorkerInStep, TeeAlone, LockAio, Idle
<1>9. JobsInOrder'
  BY DEF IInv, JobsInOrder, LockAio
<1> QED  BY <1>1, <1>5, <1>6, <1>7, <1>8, <1>9 DEF IInv

(* It writes the text of its message.                                       *)
LEMMA WriteTextStep ==
  ASSUME IInv, NEW t \in Thread, WriteText(t)
  PROVE  IInv'
<1> DEFINE m == log[t].msg
<1>1. /\ aio.lock = t /\ m \in Message /\ main.use # "tee"
      /\ log[t].pc = "text" /\ aio.lock # "free"
      /\ Text(m) \in Seq(Byte)
  BY Writing, LineBytes, Bounds DEF WriteText
<1>2. /\ aio' \in Aio(Thread \cup {"free"}) /\ Ring(aio')
      /\ Contents(aio') = Contents(aio) \o Text(m)
      /\ aio'.lock = aio.lock /\ aio'.signals = aio.signals /\ aio'.error = aio.error
      /\ aio'.finish = aio.finish /\ aio'.refs = aio.refs
  BY <1>1, Bytes, WritesAppend DEF WriteText
<1>3. /\ log'[t].pc = "last" /\ log'[t].msg = m
      /\ \A u \in Thread : u # t => log'[u] = log[u]
  BY DEF IInv, TypeOK, LogType, WriteText, Goto
<1>4. TypeOK'
  <2>1. /\ MainType' /\ FutureType' /\ IoType' /\ DiskType'
        /\ PoolType' /\ WorkerType' /\ HistoryType'
    BY DEF IInv, TypeOK, MainType, FutureType, IoType, DiskType, PoolType, WorkerType,
       HistoryType, WriteText
  <2>2. LogType'
    BY DEF IInv, TypeOK, LogType, WriteText, Goto
  <2>3. AioType'
    BY <1>2 DEF AioType, Aio
  <2> QED  BY <2>1, <2>2, <2>3 DEF TypeOK
<1>5. Positions'
  BY <1>2 DEF Positions, Ring
<1>6. BytesInStep'
  <2> SUFFICES ASSUME ~disk.failed
               PROVE  /\ disk.bytes \o io.local \o Contents(aio') = logged \o Begun'
                      /\ Len(disk.bytes) + Len(io.local) <= Len(logged)
    BY DEF BytesInStep, WriteText
  <2> DEFINE front == disk.bytes \o io.local
  <2>1. Begun = <<>> /\ Begun' = Text(m)
    BY <1>1, <1>2, <1>3 DEF Begun, WriteText
  <2>2. front \o Contents(aio) = logged
    BY <2>1, Bytes, ConcatEmptySeq DEF IInv, BytesInStep
  <2>3. front \in Seq(Byte)
    BY Bytes, ConcatProperties
  <2> HIDE DEF front
  <2>4. (front \o Contents(aio)) \o Text(m) = front \o (Contents(aio) \o Text(m))
    <3> DEFINE c == Contents(aio)
               x == Text(m)
    <3>1. c \in Seq(Byte) /\ x \in Seq(Byte)
      BY <1>1, Bytes
    <3> HIDE DEF c, x
    <3>2. (front \o c) \o x = front \o (c \o x)
      BY <2>3, <3>1, ConcatAssociative
    <3> QED  BY <3>2 DEF c, x
  <2>5. front \o Contents(aio') = logged \o Begun'
    BY <1>2, <2>1, <2>2, <2>4, Zenon
  <2> QED  BY <2>5 DEF front, IInv, BytesInStep
<1>7. LockInStep'
  BY <1>1, <1>2, <1>3 DEF IInv, LockInStep, WriteText
<1>8. IoInStep' /\ MainInStep' /\ DueInStep'
  <2>1. Idle("main") => Idle("main")'
    BY <1>1, <1>3, Bounds DEF Idle
  <2> QED  BY <2>1, <1>2 DEF IInv, IoInStep, MainInStep, DueInStep, WriteText
<1>9. WorkerInStep' /\ TeeAlone'
  BY <1>1, <1>2, <1>3, Bounds DEF IInv, WorkerInStep, TeeAlone, WriteText, Idle
<1>10. JobsInOrder'
  BY DEF IInv, JobsInOrder, WriteText
<1> QED  BY <1>4, <1>5, <1>6, <1>7, <1>8, <1>9, <1>10 DEF IInv

(* It ends its line and releases the lock.                                  *)
LEMMA WriteLastStep ==
  ASSUME IInv, NEW t \in Thread, WriteLast(t)
  PROVE  IInv'
<1> DEFINE m == log[t].msg
           begun == IF main.use = "tee" THEN <<>> ELSE Text(m)
           line == Line(m, main.use)
<1>1. /\ aio.lock = t /\ m \in Message /\ log[t].pc = "last" /\ aio.lock # "free"
      /\ \A u \in Thread : log[u].pc \in {"text", "last"} => u = t
  BY Writing, Bounds DEF WriteLast
<1>2. /\ Last(m) \in Seq(Byte) /\ begun \in Seq(Byte) /\ line \in Seq(Byte)
      /\ begun \o Last(m) = line
  BY <1>1, LineBytes, ConcatEmptySeq, EmptySeq DEF Last, Line
<1>3. Begun = begun
  BY <1>1 DEF Begun
<1> HIDE DEF begun, line
<1>4. PICK a : /\ a \in WriteUnlocked(aio, Last(m))
               /\ aio' = [a EXCEPT !.lock = "free"]
  BY DEF WriteLast
<1>5. /\ a \in Aio(Thread \cup {"free"}) /\ Ring(a)
      /\ Contents(a) = Contents(aio) \o Last(m)
      /\ a.signals = aio.signals /\ a.error = aio.error
      /\ a.finish = aio.finish /\ a.refs = aio.refs
  BY <1>2, <1>4, Bytes, WritesAppend
<1>6. /\ aio' \in Aio(Thread \cup {"free"})
      /\ aio'.buffer = a.buffer /\ aio'.read = a.read /\ aio'.write = a.write
      /\ aio'.lock = "free" /\ aio'.error = aio.error
      /\ aio'.finish = aio.finish /\ aio'.refs = aio.refs
  BY <1>4, <1>5 DEF Aio
<1>7. Ring(aio') /\ Contents(aio') = Contents(aio) \o Last(m)
  BY <1>5, <1>6, SameRing
<1>8. /\ log'[t].pc = "signal" /\ log'[t].msg = m
      /\ \A u \in Thread : u # t => log'[u] = log[u]
  BY DEF IInv, TypeOK, LogType, WriteLast, Goto
<1>9. /\ logged' = logged \o line /\ logged' \in Seq(Byte)
      /\ Len(logged) <= Len(logged')
  <2>1. logged' = logged \o line
    BY DEF WriteLast, line
  <2>2. logged \o line \in Seq(Byte) /\ Len(logged \o line) = Len(logged) + Len(line)
    BY <1>2, Bytes, ConcatProperties
  <2> QED  BY <1>2, <2>1, <2>2, Bytes, LenProperties
<1>10. TypeOK'
  <2>1. /\ MainType' /\ FutureType' /\ IoType' /\ DiskType' /\ PoolType' /\ WorkerType'
    BY DEF IInv, TypeOK, MainType, FutureType, IoType, DiskType, PoolType, WorkerType,
       WriteLast
  <2>2. LogType'
    BY DEF IInv, TypeOK, LogType, WriteLast, Goto
  <2>3. AioType'
    BY <1>6 DEF AioType, Aio
  <2>4. HistoryType'
    BY <1>9 DEF IInv, TypeOK, HistoryType, WriteLast
  <2> QED  BY <2>1, <2>2, <2>3, <2>4 DEF TypeOK
<1>11. Positions'
  BY <1>7 DEF Positions, Ring
<1>12. BytesInStep'
  <2> SUFFICES ASSUME ~disk.failed
               PROVE  /\ disk.bytes \o io.local \o Contents(aio') = logged' \o Begun'
                      /\ Len(disk.bytes) + Len(io.local) <= Len(logged')
    BY DEF BytesInStep, WriteLast
  <2> DEFINE front == disk.bytes \o io.local
  <2>1. front \o Contents(aio) = logged \o begun
    BY <1>3 DEF IInv, BytesInStep
  <2>2. Begun' = <<>>
    BY <1>6 DEF Begun
  <2>3. front \in Seq(Byte)
    BY Bytes, ConcatProperties
  <2> HIDE DEF front
  <2>4. front \o (Contents(aio) \o Last(m)) = logged \o (begun \o Last(m))
    <3> DEFINE c == Contents(aio)
               x == Last(m)
    <3>1. c \in Seq(Byte) /\ x \in Seq(Byte)
      BY <1>2, Bytes
    <3>2. logged \in Seq(Byte) /\ begun \in Seq(Byte)
      BY <1>2, Bytes
    <3> HIDE DEF c, x
    <3>3. (front \o c) \o x = front \o (c \o x)
      BY <2>3, <3>1, ConcatAssociative
    <3>4. (logged \o begun) \o x = logged \o (begun \o x)
      BY <3>1, <3>2, ConcatAssociative, SMTT(60)
    <3> QED  BY <2>1, <3>3, <3>4, Zenon DEF c, x
  <2>5. front \o Contents(aio') = logged'
    BY <1>2, <1>7, <1>9, <2>4, Zenon
  <2>6. logged' \o <<>> = logged'
    BY <1>9, ConcatEmptySeq
  <2>7. Len(disk.bytes) + Len(io.local) <= Len(logged)
    BY DEF IInv, BytesInStep
  <2>8. /\ Len(disk.bytes) \in Nat /\ Len(io.local) \in Nat
        /\ Len(logged) \in Nat /\ Len(logged') \in Nat
    BY <1>9, Bytes, LenProperties
  <2>9. Len(disk.bytes) + Len(io.local) <= Len(logged')
    <3> DEFINE d == Len(disk.bytes)
               l == Len(io.local)
               n == Len(logged)
               k == Len(logged')
    <3>1. d \in Nat /\ l \in Nat /\ n \in Nat /\ k \in Nat /\ d + l <= n /\ n <= k
      BY <1>9, <2>7, <2>8
    <3> HIDE DEF d, l, n, k
    <3>2. d + l <= k
      BY <3>1
    <3> QED  BY <3>2 DEF d, l, k
  <2> QED  BY <2>2, <2>5, <2>6, <2>9 DEF front
<1>13. LockInStep'
  BY <1>1, <1>6, <1>8, Bounds DEF IInv, LockInStep, WriteLast
<1>14. IoInStep' /\ MainInStep'
  <2>1. Idle("main") => Idle("main")'
    BY <1>1, <1>8, Bounds DEF Idle
  <2> QED  BY <2>1, <1>6 DEF IInv, IoInStep, MainInStep, WriteLast
<1>15. DueInStep'
  <2>1. Len(due) <= Len(logged) /\ due = SubSeq(logged, 1, Len(due))
    BY DEF IInv, DueInStep
  <2>2. Len(due) \in 0 .. Len(logged)
    BY <2>1, Bytes, LenProperties
  <2>3. SubSeq(logged', 1, Len(due)) = SubSeq(logged, 1, Len(due))
    BY <1>2, <1>9, <2>2, Bytes, PrefixKept
  <2>4. Len(due) <= Len(logged')
    BY <1>9, <2>2, Bytes, LenProperties
  <2> QED  BY <1>6, <2>1, <2>3, <2>4 DEF IInv, DueInStep, WriteLast
<1>16. WorkerInStep'
  BY <1>1, <1>8, Bounds DEF IInv, WorkerInStep, WriteLast, Idle
<1>17. TeeAlone'
  <2> SUFFICES ASSUME main.use = "tee"
               PROVE  /\ main.jobs = 0 /\ pool.queue = <<>> /\ \A w \in Worker : Idle(w)'
                      /\ io.pc = "exit" /\ ~disk.failed => disk.bytes = logged'
    BY DEF TeeAlone, WriteLast
  <2>1. main.jobs = 0 /\ pool.queue = <<>> /\ \A w \in Worker : Idle(w)
    BY DEF IInv, TeeAlone
  <2>2. t = "main" /\ \A w \in Worker : log'[w] = log[w]
    BY <1>1, <1>8, <2>1, Bounds DEF Idle, Thread
  <2>3. main.pc \in {"running", "set", "finish"}
    BY <1>1, <2>2 DEF IInv, MainInStep, Idle
  <2>4. io.pc # "exit"
    BY <2>3 DEF IInv, MainInStep
  <2> QED  BY <2>1, <2>2, <2>4 DEF Idle
<1>18. JobsInOrder'
  BY DEF IInv, JobsInOrder, WriteLast
<1> QED  BY <1>10, <1>11, <1>12, <1>13, <1>14, <1>15, <1>16, <1>17, <1>18 DEF IInv

(* aio_thread looks for bytes, or sleeps, or ends.                          *)
LEMMA TurnStep ==
  ASSUME IInv, Turn
  PROVE  IInv'
<1> DEFINE a == [aio EXCEPT !.error = io.error]
           c == Contents(aio)
           rest == Contents(aio')
           local == io'.local
           L == Thread \cup {"free"}
<1>1. /\ a \in Aio(L) /\ Ring(a) /\ Contents(a) = c
      /\ BufferLen(a) = BufferLen(aio) /\ a.lock = "free" /\ a.error = io.error
      /\ a.finish = aio.finish /\ a.refs = aio.refs
      /\ io.pc = "turn" /\ aio.lock = "free" /\ io.local = <<>>
  <2>1. io.error \in BOOLEAN /\ io.local = <<>> /\ io.pc = "turn" /\ aio.lock = "free"
    BY DEF IInv, TypeOK, IoType, IoInStep, Turn, Unlocked
  <2>2. /\ a \in Aio(L) /\ a.buffer = aio.buffer /\ a.read = aio.read
        /\ a.write = aio.write /\ a.lock = aio.lock /\ a.error = io.error
        /\ a.finish = aio.finish /\ a.refs = aio.refs
    BY <2>1, Bytes DEF Aio
  <2> QED  BY <2>1, <2>2, SameRing, Bytes, ZenonT(60)
<1>2. UNCHANGED <<main, log, future, pool, worker, logged, due>>
  BY DEF Turn
<1>3. main.pc # "free" /\ ~(main.pc = "done" /\ main.use = "tee") /\ aio.refs = 2
  BY <1>1 DEF IInv, MainInStep, IoInStep
<1>4. /\ aio' \in Aio(L) /\ Ring(aio') /\ local \in Seq(Byte) /\ c = local \o rest
      /\ aio'.lock = "free" /\ aio'.error = io.error /\ aio'.finish = aio.finish
      /\ aio'.refs = (IF io'.pc = "exit" THEN 1 ELSE 2)
      /\ io' \in [pc : {"sleep", "write", "exit"}, local : Seq(Byte), error : BOOLEAN]
      /\ io'.error = io.error /\ (io'.pc # "write" => local = <<>>)
      /\ io'.pc = "exit" => c = <<>> /\ aio.finish # "running"
      /\ DiskType' /\ disk'.bytes = disk.bytes /\ disk'.failed = disk.failed
  <2>0. /\ io \in [pc : {"turn", "sleep", "write", "exit"}, local : Seq(Byte),
                   error : BOOLEAN]
        /\ DiskType /\ c \in Seq(Byte) /\ Len(c) = BufferLen(aio)
    BY Bytes DEF IInv, TypeOK, IoType
  <2>1. CASE HasBytes(a)
    <3>1. /\ aio' = Take(a) /\ io' = [io EXCEPT !.pc = "write", !.local = Taken(a)]
          /\ disk' = disk
      BY <2>1 DEF Turn
    <3>2. /\ Take(a) \in Aio(L) /\ Ring(Take(a)) /\ Taken(a) \in Seq(Byte)
          /\ Contents(a) = Taken(a) \o Contents(Take(a))
          /\ Take(a).lock = a.lock /\ Take(a).error = a.error
          /\ Take(a).finish = a.finish /\ Take(a).refs = a.refs
      BY <1>1, TakesFront
    <3>3. /\ io' \in [pc : {"sleep", "write", "exit"}, local : Seq(Byte), error : BOOLEAN]
          /\ local = Taken(a) /\ io'.pc = "write" /\ io'.error = io.error
      BY <2>0, <3>1, <3>2
    <3>4. DiskType' /\ disk'.bytes = disk.bytes /\ disk'.failed = disk.failed
      BY <2>0, <3>1 DEF DiskType
    <3>5. c = local \o rest
      BY <1>1, <3>1, <3>2, <3>3, Zenon
    <3> QED  BY <1>1, <1>3, <3>1, <3>2, <3>3, <3>4, <3>5
  <2>2. CASE ~HasBytes(a) /\ a.finish = "running"
    <3>1. /\ aio' = a /\ io' = [io EXCEPT !.pc = "sleep"] /\ disk' = disk
      BY <2>2 DEF Turn
    <3>2. /\ io' \in [pc : {"sleep", "write", "exit"}, local : Seq(Byte), error : BOOLEAN]
          /\ local = <<>> /\ io'.pc = "sleep" /\ io'.error = io.error
      BY <1>1, <2>0, <3>1
    <3>3. DiskType' /\ disk'.bytes = disk.bytes /\ disk'.failed = disk.failed
      BY <2>0, <3>1 DEF DiskType
    <3>4. c = local \o rest
      BY <1>1, <2>0, <3>1, <3>2, ConcatEmptySeq
    <3> QED  BY <1>1, <1>3, <3>1, <3>2, <3>3, <3>4
  <2>3. CASE ~HasBytes(a) /\ a.finish # "running"
    <3>1. /\ aio' = Unref(a) /\ io' = [io EXCEPT !.pc = "exit"]
          /\ disk' = [disk EXCEPT !.open = a.finish # "close"]
      BY <2>3 DEF Turn
    <3>2. /\ io' \in [pc : {"sleep", "write", "exit"}, local : Seq(Byte), error : BOOLEAN]
          /\ local = <<>> /\ io'.pc = "exit" /\ io'.error = io.error
      BY <1>1, <2>0, <3>1
    <3>3. DiskType' /\ disk'.bytes = disk.bytes /\ disk'.failed = disk.failed
      BY <2>0, <3>1 DEF DiskType
    <3>4. /\ aio' \in Aio(L) /\ aio'.buffer = a.buffer /\ aio'.read = a.read
          /\ aio'.write = a.write /\ aio'.lock = "free" /\ aio'.error = io.error
          /\ aio'.finish = aio.finish /\ aio'.refs = 1
      <4>1. a \in Aio(L) /\ a.refs = 2 /\ a.lock = "free" /\ a.error = io.error
        BY <1>1, <1>3
      <4>2. aio' = [a EXCEPT !.refs = @ - 1] /\ a.finish = aio.finish
        BY <1>1, <3>1 DEF Unref
      <4> HIDE DEF a
      <4>3. aio' = [a EXCEPT !.refs = 1]
        BY <4>1, <4>2
      <4> QED  BY <4>1, <4>2, <4>3 DEF Aio
    <3>5. Ring(aio') /\ rest = c
      BY <1>1, <3>4, SameRing
    <3>6. c = local \o rest
      BY <2>0, <3>2, <3>5, ConcatEmptySeq
    <3>7. c = <<>>
      BY <1>1, <2>0, <2>3, Bytes DEF HasBytes
    <3> QED  BY <1>1, <2>3, <3>2, <3>3, <3>4, <3>5, <3>6, <3>7
  <2> QED  BY <2>1, <2>2, <2>3
<1>5. TypeOK'
  <2>1. /\ MainType' /\ LogType' /\ FutureType' /\ PoolType' /\ WorkerType' /\ HistoryType'
    BY <1>2 DEF IInv, TypeOK, MainType, LogType, FutureType, PoolType, WorkerType,
       HistoryType
  <2>2. AioType' /\ IoType' /\ DiskType'
    BY <1>4 DEF AioType, Aio, IoType
  <2> QED  BY <2>1, <2>2 DEF TypeOK
<1>6. Positions'
  BY <1>4 DEF Positions, Ring
<1>7. ~disk.failed => disk.bytes \o c = logged
  <2> SUFFICES ASSUME ~disk.failed PROVE disk.bytes \o c = logged
    OBVIOUS
  <2>1. disk.bytes \o io.local \o c = logged \o Begun
    BY DEF IInv, BytesInStep
  <2>2. Begun = <<>> /\ io.local = <<>>
    BY <1>1 DEF Begun
  <2>3. disk.bytes \o <<>> = disk.bytes /\ logged \o <<>> = logged
    BY Bytes, ConcatEmptySeq
  <2> QED  BY <2>1, <2>2, <2>3, Zenon
<1>8. BytesInStep'
  <2> SUFFICES ASSUME ~disk.failed
               PROVE  /\ disk.bytes \o local \o rest = logged \o Begun'
                      /\ Len(disk.bytes) + Len(local) <= Len(logged)
    BY <1>2, <1>4 DEF BytesInStep
  <2>1. /\ disk.bytes \in Seq(Byte) /\ logged \in Seq(Byte) /\ local \in Seq(Byte)
        /\ rest \in Seq(Byte) /\ c \in Seq(Byte)
    BY <1>4, Bytes, RingContents
  <2>2. Begun' = <<>>
    BY <1>4 DEF Begun
  <2>3. logged \o <<>> = logged
    BY <2>1, ConcatEmptySeq
  <2>4. c = local \o rest
    BY <1>4
  <2>5. disk.bytes \o c = logged
    BY <1>7
  <2> DEFINE front == disk.bytes
  <2> HIDE DEF c, rest, local, front
  <2>6. (front \o local) \o rest = front \o (local \o rest)
    <3>1. front \in Seq(Byte) /\ local \in Seq(Byte) /\ rest \in Seq(Byte)
      BY <2>1 DEF front
    <3> QED  BY <3>1, ConcatAssociative, SMTT(60)
  <2>7. (disk.bytes \o local) \o rest = logged \o Begun'
    BY <2>2, <2>3, <2>4, <2>5, <2>6, Zenon DEF front
  <2>8. Len(disk.bytes \o c) = Len(disk.bytes) + Len(c)
    BY <2>1, ConcatProperties
  <2>9. Len(local \o rest) = Len(local) + Len(rest)
    BY <2>1, ConcatProperties
  <2>10. Len(disk.bytes) \in Nat /\ Len(local) \in Nat /\ Len(rest) \in Nat
    BY <2>1, LenProperties
  <2>11. Len(logged) = Len(disk.bytes) + (Len(local) + Len(rest))
    BY <2>4, <2>5, <2>8, <2>9, Zenon
  <2>12. Len(disk.bytes) + Len(local) <= Len(logged)
    <3> DEFINE d == Len(disk.bytes)
               l == Len(local)
               r == Len(rest)
               n == Len(logged)
    <3>1. d \in Nat /\ l \in Nat /\ r \in Nat /\ n = d + (l + r)
      BY <2>10, <2>11
    <3> HIDE DEF d, l, r, n
    <3>2. d + l <= n
      BY <3>1
    <3> QED  BY <3>2 DEF d, l, n
  <2> QED  BY <2>7, <2>12
<1>9. ~disk.failed /\ io'.pc = "exit" => disk.bytes = logged
  BY <1>4, <1>7, Bytes, ConcatEmptySeq
<1> HIDE DEF a, c, rest, local
<1>10. LockInStep'
  BY <1>1, <1>2, <1>4 DEF IInv, LockInStep
<1>11. IoInStep' /\ MainInStep'
  BY <1>1, <1>2, <1>3, <1>4 DEF IInv, IoInStep, MainInStep, Idle, local
<1>12. DueInStep'
  BY <1>2, <1>4, <1>9 DEF IInv, DueInStep
<1>13. WorkerInStep' /\ TeeAlone'
  BY <1>2, <1>4, <1>9 DEF IInv, WorkerInStep, TeeAlone, Idle
<1>14. JobsInOrder'
  BY <1>2 DEF IInv, JobsInOrder
<1> QED  BY <1>5, <1>6, <1>8, <1>10, <1>11, <1>12, <1>13, <1>14 DEF IInv

(* A signal wakes it.                                                       *)
LEMMA SleepStep ==
  ASSUME IInv, Sleep
  PROVE  IInv'
<1>1. TypeOK'
  <2>1. /\ MainType' /\ LogType' /\ FutureType' /\ DiskType'
        /\ PoolType' /\ WorkerType' /\ HistoryType'
    BY DEF IInv, TypeOK, MainType, LogType, FutureType, DiskType, PoolType,
       WorkerType, HistoryType, Sleep
  <2>2. AioType' /\ IoType'
    BY SMTT(60) DEF IInv, TypeOK, AioType, IoType, Sleep
  <2> QED  BY <2>1, <2>2 DEF TypeOK
<1>2. /\ aio'.buffer = aio.buffer /\ aio'.read = aio.read /\ aio'.write = aio.write
      /\ aio'.lock = aio.lock /\ aio'.error = aio.error /\ aio'.finish = aio.finish
      /\ aio'.refs = aio.refs
      /\ io'.pc = "turn" /\ io'.local = io.local /\ io'.error = io.error
      /\ UNCHANGED <<main, log, future, disk, pool, worker, logged, due>>
  BY DEF IInv, TypeOK, AioType, IoType, Sleep
<1>3. Positions' /\ BytesInStep'
  BY <1>2, BytesKept
<1>4. LockInStep'
  BY <1>2 DEF IInv, LockInStep
<1>5. IoInStep' /\ MainInStep' /\ DueInStep'
  BY <1>2 DEF IInv, IoInStep, MainInStep, DueInStep, Idle, Sleep
<1>6. WorkerInStep' /\ TeeAlone' /\ JobsInOrder'
  BY <1>2 DEF IInv, WorkerInStep, TeeAlone, JobsInOrder, Idle
<1> QED  BY <1>1, <1>3, <1>4, <1>5, <1>6 DEF IInv

(* It writes its local buffer, or a part of it.                             *)
LEMMA WriteStep ==
  ASSUME IInv, Write
  PROVE  IInv'
<1>1. PICK n \in 0 .. Len(io.local) :
        /\ disk' = [disk EXCEPT !.bytes = @ \o SubSeq(io.local, 1, n),
                                !.failed = disk.failed \/ n < Len(io.local)]
        /\ io' = [pc |-> "turn", local |-> <<>>,
                  error |-> disk.failed \/ n < Len(io.local)]
  BY DEF Write
<1>2. UNCHANGED <<main, log, future, aio, pool, worker, logged, due>> /\ io.pc = "write"
  BY DEF Write
<1> DEFINE part == SubSeq(io.local, 1, n)
<1>3. /\ part \in Seq(Byte) /\ n \in Nat /\ Len(io.local) \in Nat
      /\ (n = Len(io.local) => part = io.local)
  <2>1. io.local \in Seq(Byte)
    BY Bytes
  <2> DEFINE s == io.local
  <2> HIDE DEF s
  <2>2. ASSUME s \in Seq(Byte), NEW k \in 0 .. Len(s)
        PROVE  /\ SubSeq(s, 1, k) \in Seq(Byte)
               /\ (k = Len(s) => SubSeq(s, 1, k) = s)
    BY <2>2
  <2> QED  BY <2>1, <2>2, LenProperties DEF s
<1> HIDE DEF part
<1>4. /\ disk' = [disk EXCEPT !.bytes = @ \o part,
                              !.failed = disk.failed \/ n < Len(io.local)]
      /\ disk.bytes \o part \in Seq(Byte)
  BY <1>1, <1>3, Bytes, ConcatProperties DEF part
<1>5. /\ disk'.bytes = disk.bytes \o part /\ DiskType'
      /\ disk'.failed = (disk.failed \/ n < Len(io.local))
      /\ io'.pc = "turn" /\ io'.local = <<>> /\ io'.error = disk'.failed /\ IoType'
  BY <1>1, <1>4, EmptySeq DEF IInv, TypeOK, DiskType, IoType
<1>6. TypeOK'
  BY <1>2, <1>5, SMTT(60) DEF IInv, TypeOK, MainType, LogType, FutureType, AioType, PoolType,
     WorkerType, HistoryType
<1>7. Positions' /\ LockInStep'
  BY <1>2 DEF IInv, Positions, Size, LockInStep
<1>8. BytesInStep'
  <2> SUFFICES ASSUME ~disk'.failed
               PROVE  /\ disk'.bytes \o <<>> \o Contents(aio) = logged \o Begun
                      /\ Len(disk'.bytes) + Len(<<>>) <= Len(logged)
    <3>1. Contents(aio)' = Contents(aio) /\ Begun' = Begun
      BY <1>2 DEF Begun
    <3> QED  BY <1>2, <1>5, <3>1 DEF BytesInStep
  <2>1. ~disk.failed /\ part = io.local
    <3>1. ~disk.failed /\ ~(n < Len(io.local))
      BY <1>5
    <3>2. n = Len(io.local)
      BY <1>3, <3>1
    <3> QED  BY <1>3, <3>1, <3>2
  <2>2. disk'.bytes = disk.bytes \o io.local /\ disk'.bytes \in Seq(Byte)
    BY <1>4, <1>5, <2>1
  <2>3. disk'.bytes \o <<>> = disk.bytes \o io.local
    BY <2>2, ConcatEmptySeq
  <2>4. Len(disk'.bytes) = Len(disk.bytes) + Len(io.local)
    BY <2>2, Bytes, ConcatProperties
  <2>5. disk'.bytes \o <<>> \o Contents(aio) = logged \o Begun
    BY <2>1, <2>3 DEF IInv, BytesInStep
  <2>6. Len(disk.bytes) + Len(io.local) <= Len(logged)
    BY <2>1 DEF IInv, BytesInStep
  <2>7. Len(disk'.bytes) + Len(<<>>) <= Len(logged)
    <3>1. Len(disk'.bytes) \in Nat /\ Len(<<>>) = 0
      BY <2>2, LenProperties
    <3>2. Len(disk'.bytes) <= Len(logged)
      BY <2>4, <2>6
    <3> QED  BY <3>1, <3>2
  <2> QED  BY <2>5, <2>7
<1>9. IoInStep' /\ MainInStep' /\ DueInStep'
  BY <1>2, <1>5 DEF IInv, IoInStep, MainInStep, DueInStep, Idle
<1>10. WorkerInStep' /\ TeeAlone' /\ JobsInOrder'
  BY <1>2, <1>5 DEF IInv, WorkerInStep, TeeAlone, JobsInOrder, Idle
<1> QED  BY <1>6, <1>7, <1>8, <1>9, <1>10 DEF IInv

-----------------------------------------------------------------------------
(* The program starts with an empty ring.                                   *)
LEMMA InitStep == Init => IInv
<1> SUFFICES ASSUME Init PROVE IInv
  OBVIOUS
<1>1. /\ InitialSize \in Nat \ {0} /\ MaxJobs \in Nat /\ MaxLines \in Nat
      /\ Uses \subseteq {"file", "stdout", "tee"}
  BY SizeAssumption, LoggingAssumption
<1>2. PICK use \in Uses :
        main = [pc |-> "running", use |-> use, jobs |-> 0, lines |-> 0, error |-> FALSE]
  BY DEF Init
<1>3. /\ main.pc = "running" /\ main.jobs = 0 /\ MainType
  BY <1>1, <1>2 DEF MainType
<1>4. /\ \A t \in Thread : log[t].pc = "idle" /\ log[t].msg = 0
      /\ LogType
  BY DEF Init, LogType
<1>5. FutureType /\ IoType /\ DiskType /\ WorkerType /\ HistoryType
  BY EmptySeq DEF Init, FutureType, IoType, DiskType, WorkerType, HistoryType
<1>6. PoolType /\ pool.queue = <<>> /\ pool.started = <<>>
  BY EmptySeq DEF Init, NewPool, PoolType
<1>7. /\ aio.buffer \in Seq(Byte) /\ Size(aio) = InitialSize
      /\ aio.read = 0 /\ aio.write = 0
  <2>1. Blanks(InitialSize) \in [1 .. InitialSize -> Byte]
    BY <1>1 DEF Blanks, Blank, Byte
  <2>2. Blanks(InitialSize) \in Seq(Byte) /\ Len(Blanks(InitialSize)) = InitialSize
    BY <1>1, <2>1
  <2> QED  BY <2>2 DEF Init, NewAio, Size
<1>8. AioType
  BY <1>7 DEF Init, NewAio, AioType
<1>9. TypeOK
  BY <1>3, <1>4, <1>5, <1>6, <1>8 DEF TypeOK
<1>10. Positions
  BY <1>1, <1>7 DEF Positions
<1>11. LockInStep /\ WorkerInStep
  BY <1>4, Bounds DEF Init, NewAio, LockInStep, WorkerInStep, Idle
<1>12. BytesInStep
  <2>1. Ring(aio) /\ aio \in Aio(Thread \cup {"free"})
    BY <1>7, <1>8, <1>10 DEF Ring, Positions, AioType, Aio
  <2>2. BufferLen(aio) = 0
    BY <1>7 DEF BufferLen
  <2>3. Contents(aio) = <<>>
    BY <2>1, <2>2, RingContents, EmptySeq
  <2>4. Begun = <<>>
    BY DEF Init, NewAio, Begun
  <2>5. disk.bytes = <<>> /\ io.local = <<>> /\ logged = <<>>
    BY DEF Init
  <2>6. <<>> \o <<>> = <<>> /\ Len(<<>>) = 0
    BY EmptySeq
  <2> QED  BY <2>3, <2>4, <2>5, <2>6 DEF BytesInStep
<1>13. IoInStep
  BY <1>3 DEF Init, NewAio, IoInStep
<1>14. MainInStep /\ DueInStep
  <2>1. due = <<>> /\ logged = <<>> /\ Len(<<>>) = 0 /\ SubSeq(<<>>, 1, 0) = <<>>
    BY DEF Init
  <2> QED  BY <1>3, <1>4, <2>1, Bounds DEF Init, NewAio, MainInStep, DueInStep, Idle
<1>15. TeeAlone
  BY <1>3, <1>4, <1>6, Bounds DEF Init, TeeAlone, Idle
<1>16. JobsInOrder
  BY <1>3, <1>6 DEF JobsInOrder
<1> QED
  BY <1>9, <1>10, <1>11, <1>12, <1>13, <1>14, <1>15, <1>16 DEF IInv

LEMMA StutterStep ==
  ASSUME IInv, UNCHANGED vars
  PROVE  IInv'
<1>1. Contents(aio)' = Contents(aio) /\ Begun' = Begun
  BY DEF vars, Begun
<1>2. TypeOK'
  BY DEF vars, IInv, TypeOK, MainType, LogType, FutureType, AioType, IoType, DiskType,
     PoolType, WorkerType, HistoryType
<1>3. Positions' /\ LockInStep'
  BY DEF vars, IInv, Positions, Size, LockInStep
<1>4. BytesInStep'
  BY <1>1 DEF vars, IInv, BytesInStep
<1>5. IoInStep' /\ MainInStep' /\ DueInStep'
  BY DEF vars, IInv, IoInStep, MainInStep, DueInStep, Idle
<1>6. WorkerInStep' /\ TeeAlone' /\ JobsInOrder'
  BY DEF vars, IInv, WorkerInStep, TeeAlone, JobsInOrder, Idle
<1> QED  BY <1>2, <1>3, <1>4, <1>5, <1>6 DEF IInv

(* The steps of the main thread.                                            *)
LEMMA MainStep ==
  ASSUME IInv, MainNext
  PROVE  IInv'
<1>1. CASE LogLine      BY <1>1, LogLineStep
<1>2. CASE AddJob       BY <1>2, AddJobStep
<1>3. CASE SignalJob    BY <1>3, SignalJobStep
<1>4. CASE Set          BY <1>4, SetStep
<1>5. CASE LogPending   BY <1>5, LogPendingStep
<1>6. CASE EndSet       BY <1>6, EndSetStep
<1>7. CASE CheckError   BY <1>7, CheckErrorStep
<1>8. CASE Destroy      BY <1>8, DestroyStep
<1>9. CASE WakeWorkers  BY <1>9, WakeWorkersStep
<1>10. CASE Join        BY <1>10, JoinStep
<1>11. CASE Assert      BY <1>11, AssertStep
<1>12. CASE Finish      BY <1>12, FinishStep
<1>13. CASE FinishNothing BY <1>13, FinishNothingStep
<1>14. CASE SignalClose BY <1>14, SignalCloseStep
<1>15. CASE SignalWait  BY <1>15, SignalWaitStep
<1>16. CASE JoinIo      BY <1>16, JoinIoStep
<1>17. CASE Free        BY <1>17, FreeStep
<1> QED
  BY <1>1, <1>2, <1>3, <1>4, <1>5, <1>6, <1>7, <1>8, <1>9, <1>10, <1>11, <1>12,
     <1>13, <1>14, <1>15, <1>16, <1>17 DEF MainNext

LEMMA StepKeeps == IInv /\ [Next]_vars => IInv'
<1> SUFFICES ASSUME IInv, [Next]_vars PROVE IInv'
  OBVIOUS
<1>1. CASE MainNext
  BY <1>1, MainStep
<1>2. ASSUME NEW t \in Thread, LogNext(t) PROVE IInv'
  <2>1. CASE LoadLogger(t)  BY <2>1, LoadLoggerStep
  <2>2. CASE LookAgain(t)   BY <2>2, LookAgainStep
  <2>3. CASE LockAio(t)     BY <2>3, LockAioStep
  <2>4. CASE WriteText(t)   BY <2>4, WriteTextStep
  <2>5. CASE WriteLast(t)   BY <2>5, WriteLastStep
  <2>6. CASE SignalAio(t)   BY <2>6, SignalAioStep
  <2> QED  BY <1>2, <2>1, <2>2, <2>3, <2>4, <2>5, <2>6 DEF LogNext
<1>3. CASE IoNext
  BY <1>3, TurnStep, SleepStep, WriteStep DEF IoNext
<1>4. ASSUME NEW w \in Worker, WorkerNext(w) PROVE IInv'
  <2>1. CASE CheckShutdown(w)  BY <2>1, CheckShutdownStep
  <2>2. CASE Wake(w)           BY <2>2, WakeStep
  <2>3. CASE FetchJob(w)       BY <2>3, FetchJobStep
  <2>4. CASE EndJob(w)         BY <2>4, EndJobStep
  <2> QED  BY <1>4, <2>1, <2>2, <2>3, <2>4 DEF WorkerNext
<1>5. CASE UNCHANGED vars
  BY <1>5, StutterStep
<1> QED  BY <1>1, <1>2, <1>3, <1>4, <1>5 DEF Next

(* Whoever writes, in whatever order the threads run: the file, the local   *)
(* buffer and the ring of aio_thread make up what was logged, the threads   *)
(* agree on who holds the lock, and the counts of aio_thread are right.     *)
THEOREM Inductive == Spec => []IInv
<1>1. Init => IInv
  BY InitStep
<1>2. IInv /\ [Next]_vars => IInv'
  BY StepKeeps
<1> QED  BY <1>1, <1>2, PTL DEF Spec

(* Every variable of the log, the ASYNCIO and the pool has its type; the    *)
(* structure is never released twice.                                       *)
THEOREM TypeCorrect == Spec => []TypeOK
<1>1. IInv => TypeOK
  BY DEF IInv
<1> QED  BY <1>1, Inductive, PTL

(* CLoggerAsync::GlobalFinish: what was logged before the log was told to   *)
(* finish is in the file when it has finished, if the disk did not fail.    *)
THEOREM FinishFlushes == Spec => []FinishedFlushed
<1>1. IInv => FinishedFlushed
  <2> SUFFICES ASSUME IInv, main.pc \in {"free", "done"}, ~disk.failed
               PROVE  /\ Len(due) <= Len(disk.bytes)
                      /\ due = SubSeq(disk.bytes, 1, Len(due))
    BY DEF FinishedFlushed
  <2>1. CASE io.pc = "exit"
    BY <2>1 DEF IInv, DueInStep
  <2>2. CASE due = <<>>
    <3>1. Len(due) = 0 /\ Len(disk.bytes) \in Nat
      BY <2>2, Bytes, LenProperties
    <3>2. SubSeq(disk.bytes, 1, 0) = <<>>
      <4>1. disk.bytes \in Seq(Byte)
        BY Bytes
      <4> QED  BY <4>1
    <3> QED  BY <2>2, <3>1, <3>2
  <2> QED  BY <2>1, <2>2 DEF IInv, MainInStep
<1> QED  BY <1>1, Inductive, PTL

(* CGameContext::TeehistorianClose reports every loss: a teehistorian file  *)
(* that was freed without an error has every byte on the disk.              *)
THEOREM LossIsReported == Spec => []NoSilentLoss
<1>1. IInv => NoSilentLoss
  BY DEF IInv, NoSilentLoss, IoInStep, MainInStep, TeeAlone
<1> QED  BY <1>1, Inductive, PTL

(* CJobPool: jobs leave the list in the order they were added, and no job   *)
(* is run twice, with any number of threads.                                *)
THEOREM JobsStartInOrder == Spec => []JobsInOrder
<1>1. IInv => JobsInOrder
  BY DEF IInv
<1> QED  BY <1>1, Inductive, PTL

-----------------------------------------------------------------------------
(* The refinement.  A line is logged when its last byte is in the ring.     *)
LEMMA LogsLine ==
  ASSUME IInv, NEW t \in Thread, WriteLast(t)
  PROVE  File!Log
<1>1. log[t].msg \in Message /\ logged' = logged \o Line(log[t].msg, main.use)
  BY Writing DEF WriteLast
<1>2. \E use \in {"file", "tee"} : Line(log[t].msg, main.use) = Line(log[t].msg, use)
  BY DEF Line, IInv, TypeOK, MainType
<1>3. \E line \in {Line(m, use) : m \in Message, use \in {"file", "tee"}} :
        logged' = logged \o line
  BY <1>1, <1>2
<1> QED  BY <1>3 DEF File!Log, WriteLast

(* A write moves more of the lines to the file, or fails.                   *)
LEMMA WritesFile ==
  ASSUME IInv, Write
  PROVE  File!Flush \/ File!Fail
<1>1. PICK n \in 0 .. Len(io.local) :
        disk' = [disk EXCEPT !.bytes = @ \o SubSeq(io.local, 1, n),
                             !.failed = disk.failed \/ n < Len(io.local)]
  BY DEF Write
<1>2. UNCHANGED logged
  BY DEF Write
<1>3. IInv' /\ DiskType /\ DiskType'
  BY WriteStep DEF IInv, TypeOK
<1>4. CASE disk'.failed
  <2>1. disk'.failed = TRUE /\ disk'.bytes \in Seq(Byte)
    BY <1>3, <1>4 DEF DiskType
  <2> QED  BY <1>2, <2>1 DEF File!Fail
<1>5. CASE ~disk'.failed
  <2> DEFINE d == disk'.bytes
             c == Contents(aio)'
  <2>1. ~disk.failed /\ disk'.failed = disk.failed
    BY <1>1, <1>3, <1>5 DEF DiskType
  <2>2. /\ io'.local = <<>> /\ d \in Seq(Byte) /\ c \in Seq(Byte)
        /\ logged \in Seq(Byte) /\ Begun' \in Seq(Byte)
    <3>1. io'.local = <<>>
      BY DEF Write
    <3>2. Contents(aio)' = Contents(aio)
      BY DEF Write
    <3>3. Begun' = Begun
      BY DEF Begun, Write
    <3>4. Begun \in Seq(Byte)
      <4>1. CASE aio.lock # "free" /\ log[aio.lock].pc = "last" /\ main.use # "tee"
        <5>1. aio.lock \in Thread
          BY <4>1 DEF IInv, TypeOK, AioType
        <5>2. log[aio.lock].msg \in Message
          BY <4>1, <5>1, Writing
        <5> QED  BY <4>1, <5>2, LineBytes DEF Begun
      <4>2. CASE ~(aio.lock # "free" /\ log[aio.lock].pc = "last" /\ main.use # "tee")
        BY <4>2, EmptySeq DEF Begun
      <4> QED  BY <4>1, <4>2
    <3> QED  BY <1>3, <3>1, <3>2, <3>3, <3>4, Bytes DEF DiskType
  <2>3. d \o c = logged \o Begun' /\ Len(d) <= Len(logged)
    <3>1. d \o io'.local \o c = logged \o Begun' /\ Len(d) + Len(io'.local) <= Len(logged)
      BY <1>2, <1>3, <1>5 DEF IInv, BytesInStep
    <3>2. Len(<<>>) = 0 /\ Len(d) \in Nat /\ d \o <<>> = d
      BY <2>2, LenProperties, ConcatEmptySeq
    <3> HIDE DEF d, c
    <3>3. d \o <<>> \o c = logged \o Begun' /\ Len(d) + Len(<<>>) <= Len(logged)
      BY <2>2, <3>1, Zenon
    <3>4. d \o c = logged \o Begun'
      BY <3>2, <3>3, Zenon
    <3>5. Len(d) <= Len(logged)
      BY <3>2, <3>3
    <3> QED  BY <3>4, <3>5
  <2>4. /\ Len(d) \in 0 .. Len(logged) /\ Len(d) \in 0 .. Len(d)
        /\ Len(disk.bytes) \in Nat /\ Len(d) >= Len(disk.bytes)
    <3>1. disk.bytes \in Seq(Byte) /\ io.local \in Seq(Byte)
      BY Bytes
    <3>2. d = disk.bytes \o SubSeq(io.local, 1, n)
      BY <1>1, <1>3 DEF DiskType
    <3>3. SubSeq(io.local, 1, n) \in Seq(Byte)
      <4>1. \A s \in Seq(Byte) : \A k \in 0 .. Len(s) : SubSeq(s, 1, k) \in Seq(Byte)
        OBVIOUS
      <4> QED  BY <3>1, <4>1
    <3>4. Len(d) = Len(disk.bytes) + Len(SubSeq(io.local, 1, n))
      BY <3>1, <3>2, <3>3, ConcatProperties
    <3>5. /\ Len(disk.bytes) \in Nat /\ Len(SubSeq(io.local, 1, n)) \in Nat
          /\ Len(d) \in Nat /\ Len(logged) \in Nat
      BY <2>2, <3>1, <3>3, LenProperties
    <3> DEFINE u == Len(d)
               v == Len(disk.bytes)
               w == Len(SubSeq(io.local, 1, n))
               k == Len(logged)
    <3>6. /\ u = v + w /\ u <= k
          /\ u \in Nat /\ v \in Nat /\ w \in Nat /\ k \in Nat
      BY <2>3, <3>4, <3>5
    <3> HIDE DEF u, v, w, k
    <3>7. u \in 0 .. k /\ u \in 0 .. u /\ v \in Nat /\ u >= v
      BY <3>6
    <3> QED  BY <3>7 DEF u, v, k
  <2> HIDE DEF d, c
  <2>5. SubSeq(d \o c, 1, Len(d)) = SubSeq(d, 1, Len(d))
    BY <2>2, <2>4, PrefixKept
  <2>6. SubSeq(logged \o Begun', 1, Len(d)) = SubSeq(logged, 1, Len(d))
    BY <2>2, <2>4, PrefixKept
  <2>7. SubSeq(d, 1, Len(d)) = d
    BY <2>2
  <2>8. d = SubSeq(logged, 1, Len(d))
    BY <2>3, <2>5, <2>6, <2>7, Zenon
  <2>9. Len(d) \in Len(disk.bytes) .. Len(logged)
    <3>1. Len(logged) \in Nat
      BY <2>2, LenProperties
    <3> QED  BY <2>4, <3>1
  <2>10. \E k \in Len(disk.bytes) .. Len(logged) : disk'.bytes = SubSeq(logged, 1, k)
    BY <2>8, <2>9 DEF d
  <2> QED  BY <1>2, <2>1, <2>10 DEF File!Flush
<1> QED  BY <1>4, <1>5

(* Every other step leaves the lines and the file alone.                    *)
LEMMA OthersStutter ==
  ASSUME IInv, Next, ~Write, \A t \in Thread : ~WriteLast(t)
  PROVE  UNCHANGED File!vars
<1> SUFFICES logged' = logged /\ disk'.bytes = disk.bytes /\ disk'.failed = disk.failed
  BY DEF File!vars
<1>1. CASE MainNext
  BY <1>1 DEF MainNext, LogLine, AddJob, SignalJob, Set, LogPending, EndSet, CheckError,
     Destroy, WakeWorkers, Join, Assert, Finish, FinishNothing, SignalClose, SignalWait,
     JoinIo, Free
<1>2. ASSUME NEW t \in Thread, LogNext(t)
      PROVE  UNCHANGED <<logged, disk>>
  BY <1>2 DEF LogNext, LoadLogger, LookAgain, LockAio, WriteText, SignalAio
<1>3. CASE Turn
  <2>1. disk' = disk \/ \E open : disk' = [disk EXCEPT !.open = open]
    BY <1>3 DEF Turn
  <2>2. DiskType
    BY DEF IInv, TypeOK
  <2> QED  BY <1>3, <2>1, <2>2 DEF Turn, DiskType
<1>4. CASE Sleep
  BY <1>4 DEF Sleep
<1>5. ASSUME NEW w \in Worker, WorkerNext(w)
      PROVE  UNCHANGED <<logged, disk>>
  BY <1>5 DEF WorkerNext, CheckShutdown, Wake, FetchJob, EndJob
<1> QED  BY <1>1, <1>2, <1>3, <1>4, <1>5 DEF Next, IoNext

(* The log implements LogFile: through a ring that wraps and grows, and     *)
(* with any number of threads, lines are neither mixed, torn nor reordered, *)
(* and the file is a first part of them until the disk fails.               *)
THEOREM Implements == Spec => ImplementsLogFile
<1>1. Init => File!Init
  BY DEF Init, File!Init
<1>2. IInv /\ [Next]_vars => [File!Next]_File!vars
  <2> SUFFICES ASSUME IInv, [Next]_vars PROVE File!Next \/ UNCHANGED File!vars
    OBVIOUS
  <2>1. CASE \E t \in Thread : WriteLast(t)
    BY <2>1, LogsLine DEF File!Next
  <2>2. CASE Write
    BY <2>2, WritesFile DEF File!Next
  <2>3. CASE Next /\ ~Write /\ \A t \in Thread : ~WriteLast(t)
    BY <2>3, OthersStutter
  <2>4. CASE UNCHANGED vars
    BY <2>4 DEF vars, File!vars
  <2> QED  BY <2>1, <2>2, <2>3, <2>4
<1> QED  BY <1>1, <1>2, Inductive, PTL DEF Spec, ImplementsLogFile, File!Spec

=============================================================================
