------------------------------- MODULE AsyncIo -------------------------------
(***************************************************************************)
(* ASYNCIO (src/base/system.cpp): bytes for a file go through a ring that  *)
(* grows when they do not fit, and a thread writes them.  The operators    *)
(* are what the functions do to the structure while they hold its lock.    *)
(* A byte is a pair, of the message it belongs to and its place there.     *)
(***************************************************************************)
EXTENDS Integers, Sequences

CONSTANTS
    InitialSize,  \* ASYNC_BUFSIZE, 8 KiB in the code
    LocalSize     \* ASYNC_LOCAL_BUFSIZE, 64 KiB in the code

ASSUME SizeAssumption == InitialSize \in Nat \ {0} /\ LocalSize \in Nat \ {0}

Byte == Nat \X Nat

(* What a cell holds that nobody has written yet.                           *)
Blank == <<0, 0>>

Blanks(n) == [i \in 1 .. n |-> Blank]

(* lock: who holds it.  signals: the semaphore.  finish: "running",         *)
(* "close" the file, or "exit" and leave it open.  refs: the thread and the *)
(* owner.                                                                   *)
NewAio ==
    [lock |-> "free", signals |-> 0, buffer |-> Blanks(InitialSize), read |-> 0,
     write |-> 0, error |-> FALSE, finish |-> "running", refs |-> 2]

Size(a) == Len(a.buffer)

BufferLen(a) ==
    IF a.write >= a.read THEN a.write - a.read ELSE Size(a) + a.write - a.read

Cells(a, from, to) == SubSeq(a.buffer, from + 1, to)

(* buffer_ptrs: the two stretches of the ring that hold bytes.              *)
BufferPtrs(a) ==
    IF a.read <= a.write THEN <<Cells(a, a.read, a.write), <<>>>>
    ELSE <<Cells(a, a.read, Size(a)), Cells(a, 0, a.write)>>

Contents(a) == BufferPtrs(a)[1] \o BufferPtrs(a)[2]

(* Seeded faults: a full ring looks empty; growth loses the wrapped part.   *)
FitsExactly(a, bytes) == Len(bytes) <= Size(a) - BufferLen(a)

FirstStretch(a) == BufferPtrs(a)[1]

Fits(a, bytes) == Len(bytes) < Size(a) - BufferLen(a)

Kept(a) == Contents(a)

(* The bytes, in one or two pieces, behind those in the ring.               *)
Put(a, bytes) ==
    LET end == a.write + Len(bytes)
    IN  [a EXCEPT !.buffer = [i \in DOMAIN @ |->
                                IF a.write < i /\ i <= end THEN bytes[i - a.write]
                                ELSE IF i <= end - Size(a) THEN bytes[i + Size(a) - a.write]
                                ELSE a.buffer[i]],
                  !.write = end % Size(a)]

(* The doubling of cur, which is less than need, that is just enough.       *)
NextBufferSizes(cur, need) ==
    {size \in need .. 2 * need - 1 : \E k \in 1 .. need : size = cur * 2 ^ k}

Grow(a, bytes, size) ==
    LET all == Kept(a) \o bytes
    IN  [a EXCEPT !.buffer = all \o Blanks(size - Len(all)),
                  !.read = 0, !.write = Len(all)]

(* aio_write_unlocked: the one thing the ring can become.                   *)
WriteUnlocked(a, bytes) ==
    IF Fits(a, bytes) THEN {Put(a, bytes)}
    ELSE {Grow(a, bytes, size) :
            size \in NextBufferSizes(Size(a), BufferLen(a) + Len(bytes) + 1)}

(* One round of aio_thread copies as much as its local buffer holds.        *)
Taken(a) ==
    LET all == Contents(a)
    IN  SubSeq(all, 1, IF Len(all) <= LocalSize THEN Len(all) ELSE LocalSize)

Take(a) == [a EXCEPT !.read = (@ + Len(Taken(a))) % Size(a)]

(* Seeded fault: the ring is not looked at once the thread is to finish.    *)
HasBytesToTake(a) == BufferLen(a) > 0 /\ a.finish = "running"

HasBytes(a) == BufferLen(a) > 0

(* Seeded faults: nobody is woken; only bytes wake the thread; the thread   *)
(* drops the owner's reference as well.                                     *)
SignalNobody(a) == a

SignalBytes(a) == IF HasBytes(a) THEN [a EXCEPT !.signals = @ + 1] ELSE a

UnrefBoth(a) == [a EXCEPT !.refs = @ - 2]

Signal(a) == [a EXCEPT !.signals = @ + 1]

Unref(a) == [a EXCEPT !.refs = @ - 1]
=============================================================================
