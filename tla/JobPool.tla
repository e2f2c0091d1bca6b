------------------------------- MODULE JobPool -------------------------------
(***************************************************************************)
(* CJobPool (src/engine/shared/jobs.cpp): a list of jobs, a semaphore that *)
(* counts them, and threads that take them out.  The operators are what    *)
(* the functions do to the pool while they hold its lock.  A job is named  *)
(* by its number; the pool remembers the ones it has handed out.           *)
(***************************************************************************)
EXTENDS Integers, Sequences, FiniteSets

NewPool == [queue |-> <<>>, signals |-> 0, shutdown |-> FALSE, started |-> <<>>]

Push(p, job) == [p EXCEPT !.queue = Append(@, job)]

Post(p, n) == [p EXCEPT !.signals = @ + n]

(* Seeded fault: the job stays in the list.                                 *)
FetchAndKeep(p) == [p EXCEPT !.started = Append(@, Head(p.queue))]

Fetch(p) == [p EXCEPT !.queue = Tail(@), !.started = Append(@, Head(p.queue))]
=============================================================================
