------------------------------- MODULE DbPool -------------------------------
(***************************************************************************)
(* CDbConnectionPool (src/engine/server/databases/connection_pool.cpp) and *)
(* the rank it saves for a finish (CScoreWorker::SaveScore).  The main     *)
(* thread puts queries into a ring.  The backup thread copies every write  *)
(* into the table race_backup of a local file and passes the query on; the *)
(* worker thread runs it on the write server, then removes the copy or, if *)
(* the server failed, moves it into the table race of the file.  A shut-   *)
(* down signals once more without a query: the empty slot is the sentinel. *)
(*                                                                         *)
(* A query is named by its job number; the rank a write saves has the name *)
(* of the query.  A statement on a database either takes effect at once or *)
(* fails; a MySQL server may also store a rank and its answer get lost.    *)
(* scripts/move_sqlite.py, which empties the file from outside while the   *)
(* server runs, takes part if Mover is TRUE.                               *)
(***************************************************************************)
EXTENDS Integers, Sequences

CONSTANTS
    RingSize,        \* slots of m_aQueries, 512 in the code
    MaxIssued,       \* bound: queries issued
    MaxOutstanding,  \* bound: queries issued and not yet worked off
    BackupFails,     \* may a statement on the file fail
    AnswersGetLost,  \* may a MySQL server store a rank and report a failure
    Mover            \* does move_sqlite.py run

ASSUME RingAssumption ==
    /\ RingSize \in Nat \ {0}
    /\ MaxIssued \in Nat
    /\ MaxOutstanding \in Nat

ASSUME FailureAssumption ==
    BackupFails \in BOOLEAN /\ AnswersGetLost \in BOOLEAN /\ Mover \in BOOLEAN

JobNum == 0 .. MaxIssued - 1

(* The MySQL servers, named by the word an operator adds them with.         *)
MySql == {"r", "w"}

(* The databases a query may name, by where they store a rank: a MySQL      *)
(* server, or the table race of the file.                                   *)
Target == MySql \cup {"race"}

(* Where a rank can be: a MySQL server, the two tables of the file, and     *)
(* the file the script has moved ranks to.                                  *)
Place == Target \cup {"race_backup", "moved"}

(* The places a rank is meant to end up in.                                 *)
Final == Place \ {"race_backup"}

(* PRINT queries are left out: they change no state.                        *)
Kind == {"read", "write", "add read", "add write", "add backup"}

Query == [id : JobNum, kind : Kind, place : Target]

NoQuery == [id |-> -1, kind |-> "none", place |-> "none"]

VARIABLES
    main,       \* pc, the registrations Run has left, and queries issued
    ring,       \* m_aQueries; NoQuery is the null pointer
    numBackup,  \* m_NumBackup
    numWorker,  \* m_NumWorker
    shutdown,   \* CSharedData::m_Shutdown
    backup,     \* the backup thread: pc, JobNum, its query, has it a database
    worker,     \* the worker thread, its connections and m_FailMode
    rows,       \* [Place -> set of ranks]
    result,     \* what the main thread learns about a query
    mover,      \* move_sqlite.py: pc ("off": nobody runs it) and the ranks old enough
    saved,      \* history: ranks that some statement has stored
    unanswered  \* history: ranks stored by a statement reported as failed

vars == <<main, ring, numBackup, numWorker, shutdown, backup, worker, rows,
          result, mover, saved, unanswered>>

Registration(kind, place) == [kind |-> kind, place |-> place]

(* CServer::Run, with m_SvUseSQL and without it, if m_SvSqliteFile names a   *)
(* file.                                                                    *)
Registrations(useSQL, file) ==
    IF ~file THEN <<>>
    ELSE IF useSQL
    THEN <<Registration("add backup", "race")>>
    ELSE <<Registration("add read", "race"), Registration("add write", "race")>>

Init ==
    /\ \E useSQL, file \in BOOLEAN :
         main = [pc |-> "running", useSQL |-> useSQL,
                 boot |-> Registrations(useSQL, file), issued |-> 0]
    /\ ring = [i \in 0 .. RingSize - 1 |-> NoQuery]
    /\ numBackup = 0 /\ numWorker = 0 /\ shutdown = FALSE
    /\ backup = [pc |-> "wait", job |-> 0, query |-> NoQuery, db |-> FALSE]
    /\ worker = [pc |-> "check", job |-> 0, query |-> NoQuery, success |-> FALSE,
                 failMode |-> FALSE, reads |-> FALSE, write |-> "none", db |-> FALSE]
    /\ rows = [p \in Place |-> {}]
    /\ result = [id \in JobNum |-> "none"]
    /\ \E pc \in IF Mover THEN {"off", "idle"} ELSE {"off"} : mover = [pc |-> pc, old |-> 0]
    /\ saved = {} /\ unanswered = {}

-----------------------------------------------------------------------------
(* The main thread.  Nothing in the code keeps it from overwriting a slot   *)
(* that is still in use; MaxOutstanding does.                               *)
Insert(kind, place) ==
    LET q == [id |-> main.issued, kind |-> kind, place |-> place]
    IN  /\ main.pc = "running"
        /\ main.issued < MaxIssued
        /\ main.issued - worker.job < MaxOutstanding
        /\ ring' = [ring EXCEPT ![main.issued % RingSize] = q]
        /\ numBackup' = numBackup + 1
        /\ result' = [result EXCEPT ![main.issued] = "pending"]
        /\ UNCHANGED <<numWorker, shutdown, backup, worker, rows, mover, saved, unanswered>>

RegisterDatabases ==
    /\ main.boot # <<>>
    /\ Insert(Head(main.boot).kind, Head(main.boot).place)
    /\ main' = [main EXCEPT !.issued = @ + 1, !.boot = Tail(@)]

(* The console command add_sqlserver: "w" clears the flag that asks for a   *)
(* write server, "r" sets it.                                               *)
ConAddSqlServer(word) ==
    /\ main.useSQL
    /\ Insert(IF word = "w" THEN "add read" ELSE "add write", word)
    /\ main' = [main EXCEPT !.issued = @ + 1]

Execute ==
    /\ main.boot = <<>>
    /\ Insert("read", "race")
    /\ main' = [main EXCEPT !.issued = @ + 1]

ExecuteWrite ==
    /\ main.boot = <<>>
    /\ Insert("write", "race")
    /\ main' = [main EXCEPT !.issued = @ + 1]

OnShutdown ==
    /\ main.pc = "running"
    /\ main' = [main EXCEPT !.pc = "stopping"]
    /\ shutdown' = TRUE
    /\ numBackup' = numBackup + 1
    /\ UNCHANGED <<ring, numWorker, backup, worker, rows, result, mover, saved, unanswered>>

ShutdownSeen ==
    /\ main.pc = "stopping" /\ ~shutdown
    /\ main' = [main EXCEPT !.pc = "stopped"]
    /\ UNCHANGED <<ring, numBackup, numWorker, shutdown, backup, worker, rows,
                   result, mover, saved, unanswered>>

-----------------------------------------------------------------------------
(* Seeded faults: only what was written is passed on; the empty slot is not. *)
PassOnWrites(q) == IF q.kind = "write" THEN 1 ELSE 0

PassOnQueries(q) == IF q = NoQuery THEN 0 ELSE 1

Signalled(semaphore) == semaphore > 0

PassOn(q) == 1

(* The backup thread.  An empty slot is passed on and ends the thread.      *)
BackupFetch ==
    LET q == ring[backup.job % RingSize]
    IN  /\ backup.pc = "wait" /\ Signalled(numBackup)
        /\ numBackup' = numBackup - 1
        /\ IF q = NoQuery
           THEN /\ backup' = [backup EXCEPT !.pc = "exit"]
                /\ numWorker' = numWorker + PassOn(q)
           ELSE /\ backup' = [backup EXCEPT !.pc = "exec", !.query = q]
                /\ UNCHANGED numWorker
        /\ UNCHANGED <<main, ring, shutdown, worker, rows, result, mover, saved, unanswered>>

(* BACKUP_FIRST, for a write once the file is known.                        *)
BackupExec ==
    LET q == backup.query
    IN  /\ backup.pc = "exec"
        /\ \/ /\ q.kind = "write" /\ backup.db
              /\ rows' = [rows EXCEPT !["race_backup"] = @ \cup {q.id}]
              /\ saved' = saved \cup {q.id}
           \/ /\ q.kind = "write" /\ backup.db => BackupFails
              /\ UNCHANGED <<rows, saved>>
        /\ backup' = [backup EXCEPT !.pc = "wait", !.job = @ + 1, !.query = NoQuery,
                                    !.db = @ \/ q.kind = "add backup"]
        /\ numWorker' = numWorker + PassOn(q)
        /\ UNCHANGED <<main, ring, numBackup, shutdown, worker, result, mover, unanswered>>

-----------------------------------------------------------------------------
(* The worker thread.                                                       *)
WorkerCheck ==
    /\ worker.pc = "check"
    /\ worker' = [worker EXCEPT !.pc = "wait", !.failMode = @ /\ numWorker # 0]
    /\ UNCHANGED <<main, ring, numBackup, numWorker, shutdown, backup, rows,
                   result, mover, saved, unanswered>>

(* Seeded fault: the flag ends the thread, not the empty slot.              *)
IsLastOnFlag(q) == q = NoQuery \/ shutdown

IsLast(q) == q = NoQuery

WorkerFetch ==
    LET slot == worker.job % RingSize
        q    == ring[slot]
    IN  /\ worker.pc = "wait" /\ Signalled(numWorker)
        /\ numWorker' = numWorker - 1
        /\ ring' = [ring EXCEPT ![slot] = NoQuery]
        /\ IF IsLast(q)
           THEN /\ shutdown' = FALSE
                /\ worker' = [worker EXCEPT !.pc = "exit"]
           ELSE /\ worker' = [worker EXCEPT !.pc = "exec", !.query = q]
                /\ UNCHANGED shutdown
        /\ UNCHANGED <<main, numBackup, backup, rows, result, mover, saved, unanswered>>

(* The job w.query is done.                                                 *)
Complete(w, success) ==
    /\ worker' = [w EXCEPT !.pc = "check", !.job = @ + 1, !.query = NoQuery,
                           !.success = FALSE]
    /\ result' = [result EXCEPT ![w.query.id] = IF success THEN "ok" ELSE "failed"]

WorkerRegister ==
    LET q == worker.query
    IN  /\ worker.pc = "exec" /\ q.kind \notin {"read", "write"}
        /\ Complete([worker EXCEPT !.reads = @ \/ q.kind = "add read",
                                   !.write = IF q.kind = "add write" THEN q.place ELSE @,
                                   !.db = @ \/ q.kind = "add backup"], TRUE)
        /\ UNCHANGED <<main, ring, numBackup, numWorker, shutdown, backup, rows,
                       mover, saved, unanswered>>

(* Reads are dismissed during a shutdown and in fail mode.                  *)
WorkerRead ==
    /\ worker.pc = "exec" /\ worker.query.kind = "read"
    /\ \E success \in BOOLEAN :
         /\ success => worker.reads /\ ~shutdown /\ ~worker.failMode
         /\ Complete([worker EXCEPT !.failMode = @ \/ ~success], success)
    /\ UNCHANGED <<main, ring, numBackup, numWorker, shutdown, backup, rows,
                   mover, saved, unanswered>>

(* NORMAL: the write server, which is left alone during a shutdown and in   *)
(* fail mode if the worker has the file.                                    *)
WorkerNormal ==
    LET q    == worker.query
        skip == worker.db /\ (shutdown \/ worker.failMode)
    IN  /\ worker.pc = "exec" /\ q.kind = "write"
        /\ \E stored, success \in BOOLEAN :
             /\ stored => ~skip /\ worker.write # "none"
             /\ success => stored
             /\ stored /\ ~success => AnswersGetLost /\ worker.write \in MySql
             /\ rows' = IF stored THEN [rows EXCEPT ![worker.write] = @ \cup {q.id}] ELSE rows
             /\ saved' = IF stored THEN saved \cup {q.id} ELSE saved
             /\ unanswered' = IF stored /\ ~success THEN unanswered \cup {q.id} ELSE unanswered
             /\ LET w == [worker EXCEPT !.failMode = @ \/ ~success]
                IN  IF worker.db
                    THEN /\ worker' = [w EXCEPT !.pc = "settle", !.success = success]
                         /\ UNCHANGED result
                    ELSE Complete(w, success)
        /\ UNCHANGED <<main, ring, numBackup, numWorker, shutdown, backup, mover>>

(* Seeded faults: the copy is removed, or moved, whatever the server said.  *)
NothingFailed(w) == TRUE

NothingSucceeded(w) == FALSE

Succeeded(w) == w.success

Remove(r, id) == [r EXCEPT !["race_backup"] = @ \ {id}]

(* Seeded fault: the rank stays where it is.                                *)
NoCopy(r, id) == r

(* The first statement of NORMAL_FAILED copies whatever row it finds.       *)
Copy(r, id) == [r EXCEPT !["race"] = @ \cup (r["race_backup"] \cap {id})]

(* NORMAL_SUCCEEDED, or the first half of NORMAL_FAILED.                    *)
WorkerSettle ==
    LET id == worker.query.id
    IN  /\ worker.pc = "settle"
        /\ \E done \in BOOLEAN :
             /\ done \/ BackupFails
             /\ IF Succeeded(worker)
                THEN /\ rows' = IF done THEN Remove(rows, id) ELSE rows
                     /\ Complete(worker, TRUE)
                ELSE IF done
                THEN /\ rows' = Copy(rows, id)
                     /\ worker' = [worker EXCEPT !.pc = "clear"]
                     /\ UNCHANGED result
                ELSE /\ UNCHANGED rows
                     /\ Complete(worker, FALSE)
        /\ UNCHANGED <<main, ring, numBackup, numWorker, shutdown, backup, mover,
                       saved, unanswered>>

WorkerClear ==
    /\ worker.pc = "clear"
    /\ \E done \in BOOLEAN :
         /\ done \/ BackupFails
         /\ rows' = IF done THEN Remove(rows, worker.query.id) ELSE rows
         /\ Complete(worker, done)
    /\ UNCHANGED <<main, ring, numBackup, numWorker, shutdown, backup, mover,
                   saved, unanswered>>

-----------------------------------------------------------------------------
(* move_sqlite.py dumps the file, table after table and without a           *)
(* transaction, and keeps the whole table race and the ranks of race_backup *)
(* from before a date; then it deletes, in one transaction, the table race  *)
(* and what race_backup has from before the date.  The date is an hour      *)
(* before the start, so that the backup thread has come to every rank from  *)
(* before it; the model picks it when it is first used, which allows every  *)
(* date of the start.                                                       *)
(*                                                                          *)
(* Seeded fault: the date is now.                                           *)
DatesUntilNow == 0 .. main.issued

Dates == 0 .. backup.job

DumpRace ==
    /\ Mover /\ mover.pc = "idle"
    /\ mover' = [pc |-> "dump", old |-> 0]
    /\ rows' = [rows EXCEPT !["moved"] = @ \cup rows["race"]]
    /\ UNCHANGED <<main, ring, numBackup, numWorker, shutdown, backup, worker,
                   result, saved, unanswered>>

DumpBackup ==
    /\ mover.pc = "dump"
    /\ \E old \in Dates :
         /\ mover' = [pc |-> "delete", old |-> old]
         /\ rows' = [rows EXCEPT !["moved"] =
                       @ \cup {id \in rows["race_backup"] : id < old}]
    /\ UNCHANGED <<main, ring, numBackup, numWorker, shutdown, backup, worker,
                   result, saved, unanswered>>

Delete ==
    /\ mover.pc = "delete"
    /\ mover' = [pc |-> "idle", old |-> 0]
    /\ rows' = [rows EXCEPT !["race"] = {},
                            !["race_backup"] = {id \in @ : id >= mover.old}]
    /\ UNCHANGED <<main, ring, numBackup, numWorker, shutdown, backup, worker,
                   result, saved, unanswered>>

-----------------------------------------------------------------------------
MainNext ==
    \/ RegisterDatabases
    \/ \E word \in MySql : ConAddSqlServer(word)
    \/ Execute
    \/ ExecuteWrite
    \/ OnShutdown
    \/ ShutdownSeen

BackupNext == BackupFetch \/ BackupExec

WorkerNext ==
    \/ WorkerCheck \/ WorkerFetch \/ WorkerRegister \/ WorkerRead
    \/ WorkerNormal \/ WorkerSettle \/ WorkerClear

Next == MainNext \/ BackupNext \/ WorkerNext \/ DumpRace \/ DumpBackup \/ Delete

Spec == Init /\ [][Next]_vars

(* The threads are scheduled and every statement ends, by the timeouts of   *)
(* the MySQL client at the latest.  Nobody has to issue a query or to shut  *)
(* the server down.                                                         *)
Fairness == WF_vars(BackupNext) /\ WF_vars(WorkerNext) /\ WF_vars(ShutdownSeen)

FairSpec == Spec /\ Fairness

-----------------------------------------------------------------------------
(* The shapes of the variables.                                             *)
TypeOK ==
    /\ main \in [pc : {"running", "stopping", "stopped"}, useSQL : BOOLEAN,
                 boot : Seq([kind : Kind, place : Target]), issued : 0 .. MaxIssued]
    /\ ring \in [0 .. RingSize - 1 -> Query \cup {NoQuery}]
    /\ numBackup \in Nat /\ numWorker \in Nat /\ shutdown \in BOOLEAN
    /\ backup \in [pc : {"wait", "exec", "exit"}, job : Nat,
                   query : Query \cup {NoQuery}, db : BOOLEAN]
    /\ worker \in [pc : {"check", "wait", "exec", "settle", "clear", "exit"},
                   job : Nat, query : Query \cup {NoQuery}, success : BOOLEAN,
                   failMode : BOOLEAN, reads : BOOLEAN,
                   write : Target \cup {"none"}, db : BOOLEAN]
    /\ rows \in [Place -> SUBSET JobNum]
    /\ result \in [JobNum -> {"none", "pending", "ok", "failed"}]
    /\ mover \in [pc : {"off", "idle", "dump", "delete"}, old : 0 .. MaxIssued]
    /\ saved \subseteq JobNum /\ unanswered \subseteq JobNum

(* How many queries the worker has taken out of the ring.                   *)
Holding == worker.pc \in {"exec", "settle", "clear"}

Fetched == worker.job + (IF Holding THEN 1 ELSE 0)

(* The ring holds exactly the queries that have been issued and not taken,  *)
(* each in its slot; the two threads work on the queries their JobNum       *)
(* names.                                                                   *)
SlotsInStep ==
    /\ \A j \in Fetched .. main.issued - 1 : ring[j % RingSize].id = j
    /\ \A i \in 0 .. RingSize - 1 :
         ring[i] # NoQuery =>
           ring[i].id \in Fetched .. main.issued - 1 /\ ring[i].id % RingSize = i
    /\ backup.pc = "exec" => backup.query.id = backup.job /\ backup.job < main.issued
    /\ Holding => worker.query.id = worker.job

(* The backup thread is ahead of the worker, and the semaphores count the   *)
(* queries between the threads, with one more for the sentinel.             *)
SemaphoresInStep ==
    /\ Fetched <= backup.job /\ backup.job <= main.issued
    /\ main.issued - worker.job <= MaxOutstanding
    /\ numBackup = main.issued - backup.job - (IF backup.pc = "exec" THEN 1 ELSE 0)
                   + (IF main.pc = "running" \/ backup.pc = "exit" THEN 0 ELSE 1)
    /\ numWorker = backup.job - Fetched
                   + (IF backup.pc = "exit" /\ worker.pc # "exit" THEN 1 ELSE 0)

(* The threads end one after the other, each with nothing left to do.       *)
ThreadsInStep ==
    /\ backup.pc = "exit" => main.pc # "running" /\ backup.job = main.issued
    /\ worker.pc = "exit" => backup.pc = "exit" /\ worker.job = main.issued
    /\ main.pc = "running" => ~shutdown
    /\ main.pc = "stopping" => shutdown = (worker.pc # "exit")
    /\ main.pc = "stopped" => worker.pc = "exit"

(* Queries are answered in the order they were issued.                      *)
AnsweredInOrder ==
    \A id \in JobNum :
        result[id] \in IF id < worker.job THEN {"ok", "failed"}
                       ELSE IF id < main.issued THEN {"pending"} ELSE {"none"}

(* The backup thread works on a query the ring still holds, and only writes *)
(* have ranks.                                                              *)
KindsInStep ==
    /\ backup.pc = "exec" => ring[backup.job % RingSize] = backup.query
    /\ \A i \in 0 .. RingSize - 1 :
         ring[i] # NoQuery /\ ring[i].id \in saved => ring[i].kind = "write"
    /\ worker.pc = "exec" /\ worker.query.id \in saved => worker.query.kind = "write"

(* Where the ranks are: those the threads have not come to are nowhere but  *)
(* in the copy, and the rank in the worker's hands is as far as its pc      *)
(* says.                                                                    *)
StoredInStep ==
    LET id == worker.query.id
    IN  /\ \A p \in Final : \A k \in rows[p] : k < Fetched
        /\ \A k \in rows["race_backup"] : k < backup.job
        /\ worker.pc = "exec" => \A p \in Final : id \notin rows[p]
        /\ worker.pc = "settle" =>
             IF worker.success THEN \E p \in Final : id \in rows[p]
             ELSE id \in unanswered \/ \A p \in Final : id \notin rows[p]
        /\ worker.pc = "clear" =>
             /\ id \in saved => \E p \in Final : id \in rows[p]
             /\ id \in unanswered \/ \A p \in Final \ {"race"} : id \notin rows[p]

RanksKept == saved \subseteq UNION {rows[p] : p \in Place}

ReportedRanked ==
    \A id \in saved : result[id] = "ok" => \E p \in Final : id \in rows[p]

RanksApart ==
    \A id \in JobNum \ unanswered : \A p, q \in Final :
        id \in rows[p] /\ id \in rows[q] => p = q

(* What holds of the threads, whoever writes to the file.                   *)
PoolInv ==
    /\ TypeOK /\ SlotsInStep /\ SemaphoresInStep /\ ThreadsInStep /\ AnsweredInOrder

(* What holds of the ranks when nobody but the threads writes to the file.  *)
RanksInv ==
    /\ KindsInStep /\ StoredInStep
    /\ RanksKept /\ ReportedRanked /\ RanksApart

Unscripted == mover.pc = "off"

(* What the script is about to delete it has moved: the backup thread has   *)
(* only added to the copies since it read the table race_backup.            *)
DumpInStep ==
    mover.pc = "delete" =>
        /\ mover.old <= backup.job
        /\ \A id \in rows["race_backup"] : id < mover.old => id \in rows["moved"]

(* The invariant that the properties follow from.                           *)
IInv == PoolInv /\ DumpInStep /\ (Unscripted => RanksInv)

(* A rank that some database has stored is never in none of them: a server  *)
(* that is killed between two statements has not lost it, as long as the    *)
(* script leaves its file alone.                                            *)
NoRankLost == Unscripted => RanksKept

(* A write that is reported as done, and of which the file ever had a copy  *)
(* or a server a rank, has its rank in its final place.                     *)
ReportedIsFinal == Unscripted => ReportedRanked

(* A rank is stored twice only if the answer of a MySQL server got lost.    *)
RankedOnce == Unscripted => RanksApart

(* OnShutdown returns only after every query has been worked off: "work     *)
(* through all database jobs after OnShutdown is called before exiting".    *)
ShutdownAfterAll ==
    main.pc = "stopped" => \A id \in JobNum : result[id] # "pending"

(* The script deletes a copy only after it has moved it: what the backup    *)
(* thread has added since the dump stays for the worker ("Time in minutes   *)
(* until when a rank is moved from the _backup tables").                    *)
CopiesMovedFirst ==
    [][mover.pc = "delete" /\ mover'.pc = "idle" =>
         rows["race_backup"] \ rows'["race_backup"] \subseteq rows["moved"]]_vars

(* Every query is answered: a player is not left waiting for a result.      *)
EventuallyAnswered ==
    \A id \in JobNum : result[id] = "pending" ~> result[id] # "pending"

(* OnShutdown returns, and both threads end, so that the pool can be        *)
(* destroyed.                                                               *)
ShutdownCompletes ==
    main.pc = "stopping" ~>
        main.pc = "stopped" /\ backup.pc = "exit" /\ worker.pc = "exit"

(* ConAddSqlServer: "choose either 'r' for SqlReadServer or 'w' for         *)
(* SqlWriteServer".  Ranks are written to servers added with 'w'.           *)
ReadServersOnlyRead == rows["r"] = {}
=============================================================================
