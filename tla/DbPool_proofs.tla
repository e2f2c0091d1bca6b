--------------------------- MODULE DbPool_proofs ---------------------------
(***************************************************************************)
(* As long as fewer queries are outstanding than the ring has slots, IInv  *)
(* is an inductive invariant of DbPool, and with it the safety properties  *)
(* of the module hold, whatever statements fail and whatever answers get   *)
(* lost: those of the threads also while the script runs.                  *)
(***************************************************************************)
EXTENDS DbPool, ModArithmetic_proofs, SequenceTheorems

SlotsSuffice == MaxOutstanding < RingSize

-----------------------------------------------------------------------------
(* Two outstanding queries never share a slot.                              *)
LEMMA SlotsApart ==
  ASSUME NEW j \in Nat, NEW k \in Nat, j - k < RingSize, k - j < RingSize,
         j % RingSize = k % RingSize
  PROVE  j = k
BY ModUnique, RingAssumption

LEMMA SlotType ==
  ASSUME NEW j \in Nat
  PROVE  j % RingSize \in 0 .. RingSize - 1
BY RingAssumption, SMT

LEMMA Counters ==
  ASSUME TypeOK
  PROVE  /\ main.issued \in Nat /\ MaxIssued \in Nat /\ main.issued <= MaxIssued
         /\ backup.job \in Nat /\ worker.job \in Nat
         /\ numBackup \in Nat /\ numWorker \in Nat /\ Fetched \in Nat
         /\ RingSize \in Nat \ {0} /\ MaxOutstanding \in Nat
         /\ worker.job <= Fetched /\ Fetched <= worker.job + 1
         /\ ~Holding => Fetched = worker.job
         /\ Holding => Fetched = worker.job + 1
BY RingAssumption DEF TypeOK, Fetched

(* The backup thread has seen every rank that is stored.                    *)
LEMMA SavedSeen ==
  ASSUME PoolInv, RanksInv
  PROVE  \A id \in saved : id \in JobNum /\ id < backup.job /\ id < main.issued
<1>1. TypeOK /\ SemaphoresInStep /\ StoredInStep /\ RanksKept
  BY DEF PoolInv, RanksInv
<1>2. SUFFICES ASSUME NEW id \in saved
               PROVE  id \in JobNum /\ id < backup.job /\ id < main.issued
  OBVIOUS
<1>3. id \in JobNum /\ id \in Int
  BY <1>1 DEF TypeOK, JobNum
<1>4. PICK p \in Place : id \in rows[p]
  BY <1>1 DEF RanksKept
<1>5. id < Fetched \/ id < backup.job
  BY <1>1, <1>4 DEF StoredInStep, Final, Place
<1>6. /\ Fetched \in Nat /\ backup.job \in Nat /\ main.issued \in Nat
      /\ Fetched <= backup.job /\ backup.job <= main.issued
  BY <1>1, Counters DEF SemaphoresInStep
<1> QED  BY <1>3, <1>5, <1>6

LEMMA NoQueryApart == NoQuery \notin Query /\ NoQuery.id = -1
BY DEF NoQuery, Query, JobNum

-----------------------------------------------------------------------------
LEMMA InitIInv == Init => IInv
<1> SUFFICES ASSUME Init PROVE IInv
  OBVIOUS
<1> USE DEF Init
<1>1. TypeOK
  <2>1. PICK useSQL \in BOOLEAN, file \in BOOLEAN :
          main = [pc |-> "running", useSQL |-> useSQL,
                  boot |-> Registrations(useSQL, file), issued |-> 0]
    OBVIOUS
  <2>2. Registrations(useSQL, file) \in Seq([kind : Kind, place : Target])
    <3> DEFINE S == [kind : Kind, place : Target]
    <3>1. /\ Registration("add backup", "race") \in S
          /\ Registration("add read", "race") \in S
          /\ Registration("add write", "race") \in S
      BY DEF Registration, Kind, Target, MySql
    <3> HIDE DEF S
    <3>2. <<>> \in Seq(S) /\ \A x, y \in S : <<x>> \in Seq(S) /\ <<x, y>> \in Seq(S)
      OBVIOUS
    <3>3. Registrations(useSQL, file) \in Seq(S)
      BY <3>1, <3>2, Zenon DEF Registrations
    <3> QED  BY <3>3 DEF S
  <2>3. main \in [pc : {"running", "stopping", "stopped"}, useSQL : BOOLEAN,
                  boot : Seq([kind : Kind, place : Target]), issued : 0 .. MaxIssued]
    BY <2>1, <2>2, RingAssumption
  <2>4. /\ backup \in [pc : {"wait", "exec", "exit"}, job : Nat,
                       query : Query \cup {NoQuery}, db : BOOLEAN]
        /\ worker \in [pc : {"check", "wait", "exec", "settle", "clear", "exit"},
                       job : Nat, query : Query \cup {NoQuery}, success : BOOLEAN,
                       failMode : BOOLEAN, reads : BOOLEAN,
                       write : Target \cup {"none"}, db : BOOLEAN]
        /\ mover \in [pc : {"off", "idle", "dump", "delete"}, old : 0 .. MaxIssued]
    BY RingAssumption
  <2>5. /\ ring \in [0 .. RingSize - 1 -> Query \cup {NoQuery}]
        /\ rows \in [Place -> SUBSET JobNum]
        /\ result \in [JobNum -> {"none", "pending", "ok", "failed"}]
    OBVIOUS
  <2> QED  BY <2>3, <2>4, <2>5 DEF TypeOK
<1>2. main.pc = "running" /\ main.issued = 0
  OBVIOUS
<1>3. SlotsInStep /\ SemaphoresInStep /\ ThreadsInStep
  <2>1. Fetched = 0 /\ ~Holding
    BY DEF Fetched, Holding
  <2>2. \A i \in 0 .. RingSize - 1 : ring[i] = NoQuery
    OBVIOUS
  <2> QED  BY <1>2, <2>1, <2>2, RingAssumption DEF SlotsInStep, SemaphoresInStep, ThreadsInStep
<1>4. AnsweredInOrder
  BY <1>2 DEF AnsweredInOrder, JobNum
<1>6. KindsInStep
  BY DEF KindsInStep
<1>5. StoredInStep /\ RanksKept /\ ReportedRanked /\ RanksApart
  BY DEF StoredInStep, RanksKept, ReportedRanked, RanksApart, Final, Place
<1>7. DumpInStep
  BY DEF DumpInStep
<1> QED  BY <1>1, <1>3, <1>4, <1>5, <1>6, <1>7 DEF IInv, PoolInv, RanksInv

-----------------------------------------------------------------------------
(* The main thread.                                                         *)
LEMMA InsertStep ==
  ASSUME PoolInv, SlotsSuffice, NEW kind \in Kind, NEW place \in Target,
         NEW boot \in Seq([kind : Kind, place : Target]),
         Insert(kind, place), main' = [main EXCEPT !.issued = @ + 1, !.boot = boot]
  PROVE  PoolInv' /\ (RanksInv => RanksInv')
<1> DEFINE n == main.issued
           q == [id |-> n, kind |-> kind, place |-> place]
<1>1. /\ TypeOK /\ SlotsInStep /\ SemaphoresInStep /\ ThreadsInStep
      /\ AnsweredInOrder
  BY DEF PoolInv
<1>2. /\ n \in Nat /\ n < MaxIssued /\ main.pc = "running"
      /\ n - worker.job < MaxOutstanding
      /\ worker.job \in Nat /\ MaxIssued \in Nat /\ RingSize \in Nat \ {0} /\ MaxOutstanding \in Nat
  BY <1>1, Counters DEF Insert
<1>3. main'.issued = n + 1 /\ main'.pc = main.pc /\ main'.useSQL = main.useSQL
  BY <1>1 DEF TypeOK
<1>4. /\ ring' = [ring EXCEPT ![n % RingSize] = q]
      /\ numBackup' = numBackup + 1
      /\ result' = [result EXCEPT ![n] = "pending"]
      /\ UNCHANGED <<numWorker, shutdown, backup, worker, rows, mover, saved, unanswered>>
  BY DEF Insert
<1>5. q \in Query /\ q # NoQuery /\ q.id = n
  BY <1>2, NoQueryApart DEF Query, JobNum
<1>6. n % RingSize \in 0 .. RingSize - 1
  BY <1>2, SlotType
<1>7. TypeOK'
  <2>1. main' \in [pc : {"running", "stopping", "stopped"}, useSQL : BOOLEAN,
                   boot : Seq([kind : Kind, place : Target]), issued : 0 .. MaxIssued]
    <3> DEFINE B == Seq([kind : Kind, place : Target])
    <3>1. main \in [pc : {"running", "stopping", "stopped"}, useSQL : BOOLEAN,
                    boot : B, issued : 0 .. MaxIssued] /\ boot \in B
      BY <1>1 DEF TypeOK
    <3> HIDE DEF B
    <3>2. main' = [pc |-> main.pc, useSQL |-> main.useSQL, boot |-> boot, issued |-> n + 1]
      BY <3>1
    <3>3. n + 1 \in 0 .. MaxIssued
      BY <1>2
    <3>4. main' \in [pc : {"running", "stopping", "stopped"}, useSQL : BOOLEAN,
                     boot : B, issued : 0 .. MaxIssued]
      BY <3>1, <3>2, <3>3
    <3> QED  BY <3>4 DEF B
  <2>2. ring' \in [0 .. RingSize - 1 -> Query \cup {NoQuery}]
    BY <1>1, <1>4, <1>5, <1>6 DEF TypeOK
  <2>3. result' \in [JobNum -> {"none", "pending", "ok", "failed"}]
    BY <1>1, <1>4 DEF TypeOK
  <2> QED  BY <1>1, <1>4, <2>1, <2>2, <2>3 DEF TypeOK
<1>8. /\ Fetched \in Nat /\ n - Fetched < MaxOutstanding
      /\ Fetched <= n /\ worker.job <= n
      /\ Fetched' = Fetched /\ (Holding' <=> Holding)
  <2>1. Fetched \in Nat /\ worker.job <= Fetched
    BY <1>1, Counters
  <2>2. backup.job \in Nat /\ Fetched <= backup.job /\ backup.job <= n
    BY <1>1, Counters DEF SemaphoresInStep
  <2>3. Fetched' = Fetched /\ (Holding' <=> Holding)
    BY <1>4 DEF Fetched, Holding
  <2> QED  BY <1>2, <2>1, <2>2, <2>3
<1>9. SlotsInStep'
  <2>1. ASSUME NEW j \in (Fetched .. main.issued - 1)'
        PROVE  ring'[j % RingSize].id = j
    <3>1. j \in Nat /\ Fetched <= j /\ j <= n
      BY <1>2, <1>3, <1>8
    <3>2. CASE j = n
      BY <1>4, <1>5, <1>6, <3>2, <1>1 DEF TypeOK
    <3>3. CASE j # n
      <4>1. j % RingSize # n % RingSize
        <5>1. j - n < RingSize /\ n - j < RingSize
          BY <1>2, <1>8, <3>1 DEF SlotsSuffice
        <5> QED  BY <5>1, <3>1, <3>3, <1>2, SlotsApart
      <4>2. ring[j % RingSize].id = j
        BY <1>1, <1>2, <3>1, <3>3, <1>8 DEF SlotsInStep
      <4>3. j % RingSize \in 0 .. RingSize - 1
        BY <3>1, SlotType
      <4> QED  BY <1>1, <1>4, <4>1, <4>2, <4>3 DEF TypeOK
    <3> QED  BY <3>2, <3>3
  <2>2. ASSUME NEW i \in 0 .. RingSize - 1, ring'[i] # NoQuery
        PROVE  ring'[i].id \in (Fetched .. main.issued - 1)' /\ ring'[i].id % RingSize = i
    <3>1. CASE i = n % RingSize
      BY <1>1, <1>2, <1>3, <1>4, <1>5, <1>8, <3>1, <2>2, SMTT(60) DEF TypeOK
    <3>2. CASE i # n % RingSize
      <4>1. ring'[i] = ring[i]
        BY <1>1, <1>4, <3>2, <2>2 DEF TypeOK
      <4>2. ring[i].id \in Fetched .. n - 1 /\ ring[i].id % RingSize = i
        BY <1>1, <4>1, <2>2 DEF SlotsInStep
      <4>3. Fetched \in Int /\ n \in Int
        BY <1>2, <1>8
      <4>4. Fetched .. n - 1 \subseteq Fetched .. n
        BY <4>3
      <4>5. (Fetched .. main.issued - 1)' = Fetched .. n
        BY <4>3, <1>3, <1>8
      <4> QED  BY <4>1, <4>2, <4>4, <4>5
    <3> QED  BY <3>1, <3>2
  <2>3. backup'.pc = "exec" => backup'.query.id = backup'.job /\ backup'.job < main'.issued
    BY <1>1, <1>2, <1>3, <1>4, Counters DEF SlotsInStep
  <2>4. Holding' => worker'.query.id = worker'.job
    BY <1>1, <1>4, <1>8 DEF SlotsInStep
  <2> QED  BY <2>1, <2>2, <2>3, <2>4 DEF SlotsInStep
<1>14. SemaphoresInStep' /\ ThreadsInStep'
  <2>1. backup.pc # "exit" /\ ~shutdown /\ worker.pc # "exit"
    BY <1>1, <1>2 DEF ThreadsInStep
  <2>2. backup.job \in Nat /\ numBackup \in Nat /\ numWorker \in Nat
    BY <1>1, Counters
  <2>3. SemaphoresInStep'
    <3>1. (n + 1) - worker.job <= MaxOutstanding
      BY <1>2
    <3>2. worker' = worker /\ backup' = backup
      BY <1>4
    <3>3. /\ main'.issued = n + 1 /\ numBackup' = numBackup + 1
          /\ numWorker' = numWorker /\ Fetched' = Fetched /\ main'.pc = "running"
      BY <1>2, <1>3, <1>4, <1>8
    <3>4. /\ Fetched <= backup.job /\ backup.job <= n
          /\ numBackup = n - backup.job - (IF backup.pc = "exec" THEN 1 ELSE 0)
          /\ numWorker = backup.job - Fetched
      BY <1>1, <1>2, <1>8, <2>1, <2>2 DEF SemaphoresInStep
    <3>5. /\ Fetched' <= backup'.job /\ backup'.job <= main'.issued
          /\ main'.issued - worker'.job <= MaxOutstanding
      BY <1>2, <1>8, <2>2, <3>1, <3>2, <3>3, <3>4
    <3>6. /\ numBackup' = main'.issued - backup'.job - (IF backup'.pc = "exec" THEN 1 ELSE 0)
          /\ numWorker' = backup'.job - Fetched'
      <4> DEFINE busy == IF backup.pc = "exec" THEN 1 ELSE 0
      <4>1. /\ busy \in Int /\ numBackup = n - backup.job - busy
            /\ numWorker = backup.job - Fetched
        BY <3>4
      <4> HIDE DEF busy
      <4>2. /\ numBackup' = (n + 1) - backup.job - busy
            /\ numWorker' = backup.job - Fetched
        BY <1>2, <2>2, <3>3, <4>1, SMTT(60)
      <4> QED  BY <3>2, <3>3, <4>2 DEF busy
    <3> QED  BY <1>2, <1>8, <2>1, <2>2, <3>2, <3>3, <3>5, <3>6, SMTT(60) DEF SemaphoresInStep
  <2>4. ThreadsInStep'
    BY <1>2, <1>3, <1>4, <2>1 DEF ThreadsInStep
  <2> QED  BY <2>3, <2>4
<1>10. AnsweredInOrder'
  <2>1. result \in [JobNum -> {"none", "pending", "ok", "failed"}]
    BY <1>1 DEF TypeOK
  <2> QED
    BY <1>1, <1>2, <1>3, <1>4, <1>8, <2>1, SMTT(60) DEF AnsweredInOrder, JobNum
<1>11. RanksInv => StoredInStep'
  BY <1>1, <1>4, <1>8 DEF RanksInv, StoredInStep, Holding
<1>15. ASSUME RanksInv
       PROVE  KindsInStep'
  <2>1. KindsInStep
    BY <1>15 DEF RanksInv
  <2>2. n \notin saved
    BY <1>2, <1>15, SavedSeen
  <2>3. ASSUME NEW i \in 0 .. RingSize - 1, ring'[i] # NoQuery, ring'[i].id \in saved
        PROVE  ring'[i].kind = "write"
    <3>1. i # n % RingSize
      BY <1>1, <1>4, <1>5, <2>2, <2>3 DEF TypeOK
    <3>2. ring'[i] = ring[i]
      BY <1>1, <1>4, <3>1 DEF TypeOK
    <3> QED  BY <2>1, <2>3, <3>2 DEF KindsInStep
  <2>4. ASSUME backup.pc = "exec"
        PROVE  ring'[backup.job % RingSize] = backup.query
    <3>1. /\ backup.job \in Nat /\ backup.job < n
          /\ n - backup.job < RingSize /\ backup.job - n < RingSize
      <4>1. backup.job < n
        BY <1>1, <2>4 DEF SlotsInStep
      <4>2. Fetched <= backup.job
        BY <1>1 DEF SemaphoresInStep
      <4>3. backup.job \in Nat
        BY <1>1, Counters
      <4>4. MaxOutstanding < RingSize
        BY DEF SlotsSuffice
      <4> HIDE DEF n
      <4>5. /\ Fetched \in Nat /\ n - Fetched < MaxOutstanding
            /\ n \in Nat /\ RingSize \in Nat \ {0} /\ MaxOutstanding \in Nat
        BY <1>2, <1>8
      <4> QED  BY <4>1, <4>2, <4>3, <4>4, <4>5
    <3>2. backup.job % RingSize # n % RingSize
      BY <1>2, <3>1, SlotsApart
    <3>3. backup.job % RingSize \in 0 .. RingSize - 1
      BY <3>1, SlotType
    <3>4. ring'[backup.job % RingSize] = ring[backup.job % RingSize]
      BY <1>1, <1>4, <3>2, <3>3 DEF TypeOK
    <3> QED  BY <2>1, <2>4, <3>4 DEF KindsInStep
  <2> QED  BY <1>4, <2>1, <2>3, <2>4 DEF KindsInStep
<1>12. RanksInv => (RanksKept /\ RanksApart)'
  BY <1>4 DEF RanksInv, RanksKept, RanksApart
<1>13. RanksInv => ReportedRanked'
  BY <1>1, <1>4 DEF RanksInv, ReportedRanked, TypeOK
<1>16. PoolInv'
  BY <1>7, <1>9, <1>10, <1>14 DEF PoolInv
<1>17. RanksInv => RanksInv'
  BY <1>11, <1>12, <1>13, <1>15 DEF RanksInv
<1> QED  BY <1>16, <1>17

LEMMA MainStep ==
  ASSUME PoolInv, SlotsSuffice, MainNext
  PROVE  PoolInv' /\ (RanksInv => RanksInv')
<1> DEFINE B == Seq([kind : Kind, place : Target])
<1>1. /\ TypeOK /\ SlotsInStep /\ SemaphoresInStep /\ ThreadsInStep
      /\ AnsweredInOrder
  BY DEF PoolInv
<1>2. /\ main \in [pc : {"running", "stopping", "stopped"}, useSQL : BOOLEAN,
                   boot : B, issued : 0 .. MaxIssued]
  BY <1>1 DEF TypeOK
<1>3. main = [main EXCEPT !.boot = main.boot] /\ main.boot \in B
  BY <1>2
<1>4. [main EXCEPT !.issued = @ + 1]
        = [main EXCEPT !.issued = @ + 1, !.boot = main.boot]
  BY <1>2
<1>5. CASE RegisterDatabases
  <2>1. Head(main.boot) \in [kind : Kind, place : Target] /\ Tail(main.boot) \in B
    BY <1>3, <1>5, HeadTailProperties DEF RegisterDatabases
  <2>2. Head(main.boot).kind \in Kind /\ Head(main.boot).place \in Target
    BY <2>1
  <2>3. main' = [main EXCEPT !.issued = @ + 1, !.boot = Tail(main.boot)]
    BY <1>2, <1>5 DEF RegisterDatabases
  <2> QED  BY <1>5, <2>1, <2>2, <2>3, InsertStep DEF RegisterDatabases
<1>6. ASSUME NEW word \in MySql, ConAddSqlServer(word)
      PROVE  PoolInv' /\ (RanksInv => RanksInv')
  <2>1. (IF word = "w" THEN "add read" ELSE "add write") \in Kind /\ word \in Target
    BY DEF Kind, Target
  <2> QED  BY <1>3, <1>4, <1>6, <2>1, InsertStep DEF ConAddSqlServer
<1>7. CASE Execute \/ ExecuteWrite
  <2>1. "read" \in Kind /\ "write" \in Kind /\ "race" \in Target
    BY DEF Kind, Target
  <2> QED  BY <1>3, <1>4, <1>7, <2>1, InsertStep DEF Execute, ExecuteWrite
<1>8. CASE OnShutdown \/ ShutdownSeen
  <2>1. /\ UNCHANGED <<ring, numWorker, backup, worker, rows, result, mover, saved, unanswered>>
        /\ main'.issued = main.issued
        /\ \/ main.pc = "running" /\ main'.pc = "stopping" /\ shutdown' = TRUE
              /\ numBackup' = numBackup + 1
           \/ main.pc = "stopping" /\ main'.pc = "stopped" /\ shutdown = FALSE
              /\ shutdown' = FALSE /\ numBackup' = numBackup
    BY <1>2, <1>8 DEF OnShutdown, ShutdownSeen
  <2>2. main' \in [pc : {"running", "stopping", "stopped"}, useSQL : BOOLEAN,
                   boot : B, issued : 0 .. MaxIssued]
    <3> HIDE DEF B
    <3>2. CASE OnShutdown
      BY <1>2, <3>2 DEF OnShutdown
    <3>3. CASE ShutdownSeen
      BY <1>2, <3>3 DEF ShutdownSeen
    <3> QED  BY <1>8, <3>2, <3>3
  <2>3. TypeOK'
    <3>1. numBackup' \in Nat
      BY <1>1, <2>1, Counters
    <3>2. shutdown' \in BOOLEAN
      BY <2>1
    <3> QED  BY <1>1, <2>1, <2>2, <3>1, <3>2 DEF TypeOK
  <2>4. Fetched' = Fetched /\ (Holding' <=> Holding)
    BY <2>1 DEF Fetched, Holding
  <2>5. SlotsInStep' /\ (RanksInv => StoredInStep')
    BY <1>1, <2>1, <2>4 DEF SlotsInStep, RanksInv, StoredInStep, Holding
  <2>6. backup.pc \in {"wait", "exec", "exit"}
    BY <1>1 DEF TypeOK
  <2>7. main.pc = "running" => backup.pc # "exit" /\ worker.pc # "exit" /\ ~shutdown
    BY <1>1 DEF ThreadsInStep
  <2>8. SemaphoresInStep'
    BY <1>1, <2>1, <2>4, <2>7, Counters DEF SemaphoresInStep
  <2>9. ThreadsInStep'
    BY <1>1, <2>1, <2>7 DEF ThreadsInStep
  <2>10. AnsweredInOrder'
    BY <1>1, <2>1 DEF AnsweredInOrder
  <2>11. RanksInv => (KindsInStep /\ RanksKept /\ ReportedRanked /\ RanksApart)'
    BY <2>1 DEF RanksInv, KindsInStep, RanksKept, ReportedRanked, RanksApart
  <2> QED  BY <2>3, <2>5, <2>8, <2>9, <2>10, <2>11 DEF PoolInv, RanksInv
<1> QED  BY <1>5, <1>6, <1>7, <1>8 DEF MainNext

-----------------------------------------------------------------------------
(* The backup thread finds the query its JobNum names, or no query at all   *)
(* when there is none left.                                                 *)
LEMMA BackupSlot ==
  ASSUME PoolInv, SlotsSuffice, backup.pc = "wait", numBackup > 0
  PROVE  LET q == ring[backup.job % RingSize]
         IN  IF q = NoQuery THEN main.pc # "running" /\ backup.job = main.issued
             ELSE q \in Query /\ q.id = backup.job /\ backup.job < main.issued
<1> DEFINE i == backup.job % RingSize
           q == ring[i]
<1>1. TypeOK /\ SlotsInStep /\ SemaphoresInStep
  BY DEF PoolInv
<1>2. /\ backup.job \in Nat /\ main.issued \in Nat /\ Fetched \in Nat /\ RingSize \in Nat \ {0}
      /\ Fetched <= backup.job /\ backup.job <= main.issued
      /\ backup.job = main.issued => main.pc # "running"
  BY <1>1, Counters DEF SemaphoresInStep
<1>3. i \in 0 .. RingSize - 1
  BY <1>2, SlotType
<1>4. q \in Query \cup {NoQuery}
  BY <1>1, <1>3 DEF TypeOK
<1>5. CASE backup.job < main.issued
  <2>1. q.id = backup.job
    BY <1>1, <1>2, <1>5 DEF SlotsInStep
  <2> QED  BY <1>2, <1>4, <1>5, <2>1, NoQueryApart
<1>6. CASE backup.job = main.issued
  <2>1. ASSUME q # NoQuery PROVE FALSE
    <3> DEFINE j == q.id
    <3>1. j \in Fetched .. main.issued - 1 /\ (j % RingSize) = (backup.job % RingSize)
      BY <1>1, <1>3, <2>1 DEF SlotsInStep
    <3>2. backup.job - j < RingSize
      BY <1>1, <1>2, <1>6, <3>1, Counters DEF SemaphoresInStep, SlotsSuffice
    <3> HIDE DEF j
    <3>3. j \in Nat /\ j < backup.job
      BY <1>2, <1>6, <3>1
    <3>4. j = backup.job
      BY <1>2, <3>1, <3>2, <3>3, SlotsApart
    <3> QED  BY <1>2, <3>3, <3>4
  <2> QED  BY <1>2, <1>6, <2>1
<1> QED  BY <1>2, <1>5, <1>6

LEMMA BackupFetchStep ==
  ASSUME PoolInv, SlotsSuffice, BackupFetch
  PROVE  PoolInv' /\ (RanksInv => RanksInv')
<1> DEFINE q == ring[backup.job % RingSize]
           T == [pc : {"wait", "exec", "exit"}, job : Nat,
                 query : Query \cup {NoQuery}, db : BOOLEAN]
<1>1. /\ TypeOK /\ SlotsInStep /\ SemaphoresInStep /\ ThreadsInStep
      /\ AnsweredInOrder
  BY DEF PoolInv
<1>2. backup \in T /\ backup.pc = "wait" /\ numBackup > 0 /\ numBackup' = numBackup - 1
  BY <1>1 DEF TypeOK, BackupFetch, Signalled
<1>3. UNCHANGED <<main, ring, shutdown, worker, rows, result, mover, saved, unanswered>>
  BY DEF BackupFetch
<1>4. /\ Fetched' = Fetched /\ (Holding' <=> Holding)
      /\ worker.pc # "exit"
  BY <1>1, <1>2, <1>3 DEF Fetched, Holding, ThreadsInStep
<1>5. \/ /\ q = NoQuery /\ main.pc # "running" /\ backup.job = main.issued
         /\ backup' = [backup EXCEPT !.pc = "exit"] /\ numWorker' = numWorker + 1
      \/ /\ q \in Query /\ q.id = backup.job /\ backup.job < main.issued
         /\ backup' = [backup EXCEPT !.pc = "exec", !.query = q] /\ numWorker' = numWorker
  BY <1>2, BackupSlot DEF BackupFetch, PassOn
<1> HIDE DEF q
<1>6. /\ backup' \in T /\ backup'.job = backup.job
      /\ numBackup' \in Nat /\ numWorker' \in Nat
  <2>1. numBackup' \in Nat /\ numWorker' \in Nat
    BY <1>1, <1>2, <1>5, Counters
  <2>2. backup' \in T /\ backup'.job = backup.job
    BY <1>2, <1>5
  <2> QED  BY <2>1, <2>2
<1>7. TypeOK'
  BY <1>1, <1>3, <1>6 DEF TypeOK
<1>8. SlotsInStep'
  <2>1. backup'.pc = "exec" => backup'.query.id = backup'.job /\ backup'.job < main'.issued
    BY <1>2, <1>3, <1>5
  <2>2. Holding' => worker'.query.id = worker'.job
    BY <1>1, <1>3, <1>4 DEF SlotsInStep
  <2>3. ring' = ring /\ main'.issued = main.issued
    BY <1>3
  <2>4. SlotsInStep
    BY <1>1
  <2> QED  BY <1>4, <2>1, <2>2, <2>3, <2>4 DEF SlotsInStep
<1>9. SemaphoresInStep'
  <2>1. /\ main'.issued = main.issued /\ main'.pc = main.pc
        /\ worker'.pc = worker.pc /\ worker'.job = worker.job
    BY <1>3
  <2>2. \/ /\ main.pc # "running" /\ backup.job = main.issued
           /\ backup'.pc = "exit" /\ numWorker' = numWorker + 1
        \/ backup'.pc = "exec" /\ numWorker' = numWorker
    BY <1>2, <1>5
  <2>3. /\ Fetched <= backup.job /\ backup.job <= main.issued
        /\ main.issued - worker.job <= MaxOutstanding
        /\ numBackup = main.issued - backup.job + (IF main.pc = "running" THEN 0 ELSE 1)
        /\ numWorker = backup.job - Fetched
    BY <1>1, <1>2, Counters DEF SemaphoresInStep
  <2>4. /\ main.issued \in Nat /\ backup.job \in Nat /\ Fetched \in Nat
        /\ backup'.job = backup.job /\ numBackup' = numBackup - 1
    BY <1>1, <1>2, <1>6, Counters
  <2> HIDE DEF T
  <2>5. CASE backup'.pc = "exit"
    BY <1>4, <2>1, <2>2, <2>3, <2>4, <2>5 DEF SemaphoresInStep
  <2>6. CASE backup'.pc = "exec"
    BY <1>4, <2>1, <2>2, <2>3, <2>4, <2>6 DEF SemaphoresInStep
  <2> QED  BY <2>2, <2>5, <2>6
<1>10. ThreadsInStep'
  BY <1>1, <1>2, <1>3, <1>4, <1>5 DEF ThreadsInStep
<1>11. AnsweredInOrder' /\ (RanksInv => (RanksKept /\ ReportedRanked /\ RanksApart)')
  BY <1>1, <1>3 DEF RanksInv, AnsweredInOrder, RanksKept, ReportedRanked, RanksApart
<1>12. RanksInv => StoredInStep'
  BY <1>3, <1>4, <1>6 DEF RanksInv, StoredInStep
<1>13. ASSUME RanksInv
       PROVE  KindsInStep'
  <2>1. KindsInStep /\ ring' = ring /\ saved' = saved /\ worker' = worker
    BY <1>3, <1>13 DEF RanksInv
  <2>2. backup'.pc = "exec" => ring[backup'.job % RingSize] = backup'.query
    BY <1>2, <1>5, <1>6 DEF q
  <2> QED  BY <2>1, <2>2 DEF KindsInStep
<1> QED  BY <1>7, <1>8, <1>9, <1>10, <1>11, <1>12, <1>13 DEF PoolInv, RanksInv

(* The query in the worker's hands: pending, behind the backup thread, and  *)
(* the last one fetched.                                                    *)
LEMMA InHand ==
  ASSUME PoolInv, Holding
  PROVE  LET k == worker.job
         IN  /\ worker.query \in Query /\ worker.query.id = k /\ k \in JobNum
             /\ Fetched = k + 1 /\ k < backup.job /\ k < main.issued
<1>1. TypeOK /\ SlotsInStep /\ SemaphoresInStep
  BY DEF PoolInv
<1>2. worker.query.id = worker.job /\ worker.query \in Query \cup {NoQuery}
  BY <1>1 DEF SlotsInStep, TypeOK
<1>3. /\ Fetched = worker.job + 1 /\ Fetched <= backup.job /\ backup.job <= main.issued
      /\ worker.job \in Nat /\ backup.job \in Nat /\ main.issued \in Nat
  BY <1>1, Counters DEF SemaphoresInStep
<1>4. worker.query \in Query
  BY <1>2, <1>3, NoQueryApart
<1> QED  BY <1>2, <1>3, <1>4 DEF Query

LEMMA BackupExecStep ==
  ASSUME PoolInv, BackupExec
  PROVE  PoolInv' /\ (RanksInv => RanksInv')
<1> DEFINE q == backup.query
           T == [pc : {"wait", "exec", "exit"}, job : Nat,
                 query : Query \cup {NoQuery}, db : BOOLEAN]
<1>1. /\ TypeOK /\ SlotsInStep /\ SemaphoresInStep /\ ThreadsInStep
      /\ AnsweredInOrder
  BY DEF PoolInv
<1>2. backup \in T /\ backup.pc = "exec" /\ q.id = backup.job
  BY <1>1 DEF TypeOK, BackupExec, SlotsInStep
<1>3. UNCHANGED <<main, ring, numBackup, shutdown, worker, result, mover, unanswered>>
  BY DEF BackupExec
<1>4. /\ Fetched' = Fetched /\ (Holding' <=> Holding) /\ worker.pc # "exit"
  BY <1>1, <1>2, <1>3 DEF Fetched, Holding, ThreadsInStep
<1>5. /\ Fetched \in Nat /\ backup.job \in Nat /\ numBackup \in Nat /\ numWorker \in Nat
      /\ main.issued \in Nat /\ MaxIssued \in Nat /\ main.issued <= MaxIssued
      /\ worker.job \in Nat /\ worker.job <= Fetched /\ Fetched <= backup.job
      /\ backup.job <= main.issued /\ MaxOutstanding \in Nat
  BY <1>1, Counters DEF SemaphoresInStep
<1>6. q \in Query
  BY <1>2, <1>5, NoQueryApart
<1>7. /\ backup' \in T /\ backup'.job = backup.job + 1 /\ backup'.pc = "wait"
      /\ numWorker' = numWorker + 1
  <2> DEFINE d == backup.db \/ q.kind = "add backup"
  <2>1. backup'.pc = "wait" /\ backup'.job = backup.job + 1
    BY <1>2 DEF BackupExec
  <2>2. d \in BOOLEAN
    OBVIOUS
  <2>3. backup' = [backup EXCEPT !.pc = "wait", !.job = @ + 1, !.query = NoQuery, !.db = d]
    BY <1>2 DEF BackupExec
  <2> HIDE DEF d
  <2>4. backup' = [pc |-> "wait", job |-> backup.job + 1, query |-> NoQuery, db |-> d]
    BY <1>2, <2>3
  <2>5. backup' \in T
    BY <1>5, <2>2, <2>4
  <2>6. numWorker' = numWorker + 1
    BY DEF BackupExec, PassOn
  <2> QED  BY <2>1, <2>5, <2>6
<1>8. \/ rows' = [rows EXCEPT !["race_backup"] = @ \cup {q.id}] /\ saved' = saved \cup {q.id}
      \/ UNCHANGED <<rows, saved>>
  BY DEF BackupExec
<1>9. rows \in [Place -> SUBSET JobNum] /\ "race_backup" \in Place /\ "race_backup" \notin Final
  BY <1>1 DEF TypeOK, Place, Final
<1>10. /\ \A p \in Final : rows'[p] = rows[p] /\ p \in Place
       /\ \A p \in Place : rows[p] \subseteq rows'[p]
       /\ saved' \subseteq saved \cup rows'["race_backup"]
       /\ rows'["race_backup"] \subseteq rows["race_backup"] \cup {backup.job}
       /\ saved' \subseteq saved \cup {backup.job}
       /\ rows' \in [Place -> SUBSET JobNum] /\ saved' \subseteq JobNum
  <2>1. q.id \in JobNum /\ saved \subseteq JobNum
    BY <1>1, <1>6 DEF Query, TypeOK
  <2>2. \A p \in Final : p \in Place
    BY DEF Final
  <2> QED  BY <1>2, <1>8, <1>9, <2>1, <2>2
<1> HIDE DEF q
<1>11. TypeOK'
  <2>1. numWorker' \in Nat
    BY <1>5, <1>7
  <2> QED  BY <1>1, <1>3, <1>7, <1>10, <2>1 DEF TypeOK
<1>12. SlotsInStep'
  BY <1>1, <1>3, <1>4, <1>7 DEF SlotsInStep
<1>13. SemaphoresInStep'
  <2>1. numBackup = main.issued - backup.job - 1 + (IF main.pc = "running" THEN 0 ELSE 1)
    BY <1>1, <1>2, <1>5 DEF SemaphoresInStep
  <2>2. backup.job + 1 <= main.issued
    BY <1>1, <1>2, <1>5 DEF SlotsInStep
  <2> QED  BY <1>1, <1>2, <1>3, <1>4, <1>5, <1>7, <2>1, <2>2 DEF SemaphoresInStep
<1>14. ThreadsInStep'
  BY <1>1, <1>2, <1>3, <1>4, <1>7 DEF ThreadsInStep
<1>15. AnsweredInOrder' /\ (RanksInv => RanksApart')
  BY <1>1, <1>3, <1>10 DEF RanksInv, AnsweredInOrder, RanksApart
<1>16. RanksInv => RanksKept'
  BY <1>9, <1>10 DEF RanksInv, RanksKept
<1>17. ASSUME RanksInv
       PROVE  ReportedRanked'
  <2>1. ASSUME NEW id \in saved', result[id] = "ok"
        PROVE  \E p \in Final : id \in rows'[p]
    <3>1. id \in JobNum /\ id \in Int
      BY <1>10 DEF JobNum
    <3>2. id < worker.job
      BY <1>1, <3>1, <2>1, <1>5 DEF AnsweredInOrder
    <3>3. id \in saved
      BY <1>5, <1>10, <3>1, <3>2
    <3> QED  BY <1>10, <1>17, <2>1, <3>3 DEF RanksInv, ReportedRanked
  <2> QED  BY <1>3, <2>1 DEF ReportedRanked
<1>18. ASSUME RanksInv
       PROVE  StoredInStep'
  <2> USE <1>18 DEF RanksInv
  <2>1. worker.pc = "clear" => worker.query.id # backup.job
    BY <1>5, InHand DEF Holding
  <2>2. \A k \in rows'["race_backup"] : k < backup.job + 1
    BY <1>1, <1>5, <1>9, <1>10 DEF StoredInStep, JobNum
  <2> QED  BY <1>1, <1>3, <1>4, <1>7, <1>10, <2>1, <2>2 DEF StoredInStep
<1>19. ASSUME RanksInv
       PROVE  KindsInStep'
  <2>1. KindsInStep
    BY <1>19 DEF RanksInv
  <2>2. backup.job \in saved' => backup.query.kind = "write"
    <3>1. backup.job \notin saved
      BY <1>5, <1>19, SavedSeen
    <3> QED  BY <3>1 DEF BackupExec
  <2>3. ASSUME NEW i \in 0 .. RingSize - 1, ring[i] # NoQuery, ring[i].id \in saved'
        PROVE  ring[i].kind = "write"
    <3>1. CASE ring[i].id \in saved
      BY <2>1, <2>3, <3>1 DEF KindsInStep
    <3>2. CASE ring[i].id = backup.job
      <4>1. (ring[i].id % RingSize) = i
        BY <1>1, <2>3 DEF SlotsInStep
      <4>2. ring[i] = backup.query
        BY <1>2, <2>1, <3>2, <4>1 DEF KindsInStep
      <4> QED  BY <2>2, <2>3, <3>2, <4>2
    <3> QED  BY <1>10, <2>3, <3>1, <3>2
  <2>4. worker.pc = "exec" => worker.query.id # backup.job
    BY <1>5, InHand DEF Holding
  <2>5. worker.pc = "exec" /\ worker.query.id \in saved' => worker.query.kind = "write"
    BY <1>10, <2>1, <2>4 DEF KindsInStep
  <2> QED  BY <1>3, <1>7, <2>3, <2>5 DEF KindsInStep
<1>20. PoolInv'
  BY <1>11, <1>12, <1>13, <1>14, <1>15 DEF PoolInv
<1>21. RanksInv => RanksInv'
  BY <1>15, <1>16, <1>17, <1>18, <1>19 DEF RanksInv
<1> QED  BY <1>20, <1>21

-----------------------------------------------------------------------------
(* The worker thread.                                                       *)
WorkerType ==
    [pc : {"check", "wait", "exec", "settle", "clear", "exit"},
     job : Nat, query : Query \cup {NoQuery}, success : BOOLEAN,
     failMode : BOOLEAN, reads : BOOLEAN,
     write : Target \cup {"none"}, db : BOOLEAN]

LEMMA WorkerCheckStep ==
  ASSUME PoolInv, WorkerCheck
  PROVE  PoolInv' /\ (RanksInv => RanksInv')
<1> DEFINE f == worker.failMode /\ numWorker # 0
<1>1. /\ TypeOK /\ SlotsInStep /\ SemaphoresInStep /\ ThreadsInStep
      /\ AnsweredInOrder
  BY DEF PoolInv
<1>2. worker \in WorkerType /\ worker.pc = "check"
  BY <1>1 DEF TypeOK, WorkerType, WorkerCheck
<1>3. UNCHANGED <<main, ring, numBackup, numWorker, shutdown, backup, rows,
                  result, mover, saved, unanswered>>
  BY DEF WorkerCheck
<1>4. f \in BOOLEAN
  OBVIOUS
<1>5. worker' = [worker EXCEPT !.pc = "wait", !.failMode = f]
  BY <1>2 DEF WorkerCheck, WorkerType
<1> HIDE DEF f
<1>6. /\ worker' \in WorkerType /\ worker'.pc = "wait" /\ worker'.job = worker.job
      /\ worker'.query = worker.query
  BY <1>2, <1>4, <1>5 DEF WorkerType
<1>7. ~Holding /\ ~Holding' /\ Fetched' = Fetched
  BY <1>2, <1>6 DEF Holding, Fetched
<1>8. TypeOK'
  BY <1>1, <1>3, <1>6 DEF TypeOK, WorkerType
<1>9. SlotsInStep'
  BY <1>1, <1>3, <1>6, <1>7 DEF SlotsInStep
<1>10. SemaphoresInStep' /\ ThreadsInStep'
  BY <1>1, <1>2, <1>3, <1>6, <1>7 DEF SemaphoresInStep, ThreadsInStep
<1>11. AnsweredInOrder' /\ (RanksInv => (RanksKept /\ ReportedRanked /\ RanksApart)')
  BY <1>1, <1>3, <1>6 DEF RanksInv, AnsweredInOrder, RanksKept, ReportedRanked, RanksApart
<1>12. RanksInv => StoredInStep' /\ KindsInStep'
  BY <1>1, <1>3, <1>6, <1>7 DEF RanksInv, StoredInStep, KindsInStep
<1> QED  BY <1>8, <1>9, <1>10, <1>11, <1>12 DEF PoolInv, RanksInv

(* The worker, too, finds its query, or nothing when the backup thread has  *)
(* ended and every query is done.                                           *)
LEMMA WorkerSlot ==
  ASSUME PoolInv, SlotsSuffice, worker.pc = "wait", numWorker > 0
  PROVE  LET q == ring[worker.job % RingSize]
         IN  IF q = NoQuery THEN backup.pc = "exit" /\ worker.job = main.issued
             ELSE q \in Query /\ q.id = worker.job /\ worker.job < backup.job
<1> DEFINE i == worker.job % RingSize
           q == ring[i]
<1>1. TypeOK /\ SlotsInStep /\ SemaphoresInStep /\ ThreadsInStep
  BY DEF PoolInv
<1>2. /\ backup.job \in Nat /\ main.issued \in Nat /\ worker.job \in Nat /\ RingSize \in Nat \ {0}
      /\ Fetched = worker.job /\ worker.job <= backup.job /\ backup.job <= main.issued
      /\ main.issued - worker.job < RingSize
  BY <1>1, Counters DEF SemaphoresInStep, Holding, SlotsSuffice
<1>3. worker.job = backup.job => backup.pc = "exit"
  BY <1>1, <1>2, Counters DEF SemaphoresInStep
<1>4. backup.pc = "exit" => backup.job = main.issued
  BY <1>1 DEF ThreadsInStep
<1>5. i \in 0 .. RingSize - 1
  BY <1>2, SlotType
<1>6. q \in Query \cup {NoQuery}
  BY <1>1, <1>5 DEF TypeOK
<1>7. CASE worker.job < main.issued
  <2>1. q.id = worker.job
    BY <1>1, <1>2, <1>7 DEF SlotsInStep
  <2>2. worker.job < backup.job
    BY <1>2, <1>3, <1>4, <1>7
  <2> QED  BY <1>2, <1>6, <2>1, <2>2, NoQueryApart
<1>8. CASE worker.job = main.issued
  <2>1. ASSUME q # NoQuery PROVE FALSE
    <3>1. q.id \in Fetched .. main.issued - 1
      BY <1>1, <1>5, <2>1 DEF SlotsInStep
    <3> QED  BY <1>2, <1>8, <3>1
  <2> QED  BY <1>2, <1>3, <1>8, <2>1
<1> QED  BY <1>2, <1>7, <1>8

LEMMA WorkerFetchStep ==
  ASSUME PoolInv, SlotsSuffice, WorkerFetch
  PROVE  PoolInv' /\ (RanksInv => RanksInv')
<1> DEFINE i == worker.job % RingSize
           q == ring[i]
<1>1. /\ TypeOK /\ SlotsInStep /\ SemaphoresInStep /\ ThreadsInStep
      /\ AnsweredInOrder
  BY DEF PoolInv
<1>2. /\ worker \in WorkerType /\ worker.pc = "wait" /\ numWorker > 0
      /\ numWorker' = numWorker - 1 /\ ring' = [ring EXCEPT ![i] = NoQuery]
  BY <1>1 DEF TypeOK, WorkerType, WorkerFetch, Signalled
<1>3. UNCHANGED <<main, numBackup, backup, rows, result, mover, saved, unanswered>>
  BY DEF WorkerFetch
<1>4. /\ backup.job \in Nat /\ main.issued \in Nat /\ worker.job \in Nat
      /\ RingSize \in Nat \ {0} /\ numWorker \in Nat /\ numBackup \in Nat /\ MaxOutstanding \in Nat
      /\ Fetched = worker.job /\ worker.job <= backup.job /\ backup.job <= main.issued
      /\ main.issued - worker.job <= MaxOutstanding /\ MaxOutstanding < RingSize
      /\ ~Holding
  BY <1>1, <1>2, Counters DEF SemaphoresInStep, Holding, SlotsSuffice
<1>5. i \in 0 .. RingSize - 1
  BY <1>4, SlotType
<1>6. CASE q = NoQuery
  <2>1. backup.pc = "exit" /\ worker.job = main.issued
    BY <1>2, <1>6, WorkerSlot
  <2>2. worker' = [worker EXCEPT !.pc = "exit"] /\ shutdown' = FALSE
    BY <1>6 DEF WorkerFetch, IsLast
  <2>3. worker' \in WorkerType /\ worker'.pc = "exit" /\ worker'.job = worker.job
    BY <1>2, <2>2 DEF WorkerType
  <2>4. ring' = ring
    BY <1>1, <1>2, <1>5, <1>6 DEF TypeOK
  <2>5. ~Holding' /\ Fetched' = Fetched
    BY <1>4, <2>3 DEF Holding, Fetched
  <2>6. numWorker' \in Nat
    BY <1>2, <1>4
  <2>7. TypeOK'
    BY <1>1, <1>3, <2>2, <2>3, <2>4, <2>6 DEF TypeOK, WorkerType
  <2>8. SlotsInStep'
    BY <1>1, <1>3, <2>4, <2>5 DEF SlotsInStep
  <2>9. SemaphoresInStep'
    <3>2. worker.pc = "wait" /\ numWorker' = numWorker - 1 /\ SemaphoresInStep
      BY <1>1, <1>2
    <3>1. numWorker = backup.job - Fetched + 1 /\ numWorker' = backup.job - Fetched
      BY <1>4, <2>1, <3>2 DEF SemaphoresInStep
    <3> QED  BY <1>1, <1>3, <1>4, <2>1, <2>3, <2>5, <3>1 DEF SemaphoresInStep
  <2>10. ThreadsInStep'
    BY <1>1, <1>3, <2>1, <2>2, <2>3 DEF ThreadsInStep
  <2>11. AnsweredInOrder' /\ (RanksInv => (RanksKept /\ ReportedRanked /\ RanksApart)')
    BY <1>1, <1>3, <2>3 DEF RanksInv, AnsweredInOrder, RanksKept, ReportedRanked, RanksApart
  <2>12. RanksInv => StoredInStep' /\ KindsInStep'
    BY <1>1, <1>3, <2>3, <2>4, <2>5 DEF RanksInv, StoredInStep, KindsInStep
  <2> QED  BY <2>7, <2>8, <2>9, <2>10, <2>11, <2>12 DEF PoolInv, RanksInv
<1>7. CASE q # NoQuery
  <2>1. q \in Query /\ q.id = worker.job /\ worker.job < backup.job
    BY <1>2, <1>7, WorkerSlot
  <2>2. worker' = [worker EXCEPT !.pc = "exec", !.query = q] /\ shutdown' = shutdown
    BY <1>7 DEF WorkerFetch, IsLast
  <2>3. /\ worker' \in WorkerType /\ worker'.pc = "exec" /\ worker'.job = worker.job
        /\ worker'.query = q
    <3> HIDE DEF q
    <3> QED  BY <1>2, <2>1, <2>2 DEF WorkerType
  <2>4. Holding' /\ Fetched' = worker.job + 1
    BY <1>4, <2>3 DEF Holding, Fetched
  <2>5. numWorker' \in Nat /\ ring' \in [0 .. RingSize - 1 -> Query \cup {NoQuery}]
    BY <1>1, <1>2, <1>4, <1>5 DEF TypeOK
  <2>6. TypeOK'
    BY <1>1, <1>3, <2>2, <2>3, <2>5 DEF TypeOK, WorkerType
  <2>7. SlotsInStep'
    <3>1. ASSUME NEW j \in (Fetched .. main.issued - 1)'
          PROVE  ring'[j % RingSize].id = j
      <4>1. j \in Nat /\ worker.job < j /\ j < main.issued
        BY <1>3, <1>4, <2>4
      <4>2. j - worker.job < RingSize /\ worker.job - j < RingSize
        BY <1>4, <4>1
      <4>3. j % RingSize # i
        BY <1>4, <4>1, <4>2, SlotsApart
      <4>4. j % RingSize \in 0 .. RingSize - 1
        BY <4>1, SlotType
      <4>5. ring[j % RingSize].id = j
        BY <1>1, <1>4, <4>1 DEF SlotsInStep
      <4>6. ring'[j % RingSize] = ring[j % RingSize]
        BY <1>1, <1>2, <4>3, <4>4 DEF TypeOK
      <4> QED  BY <4>5, <4>6
    <3>2. ASSUME NEW s \in 0 .. RingSize - 1, ring'[s] # NoQuery
          PROVE  ring'[s].id \in (Fetched .. main.issued - 1)' /\ ring'[s].id % RingSize = s
      <4>1. s # i
        BY <1>1, <1>2, <1>5, <3>2 DEF TypeOK
      <4>2. ring'[s] = ring[s]
        BY <1>1, <1>2, <1>5, <4>1 DEF TypeOK
      <4>3. ring[s].id \in Fetched .. main.issued - 1 /\ (ring[s].id % RingSize) = s
        BY <1>1, <3>2, <4>2 DEF SlotsInStep
      <4>4. ring[s].id # worker.job
        BY <4>1, <4>3
      <4> QED  BY <1>3, <1>4, <2>4, <4>2, <4>3, <4>4
    <3>3. worker'.query.id = worker'.job
      BY <2>1, <2>3
    <3>4. backup'.pc = "exec" => backup'.query.id = backup'.job /\ backup'.job < main'.issued
      BY <1>1, <1>3 DEF SlotsInStep
    <3> QED  BY <3>1, <3>2, <3>3, <3>4 DEF SlotsInStep
  <2>8. SemaphoresInStep'
    <3>1. /\ numWorker = backup.job - worker.job + (IF backup.pc = "exit" THEN 1 ELSE 0)
          /\ numBackup = main.issued - backup.job - (IF backup.pc = "exec" THEN 1 ELSE 0)
                   + (IF main.pc = "running" \/ backup.pc = "exit" THEN 0 ELSE 1)
      BY <1>1, <1>2, <1>4 DEF SemaphoresInStep
    <3>2. main' = main /\ backup' = backup /\ numBackup' = numBackup
      BY <1>3
    <3>3. worker'.pc = "exec" /\ worker'.job = worker.job
      BY <2>3
    <3> QED  BY <1>2, <1>4, <2>1, <2>4, <3>1, <3>2, <3>3 DEF SemaphoresInStep
  <2>9. ThreadsInStep'
    BY <1>1, <1>2, <1>3, <2>2, <2>3 DEF ThreadsInStep
  <2>10. AnsweredInOrder' /\ (RanksInv => (RanksKept /\ ReportedRanked /\ RanksApart)')
    BY <1>1, <1>3, <2>3 DEF RanksInv, AnsweredInOrder, RanksKept, ReportedRanked, RanksApart
  <2>11. ASSUME RanksInv
         PROVE  StoredInStep'
    <3> USE <2>11 DEF RanksInv
    <3>1. \A p \in Final : \A k \in rows[p] : k < worker.job /\ k < worker.job + 1
      <4>1. \A p \in Final : \A k \in rows[p] : k < worker.job /\ k \in Int
        BY <1>1, <1>4 DEF StoredInStep, TypeOK, JobNum, Final
      <4> QED  BY <1>4, <4>1
    <3>2. \A p \in Final : worker'.query.id \notin rows[p]
      BY <1>4, <2>1, <2>3, <3>1
    <3> QED  BY <1>1, <1>3, <2>3, <2>4, <3>1, <3>2 DEF StoredInStep
  <2>12. ASSUME RanksInv
         PROVE  KindsInStep'
    <3>1. KindsInStep
      BY <2>12 DEF RanksInv
    <3>2. worker'.pc = "exec" /\ worker'.query.id \in saved => worker'.query.kind = "write"
      BY <1>5, <1>7, <2>3, <3>1 DEF KindsInStep
    <3>3. ASSUME NEW s \in 0 .. RingSize - 1, ring'[s] # NoQuery, ring'[s].id \in saved
          PROVE  ring'[s].kind = "write"
      <4>1. s # i
        BY <1>1, <1>2, <1>5, <3>3 DEF TypeOK
      <4>2. ring'[s] = ring[s]
        BY <1>1, <1>2, <1>5, <4>1 DEF TypeOK
      <4> QED  BY <3>1, <3>3, <4>2 DEF KindsInStep
    <3>4. ASSUME backup.pc = "exec"
          PROVE  ring'[backup.job % RingSize] = backup.query
      <4>1. backup.job - worker.job < RingSize /\ worker.job - backup.job < RingSize
        BY <1>4, <2>1
      <4>2. backup.job % RingSize # i
        BY <1>4, <2>1, <4>1, SlotsApart
      <4>3. backup.job % RingSize \in 0 .. RingSize - 1
        BY <1>4, SlotType
      <4>4. ring'[backup.job % RingSize] = ring[backup.job % RingSize]
        BY <1>1, <1>2, <4>2, <4>3 DEF TypeOK
      <4> QED  BY <3>1, <3>4, <4>4 DEF KindsInStep
    <3> QED  BY <1>3, <3>2, <3>3, <3>4 DEF KindsInStep
  <2>13. PoolInv'
    BY <2>6, <2>7, <2>8, <2>9, <2>10 DEF PoolInv
  <2>14. RanksInv => RanksInv'
    BY <2>10, <2>11, <2>12 DEF RanksInv
  <2> QED  BY <2>13, <2>14
<1> QED  BY <1>6, <1>7

(* What ending a job does to the threads, whatever becomes of the ranks.    *)
LEMMA CompleteStep ==
  ASSUME PoolInv, Holding, NEW w \in WorkerType, NEW success \in BOOLEAN,
         w.query = worker.query, w.job = worker.job, Complete(w, success),
         UNCHANGED <<main, ring, numBackup, numWorker, shutdown, backup, mover>>
  PROVE  /\ worker' \in WorkerType
         /\ result' \in [JobNum -> {"none", "pending", "ok", "failed"}]
         /\ result' = [result EXCEPT ![worker.job] = IF success THEN "ok" ELSE "failed"]
         /\ worker'.pc = "check" /\ Fetched' = Fetched
         /\ SlotsInStep' /\ SemaphoresInStep' /\ ThreadsInStep' /\ AnsweredInOrder'
<1> DEFINE k == worker.job
<1>1. /\ TypeOK /\ SlotsInStep /\ SemaphoresInStep /\ ThreadsInStep /\ AnsweredInOrder
  BY DEF PoolInv
<1>2. /\ worker.query \in Query /\ worker.query.id = k /\ k \in JobNum
      /\ Fetched = k + 1 /\ k < backup.job /\ k < main.issued
  BY InHand
<1>3. k \in Nat /\ main.issued \in Nat /\ backup.job \in Nat /\ MaxIssued \in Nat /\ MaxOutstanding \in Nat
  BY <1>1, Counters
<1>4. /\ worker' = [w EXCEPT !.pc = "check", !.job = @ + 1, !.query = NoQuery, !.success = FALSE]
      /\ result' = [result EXCEPT ![k] = IF success THEN "ok" ELSE "failed"]
  BY <1>2 DEF Complete
<1>5. /\ worker'.pc = "check" /\ worker'.job = k + 1 /\ worker'.query = NoQuery
      /\ worker' = [pc |-> "check", job |-> k + 1, query |-> NoQuery, success |-> FALSE,
                    failMode |-> w.failMode, reads |-> w.reads, write |-> w.write, db |-> w.db]
  BY <1>4 DEF WorkerType
<1>6. worker' \in WorkerType
  BY <1>3, <1>5 DEF WorkerType
<1>7. result' \in [JobNum -> {"none", "pending", "ok", "failed"}]
  BY <1>1, <1>4 DEF TypeOK
<1>8. ~Holding' /\ Fetched' = Fetched
  BY <1>2, <1>3, <1>5 DEF Holding, Fetched
<1>9. SlotsInStep'
  BY <1>1, <1>8 DEF SlotsInStep
<1>10. worker.pc # "exit"
  BY DEF Holding
<1>11. SemaphoresInStep'
  BY <1>1, <1>2, <1>3, <1>5, <1>8, <1>10 DEF SemaphoresInStep
<1>12. ThreadsInStep'
  BY <1>1, <1>5, <1>10 DEF ThreadsInStep
<1>13. AnsweredInOrder'
  <2>1. ASSUME NEW id \in JobNum
        PROVE  result'[id] \in IF id < k + 1 THEN {"ok", "failed"}
                               ELSE IF id < main.issued THEN {"pending"} ELSE {"none"}
    <3>1. id \in Int
      BY DEF JobNum
    <3>2. CASE id = k
      BY <1>1, <1>2, <1>3, <1>4, <3>2 DEF TypeOK
    <3>3. CASE id # k
      <4>1. result'[id] = result[id]
        BY <1>1, <1>4, <3>3 DEF TypeOK
      <4> QED  BY <1>1, <1>3, <3>1, <3>3, <4>1 DEF AnsweredInOrder
    <3> QED  BY <3>2, <3>3
  <2> QED  BY <1>5, <2>1 DEF AnsweredInOrder
<1> QED  BY <1>4, <1>5, <1>6, <1>7, <1>8, <1>9, <1>11, <1>12, <1>13

LEMMA CompletePool ==
  ASSUME PoolInv, Holding, NEW w \in WorkerType, NEW success \in BOOLEAN,
         w.query = worker.query, w.job = worker.job, Complete(w, success),
         UNCHANGED <<main, ring, numBackup, numWorker, shutdown, backup, mover>>,
         rows' \in [Place -> SUBSET JobNum], saved' \subseteq saved \cup {worker.job},
         unanswered' \subseteq JobNum
  PROVE  PoolInv'
<1>1. /\ TypeOK /\ worker.job \in JobNum
  BY InHand DEF PoolInv
<1>2. /\ worker' \in WorkerType
      /\ result' \in [JobNum -> {"none", "pending", "ok", "failed"}]
      /\ SlotsInStep' /\ SemaphoresInStep' /\ ThreadsInStep' /\ AnsweredInOrder'
  BY CompleteStep
<1>3. saved' \subseteq JobNum
  BY <1>1 DEF TypeOK
<1>4. TypeOK'
  BY <1>1, <1>2, <1>3 DEF TypeOK, WorkerType
<1> QED  BY <1>2, <1>4 DEF PoolInv

(* Ending a job keeps the ranks in step if only the rank in the worker's    *)
(* hands has moved and it is where it may be.                               *)
LEMMA CompleteRanks ==
  ASSUME PoolInv, RanksInv, Holding, NEW w \in WorkerType, NEW success \in BOOLEAN,
         w.query = worker.query, w.job = worker.job, Complete(w, success),
         UNCHANGED <<main, ring, numBackup, numWorker, shutdown, backup, mover>>,
         rows' \in [Place -> SUBSET JobNum],
         \A p \in Place : \A id \in JobNum :
           id # worker.job => (id \in rows'[p] <=> id \in rows[p]),
         saved' \subseteq saved \cup {worker.job},
         unanswered \subseteq unanswered', unanswered' \subseteq JobNum,
         worker.job \in saved' => \E p \in Place : worker.job \in rows'[p],
         success /\ worker.job \in saved' => \E p \in Final : worker.job \in rows'[p],
         \/ worker.job \in unanswered'
         \/ \A p, q \in Final : worker.job \in rows'[p] /\ worker.job \in rows'[q] => p = q
  PROVE  RanksInv'
<1> DEFINE k == worker.job
<1>1. /\ TypeOK /\ SlotsInStep /\ StoredInStep /\ KindsInStep
      /\ RanksKept /\ ReportedRanked /\ RanksApart
  BY DEF PoolInv, RanksInv
<1>2. /\ k \in JobNum /\ Fetched = k + 1 /\ k < backup.job
  BY InHand
<1>3. k \in Nat /\ backup.job \in Nat /\ MaxIssued \in Nat /\ Final \subseteq Place
  BY <1>1, Counters DEF Final
<1>4. /\ worker' \in WorkerType
      /\ result' \in [JobNum -> {"none", "pending", "ok", "failed"}]
      /\ result' = [result EXCEPT ![k] = IF success THEN "ok" ELSE "failed"]
      /\ worker'.pc = "check" /\ Fetched' = Fetched
      /\ SlotsInStep' /\ SemaphoresInStep' /\ ThreadsInStep' /\ AnsweredInOrder'
  BY CompleteStep
<1>6. KindsInStep'
  <2>1. ASSUME NEW i \in 0 .. RingSize - 1, ring[i] # NoQuery, ring[i].id \in saved'
        PROVE  ring[i].kind = "write"
    <3>1. ring[i].id \in Fetched .. main.issued - 1
      BY <1>1, <2>1 DEF SlotsInStep
    <3>2. ring[i].id # k
      BY <1>2, <1>3, <3>1
    <3> QED  BY <1>1, <2>1, <3>2 DEF KindsInStep
  <2> QED  BY <1>1, <1>4, <2>1 DEF KindsInStep
<1>7. StoredInStep'
  <2>1. ASSUME NEW p \in Final, NEW id \in rows'[p]
        PROVE  id < Fetched
    <3>1. id \in JobNum /\ id \in Int
      BY <1>3 DEF JobNum
    <3>2. CASE id = k
      BY <1>2, <1>3, <3>2
    <3>3. CASE id # k
      BY <1>1, <1>3, <3>1, <3>3 DEF StoredInStep
    <3> QED  BY <3>2, <3>3
  <2>2. ASSUME NEW id \in rows'["race_backup"]
        PROVE  id < backup.job
    <3>1. id \in JobNum /\ "race_backup" \in Place
      BY DEF Place
    <3>2. CASE id = k
      BY <1>2, <3>2
    <3>3. CASE id # k
      BY <1>1, <3>1, <3>3 DEF StoredInStep
    <3> QED  BY <3>2, <3>3
  <2> QED  BY <1>1, <1>4, <2>1, <2>2 DEF StoredInStep
<1>8. RanksKept'
  <2>1. ASSUME NEW id \in saved'
        PROVE  \E p \in Place : id \in rows'[p]
    <3>1. CASE id = k
      BY <3>1
    <3>2. CASE id # k
      <4>1. id \in saved /\ id \in JobNum
        BY <1>1, <3>2 DEF TypeOK
      <4>2. PICK p \in Place : id \in rows[p]
        BY <1>1, <4>1 DEF RanksKept
      <4> QED  BY <3>2, <4>1, <4>2
    <3> QED  BY <3>1, <3>2
  <2> QED  BY <2>1 DEF RanksKept
<1>9. ReportedRanked'
  <2>1. ASSUME NEW id \in saved', result'[id] = "ok"
        PROVE  \E p \in Final : id \in rows'[p]
    <3>1. CASE id = k
      <4>1. success
        BY <1>1, <1>2, <1>4, <2>1, <3>1 DEF TypeOK
      <4> QED  BY <2>1, <3>1, <4>1
    <3>2. CASE id # k
      <4>1. id \in saved /\ id \in JobNum
        BY <1>1, <3>2 DEF TypeOK
      <4>2. result[id] = "ok"
        BY <1>1, <1>4, <2>1, <3>2, <4>1 DEF TypeOK
      <4>3. PICK p \in Final : id \in rows[p]
        BY <1>1, <4>1, <4>2 DEF ReportedRanked
      <4> QED  BY <1>3, <3>2, <4>1, <4>3
    <3> QED  BY <3>1, <3>2
  <2> QED  BY <2>1 DEF ReportedRanked
<1>10. RanksApart'
  <2>1. ASSUME NEW id \in JobNum \ unanswered', NEW p \in Final, NEW q \in Final,
               id \in rows'[p], id \in rows'[q]
        PROVE  p = q
    <3>1. CASE id = k
      BY <2>1, <3>1
    <3>2. CASE id # k
      <4>1. id \in JobNum \ unanswered /\ id \in rows[p] /\ id \in rows[q]
        BY <1>3, <2>1, <3>2
      <4> QED  BY <1>1, <4>1 DEF RanksApart
    <3> QED  BY <3>1, <3>2
  <2> QED  BY <2>1 DEF RanksApart
<1> QED  BY <1>6, <1>7, <1>8, <1>9, <1>10 DEF RanksInv

(* A registration and a read touch no table.                                *)
LEMMA UntouchedStep ==
  ASSUME PoolInv, WorkerRegister \/ WorkerRead
  PROVE  PoolInv' /\ (RanksInv => RanksInv')
<1> DEFINE k == worker.job
<1>1. TypeOK
  BY DEF PoolInv
<1>2. /\ worker.pc = "exec" /\ Holding /\ worker.query.kind # "write"
      /\ UNCHANGED <<main, ring, numBackup, numWorker, shutdown, backup, rows,
                     mover, saved, unanswered>>
  BY DEF WorkerRegister, WorkerRead, Holding
<1>3. worker \in WorkerType /\ worker.query \in Query /\ worker.query.id = k
  BY <1>1, <1>2, InHand DEF TypeOK, WorkerType
<1>4. RanksInv => k \notin saved /\ \A p \in Final : k \notin rows[p]
  BY <1>2, <1>3 DEF RanksInv, KindsInStep, StoredInStep
<1>5. ASSUME NEW w \in WorkerType, NEW success \in BOOLEAN,
             w.query = worker.query, w.job = worker.job, Complete(w, success)
      PROVE  PoolInv' /\ (RanksInv => RanksInv')
  <2>1. rows' \in [Place -> SUBSET JobNum] /\ unanswered' \subseteq JobNum
    BY <1>1, <1>2 DEF TypeOK
  <2>2. PoolInv'
    BY <1>2, <1>5, <2>1, CompletePool
  <2>3. RanksInv => RanksInv'
    BY <1>2, <1>4, <1>5, <2>1, CompleteRanks
  <2> QED  BY <2>2, <2>3
<1>6. CASE WorkerRegister
  <2> DEFINE reads == worker.reads \/ worker.query.kind = "add read"
             write == IF worker.query.kind = "add write" THEN worker.query.place ELSE worker.write
             db == worker.db \/ worker.query.kind = "add backup"
             w == [worker EXCEPT !.reads = reads, !.write = write, !.db = db]
  <2>1. /\ reads \in BOOLEAN /\ db \in BOOLEAN /\ write \in Target \cup {"none"}
        /\ TRUE \in BOOLEAN
    BY <1>3 DEF WorkerType, Query
  <2>2. Complete(w, TRUE)
    <3>1. [worker EXCEPT !.reads = @ \/ worker.query.kind = "add read",
                         !.write = IF worker.query.kind = "add write"
                                   THEN worker.query.place ELSE @,
                         !.db = @ \/ worker.query.kind = "add backup"] = w
      BY <1>3 DEF WorkerType
    <3> HIDE DEF w
    <3> QED  BY <1>6, <3>1 DEF WorkerRegister
  <2> HIDE DEF reads, write, db
  <2>3. w \in WorkerType /\ w.query = worker.query /\ w.job = worker.job
    BY <1>3, <2>1 DEF WorkerType
  <2> HIDE DEF w
  <2> QED  BY <1>5, <2>1, <2>2, <2>3
<1>7. CASE WorkerRead
  <2>1. PICK success \in BOOLEAN : Complete([worker EXCEPT !.failMode = @ \/ ~success], success)
    BY <1>7 DEF WorkerRead
  <2> DEFINE f == worker.failMode \/ ~success
             w == [worker EXCEPT !.failMode = f]
  <2>2. f \in BOOLEAN
    OBVIOUS
  <2>3. [worker EXCEPT !.failMode = @ \/ ~success] = w
    BY <1>3 DEF WorkerType
  <2> HIDE DEF f
  <2>4. w \in WorkerType /\ w.query = worker.query /\ w.job = worker.job
    BY <1>3, <2>2 DEF WorkerType
  <2> HIDE DEF w
  <2> QED  BY <1>5, <2>1, <2>3, <2>4
<1> QED  BY <1>6, <1>7

(* NORMAL: the rank is in no final place yet, and in one at most after it.  *)
LEMMA WorkerNormalStep ==
  ASSUME PoolInv, WorkerNormal
  PROVE  PoolInv' /\ (RanksInv => RanksInv')
<1> DEFINE k == worker.job
<1>1. TypeOK /\ SlotsInStep /\ SemaphoresInStep /\ ThreadsInStep /\ AnsweredInOrder
  BY DEF PoolInv
<1>2. /\ worker.pc = "exec" /\ Holding /\ worker.query.kind = "write"
      /\ UNCHANGED <<main, ring, numBackup, numWorker, shutdown, backup, mover>>
  BY DEF WorkerNormal, Holding
<1>3. /\ worker \in WorkerType /\ worker.query \in Query /\ worker.query.id = k
      /\ k \in JobNum /\ Fetched = k + 1 /\ k < backup.job /\ k < main.issued
  BY <1>1, <1>2, InHand DEF TypeOK, WorkerType
<1>4. RanksInv => \A p \in Final : k \notin rows[p]
  BY <1>2, <1>3 DEF RanksInv, StoredInStep
<1>5. PICK stored \in BOOLEAN, success \in BOOLEAN :
        /\ stored => worker.write # "none"
        /\ success => stored
        /\ rows' = IF stored THEN [rows EXCEPT ![worker.write] = @ \cup {k}] ELSE rows
        /\ saved' = IF stored THEN saved \cup {k} ELSE saved
        /\ unanswered' = IF stored /\ ~success THEN unanswered \cup {k} ELSE unanswered
        /\ LET w == [worker EXCEPT !.failMode = @ \/ ~success]
           IN  IF worker.db
               THEN /\ worker' = [w EXCEPT !.pc = "settle", !.success = success]
                    /\ UNCHANGED result
               ELSE Complete(w, success)
  BY <1>3, Zenon DEF WorkerNormal
<1> DEFINE f == worker.failMode \/ ~success
           w == [worker EXCEPT !.failMode = f]
<1>6. f \in BOOLEAN /\ [worker EXCEPT !.failMode = @ \/ ~success] = w
  BY <1>3 DEF WorkerType
<1> HIDE DEF f
<1>7. w \in WorkerType /\ w.query = worker.query /\ w.job = worker.job
  BY <1>3, <1>6 DEF WorkerType
<1>8. stored => worker.write \in Final /\ worker.write \in Place
  BY <1>3, <1>5 DEF WorkerType, Final, Place, Target, MySql
<1>9. /\ rows' \in [Place -> SUBSET JobNum] /\ saved' \subseteq saved \cup {k}
      /\ unanswered \subseteq unanswered' /\ unanswered' \subseteq JobNum
      /\ saved \subseteq JobNum
  BY <1>1, <1>3, <1>5, <1>8 DEF TypeOK
<1>10. \A p \in Place : \A id \in JobNum : id # k => (id \in rows'[p] <=> id \in rows[p])
  BY <1>1, <1>5, <1>8 DEF TypeOK
<1>11. \A p \in Place : k \in rows'[p] <=> k \in rows[p] \/ (stored /\ p = worker.write)
  BY <1>1, <1>5, <1>8 DEF TypeOK
<1>12. /\ stored => k \in rows'[worker.write]
       /\ ~stored => saved' = saved
  BY <1>5, <1>8, <1>11
<1>13. RanksInv => (k \in saved' => \E p \in Place : k \in rows'[p])
  BY <1>8, <1>11, <1>12 DEF RanksInv, RanksKept
<1>14. RanksInv => \A p \in Final : k \in rows'[p] => stored /\ p = worker.write
  BY <1>4, <1>11 DEF Final
<1>15. RanksInv => \A p, q \in Final : k \in rows'[p] /\ k \in rows'[q] => p = q
  BY <1>14
<1>16. CASE ~worker.db
  <2>1. Complete(w, success)
    BY <1>5, <1>6, <1>16
  <2>2. success => \E p \in Final : k \in rows'[p]
    BY <1>5, <1>8, <1>12
  <2> HIDE DEF w
  <2>3. PoolInv'
    BY <1>2, <1>7, <1>9, <2>1, CompletePool
  <2>4. RanksInv => RanksInv'
    BY <1>2, <1>7, <1>9, <1>10, <1>13, <1>15, <2>1, <2>2, CompleteRanks
  <2> QED  BY <2>3, <2>4
<1>17. CASE worker.db
  <2>1. worker' = [w EXCEPT !.pc = "settle", !.success = success] /\ result' = result
    BY <1>5, <1>6, <1>17
  <2>2. /\ worker' \in WorkerType /\ worker'.pc = "settle" /\ worker'.job = k
        /\ worker'.query = worker.query /\ worker'.success = success
    BY <1>7, <2>1 DEF WorkerType
  <2>3. Holding' /\ Fetched' = Fetched
    BY <1>2, <2>2 DEF Holding, Fetched
  <2>4. TypeOK'
    BY <1>1, <1>2, <1>3, <1>9, <2>1, <2>2 DEF TypeOK, WorkerType
  <2>5. SlotsInStep'
    BY <1>1, <1>2, <1>3, <2>2, <2>3 DEF SlotsInStep
  <2>6. SemaphoresInStep' /\ ThreadsInStep' /\ AnsweredInOrder'
    BY <1>1, <1>2, <2>1, <2>2, <2>3 DEF SemaphoresInStep, ThreadsInStep, AnsweredInOrder
  <2>7. PoolInv'
    BY <2>4, <2>5, <2>6 DEF PoolInv
  <2>8. ASSUME RanksInv
        PROVE  RanksInv'
    <3> USE <2>8
    <3>1. KindsInStep /\ StoredInStep /\ RanksKept /\ ReportedRanked /\ RanksApart
      BY DEF RanksInv
    <3>2. KindsInStep'
      <4>1. ASSUME NEW i \in 0 .. RingSize - 1, ring[i] # NoQuery, ring[i].id \in saved'
            PROVE  ring[i].kind = "write"
        <5>1. ring[i].id \in Fetched .. main.issued - 1
          BY <1>1, <4>1 DEF SlotsInStep
        <5>2. ring[i].id # k
          BY <1>1, <1>3, <5>1, Counters
        <5> QED  BY <1>9, <3>1, <4>1, <5>2 DEF KindsInStep
      <4> QED  BY <1>2, <2>2, <3>1, <4>1 DEF KindsInStep
    <3>3. StoredInStep'
      <4>1. ASSUME NEW p \in Final, NEW id \in rows'[p]
            PROVE  id < Fetched
        <5>1. p \in Place /\ id \in JobNum /\ k \in Int
          BY <1>3, <1>9 DEF Final, JobNum
        <5>2. CASE id = k
          BY <1>3, <5>1, <5>2
        <5>3. CASE id # k
          BY <1>10, <3>1, <5>1, <5>3 DEF StoredInStep
        <5> QED  BY <5>2, <5>3
      <4>2. rows'["race_backup"] = rows["race_backup"]
        <5>1. "race_backup" \in Place /\ (stored => worker.write # "race_backup")
          BY <1>8 DEF Final, Place
        <5> QED  BY <1>1, <1>5, <5>1 DEF TypeOK
      <4>3. IF success THEN \E p \in Final : k \in rows'[p]
            ELSE k \in unanswered' \/ \A p \in Final : k \notin rows'[p]
        BY <1>5, <1>8, <1>12, <1>14
      <4> QED  BY <1>2, <1>3, <2>2, <2>3, <3>1, <4>1, <4>2, <4>3 DEF StoredInStep
    <3>4. RanksKept'
      <4>1. ASSUME NEW id \in saved', id # k
            PROVE  \E p \in Place : id \in rows'[p]
        BY <1>9, <1>10, <3>1, <4>1 DEF RanksKept
      <4> QED  BY <1>13, <4>1 DEF RanksKept
    <3>5. ReportedRanked'
      <4>1. ASSUME NEW id \in saved', result[id] = "ok"
            PROVE  \E p \in Final : id \in rows'[p]
        <5>1. id # k
          BY <1>1, <1>3, <4>1, Counters DEF AnsweredInOrder
        <5>2. id \in saved /\ id \in JobNum /\ Final \subseteq Place
          BY <1>9, <5>1 DEF Final
        <5> QED  BY <1>10, <3>1, <4>1, <5>1, <5>2 DEF ReportedRanked
      <4> QED  BY <2>1, <4>1 DEF ReportedRanked
    <3>6. RanksApart'
      <4>1. ASSUME NEW id \in JobNum \ unanswered', NEW p \in Final, NEW q \in Final,
                   id \in rows'[p], id \in rows'[q]
            PROVE  p = q
        <5>1. CASE id = k
          BY <1>15, <4>1, <5>1
        <5>2. CASE id # k
          BY <1>9, <1>10, <3>1, <4>1, <5>2 DEF RanksApart, Final
        <5> QED  BY <5>1, <5>2
      <4> QED  BY <4>1 DEF RanksApart
    <3> QED  BY <3>2, <3>3, <3>4, <3>5, <3>6 DEF RanksInv
  <2> QED  BY <2>7, <2>8
<1>18. worker.db \in BOOLEAN
  BY <1>3 DEF WorkerType
<1> QED  BY <1>16, <1>17, <1>18

(* Removing the copy of a rank touches no final place.                      *)
LEMMA RemoveRows ==
  ASSUME TypeOK, NEW id \in JobNum
  PROVE  /\ Remove(rows, id) \in [Place -> SUBSET JobNum]
         /\ \A p \in Final : Remove(rows, id)[p] = rows[p]
         /\ \A p \in Place : Remove(rows, id)[p] \subseteq rows[p]
         /\ \A p \in Place : \A k \in JobNum :
              k # id => (k \in Remove(rows, id)[p] <=> k \in rows[p])
BY DEF TypeOK, Remove, Final, Place

(* NORMAL_FAILED copies the rank into the table race, if there is a copy.   *)
LEMMA CopyRows ==
  ASSUME TypeOK, NEW id \in JobNum
  PROVE  /\ Copy(rows, id) \in [Place -> SUBSET JobNum]
         /\ \A p \in Place : p # "race" => Copy(rows, id)[p] = rows[p]
         /\ \A p \in Place : rows[p] \subseteq Copy(rows, id)[p]
         /\ id \in rows["race_backup"] => id \in Copy(rows, id)["race"]
         /\ \A p \in Place : \A k \in JobNum :
              k # id => (k \in Copy(rows, id)[p] <=> k \in rows[p])
<1>1. "race" \in Place /\ "race_backup" \in Place /\ rows \in [Place -> SUBSET JobNum]
  BY DEF TypeOK, Place, Target
<1>2. Copy(rows, id) = [rows EXCEPT !["race"] = rows["race"] \cup (rows["race_backup"] \cap {id})]
  BY <1>1 DEF Copy
<1> DEFINE new == rows["race"] \cup (rows["race_backup"] \cap {id})
<1>3. /\ new \in SUBSET JobNum /\ rows["race"] \subseteq new
      /\ id \in rows["race_backup"] => id \in new
      /\ \A k \in JobNum : k # id => (k \in new <=> k \in rows["race"])
  BY <1>1
<1> HIDE DEF new
<1>4. Copy(rows, id) = [rows EXCEPT !["race"] = new]
  BY <1>2 DEF new
<1> QED  BY <1>1, <1>3, <1>4

(* A job that ends with the rank where it was, or with its copy removed.    *)
LEMMA RemovePool ==
  ASSUME PoolInv, Holding, NEW success \in BOOLEAN, Complete(worker, success),
         UNCHANGED <<main, ring, numBackup, numWorker, shutdown, backup, mover,
                     saved, unanswered>>,
         rows' = Remove(rows, worker.job) \/ rows' = rows
  PROVE  PoolInv'
<1>1. TypeOK
  BY DEF PoolInv
<1>2. worker \in WorkerType /\ worker.job \in JobNum
  BY <1>1, InHand DEF TypeOK, WorkerType
<1>3. rows' \in [Place -> SUBSET JobNum]
  <2>1. CASE rows' = Remove(rows, worker.job)
    BY <1>1, <1>2, <2>1, RemoveRows
  <2>2. CASE rows' = rows
    BY <1>1, <2>2 DEF TypeOK
  <2> QED  BY <2>1, <2>2
<1>4. saved' \subseteq saved \cup {worker.job} /\ unanswered' \subseteq JobNum
  BY <1>1 DEF TypeOK
<1> QED  BY <1>2, <1>3, <1>4, CompletePool

(* The copy may go once the rank is in a final place, and a job may be      *)
(* reported as done.                                                        *)
LEMMA RemoveRanks ==
  ASSUME PoolInv, RanksInv, Holding, NEW success \in BOOLEAN, Complete(worker, success),
         UNCHANGED <<main, ring, numBackup, numWorker, shutdown, backup, mover,
                     saved, unanswered>>,
         LET stored == \E p \in Final : worker.job \in rows[p]
         IN  \/ rows' = Remove(rows, worker.job) /\ (worker.job \in saved => stored)
             \/ rows' = rows /\ (success /\ worker.job \in saved => stored)
  PROVE  RanksInv'
<1> DEFINE k == worker.job
<1>1. TypeOK /\ RanksKept /\ RanksApart
  BY DEF PoolInv, RanksInv
<1>2. worker \in WorkerType /\ k \in JobNum
  BY <1>1, InHand DEF TypeOK, WorkerType
<1>3. \A p \in Final : rows'[p] = rows[p]
  BY <1>1, <1>2, RemoveRows
<1>4. /\ rows' \in [Place -> SUBSET JobNum]
      /\ \A p \in Place : \A id \in JobNum : id # k => (id \in rows'[p] <=> id \in rows[p])
  <2>1. CASE rows' = Remove(rows, k)
    BY <1>1, <1>2, <2>1, RemoveRows
  <2>2. CASE rows' = rows
    BY <1>1, <2>2 DEF TypeOK
  <2> QED  BY <2>1, <2>2
<1>5. /\ k \in saved' => \E p \in Place : k \in rows'[p]
      /\ success /\ k \in saved' => \E p \in Final : k \in rows'[p]
  BY <1>1, <1>3 DEF RanksKept, Final
<1>6. k \in unanswered' \/ \A p, q \in Final : k \in rows'[p] /\ k \in rows'[q] => p = q
  BY <1>1, <1>2, <1>3 DEF RanksApart
<1>7. saved' \subseteq saved \cup {k} /\ unanswered \subseteq unanswered' /\ unanswered' \subseteq JobNum
  BY <1>1 DEF TypeOK
<1> QED  BY <1>2, <1>4, <1>5, <1>6, <1>7, CompleteRanks

LEMMA WorkerClearStep ==
  ASSUME PoolInv, WorkerClear
  PROVE  PoolInv' /\ (RanksInv => RanksInv')
<1>1. /\ worker.pc = "clear" /\ Holding
      /\ UNCHANGED <<main, ring, numBackup, numWorker, shutdown, backup, mover,
                     saved, unanswered>>
  BY DEF WorkerClear, Holding
<1>2. worker.query.id = worker.job
  BY <1>1, InHand
<1>3. PICK done \in BOOLEAN :
        /\ rows' = IF done THEN Remove(rows, worker.job) ELSE rows
        /\ Complete(worker, done)
  BY <1>2 DEF WorkerClear
<1>4. PoolInv'
  BY <1>1, <1>3, RemovePool
<1>5. ASSUME RanksInv
      PROVE  RanksInv'
  <2>1. worker.job \in saved => \E p \in Final : worker.job \in rows[p]
    BY <1>1, <1>2, <1>5 DEF RanksInv, StoredInStep
  <2> QED  BY <1>1, <1>3, <1>5, <2>1, RemoveRanks
<1> QED  BY <1>4, <1>5

LEMMA WorkerSettleStep ==
  ASSUME PoolInv, WorkerSettle
  PROVE  PoolInv' /\ (RanksInv => RanksInv')
<1> DEFINE k == worker.job
<1>1. TypeOK /\ SlotsInStep /\ SemaphoresInStep /\ ThreadsInStep /\ AnsweredInOrder
  BY DEF PoolInv
<1>2. /\ worker.pc = "settle" /\ Holding
      /\ UNCHANGED <<main, ring, numBackup, numWorker, shutdown, backup, mover,
                     saved, unanswered>>
  BY DEF WorkerSettle, Holding
<1>3. /\ worker \in WorkerType /\ worker.query \in Query /\ worker.query.id = k
      /\ k \in JobNum /\ Fetched = k + 1 /\ k < backup.job /\ k < main.issued
  BY <1>1, <1>2, InHand DEF TypeOK, WorkerType
<1>4. PICK done \in BOOLEAN :
        IF worker.success
        THEN /\ rows' = IF done THEN Remove(rows, k) ELSE rows
             /\ Complete(worker, TRUE)
        ELSE IF done
        THEN /\ rows' = Copy(rows, k)
             /\ worker' = [worker EXCEPT !.pc = "clear"]
             /\ UNCHANGED result
        ELSE /\ UNCHANGED rows
             /\ Complete(worker, FALSE)
  BY <1>3, Zenon DEF WorkerSettle, Succeeded
<1>5. CASE worker.success
  <2>1. PoolInv'
    BY <1>2, <1>4, <1>5, RemovePool
  <2>2. RanksInv => \E p \in Final : k \in rows[p]
    BY <1>2, <1>3, <1>5 DEF RanksInv, StoredInStep
  <2>3. RanksInv => RanksInv'
    BY <1>2, <1>4, <1>5, <2>2, RemoveRanks
  <2> QED  BY <2>1, <2>3
<1>6. CASE ~worker.success /\ ~done
  <2>1. PoolInv'
    BY <1>2, <1>4, <1>6, RemovePool
  <2>2. RanksInv => RanksInv'
    BY <1>2, <1>4, <1>6, RemoveRanks
  <2> QED  BY <2>1, <2>2
<1>7. CASE ~worker.success /\ done
  <2>1. /\ rows' = Copy(rows, k) /\ worker' = [worker EXCEPT !.pc = "clear"]
        /\ result' = result
    BY <1>4, <1>7
  <2>2. /\ rows' \in [Place -> SUBSET JobNum]
        /\ \A p \in Place : p # "race" => rows'[p] = rows[p]
        /\ \A p \in Place : rows[p] \subseteq rows'[p]
        /\ k \in rows["race_backup"] => k \in rows'["race"]
        /\ \A p \in Place : \A id \in JobNum : id # k => (id \in rows'[p] <=> id \in rows[p])
    BY <1>1, <1>3, <2>1, CopyRows
  <2>3. /\ worker' \in WorkerType /\ worker'.pc = "clear" /\ worker'.job = k
        /\ worker'.query = worker.query
    BY <1>3, <2>1 DEF WorkerType
  <2>4. /\ Holding' /\ Fetched' = Fetched
        /\ Final \subseteq Place /\ "race" \in Final /\ "race_backup" \in Place \ Final
    BY <1>2, <2>3 DEF Holding, Fetched, Final, Place, Target
  <2>5. TypeOK'
    BY <1>1, <1>2, <2>1, <2>2, <2>3 DEF TypeOK, WorkerType
  <2>6. SlotsInStep'
    BY <1>1, <1>2, <1>3, <2>3, <2>4 DEF SlotsInStep
  <2>7. SemaphoresInStep' /\ ThreadsInStep' /\ AnsweredInOrder'
    BY <1>1, <1>2, <2>1, <2>3, <2>4 DEF SemaphoresInStep, ThreadsInStep, AnsweredInOrder
  <2>8. PoolInv'
    BY <2>5, <2>6, <2>7 DEF PoolInv
  <2>9. ASSUME RanksInv
        PROVE  RanksInv'
    <3> USE <2>9
    <3>1. KindsInStep /\ StoredInStep /\ RanksKept /\ ReportedRanked /\ RanksApart
      BY DEF RanksInv
    <3>2. KindsInStep'
      BY <1>2, <2>3, <3>1 DEF KindsInStep
    <3>3. k \in unanswered \/ \A p \in Final : k \notin rows[p]
      BY <1>2, <1>3, <1>7, <3>1 DEF StoredInStep
    <3>4. StoredInStep'
      <4>1. ASSUME NEW p \in Final, NEW id \in rows'[p]
            PROVE  id < Fetched
        <5>1. p \in Place /\ id \in JobNum /\ k \in Int
          BY <1>3, <2>2, <2>4 DEF JobNum
        <5>2. CASE id = k
          BY <1>3, <5>1, <5>2
        <5>3. CASE id # k
          BY <2>2, <3>1, <5>1, <5>3 DEF StoredInStep
        <5> QED  BY <5>2, <5>3
      <4>2. rows'["race_backup"] = rows["race_backup"]
        BY <2>2, <2>4
      <4>3. k \in saved => \E p \in Final : k \in rows'[p]
        <5>1. SUFFICES ASSUME k \in saved PROVE \E p \in Final : k \in rows'[p]
          OBVIOUS
        <5>2. PICK p \in Place : k \in rows[p]
          BY <3>1, <5>1 DEF RanksKept
        <5>3. CASE p \in Final
          BY <2>2, <5>2, <5>3
        <5>4. CASE p = "race_backup"
          BY <2>2, <2>4, <5>2, <5>4
        <5> QED  BY <5>3, <5>4 DEF Final
      <4>4. k \in unanswered \/ \A p \in Final \ {"race"} : k \notin rows'[p]
        BY <2>2, <2>4, <3>3
      <4> QED  BY <1>2, <1>3, <2>3, <2>4, <3>1, <4>1, <4>2, <4>3, <4>4 DEF StoredInStep
    <3>5. RanksKept' /\ ReportedRanked'
      BY <1>2, <2>1, <2>2, <2>4, <3>1 DEF RanksKept, ReportedRanked
    <3>6. RanksApart'
      <4>1. ASSUME NEW id \in JobNum \ unanswered, NEW p \in Final, NEW q \in Final,
                   id \in rows'[p], id \in rows'[q]
            PROVE  p = q
        <5>1. CASE id = k
          BY <2>2, <2>4, <3>3, <4>1, <5>1
        <5>2. CASE id # k
          BY <2>2, <2>4, <3>1, <4>1, <5>2 DEF RanksApart
        <5> QED  BY <5>1, <5>2
      <4> QED  BY <1>2, <4>1 DEF RanksApart
    <3> QED  BY <3>2, <3>4, <3>5, <3>6 DEF RanksInv
  <2> QED  BY <2>8, <2>9
<1> QED  BY <1>3, <1>5, <1>6, <1>7 DEF WorkerType

-----------------------------------------------------------------------------
(* The script.  It writes to the file only, so the threads stay in step.    *)
LEMMA ScriptStep ==
  ASSUME PoolInv, DumpRace \/ DumpBackup \/ Delete
  PROVE  PoolInv'
<1>1. /\ TypeOK /\ SlotsInStep /\ SemaphoresInStep /\ ThreadsInStep
      /\ AnsweredInOrder
  BY DEF PoolInv
<1>2. UNCHANGED <<main, ring, numBackup, numWorker, shutdown, backup, worker,
                  result, saved, unanswered>>
  BY DEF DumpRace, DumpBackup, Delete
<1>3. /\ backup.job \in Nat /\ main.issued \in Nat /\ MaxIssued \in Nat
      /\ backup.job <= main.issued /\ main.issued <= MaxIssued
  BY <1>1, Counters DEF SemaphoresInStep
<1>4. /\ rows \in [Place -> SUBSET JobNum]
      /\ "race" \in Place /\ "race_backup" \in Place /\ "moved" \in Place
  BY <1>1 DEF TypeOK, Place, Target
<1>5. /\ rows' \in [Place -> SUBSET JobNum]
      /\ mover' \in [pc : {"off", "idle", "dump", "delete"}, old : 0 .. MaxIssued]
  <2>1. CASE DumpRace
    BY <1>3, <1>4, <2>1 DEF DumpRace
  <2>2. CASE DumpBackup
    <3>1. PICK old \in Dates :
            /\ mover' = [pc |-> "delete", old |-> old]
            /\ rows' = [rows EXCEPT !["moved"] =
                          @ \cup {id \in rows["race_backup"] : id < old}]
      BY <2>2 DEF DumpBackup
    <3>2. old \in 0 .. MaxIssued
      BY <1>3 DEF Dates
    <3> QED  BY <1>4, <3>1, <3>2
  <2>3. CASE Delete
    BY <1>3, <1>4, <2>3 DEF Delete
  <2> QED  BY <2>1, <2>2, <2>3
<1>6. TypeOK'
  BY <1>1, <1>2, <1>5 DEF TypeOK
<1>7. Fetched' = Fetched /\ (Holding' <=> Holding)
  BY <1>2 DEF Fetched, Holding
<1>8. SlotsInStep' /\ SemaphoresInStep' /\ ThreadsInStep' /\ AnsweredInOrder'
  BY <1>1, <1>2, <1>7 DEF SlotsInStep, SemaphoresInStep, ThreadsInStep, AnsweredInOrder
<1> QED  BY <1>6, <1>8 DEF PoolInv

LEMMA StepPool ==
  ASSUME SlotsSuffice, PoolInv, [Next]_vars
  PROVE  PoolInv' /\ (Unscripted /\ RanksInv => RanksInv')
<1>1. CASE MainNext
  BY <1>1, MainStep
<1>2. CASE BackupNext
  BY <1>2, BackupFetchStep, BackupExecStep DEF BackupNext
<1>3. CASE WorkerNext
  BY <1>3, WorkerCheckStep, WorkerFetchStep, UntouchedStep,
     WorkerNormalStep, WorkerSettleStep, WorkerClearStep DEF WorkerNext
<1>4. CASE DumpRace \/ DumpBackup \/ Delete
  <2>1. ~Unscripted
    BY <1>4 DEF Unscripted, DumpRace, DumpBackup, Delete
  <2> QED  BY <1>4, <2>1, ScriptStep
<1>5. CASE UNCHANGED vars
  <2>1. PoolInv'
    <3>1. TypeOK' /\ ThreadsInStep' /\ AnsweredInOrder'
      BY <1>5 DEF vars, PoolInv, TypeOK, ThreadsInStep, AnsweredInOrder
    <3>2. Fetched' = Fetched /\ (Holding' <=> Holding)
      BY <1>5 DEF vars, Fetched, Holding
    <3>3. SlotsInStep' /\ SemaphoresInStep'
      BY <1>5, <3>2 DEF vars, PoolInv, SlotsInStep, SemaphoresInStep
    <3> QED  BY <3>1, <3>3 DEF PoolInv
  <2>2. RanksInv => RanksInv'
    BY <1>5 DEF vars, RanksInv, KindsInStep, StoredInStep, RanksKept, ReportedRanked,
       RanksApart, Fetched, Holding
  <2> QED  BY <2>1, <2>2
<1> QED  BY <1>1, <1>2, <1>3, <1>4, <1>5 DEF Next

(* What the threads do to the copies and to what the script has moved:      *)
(* nothing, but that the backup thread adds the copy of its own query and   *)
(* the worker removes copies.                                               *)
CopiesGrowAtJob ==
    /\ mover' = mover
    /\ backup'.job \in Nat /\ backup'.job >= backup.job
    /\ rows["moved"] \subseteq rows'["moved"]
    /\ rows'["race_backup"] \subseteq rows["race_backup"] \cup {backup.job}

LEMMA ThreadsCopies ==
  ASSUME PoolInv, MainNext \/ BackupNext \/ WorkerNext
  PROVE  CopiesGrowAtJob
<1>1. /\ TypeOK /\ backup.job \in Nat
  BY Counters DEF PoolInv
<1>2. /\ rows \in [Place -> SUBSET JobNum]
      /\ "race" \in Place /\ "race_backup" \in Place /\ "moved" \in Place
      /\ Target \subseteq Place /\ "moved" \notin Target /\ "race_backup" \notin Target
  BY <1>1 DEF TypeOK, Place, Target, MySql
<1>3. ASSUME mover' = mover, backup' = backup, rows' = rows
      PROVE  CopiesGrowAtJob
  BY <1>1, <1>3 DEF CopiesGrowAtJob
<1>4. CASE MainNext
  BY <1>3, <1>4 DEF MainNext, RegisterDatabases, ConAddSqlServer, Execute, ExecuteWrite,
     Insert, OnShutdown, ShutdownSeen
<1>5. CASE BackupFetch
  <2>1. mover' = mover /\ rows' = rows /\ backup'.job = backup.job
    BY <1>1, <1>5 DEF BackupFetch, TypeOK
  <2> QED  BY <1>1, <2>1 DEF CopiesGrowAtJob
<1>6. CASE BackupExec
  <2>1. backup.query.id = backup.job
    BY <1>6 DEF BackupExec, PoolInv, SlotsInStep
  <2>2. \/ rows' = [rows EXCEPT !["race_backup"] = @ \cup {backup.job}]
        \/ rows' = rows
    BY <1>6, <2>1 DEF BackupExec
  <2>3. mover' = mover /\ backup'.job = backup.job + 1
    BY <1>1, <1>6 DEF BackupExec, TypeOK
  <2>4. /\ rows["moved"] \subseteq rows'["moved"]
        /\ rows'["race_backup"] \subseteq rows["race_backup"] \cup {backup.job}
    BY <1>2, <2>2
  <2> QED  BY <1>1, <2>3, <2>4 DEF CopiesGrowAtJob
<1>7. CASE WorkerCheck \/ WorkerFetch \/ WorkerRegister \/ WorkerRead
  BY <1>3, <1>7 DEF WorkerCheck, WorkerFetch, WorkerRegister, WorkerRead
<1>8. ASSUME mover' = mover, backup' = backup,
             rows["moved"] \subseteq rows'["moved"],
             rows'["race_backup"] \subseteq rows["race_backup"]
      PROVE  CopiesGrowAtJob
  BY <1>1, <1>8 DEF CopiesGrowAtJob
<1>9. CASE WorkerNormal
  <2>1. PICK stored \in BOOLEAN :
          /\ stored => worker.write # "none"
          /\ rows' = IF stored THEN [rows EXCEPT ![worker.write] = @ \cup {worker.query.id}]
                     ELSE rows
    BY <1>9, Zenon DEF WorkerNormal
  <2>2. worker.write \in Target \cup {"none"}
    BY <1>1 DEF TypeOK
  <2>3. /\ rows["moved"] \subseteq rows'["moved"]
        /\ rows'["race_backup"] \subseteq rows["race_backup"]
    BY <1>2, <2>1, <2>2
  <2> QED  BY <1>8, <1>9, <2>3 DEF WorkerNormal
<1>10. CASE WorkerSettle \/ WorkerClear
  <2>1. Holding /\ mover' = mover /\ backup' = backup
    BY <1>10 DEF WorkerSettle, WorkerClear, Holding
  <2>2. worker.query.id \in JobNum
    BY <2>1, InHand
  <2>3. \/ rows' = Remove(rows, worker.query.id)
        \/ rows' = Copy(rows, worker.query.id)
        \/ rows' = rows
    BY <1>10 DEF WorkerSettle, WorkerClear
  <2>4. /\ Remove(rows, worker.query.id)["race_backup"] \subseteq rows["race_backup"]
        /\ Remove(rows, worker.query.id)["moved"] = rows["moved"]
    BY <1>1, <1>2, <2>2, RemoveRows DEF Final
  <2>5. /\ Copy(rows, worker.query.id)["race_backup"] = rows["race_backup"]
        /\ Copy(rows, worker.query.id)["moved"] = rows["moved"]
    BY <1>1, <1>2, <2>2, CopyRows
  <2> QED  BY <1>8, <2>1, <2>3, <2>4, <2>5
<1> QED  BY <1>4, <1>5, <1>6, <1>7, <1>9, <1>10 DEF BackupNext, WorkerNext

(* What the script is about to delete stays moved.                          *)
LEMMA StepDump ==
  ASSUME PoolInv, DumpInStep, [Next]_vars
  PROVE  DumpInStep'
<1>1. /\ TypeOK /\ backup.job \in Nat
  BY Counters DEF PoolInv
<1>2. /\ mover.old \in Nat /\ rows \in [Place -> SUBSET JobNum]
      /\ "race_backup" \in Place /\ "moved" \in Place
  BY <1>1 DEF TypeOK, Place
<1>3. CASE MainNext \/ BackupNext \/ WorkerNext
  <2>1. /\ mover' = mover
        /\ backup'.job \in Nat /\ backup'.job >= backup.job
        /\ rows["moved"] \subseteq rows'["moved"]
        /\ rows'["race_backup"] \subseteq rows["race_backup"] \cup {backup.job}
    BY <1>3, ThreadsCopies DEF CopiesGrowAtJob
  <2>2. mover.pc = "delete" => mover.old <= backup'.job
    BY <1>1, <1>2, <2>1 DEF DumpInStep
  <2>3. ASSUME mover.pc = "delete", NEW id \in rows'["race_backup"], id < mover.old
        PROVE  id \in rows'["moved"]
    <3>1. mover.old <= backup.job
      BY <2>3 DEF DumpInStep
    <3>2. id \in rows["race_backup"]
      BY <1>1, <1>2, <2>1, <2>3, <3>1
    <3> QED  BY <2>1, <2>3, <3>2 DEF DumpInStep
  <2> QED  BY <2>1, <2>2, <2>3 DEF DumpInStep
<1>4. CASE DumpRace
  BY <1>4 DEF DumpRace, DumpInStep
<1>5. CASE DumpBackup
  <2>1. PICK old \in Dates :
          /\ mover' = [pc |-> "delete", old |-> old]
          /\ rows' = [rows EXCEPT !["moved"] =
                        @ \cup {id \in rows["race_backup"] : id < old}]
    BY <1>5 DEF DumpBackup
  <2>2. backup' = backup /\ old <= backup.job
    BY <1>1, <1>5, <2>1 DEF DumpBackup, Dates
  <2>3. /\ rows'["race_backup"] = rows["race_backup"]
        /\ \A id \in rows["race_backup"] : id < old => id \in rows'["moved"]
    BY <1>2, <2>1
  <2> QED  BY <2>1, <2>2, <2>3 DEF DumpInStep
<1>6. CASE Delete
  BY <1>6 DEF Delete, DumpInStep
<1>7. CASE UNCHANGED vars
  BY <1>7 DEF vars, DumpInStep
<1> QED  BY <1>3, <1>4, <1>5, <1>6, <1>7 DEF Next

(* Nobody starts the script while the server runs that did not mean to.     *)
LEMMA ScriptStays ==
  ASSUME [Next]_vars
  PROVE  Unscripted' = Unscripted
<1>1. CASE MainNext
  BY <1>1 DEF MainNext, RegisterDatabases, ConAddSqlServer, Execute, ExecuteWrite, Insert,
     OnShutdown, ShutdownSeen, Unscripted
<1>2. CASE BackupNext
  BY <1>2 DEF BackupNext, BackupFetch, BackupExec, Unscripted
<1>3. CASE WorkerNext
  BY <1>3 DEF WorkerNext, WorkerCheck, WorkerFetch, WorkerRegister, WorkerRead,
     WorkerNormal, WorkerSettle, WorkerClear, Unscripted
<1>4. CASE DumpRace \/ DumpBackup \/ Delete
  BY <1>4 DEF DumpRace, DumpBackup, Delete, Unscripted
<1>5. CASE UNCHANGED vars
  BY <1>5 DEF vars, Unscripted
<1> QED  BY <1>1, <1>2, <1>3, <1>4, <1>5 DEF Next

(* The invariant holds in every state, with fewer queries outstanding than  *)
(* the ring has slots.                                                      *)
THEOREM Invariance == SlotsSuffice => (Spec => []IInv)
<1>1. ASSUME SlotsSuffice PROVE Spec => []IInv
  <2>1. Init => IInv
    BY InitIInv
  <2>2. IInv /\ [Next]_vars => IInv'
    BY <1>1, StepPool, StepDump, ScriptStays DEF IInv
  <2> QED  BY <2>1, <2>2, PTL DEF Spec
<1> QED  BY <1>1

(* The variables keep their shapes, and with them the bounds.               *)
THEOREM TypeCorrectness == SlotsSuffice => (Spec => []TypeOK)
<1>1. IInv => TypeOK
  BY DEF IInv, PoolInv
<1> QED  BY <1>1, Invariance, PTL

(* A rank that some statement has stored is in some database, whichever     *)
(* statements failed since and whenever the server is killed.               *)
THEOREM Durability == SlotsSuffice => (Spec => []NoRankLost)
<1>1. IInv => NoRankLost
  BY DEF IInv, RanksInv, NoRankLost
<1> QED  BY <1>1, Invariance, PTL

(* A write of a stored rank is reported as done only with the rank in a     *)
(* final place.                                                             *)
THEOREM Finality == SlotsSuffice => (Spec => []ReportedIsFinal)
<1>1. IInv => ReportedIsFinal
  BY DEF IInv, RanksInv, ReportedIsFinal
<1> QED  BY <1>1, Invariance, PTL

(* Retries and the copy in the file do not rank a player twice.             *)
THEOREM Uniqueness == SlotsSuffice => (Spec => []RankedOnce)
<1>1. IInv => RankedOnce
  BY DEF IInv, RanksInv, RankedOnce
<1> QED  BY <1>1, Invariance, PTL

(* OnShutdown returns to a main thread no query of which is pending, also   *)
(* when the script runs.                                                    *)
THEOREM Draining == SlotsSuffice => (Spec => []ShutdownAfterAll)
<1>1. IInv => ShutdownAfterAll
  <2>1. SUFFICES ASSUME PoolInv, main.pc = "stopped", NEW id \in JobNum
                 PROVE  result[id] # "pending"
    BY DEF ShutdownAfterAll, IInv
  <2>2. worker.job = main.issued
    BY <2>1 DEF PoolInv, ThreadsInStep
  <2> QED  BY <2>1, <2>2 DEF PoolInv, AnsweredInOrder
<1> QED  BY <1>1, Invariance, PTL

(* The script deletes no copy that it has not moved before, whatever the    *)
(* threads do between the dump and the deletion.                            *)
THEOREM CopiesAreMoved == SlotsSuffice => (Spec => CopiesMovedFirst)
<1>1. ASSUME IInv, [Next]_vars
      PROVE  mover.pc = "delete" /\ mover'.pc = "idle" =>
               rows["race_backup"] \ rows'["race_backup"] \subseteq rows["moved"]
  <2>1. SUFFICES ASSUME mover.pc = "delete", mover'.pc = "idle",
                        NEW id \in rows["race_backup"], id \notin rows'["race_backup"]
                 PROVE  id \in rows["moved"]
    OBVIOUS
  <2>2. mover' # mover
    BY <2>1
  <2>3. ~(MainNext \/ BackupNext \/ WorkerNext) /\ ~UNCHANGED vars
    BY <1>1, <2>2, ThreadsCopies DEF IInv, CopiesGrowAtJob, vars
  <2>4. Delete
    BY <1>1, <2>1, <2>3 DEF Next, DumpRace, DumpBackup
  <2>5. /\ rows \in [Place -> SUBSET JobNum] /\ "race_backup" \in Place
        /\ mover.old \in Nat /\ id \in Int
    BY <1>1, <2>1 DEF IInv, PoolInv, TypeOK, Place, JobNum
  <2>6. id < mover.old
    BY <2>1, <2>4, <2>5 DEF Delete
  <2> QED  BY <1>1, <2>1, <2>6 DEF IInv, DumpInStep
<1>2. IInv /\ [Next]_vars => [mover.pc = "delete" /\ mover'.pc = "idle" =>
                                rows["race_backup"] \ rows'["race_backup"] \subseteq rows["moved"]]_vars
  BY <1>1
<1> QED  BY <1>2, Invariance, PTL DEF Spec, CopiesMovedFirst
=============================================================================
