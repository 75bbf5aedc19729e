----------------------------- MODULE JobsProofs -----------------------------
(***************************************************************************)
(* What holds of module Jobs for every set of processes, every choice of   *)
(* operations and every bound: the exclusion that LocalLock gives, the     *)
(* order of the three records of a successful backup, and what prune may   *)
(* take away.                                                              *)
(***************************************************************************)
EXTENDS Jobs, FiniteSetTheorems, WellFoundedInduction, TLAPS

\* The half of the inductive invariant that is about processes only.
LockInv == RunType /\ LockAgrees /\ LockExcludes /\ KindFits

\* The other half: what the rows, the archives and the stamp say.
StoreInv == StoreType /\ RowIsLast /\ BackupProgress /\ StampWithinRows /\ StampIsGood
              /\ SuccessIsStamped

----------------------------------------------------------------------------
\* Initially no process runs.
LEMMA LockInit == Init => LockInv
  BY BoundAssumption DEF Init, LockInv, RunType, LockAgrees, LockExcludes, KindFits, Labels, Locked, AllKinds,
         WithRow, BackupLabels, Fits

\* A process that leaves takes nothing with it.
LEMMA ExitKeepsLocks ==
  ASSUME LockInv, NEW p \in Procs, Exit(p)
  PROVE  LockInv'
  BY BoundAssumption DEF Exit, Goto, LockInv, RunType, LockAgrees, LockExcludes, KindFits, Labels, Locked,
         AllKinds, WithRow, BackupLabels, Fits

\* A process that only moves on keeps its lock, and the others theirs.
LEMMA MoveKeepsLocks ==
  ASSUME LockInv, NEW p \in Procs, NEW l \in Labels,
         Goto(p, l), UNCHANGED <<lock, kind>>,
         job' \in [Procs -> 0..MaxJobs], ok' \in [Procs -> BOOLEAN],
         asked' \in [Procs -> BOOLEAN],
         l \in Locked <=> pc[p] \in Locked,
         l \in {"reading", "probing"} <=> pc[p] \in {"reading", "probing"},
         Fits(kind[p], l)
  PROVE  LockInv'
<1>1. RunType'
  BY DEF Goto, LockInv, RunType
<1>2. LockAgrees'
  BY DEF Goto, LockInv, RunType, LockAgrees
<1>3. LockExcludes'
  BY DEF LockInv, LockExcludes
<1>4. KindFits'
  BY DEF Goto, LockInv, RunType, KindFits
<1> QED BY <1>1, <1>2, <1>3, <1>4 DEF LockInv

\* No step lets a second process into the section of a writer.
LEMMA LockStep == LockInv /\ StoreType /\ [Next]_vars => LockInv'
<1> SUFFICES ASSUME LockInv, StoreType, [Next]_vars PROVE LockInv'
  OBVIOUS
<1> USE DEF LockInv
<1>0. /\ job \in [Procs -> 0..MaxJobs]
      /\ ok \in [Procs -> BOOLEAN]
      /\ asked \in [Procs -> BOOLEAN]
      /\ \A p \in Procs : Fits(kind[p], pc[p])
  BY DEF RunType, KindFits
<1>1. CASE UNCHANGED vars
  BY <1>1 DEF vars, locals, RunType, LockAgrees, LockExcludes, KindFits
<1>2. ASSUME NEW p \in Procs, Locking(p) PROVE LockInv'
  <2>1. ASSUME NEW k \in Kinds, Start(p, k) PROVE LockInv'
    BY <2>1, KindAssumption DEF Start, Goto, locals, RunType, LockAgrees, LockExcludes, KindFits,
       Fits, Labels, Locked, WithRow, BackupLabels, BackupKinds, AllKinds, Recorded
  <2>2. CASE ReadDue(p)
    <3>1. CASE Goto(p, "acquire") /\ UNCHANGED <<lock, kind, locals>>
      <4>1. Fits(kind[p], "acquire")
        BY <1>0, <2>2 DEF ReadDue, Fits, WithRow, BackupLabels, Locked
      <4> QED BY <1>0, <2>2, <3>1, <4>1, MoveKeepsLocks DEF ReadDue, locals, Labels, Locked
    <3> QED BY <2>2, <3>1, ExitKeepsLocks DEF ReadDue
  <2>3. CASE Acquire(p)
    <3>1. CASE Grants(p, Mode(kind[p])) /\ kind[p] = "read"
      BY <2>3, <3>1 DEF Acquire, Goto, Grants, Mode, locals, RunType, LockAgrees, LockExcludes,
         KindFits, Fits, Labels, Locked, WithRow, BackupLabels
    <3>2. CASE Grants(p, Mode(kind[p])) /\ kind[p] # "read"
      BY <2>3, <3>2 DEF Acquire, Goto, Grants, Mode, locals, RunType, LockAgrees, LockExcludes,
         KindFits, Fits, Labels, Locked, WithRow, BackupLabels
    <3> QED BY <2>3, <3>1, <3>2, ExitKeepsLocks DEF Acquire
  <2>4. CASE ReadDone(p) \/ GiveUp(p) \/ Release(p)
    BY <2>4, ExitKeepsLocks DEF ReadDone, GiveUp, Release
  <2> QED BY <1>2, <2>1, <2>2, <2>3, <2>4 DEF Locking
<1>3. ASSUME NEW p \in Procs, Fail(p), pc[p] \in WithRow, UNCHANGED <<lock, kind, job, asked>>
      PROVE  LockInv'
  <2>1. Fits(kind[p], "finish")
    BY <1>0, <1>3 DEF Fits, WithRow, BackupLabels, Locked
  <2>2. Goto(p, "finish") /\ ok' \in [Procs -> BOOLEAN]
    BY <1>0, <1>3 DEF Fail
  <2> QED BY <1>0, <1>3, <2>1, <2>2, MoveKeepsLocks DEF Labels, Locked, WithRow
<1>4. ASSUME NEW p \in Procs, Backup(p) PROVE LockInv'
  <2>1. CASE Ask(p)
    BY <1>0, <2>1 DEF Ask, RunType, LockAgrees, LockExcludes, KindFits
  <2>2. CASE ~Ask(p)
    <3>1. /\ pc[p] \in BackupLabels
          /\ UNCHANGED <<lock, kind, job, asked>>
          /\ Fail(p) \/ \E l \in BackupLabels \cup {"finish"} : Goto(p, l) /\ ok' = ok
      BY <1>4, <2>2 DEF Backup, Stage, Create, Observe, Stamp, Record, BackupLabels
    <3>2. pc[p] \in WithRow
      BY <3>1 DEF BackupLabels, WithRow, Locked
    <3>3. ASSUME NEW l \in BackupLabels \cup {"finish"}, Goto(p, l), ok' = ok PROVE LockInv'
      <4>1. Fits(kind[p], l) /\ l \in Labels /\ l \in Locked
        BY <1>0, <3>1 DEF Fits, WithRow, BackupLabels, BackupKinds, Recorded, Locked, Labels
      <4> QED BY <1>0, <3>1, <3>2, <3>3, <4>1, MoveKeepsLocks DEF WithRow, Locked
    <3> QED BY <1>3, <3>1, <3>2, <3>3
  <2> QED BY <2>1, <2>2
<1>5. ASSUME NEW p \in Procs, Job(p) PROVE LockInv'
  <2>1. CASE StartJob(p)
    <3>1. PICK l \in {"staging", "prune", "work"} :
            Goto(p, l) /\ (l = "staging" <=> kind[p] \in BackupKinds)
      BY <2>1 DEF StartJob, BackupKinds
    <3>2. Fits(kind[p], l)
      BY <1>0, <2>1, <3>1 DEF StartJob, Fits, WithRow, BackupLabels, BackupKinds, Locked
    <3>3. job' \in [Procs -> 0..MaxJobs]
      BY <1>0, <2>1, BoundAssumption DEF StartJob, Insert, StoreType
    <3> QED BY <1>0, <2>1, <3>1, <3>2, <3>3, MoveKeepsLocks DEF StartJob, Labels, Locked
  <2>2. CASE CheckStamp(p)
    <3>1. Fits(kind[p], "list")
      BY <2>2 DEF CheckStamp, Fits, WithRow, BackupLabels, BackupKinds, Locked, Recorded
    <3> QED BY <1>0, <2>2, <3>1, MoveKeepsLocks DEF CheckStamp, locals, Labels, Locked
  <2>3. CASE Prune(p) \/ Work(p)
    <3>1. /\ pc[p] \in {"prune", "work"}
          /\ UNCHANGED <<lock, kind, job, asked>>
          /\ Fail(p) \/ \E l \in {"work", "finish"} : Goto(p, l) /\ ok' = ok
      BY <2>3 DEF Prune, Work
    <3>2. pc[p] \in WithRow
      BY <3>1 DEF WithRow, Locked
    <3>3. ASSUME NEW l \in {"work", "finish"}, Goto(p, l), ok' = ok PROVE LockInv'
      <4>1. Fits(kind[p], l) /\ l \in Labels /\ l \in Locked
        BY <1>0, <3>1 DEF Fits, WithRow, BackupLabels, BackupKinds, Recorded, Locked, Labels
      <4> QED BY <1>0, <3>1, <3>2, <3>3, <4>1, MoveKeepsLocks DEF WithRow, Locked
    <3> QED BY <1>3, <3>1, <3>2, <3>3
  <2>4. CASE Finish(p)
    <3>1. Fits(kind[p], "release")
      BY <1>0, <2>4 DEF Finish, Fits, WithRow, BackupLabels, Locked
    <3> QED BY <1>0, <2>4, <3>1, MoveKeepsLocks DEF Finish, locals, Labels, Locked
  <2> QED BY <1>5, <2>1, <2>2, <2>3, <2>4 DEF Job
<1>6. ASSUME NEW p \in Procs, Status(p) PROVE LockInv'
  <2>1. CASE ReadLast(p) \/ ReadLatest(p) \/ ReadRunning(p)
    <3>1. PICK l \in {"latest", "running", "probe"} : Goto(p, l)
      BY <2>1 DEF ReadLast, ReadLatest, ReadRunning
    <3>2. Fits(kind[p], l)
      BY DEF Fits, WithRow, BackupLabels, Locked
    <3> QED BY <1>0, <2>1, <3>1, <3>2, MoveKeepsLocks
         DEF ReadLast, ReadLatest, ReadRunning, locals, Labels, Locked
  <2>2. ASSUME NEW held \in BOOLEAN, Decide(p, held), pc[p] \in {"probe", "probing"}
        PROVE  LockInv'
    <3>1. CASE kind[p] = "index" /\ ~held
      BY <2>2, <3>1 DEF Decide, Goto, locals, RunType, LockAgrees, LockExcludes,
         KindFits, Fits, Labels, Locked, WithRow, BackupLabels, Recorded
    <3> QED BY <2>2, <3>1, ExitKeepsLocks DEF Decide
  <2>3. CASE Probe(p)
    <3>1. CASE Grants(p, "shared") /\ Goto(p, "probing")
      BY <2>3, <3>1 DEF Probe, Goto, Grants, Decide, locals, RunType, LockAgrees, LockExcludes,
         KindFits, Fits, Labels, Locked, WithRow, BackupLabels
    <3> QED BY <2>2, <2>3, <3>1 DEF Probe
  <2>4. CASE Unprobe(p)
    BY <2>2, <2>4 DEF Unprobe
  <2> QED BY <1>6, <2>1, <2>3, <2>4 DEF Status
<1>7. ASSUME NEW p \in Procs, Crash(p) PROVE LockInv'
  BY <1>7, ExitKeepsLocks DEF Crash
<1>8. ASSUME NEW d \in Steps, Tick(d) PROVE LockInv'
  BY <1>8 DEF Tick, locals, RunType, LockAgrees, LockExcludes, KindFits
<1> QED BY <1>1, <1>2, <1>4, <1>5, <1>6, <1>7, <1>8 DEF Next

----------------------------------------------------------------------------
\* Initially the table and the repository are empty and there is no stamp.
LEMMA StoreInit == Init => StoreInv
  BY BoundAssumption
  DEF Init, StoreInv, StoreType, RowIsLast, BackupProgress, StampWithinRows, StampIsGood,
      SuccessIsStamped, Backups, NoRow, Borg, JobIds, WithRow, Locked, BackupKinds

\* While a process is in the section of a writer, no other has a row.
LEMMA RowOfOne ==
  ASSUME LockInv, RowIsLast, NEW p \in Procs, pc[p] \in Locked,
         NEW q \in Procs, q # p
  PROVE  pc[q] \notin WithRow /\ job[q] = 0
<1>1. lock[p] = "exclusive" /\ lock[q] = "free"
  BY DEF LockInv, LockAgrees, LockExcludes
<1>2. pc[q] \notin Locked
  BY <1>1 DEF LockInv, LockAgrees
<1> QED BY <1>2 DEF RowIsLast, WithRow

\* A step that leaves the records alone, and every process either as it was or
\* without a row, keeps the half about the records.
LEMMA QuietKeepsStore ==
  ASSUME StoreInv, UNCHANGED <<jobs, rows, made, repo, stamp>>,
         now' \in 0..MaxTime, crashes' \in 0..MaxCrashes,
         \A q \in Procs :
           \/ pc'[q] = pc[q] /\ kind'[q] = kind[q] /\ job'[q] = job[q] /\ ok'[q] = ok[q]
           \/ pc'[q] \notin WithRow /\ job'[q] = 0
  PROVE  StoreInv'
<1>1. StoreType'
  BY DEF StoreInv, StoreType
<1>2. RowIsLast'
  BY DEF StoreInv, RowIsLast, RowKind
<1>3. BackupProgress'
  BY DEF StoreInv, BackupProgress, WithRow, Locked
<1>4. StampWithinRows' /\ StampIsGood' /\ SuccessIsStamped'
  BY DEF StoreInv, StampWithinRows, StampIsGood, SuccessIsStamped, Backups
<1> QED BY <1>1, <1>2, <1>3, <1>4 DEF StoreInv

\* In particular a process that leaves, whatever it was doing.
LEMMA ExitKeepsStore ==
  ASSUME LockInv, StoreInv, NEW p \in Procs, Exit(p),
         UNCHANGED <<jobs, rows, made, repo, stamp, now>>, crashes' \in 0..MaxCrashes
  PROVE  StoreInv'
<1>1. now' \in 0..MaxTime
  BY DEF StoreInv, StoreType
<1>2. ASSUME NEW q \in Procs
      PROVE  \/ pc'[q] = pc[q] /\ kind'[q] = kind[q] /\ job'[q] = job[q] /\ ok'[q] = ok[q]
             \/ pc'[q] \notin WithRow /\ job'[q] = 0
  BY DEF Exit, Goto, LockInv, RunType, WithRow, Locked
<1> QED BY <1>1, <1>2, QuietKeepsStore

\* So does one that moves between labels without a row.
LEMMA MoveKeepsStore ==
  ASSUME LockInv, StoreInv, NEW p \in Procs, NEW l, Goto(p, l),
         pc[p] \notin WithRow, l \notin WithRow,
         \A q \in Procs \ {p} : kind'[q] = kind[q],
         UNCHANGED <<job, ok, jobs, rows, made, repo, stamp, now, crashes>>
  PROVE  StoreInv'
<1>1. now' \in 0..MaxTime /\ crashes' \in 0..MaxCrashes
  BY DEF StoreInv, StoreType
<1>2. job[p] = 0
  BY DEF StoreInv, RowIsLast
<1>3. ASSUME NEW q \in Procs
      PROVE  \/ pc'[q] = pc[q] /\ kind'[q] = kind[q] /\ job'[q] = job[q] /\ ok'[q] = ok[q]
             \/ pc'[q] \notin WithRow /\ job'[q] = 0
  BY <1>2 DEF Goto, LockInv, RunType
<1> QED BY <1>1, <1>3, QuietKeepsStore

\* start_job appends an open row and gives it to the only writer.
LEMMA StartJobKeepsStore ==
  ASSUME LockInv, StoreInv, NEW p \in Procs, StartJob(p)
  PROVE  StoreInv'
<1> USE DEF StoreInv
<1>0. /\ pc[p] \in {"locked", "list"}
      /\ kind[p] \in Recorded
      /\ rows \in 0..MaxJobs /\ rows < MaxJobs /\ rows' = rows + 1
      /\ job' = [job EXCEPT ![p] = rows + 1]
      /\ jobs' = [jobs EXCEPT ![rows + 1] = [kind |-> RowKind(kind[p]), state |-> "running",
                                             recorded |-> FALSE, at |-> 0]]
      /\ UNCHANGED <<lock, kind, ok, asked, made, repo, stamp, now, crashes>>
  BY DEF StartJob, Insert, LockInv, KindFits, Fits, StoreType, archive, world
<1>1. PICK l \in {"staging", "prune", "work"} :
        Goto(p, l) /\ (l = "staging" => kind[p] \in BackupKinds)
  BY DEF StartJob, BackupKinds
<1>2. ASSUME NEW q \in Procs, q # p PROVE pc[q] \notin WithRow /\ job[q] = 0
  BY <1>0, <1>2, RowOfOne DEF Locked
<1>3. rows + 1 \in JobIds /\ rows \in Nat /\ rows + 1 # 0
  BY <1>0, BoundAssumption DEF JobIds
<1>4. StoreType'
  <2>1. [kind |-> RowKind(kind[p]), state |-> "running", recorded |-> FALSE, at |-> 0] \in Row
    BY <1>0, BoundAssumption DEF Row, RowKind, Recorded
  <2>2. jobs' \in [JobIds -> Row \cup {NoRow}]
    BY <1>0, <1>3, <2>1 DEF StoreType
  <2> QED BY <1>0, <1>3, <2>2, BoundAssumption DEF StoreType
<1>5. RowIsLast'
  <2>1. jobs'[rows'].kind = RowKind(kind'[p]) /\ jobs'[rows'].state = "running"
    BY <1>0, <1>3 DEF StoreType, RowKind
  <2>2. job'[p] = rows' /\ pc'[p] = l /\ l \in WithRow
    BY <1>0, <1>1 DEF LockInv, RunType, Goto, WithRow, Locked
  <2>3. ASSUME NEW q \in Procs, q # p PROVE pc'[q] \notin WithRow /\ job'[q] = 0
    BY <1>0, <1>1, <1>2, <2>3 DEF LockInv, RunType, Goto
  <2> QED BY <1>0, <1>1, <1>3, <2>1, <2>2, <2>3 DEF RowIsLast
<1>6. BackupProgress'
  <2>1. ASSUME NEW q \in Procs, q # p PROVE pc'[q] \notin WithRow
    BY <1>1, <1>2, <2>1 DEF LockInv, RunType, Goto
  <2>2. pc'[p] \in {"staging", "prune", "work"} /\ stamp'.archive < rows'
    BY <1>0, <1>1, <1>3 DEF LockInv, RunType, Goto, StampWithinRows, StoreType
  <2> QED BY <2>1, <2>2 DEF BackupProgress, WithRow, Locked
<1>7. StampWithinRows' /\ StampIsGood'
  BY <1>0, BoundAssumption DEF StampWithinRows, StampIsGood, StoreType
<1>8. SuccessIsStamped'
  <2> SUFFICES ASSUME NEW j \in Backups("succeeded")'
               PROVE  j \in Backups("succeeded") /\ jobs'[j] = jobs[j]
    BY <1>0 DEF SuccessIsStamped
  <2>1. j \in 1..(rows + 1) /\ jobs'[j].state = "succeeded" /\ jobs'[j].kind = "backup"
    BY <1>0 DEF Backups
  <2>2. j # rows + 1
    BY <1>0, <1>3, <2>1 DEF StoreType
  <2> QED BY <1>0, <1>3, <2>1, <2>2 DEF Backups, StoreType, JobIds
<1> QED BY <1>4, <1>5, <1>6, <1>7, <1>8

\* The frame of every other step of the only process that has a row: what it
\* must establish of itself.
LEMMA WriterKeepsStore ==
  ASSUME LockInv, StoreInv, NEW p \in Procs, pc[p] \in WithRow,
         NEW l \in WithRow, Goto(p, l), UNCHANGED <<kind, job, rows>>,
         ok' \in [Procs -> BOOLEAN],
         \A q \in Procs \ {p} : ok'[q] = ok[q],
         StoreType',
         jobs'[rows].kind = jobs[rows].kind,
         l # "release" => jobs'[rows].state = "running",
         l \in {"staging", "create"} => stamp'.archive < rows,
         l = "stamp" => made'[rows].grade = "good",
         l = "record" => made'[rows].grade = "good" /\ stamp'.archive = rows,
         l = "finish" /\ ok'[p] /\ kind[p] \in BackupKinds =>
           made'[rows].grade = "good" /\ stamp'.archive = rows /\ jobs'[rows].recorded,
         StampWithinRows', StampIsGood', SuccessIsStamped'
  PROVE  StoreInv'
<1> USE DEF StoreInv
<1>1. /\ job[p] = rows /\ rows # 0
      /\ jobs[rows].kind = RowKind(kind[p])
  BY DEF RowIsLast
<1>2. ASSUME NEW q \in Procs, q # p
      PROVE  pc'[q] = pc[q] /\ pc[q] \notin WithRow /\ job[q] = 0
  BY <1>2, RowOfOne DEF LockInv, RunType, Goto, WithRow
<1>3. pc'[p] = l
  BY DEF LockInv, RunType, Goto
<1>4. RowIsLast'
  BY <1>1, <1>2, <1>3 DEF RowIsLast, RowKind
<1>5. BackupProgress'
  BY <1>2, <1>3 DEF BackupProgress, WithRow, Locked
<1> QED BY <1>4, <1>5

\* Each step of a backup keeps the order archive, stamp, row, result.
LEMMA BackupKeepsStore ==
  ASSUME LockInv, StoreInv, NEW p \in Procs, Backup(p)
  PROVE  StoreInv'
<1> USE DEF StoreInv
<1>1. CASE Ask(p)
  BY <1>1, QuietKeepsStore DEF Ask, table, archive, world, StoreType
<1>2. CASE ~Ask(p)
  <2>0. /\ pc[p] \in BackupLabels
        /\ pc[p] \in WithRow
        /\ kind[p] \in BackupKinds
        /\ UNCHANGED <<lock, kind, job, rows, now, crashes>>
    BY <1>2 DEF Backup, Stage, Create, Observe, Stamp, Record, table, world, LockInv, KindFits,
       Fits, BackupLabels, WithRow, Locked
  <2>1. /\ job[p] = rows /\ rows # 0 /\ rows \in 0..MaxJobs /\ rows \in JobIds
        /\ jobs[rows].kind = RowKind(kind[p])
        /\ jobs[rows].state = "running"
    BY <2>0, BoundAssumption DEF RowIsLast, StoreType, JobIds, BackupLabels
  <2>2. rows \notin Backups("succeeded")
    BY <2>1 DEF Backups
  <2>3. \A j \in Backups("succeeded") : j \in JobIds /\ j # rows
    BY <2>1, <2>2, BoundAssumption DEF Backups, JobIds
  <2>4. ASSUME Fail(p), UNCHANGED <<jobs, rows, made, repo, stamp>> PROVE StoreInv'
    <3>1. Goto(p, "finish") /\ ~ok'[p] /\ ok' \in [Procs -> BOOLEAN]
            /\ \A q \in Procs \ {p} : ok'[q] = ok[q]
      BY <2>4 DEF Fail, LockInv, RunType
    <3>2. StoreType' /\ StampWithinRows' /\ StampIsGood' /\ SuccessIsStamped'
      BY <2>0, <2>4 DEF StoreType, StampWithinRows, StampIsGood, SuccessIsStamped, Backups
    <3> QED BY <2>0, <2>1, <2>4, <3>1, <3>2, WriterKeepsStore DEF WithRow, Locked
  <2>5. CASE Stage(p)
    <3>1. CASE Goto(p, "create") /\ UNCHANGED ok
      <4>1. StoreType' /\ StampWithinRows' /\ StampIsGood' /\ SuccessIsStamped'
        BY <2>0, <2>5 DEF Stage, StoreType, StampWithinRows, StampIsGood, SuccessIsStamped,
           Backups, table, archive
      <4>2. stamp'.archive < rows
        BY <2>5 DEF Stage, BackupProgress
      <4> QED BY <2>0, <2>1, <2>5, <3>1, <4>1, <4>2, WriterKeepsStore
             DEF Stage, table, archive, WithRow, Locked, LockInv, RunType
    <3> QED BY <2>4, <2>5, <3>1 DEF Stage, table, archive
  <2>6. CASE Create(p)
    <3>1. ASSUME NEW grade \in {"good", "warned"},
                 made' = [made EXCEPT ![job[p]] = [grade |-> grade, at |-> now]],
                 repo' = repo \cup {job[p]}, Goto(p, "created"), UNCHANGED ok
          PROVE  StoreInv'
      <4>1. stamp.archive < rows /\ UNCHANGED <<jobs, stamp>>
        BY <2>6 DEF Create, BackupProgress, table
      <4>2. StoreType'
        BY <2>0, <2>1, <3>1, <4>1 DEF StoreType, Borg
      <4>3. StampWithinRows' /\ StampIsGood'
        BY <2>0, <2>1, <3>1, <4>1, BoundAssumption
        DEF StampWithinRows, StampIsGood, StoreType, JobIds
      <4>4. SuccessIsStamped'
        BY <2>0, <2>1, <2>3, <3>1, <4>1 DEF SuccessIsStamped, Backups, StoreType
      <4> QED BY <2>0, <2>1, <3>1, <4>1, <4>2, <4>3, <4>4, WriterKeepsStore
             DEF WithRow, Locked, LockInv, RunType
    <3> QED BY <2>4, <2>6, <3>1 DEF Create, table, archive
  <2>7. CASE Observe(p)
    <3>1. CASE made[job[p]].grade = "good" /\ Goto(p, "stamp") /\ UNCHANGED ok
      <4>1. StoreType' /\ StampWithinRows' /\ StampIsGood' /\ SuccessIsStamped'
        BY <2>0, <2>7 DEF Observe, StoreType, StampWithinRows, StampIsGood, SuccessIsStamped,
           Backups, table, archive
      <4> QED BY <2>0, <2>1, <2>7, <3>1, <4>1, WriterKeepsStore
             DEF Observe, table, archive, WithRow, Locked, LockInv, RunType
    <3> QED BY <2>4, <2>7, <3>1 DEF Observe, table, archive
  <2>8. CASE Stamp(p)
    <3>1. CASE stamp' = [archive |-> job[p], at |-> now] /\ Goto(p, "record") /\ UNCHANGED ok
      <4>1. made[rows].grade = "good" /\ UNCHANGED <<jobs, made, repo>>
        BY <2>8 DEF Stamp, BackupProgress, table, archive
      <4>2. StoreType'
        BY <2>0, <2>1, <3>1, <4>1 DEF StoreType
      <4>3. StampWithinRows' /\ StampIsGood'
        BY <2>0, <2>1, <3>1, <4>1, BoundAssumption DEF StampWithinRows, StampIsGood, StoreType
      <4>4. SuccessIsStamped'
        <5>1. \A j \in Backups("succeeded") : j <= rows
          BY <2>1, BoundAssumption DEF Backups
        <5> QED BY <2>0, <2>1, <3>1, <4>1, <5>1 DEF SuccessIsStamped, Backups
      <4> QED BY <2>0, <2>1, <3>1, <4>1, <4>2, <4>3, <4>4, WriterKeepsStore
             DEF WithRow, Locked, LockInv, RunType
    <3> QED BY <2>4, <2>8, <3>1 DEF Stamp, table, archive
  <2>9. CASE Record(p)
    <3>1. CASE /\ jobs' = [jobs EXCEPT ![job[p]].recorded = (@ \/ jobs[job[p]].state = "running")]
               /\ Goto(p, "finish") /\ UNCHANGED ok
      <4>1. made[rows].grade = "good" /\ stamp.archive = rows /\ UNCHANGED <<made, repo, stamp>>
        BY <2>9 DEF Record, BackupProgress, archive
      <4>2. jobs[rows] \in Row
        BY <2>1 DEF StoreType, NoRow
      <4>3. jobs' = [jobs EXCEPT ![rows] = [jobs[rows] EXCEPT !.recorded = TRUE]]
        BY <2>1, <3>1, <4>2 DEF StoreType, Row
      <4>4. [jobs[rows] EXCEPT !.recorded = TRUE] \in Row
        BY <4>2 DEF Row
      <4>5. StoreType'
        BY <2>0, <2>1, <4>1, <4>3, <4>4 DEF StoreType
      <4>6. StampWithinRows' /\ StampIsGood'
        BY <2>0, <4>1 DEF StampWithinRows, StampIsGood
      <4>7. /\ jobs'[rows].recorded /\ jobs'[rows].kind = jobs[rows].kind
            /\ jobs'[rows].state = "running"
        BY <2>1, <4>2, <4>3 DEF StoreType, Row
      <4>8. SuccessIsStamped'
        BY <2>0, <2>1, <2>3, <4>1, <4>3, <4>7 DEF SuccessIsStamped, Backups, StoreType, JobIds
      <4> QED BY <2>0, <2>1, <3>1, <4>1, <4>5, <4>6, <4>7, <4>8, WriterKeepsStore
             DEF WithRow, Locked, LockInv, RunType
    <3> QED BY <2>4, <2>9, <3>1 DEF Record, table, archive
  <2> QED BY <1>2, <2>5, <2>6, <2>7, <2>8, <2>9 DEF Backup
<1> QED BY <1>1, <1>2

\* Pruning, checking and finishing touch no record of an earlier backup.
LEMMA JobKeepsStore ==
  ASSUME LockInv, StoreInv, NEW p \in Procs, Job(p)
  PROVE  StoreInv'
<1> USE DEF StoreInv
<1>1. CASE StartJob(p)
  BY <1>1, StartJobKeepsStore
<1>2. CASE CheckStamp(p)
  <2>1. /\ Goto(p, "list") /\ pc[p] \notin WithRow /\ "list" \notin WithRow
        /\ UNCHANGED <<kind, job, ok, jobs, rows, made, repo, stamp, now, crashes>>
    BY <1>2 DEF CheckStamp, WithRow, Locked, locals, table, archive, world
  <2> QED BY <2>1, MoveKeepsStore
<1>3. CASE Prune(p) \/ Work(p) \/ Finish(p)
  <2>0. /\ pc[p] \in {"prune", "work", "finish"}
        /\ pc[p] \in WithRow
        /\ kind[p] \in Recorded
        /\ pc[p] # "finish" => kind[p] \notin BackupKinds
        /\ UNCHANGED <<lock, kind, job, rows, made, stamp, now, crashes>>
    BY <1>3 DEF Prune, Work, Finish, locals, table, archive, world, LockInv, KindFits, Fits,
       WithRow, Locked
  <2>1. /\ job[p] = rows /\ rows # 0 /\ rows \in 0..MaxJobs /\ rows \in JobIds
        /\ jobs[rows].kind = RowKind(kind[p])
        /\ jobs[rows].state = "running"
    BY <2>0, BoundAssumption DEF RowIsLast, StoreType, JobIds
  <2>2. \A j \in Backups("succeeded") : j \in JobIds /\ j # rows
    BY <2>1, BoundAssumption DEF Backups, JobIds
  <2>3. ASSUME NEW l \in {"work", "finish", "release"}, Goto(p, l), UNCHANGED <<jobs>>,
               repo' \subseteq repo, ok' \in [Procs -> BOOLEAN],
               \A q \in Procs \ {p} : ok'[q] = ok[q],
               l = "finish" /\ ok'[p] => kind[p] \notin BackupKinds
        PROVE  StoreInv'
    <3>1. StoreType' /\ StampWithinRows' /\ StampIsGood' /\ SuccessIsStamped'
      BY <2>0, <2>3 DEF StoreType, StampWithinRows, StampIsGood, SuccessIsStamped, Backups
    <3> QED BY <2>0, <2>1, <2>3, <3>1, WriterKeepsStore DEF WithRow, Locked
  <2>4. CASE Prune(p)
    <3>1. repo' \subseteq repo \/ repo' = Kept(repo)
      BY <2>4 DEF Prune
    <3>2. repo' \subseteq repo
      BY <3>1 DEF Kept, NewestOf
    <3>3. jobs' = jobs
      BY <2>4 DEF Prune, table
    <3>4. CASE Goto(p, "work") /\ UNCHANGED ok
      BY <2>3, <3>2, <3>3, <3>4 DEF LockInv, RunType
    <3>5. CASE Fail(p)
      BY <2>3, <3>2, <3>3, <3>5 DEF Fail, LockInv, RunType
    <3>6. CASE Goto(p, "finish") /\ UNCHANGED ok
      BY <2>0, <2>3, <2>4, <3>2, <3>3, <3>6 DEF LockInv, RunType, Prune
    <3> QED BY <2>4, <3>4, <3>5, <3>6 DEF Prune
  <2>5. CASE Work(p)
    <3>1. UNCHANGED <<jobs, repo>> /\ kind[p] \notin BackupKinds
      BY <2>0, <2>5 DEF Work, table, archive
    <3>2. CASE Fail(p)
      BY <2>3, <3>1, <3>2 DEF Fail, LockInv, RunType
    <3>3. CASE Goto(p, "finish") /\ UNCHANGED ok
      BY <2>3, <3>1, <3>3 DEF LockInv, RunType
    <3> QED BY <2>5, <3>2, <3>3 DEF Work
  <2>6. CASE Finish(p)
    <3>0. Goto(p, "release") /\ UNCHANGED <<ok, repo>>
      BY <2>6 DEF Finish, locals, archive
    <3>1. CASE UNCHANGED jobs
      BY <2>3, <3>0, <3>1 DEF LockInv, RunType
    <3>2. ASSUME jobs' = [jobs EXCEPT ![job[p]].state = IF ok[p] THEN "succeeded" ELSE "failed",
                                      ![job[p]].at = now]
          PROVE  StoreInv'
      <4> DEFINE row == [jobs[rows] EXCEPT !.state = IF ok[p] THEN "succeeded" ELSE "failed",
                                           !.at = now]
      <4>1. jobs[rows] \in Row
        BY <2>1 DEF StoreType, NoRow
      <4>2. jobs' = [jobs EXCEPT ![rows] = row]
        BY <2>1, <3>2 DEF StoreType
      <4>3. /\ row \in Row /\ row.kind = jobs[rows].kind
            /\ row.recorded = jobs[rows].recorded
            /\ row.state = "succeeded" => ok[p]
        BY <4>1 DEF Row, StoreType
      <4>4. StoreType'
        BY <2>0, <2>1, <3>0, <4>2, <4>3 DEF StoreType
      <4>5. StampWithinRows' /\ StampIsGood'
        BY <2>0 DEF StampWithinRows, StampIsGood
      <4>6. jobs'[rows] = row
        BY <2>1, <4>2 DEF StoreType
      <4>7. /\ jobs'[rows].kind = jobs[rows].kind
            /\ jobs'[rows].recorded = jobs[rows].recorded
            /\ jobs'[rows].state = "succeeded" => ok[p]
        <5> HIDE DEF row
        <5> QED BY <4>3, <4>6
      <4>8. SuccessIsStamped'
        <5> SUFFICES ASSUME NEW j \in Backups("succeeded")'
                     PROVE  jobs'[j].recorded /\ made[j].grade = "good" /\ stamp.archive >= j
          BY <2>0 DEF SuccessIsStamped
        <5>1. j \in 1..rows /\ jobs'[j].kind = "backup" /\ jobs'[j].state = "succeeded"
          BY <2>0 DEF Backups
        <5>2. CASE j = rows
          <6>1. kind[p] \in BackupKinds
            BY <2>1, <4>7, <5>1, <5>2 DEF RowKind, BackupKinds
          <6>2. made[rows].grade = "good" /\ stamp.archive = rows /\ jobs[rows].recorded
            BY <2>6, <4>7, <5>1, <5>2, <6>1 DEF BackupProgress, Finish
          <6>3. stamp.archive >= j
            BY <2>1, <5>2, <6>2, BoundAssumption
          <6>4. jobs'[j].recorded
            BY <4>7, <5>2, <6>2, Zenon
          <6> QED BY <5>2, <6>2, <6>3, <6>4
        <5>3. CASE j # rows
          <6>1. jobs'[j] = jobs[j]
            BY <2>1, <4>2, <5>1, <5>3, BoundAssumption DEF StoreType, JobIds
          <6> QED BY <5>1, <6>1 DEF SuccessIsStamped, Backups
        <5> QED BY <5>2, <5>3
      <4> QED BY <2>0, <2>1, <3>0, <4>4, <4>5, <4>7, <4>8, WriterKeepsStore
             DEF WithRow, Locked, LockInv, RunType
    <3> QED BY <2>6, <3>1, <3>2 DEF Finish
  <2> QED BY <1>3, <2>4, <2>5, <2>6
<1> QED BY <1>1, <1>2, <1>3 DEF Job

\* No step disturbs the records.
LEMMA StoreStep == LockInv /\ StoreInv /\ [Next]_vars => StoreInv'
<1> SUFFICES ASSUME LockInv, StoreInv, [Next]_vars PROVE StoreInv'
  OBVIOUS
<1>0. now \in 0..MaxTime /\ crashes \in 0..MaxCrashes
  BY DEF StoreInv, StoreType
<1>1. CASE UNCHANGED vars
  BY <1>0, <1>1, QuietKeepsStore DEF vars, locals, table, archive, world
<1>2. ASSUME NEW p \in Procs, Locking(p) PROVE StoreInv'
  <2>0. UNCHANGED <<jobs, rows, made, repo, stamp, now, crashes>>
    BY <1>2 DEF Locking, Start, ReadDue, Acquire, ReadDone, GiveUp, Release, table, archive, world
  <2>1. CASE Exit(p)
    BY <1>0, <2>0, <2>1, ExitKeepsStore
  <2>2. CASE ~Exit(p)
    <3>1. PICK l \in {"due", "probe", "last", "acquire", "reading", "locked"} : Goto(p, l)
      BY <1>2, <2>2 DEF Locking, Start, ReadDue, Acquire, ReadDone, GiveUp, Release
    <3>2. /\ pc[p] \in {"idle", "due", "acquire"}
          /\ UNCHANGED <<job, ok>>
          /\ \A q \in Procs \ {p} : kind'[q] = kind[q]
      BY <1>2, <2>2 DEF Locking, Start, ReadDue, Acquire, ReadDone, GiveUp, Release, locals,
         LockInv, RunType
    <3>3. pc[p] \notin WithRow /\ l \notin WithRow
      BY <3>1, <3>2 DEF WithRow, Locked
    <3> QED BY <2>0, <3>1, <3>2, <3>3, MoveKeepsStore
  <2> QED BY <2>1, <2>2
<1>3. ASSUME NEW p \in Procs, Status(p) PROVE StoreInv'
  <2>0. UNCHANGED <<jobs, rows, made, repo, stamp, now, crashes>>
    BY <1>3 DEF Status, ReadLast, ReadLatest, ReadRunning, Probe, Unprobe, table, archive, world
  <2>1. CASE Exit(p)
    BY <1>0, <2>0, <2>1, ExitKeepsStore
  <2>2. CASE ~Exit(p)
    <3>1. PICK l \in {"latest", "running", "probe", "probing", "acquire"} : Goto(p, l)
      BY <1>3, <2>2 DEF Status, ReadLast, ReadLatest, ReadRunning, Probe, Unprobe, Decide
    <3>2. /\ pc[p] \in {"last", "latest", "running", "probe", "probing"}
          /\ UNCHANGED <<job, ok, kind>>
      BY <1>3, <2>2 DEF Status, ReadLast, ReadLatest, ReadRunning, Probe, Unprobe, Decide, locals
    <3>3. pc[p] \notin WithRow /\ l \notin WithRow
      BY <3>1, <3>2 DEF WithRow, Locked
    <3> QED BY <2>0, <3>1, <3>2, <3>3, MoveKeepsStore
  <2> QED BY <2>1, <2>2
<1>4. ASSUME NEW p \in Procs, Crash(p) PROVE StoreInv'
  BY <1>0, <1>4, ExitKeepsStore, BoundAssumption DEF Crash, table, archive
<1>5. ASSUME NEW d \in Steps, Tick(d) PROVE StoreInv'
  BY <1>0, <1>5, QuietKeepsStore DEF Tick, locals, table, archive
<1> QED BY <1>1, <1>2, <1>3, <1>4, <1>5, BackupKeepsStore, JobKeepsStore DEF Next

----------------------------------------------------------------------------
\* The inductive invariant holds in every behaviour.
THEOREM InvariantHolds == Spec => []IInv
<1>1. Init => LockInv /\ StoreInv
  BY LockInit, StoreInit
<1>2. LockInv /\ StoreInv /\ [Next]_vars => (LockInv /\ StoreInv)'
  BY LockStep, StoreStep DEF StoreInv
<1>3. LockInv /\ StoreInv => IInv
  BY DEF LockInv, StoreInv, IInv
<1> QED BY <1>1, <1>2, <1>3, PTL DEF Spec

\* Whatever runs, and however often processes die, an operation that writes
\* the repository, its rows or the stamp is alone.
THEOREM WritersAreAlone == Spec => []WritersAlone
<1>1. IInv => WritersAlone
  BY DEF IInv, RunType, LockAgrees, LockExcludes, WritersAlone
<1> QED BY <1>1, InvariantHolds, PTL

\* A job recorded as a successful backup has its archive, its name and its stamp.
THEOREM SuccessHasStamp == Spec => []SuccessIsStamped
<1>1. IInv => SuccessIsStamped
  BY DEF IInv
<1> QED BY <1>1, InvariantHolds, PTL

\* The stamp never goes back to an older archive.
THEOREM StampNeverGoesBack == Spec => StampAdvances
<1>1. IInv /\ [Next]_vars => [stamp'.archive >= stamp.archive]_vars
  <2> SUFFICES ASSUME IInv, Next PROVE stamp'.archive >= stamp.archive
    BY DEF vars
  <2>1. stamp.archive \in Nat /\ stamp.archive >= stamp.archive
    BY BoundAssumption DEF IInv, StoreType
  <2>2. ASSUME NEW p \in Procs, Stamp(p) PROVE stamp'.archive >= stamp.archive
    BY <2>1, <2>2 DEF Stamp, IInv, RowIsLast, StampWithinRows, WithRow, Locked
  <2>3. CASE stamp' = stamp
    BY <2>1, <2>3
  <2>4. stamp' = stamp \/ \E p \in Procs : Stamp(p)
    BY DEF Next, Locking, Backup, Job, Status, Start, ReadDue, Acquire, ReadDone, GiveUp, Release,
       Ask, Stage, Create, Observe, Record, StartJob, CheckStamp, Prune, Work, Finish, ReadLast,
       ReadLatest, ReadRunning, Probe, Unprobe, Crash, Tick
  <2> QED BY <2>2, <2>3, <2>4
<1> QED BY <1>1, InvariantHolds, PTL DEF Spec, StampAdvances

\* While the clock does not go back, no archive was made later than now, and
\* the stamp was written after its archive.
MadeBefore  == \A j \in JobIds : made[j].at <= now
StampAfter  == stamp.archive # 0 => made[stamp.archive].at <= stamp.at
StampInv    == MadeBefore /\ StampAfter

\* Only Create and Stamp disturb it.
LEMMA StampStep ==
  ASSUME Steps \subseteq Nat, IInv, StampInv, [Next]_vars
  PROVE  StampInv'
<1> USE DEF StampInv
<1>0. /\ now \in Nat /\ rows \in 0..MaxJobs /\ rows \in Nat
      /\ stamp.archive \in 0..MaxJobs /\ stamp.archive \in Nat /\ stamp.archive <= rows
      /\ stamp.archive # 0 => stamp.archive \in JobIds
      /\ made \in [JobIds -> Borg] /\ \A j \in JobIds : made[j].at \in Nat
  BY BoundAssumption DEF IInv, StoreType, StampWithinRows, JobIds, Borg
<1>1. ASSUME NEW p \in Procs, Create(p) PROVE StampInv'
  <2>1. job[p] = rows /\ rows \in JobIds /\ stamp.archive < rows
    BY <1>0, <1>1 DEF Create, IInv, RowIsLast, BackupProgress, WithRow, Locked, JobIds
  <2>2. UNCHANGED <<stamp, now>>
    BY <1>1 DEF Create, world
  <2>3. \A j \in JobIds : made'[j] = made[j] \/ (j = rows /\ made'[j].at = now)
    BY <1>0, <1>1, <2>1 DEF Create, archive
  <2>4. MadeBefore'
    BY <1>0, <2>2, <2>3 DEF MadeBefore
  <2>5. StampAfter'
    BY <1>0, <2>1, <2>2, <2>3 DEF StampAfter
  <2> QED BY <2>4, <2>5
<1>2. ASSUME NEW p \in Procs, Stamp(p) PROVE StampInv'
  <2>1. job[p] = rows /\ rows \in JobIds
    BY <1>0, <1>2 DEF Stamp, IInv, RowIsLast, WithRow, Locked, JobIds
  <2>2. UNCHANGED <<made, now>> /\ (stamp' = stamp \/ stamp' = [archive |-> rows, at |-> now])
    BY <1>2, <2>1 DEF Stamp, archive, world
  <2> QED BY <2>1, <2>2 DEF MadeBefore, StampAfter
<1>3. ASSUME NEW d \in Steps, Tick(d) PROVE StampInv'
  <2>1. UNCHANGED <<made, stamp>> /\ now' = now + d /\ d \in Nat
    BY <1>3 DEF Tick, archive
  <2>2. MadeBefore'
    BY <1>0, <2>1 DEF MadeBefore
  <2> QED BY <2>1, <2>2 DEF StampAfter
<1>4. CASE UNCHANGED <<made, stamp, now>>
  BY <1>4 DEF MadeBefore, StampAfter
<1>5. CASE UNCHANGED vars
  BY <1>4, <1>5 DEF vars, archive, world
<1>6. ASSUME NEW p \in Procs, Locking(p) \/ Status(p) \/ Crash(p) PROVE StampInv'
  BY <1>4, <1>6 DEF archive, world, Locking, Status, Start, ReadDue, Acquire, ReadDone, GiveUp,
     Release, ReadLast, ReadLatest, ReadRunning, Probe, Unprobe, Crash
<1>7. ASSUME NEW p \in Procs, Backup(p) PROVE StampInv'
  BY <1>1, <1>2, <1>4, <1>7 DEF archive, world, Backup, Ask, Stage, Observe, Record
<1>8. ASSUME NEW p \in Procs, Job(p) PROVE StampInv'
  BY <1>4, <1>8 DEF archive, world, Job, StartJob, CheckStamp, Prune, Work, Finish
<1> QED BY <1>3, <1>5, <1>6, <1>7, <1>8 DEF Next

\* While the clock does not go back, the stamp names an archive that was
\* completely created before the stamp was written.
THEOREM StampFollowsArchive ==
  ASSUME Steps \subseteq Nat
  PROVE  Spec => []StampIsArchive
<1>1. Init => StampInv
  BY BoundAssumption DEF Init, StampInv, MadeBefore, StampAfter
<1>2. IInv /\ StampInv /\ [Next]_vars => StampInv'
  BY StampStep
<1>3. IInv /\ StampInv => StampIsArchive
  BY DEF IInv, StampInv, StampAfter, StampIsGood, StampIsArchive
<1> QED BY <1>1, <1>2, <1>3, InvariantHolds, PTL DEF Spec

----------------------------------------------------------------------------
\* A set of row ids has a greatest element: the least distance from n.
LEMMA Greatest ==
  ASSUME NEW n \in Nat, NEW S \in SUBSET (1..n), S # {}
  PROVE  \E m \in S : \A i \in S : i <= m
<1> DEFINE R == OpToRel(<, Nat)
           T == {x \in Nat : n - x \in S}
<1>1. IsWellFoundedOn(R, Nat)
  BY NatLessThanWellFounded
<1>2. T # {}
  <2>1. PICK s \in S : TRUE
    OBVIOUS
  <2>2. n - s \in Nat /\ n - (n - s) = s
    OBVIOUS
  <2> QED BY <2>1, <2>2
<1>3. PICK x \in T : \A y \in T : <<y, x>> \notin R
  <2> HIDE DEF R, T
  <2>1. T \subseteq Nat
    BY DEF T
  <2> QED BY <1>1, <1>2, <2>1, WFMin
<1>4. \A y \in T : ~(y < x)
  BY <1>3 DEF OpToRel
<1>5. ASSUME NEW i \in S PROVE i <= n - x
  <2>1. n - i \in Nat /\ n - (n - i) = i /\ i \in Int
    OBVIOUS
  <2>2. n - i \in T /\ x \in Nat
    BY <1>3, <2>1
  <2>3. ~(n - i < x)
    BY <1>4, <2>2
  <2> QED BY <2>1, <2>2, <2>3
<1>6. n - x \in S
  BY <1>3
<1> QED BY <1>5, <1>6

\* Prune keeps the archive that is the last by name and not older than any.
LEMMA KeepsNewest ==
  ASSUME NEW S, S \subseteq JobIds, NEW m \in S,
         \A i \in S : i <= m /\ made[i].at \in Nat /\ made[i].at <= made[m].at
  PROVE  m \in Kept(S)
<1> DEFINE newest == NewestOf(S)
           Before(a) == {b \in newest : Later(b, a)}
<1>1. \A b \in S : ~Later(b, m)
  BY BoundAssumption DEF Later, JobIds
<1>2. m \in newest
  BY <1>1 DEF NewestOf
<1>3. Before(m) = {}
  BY <1>1 DEF NewestOf
<1>4. Cardinality(Before(m)) < Keep
  <2>1. Cardinality(Before(m)) = 0
    BY <1>3, FS_EmptySet, Zenon
  <2>2. 0 < Keep
    BY ConfigAssumption
  <2> QED BY <2>1, <2>2
<1> QED BY <1>2, <1>4 DEF Kept

\* While Borg ends no create with a warning it does not know, the archives in
\* the repository are good and as old as their names say, and the running
\* backup has its own.
RepoInv ==
  /\ repo \subseteq 1..rows
  /\ \A a \in repo : made[a].grade = "good"
  /\ \A a, b \in repo : a <= b => made[a].at <= made[b].at
  /\ \A p \in Procs : pc[p] \in {"created", "stamp"} => rows \in repo
  /\ ProtectionStays

\* Only Create, Stamp and Prune disturb it.
LEMMA RepoStep ==
  ASSUME Steps \subseteq Nat, ~Warnings, IInv, StampInv, RepoInv, [Next]_vars
  PROVE  RepoInv'
<1> USE DEF RepoInv
<1>0. /\ rows \in Nat /\ rows \in 0..MaxJobs /\ MaxJobs \in Nat /\ now \in Nat
      /\ repo \subseteq JobIds
      /\ made \in [JobIds -> Borg] /\ \A j \in JobIds : made[j].at \in Nat
      /\ stamp.archive \in Nat /\ stamp.archive <= rows
      /\ pc \in [Procs -> Labels]
      /\ LockInv
  <2>1. MaxJobs \in Nat /\ MaxTime \in Nat
    BY BoundAssumption
  <2>2. /\ rows \in 0..MaxJobs /\ now \in 0..MaxTime
        /\ repo \subseteq JobIds /\ made \in [JobIds -> Borg]
        /\ stamp.archive \in 0..MaxJobs /\ stamp.archive <= rows
    BY DEF IInv, StoreType, StampWithinRows
  <2>3. \A j \in JobIds : made[j].at \in Nat
    BY <2>1, <2>2 DEF Borg
  <2>4. pc \in [Procs -> Labels] /\ LockInv
    BY DEF IInv, RunType, LockInv
  <2> QED BY <2>1, <2>2, <2>3, <2>4
<1>1. \* The frame: the repository, its archives and the stamp are as they were.
      ASSUME UNCHANGED <<made, repo, stamp>>, rows' \in Nat, rows <= rows',
             \A p \in Procs : pc'[p] \in {"created", "stamp"} =>
                                pc[p] \in {"created", "stamp"} /\ rows' = rows
      PROVE  RepoInv'
  BY <1>0, <1>1 DEF ProtectionStays
<1>2. ASSUME NEW p \in Procs, pc[p] \in WithRow
      PROVE  /\ job[p] = rows /\ rows \in JobIds /\ rows # 0
             /\ \A q \in Procs \ {p} : pc[q] \notin WithRow
  BY <1>0, <1>2, RowOfOne DEF IInv, RowIsLast, JobIds, WithRow
<1>3. ASSUME NEW p \in Procs, Create(p) PROVE RepoInv'
  <2>1. /\ pc[p] \in WithRow /\ stamp.archive < rows
        /\ \A q \in Procs \ {p} : pc'[q] = pc[q]
        /\ UNCHANGED <<rows, stamp>>
    BY <1>0, <1>3 DEF Create, WithRow, Locked, IInv, BackupProgress, Fail, Goto, table
  <2>2. CASE UNCHANGED archive /\ Fail(p)
    <3>1. pc'[p] = "finish" /\ UNCHANGED <<made, repo>>
      BY <1>0, <2>2 DEF Fail, Goto, archive
    <3> QED BY <1>0, <1>1, <2>1, <3>1
  <2>3. CASE /\ made' = [made EXCEPT ![job[p]] = [grade |-> "good", at |-> now]]
             /\ repo' = repo \cup {job[p]}
    <3>1. /\ rows' \in repo' /\ repo \subseteq repo' /\ repo' = repo \cup {rows}
          /\ \A a \in JobIds : \/ made'[a] = made[a] /\ a # rows
                               \/ a = rows /\ made'[a] = [grade |-> "good", at |-> now]
      BY <1>0, <1>2, <2>1, <2>3
    <3>2. repo' \subseteq 1..rows' /\ rows \in 1..rows
      BY <1>0, <1>2, <2>1, <3>1
    <3>3. \A a \in repo' : a \in JobIds /\ a <= rows /\ made'[a].grade = "good"
            /\ made'[a].at \in Nat /\ made'[a].at <= now
      BY <1>0, <1>2, <2>1, <3>1, <3>2 DEF StampInv, MadeBefore
    <3>4. \A a, b \in repo' : a <= b => made'[a].at <= made'[b].at
      <4> SUFFICES ASSUME NEW a \in repo', NEW b \in repo', a <= b
                   PROVE  made'[a].at <= made'[b].at
        OBVIOUS
      <4>1. CASE b = rows
        BY <3>1, <3>3, <4>1, <1>0, <1>2, <2>1
      <4>2. CASE b # rows
        BY <3>1, <3>2, <3>3, <4>2, <1>0
      <4> QED BY <4>1, <4>2
    <3>5. ProtectionStays'
      BY <2>1, <3>1, <3>3 DEF ProtectionStays
    <3> QED BY <3>1, <3>2, <3>3, <3>4, <3>5
  <2> QED BY <1>3, <2>2, <2>3 DEF Create
<1>4. ASSUME NEW p \in Procs, Stamp(p) PROVE RepoInv'
  <2>1. /\ pc[p] \in WithRow /\ pc[p] = "stamp" /\ pc'[p] \in {"record", "finish"}
        /\ \A q \in Procs \ {p} : pc'[q] = pc[q]
        /\ UNCHANGED <<rows, made, repo>>
    BY <1>0, <1>4 DEF Stamp, WithRow, Locked, Fail, Goto, table, archive
  <2>2. CASE stamp' = stamp
    BY <1>0, <1>1, <2>1, <2>2
  <2>3. CASE stamp' = [archive |-> rows, at |-> now]
    BY <1>0, <2>1, <2>3 DEF ProtectionStays
  <2> QED BY <1>2, <1>4, <2>1, <2>2, <2>3 DEF Stamp
<1>5. ASSUME NEW p \in Procs, Prune(p) PROVE RepoInv'
  <2>1. /\ pc[p] \in WithRow /\ pc'[p] \in {"work", "finish"}
        /\ \A q \in Procs \ {p} : pc'[q] = pc[q] /\ pc[q] \notin WithRow
        /\ UNCHANGED <<rows, made, stamp>>
    <3>1. pc[p] \in WithRow
      BY <1>5 DEF Prune, WithRow, Locked
    <3> QED BY <1>0, <1>2, <1>5, <3>1 DEF Prune, Fail, Goto, table
  <2>2. Kept(repo) \subseteq repo
    BY DEF Kept, NewestOf
  <2>3. Kept(repo) \subseteq repo' /\ repo' \subseteq repo
    <3>1. Kept(repo) \in SUBSET repo
      BY <2>2
    <3> HIDE DEF Kept
    <3> QED BY <1>5, <3>1 DEF Prune
  <2>4. ProtectionStays'
    <3> SUFFICES ASSUME stamp.archive # 0
                 PROVE  \E a \in repo' : made[a].grade = "good" /\ a >= stamp.archive
      BY <2>1 DEF ProtectionStays
    <3>1. PICK a \in repo : a >= stamp.archive
      BY DEF ProtectionStays
    <3>2. PICK m \in repo : \A i \in repo : i <= m
      BY <1>0, <3>1, Greatest
    <3>3. \A i \in repo : i <= m /\ made[i].at \in Nat /\ made[i].at <= made[m].at
      BY <1>0, <3>2
    <3>4. m \in Kept(repo)
      BY <1>0, <3>3, KeepsNewest
    <3>5. m >= stamp.archive
      BY <1>0, <3>1, <3>2 DEF JobIds
    <3> QED BY <2>3, <3>4, <3>5
  <2>5. \A q \in Procs : pc'[q] \notin {"created", "stamp"}
    BY <2>1 DEF WithRow, Locked
  <2> QED BY <2>1, <2>3, <2>4, <2>5
<1>6. ASSUME NEW p \in Procs, Observe(p) PROVE RepoInv'
  BY <1>0, <1>1, <1>6 DEF Observe, Fail, Goto, table, archive
<1>7. ASSUME NEW p \in Procs, NEW l \in Labels \ {"created", "stamp"}, Goto(p, l),
             UNCHANGED <<made, repo, stamp, rows>>
      PROVE  RepoInv'
  BY <1>0, <1>1, <1>7 DEF Goto
<1>8. CASE UNCHANGED <<pc, made, repo, stamp, rows>>
  BY <1>0, <1>1, <1>8
<1>9. ASSUME NEW p \in Procs, StartJob(p) PROVE RepoInv'
  <2>1. /\ pc[p] \in Locked /\ pc[p] \notin {"created", "stamp"}
        /\ UNCHANGED <<made, repo, stamp>> /\ rows' = rows + 1
    BY <1>9 DEF StartJob, Insert, archive, Locked
  <2>2. \A q \in Procs \ {p} : pc'[q] = pc[q] /\ pc[q] \notin {"created", "stamp"}
    BY <1>0, <1>9, <2>1, RowOfOne DEF IInv, StartJob, Goto, WithRow, Locked
  <2>3. pc'[p] \notin {"created", "stamp"}
    BY <1>0, <1>9 DEF StartJob, Goto
  <2> QED BY <1>0, <1>1, <2>1, <2>2, <2>3
<1>10. CASE UNCHANGED vars
  BY <1>8, <1>10 DEF vars, table, archive
<1>11. ASSUME NEW p \in Procs, Locking(p) \/ Status(p) \/ Crash(p) PROVE RepoInv'
  <2>1. UNCHANGED <<made, repo, stamp, rows>>
    BY <1>11 DEF Locking, Status, Start, ReadDue, Acquire, ReadDone, GiveUp, Release,
       ReadLast, ReadLatest, ReadRunning, Probe, Unprobe, Crash, table, archive
  <2>2. \E l \in Labels \ {"created", "stamp"} : Goto(p, l)
    BY <1>11 DEF Locking, Status, Start, ReadDue, Acquire, ReadDone, GiveUp, Release, ReadLast,
       ReadLatest, ReadRunning, Probe, Unprobe, Crash, Decide, Exit, Labels, Locked
  <2> QED BY <1>7, <2>1, <2>2
<1>12. ASSUME NEW p \in Procs, Backup(p) PROVE RepoInv'
  <2>1. CASE Ask(p)
    BY <1>8, <2>1 DEF Ask, table, archive
  <2>2. CASE Stage(p) \/ Record(p)
    <3>1. UNCHANGED <<made, repo, stamp, rows>>
      BY <2>2 DEF Stage, Record, table, archive
    <3>2. \E l \in Labels \ {"created", "stamp"} : Goto(p, l)
      BY <2>2 DEF Stage, Record, Fail, Labels, Locked
    <3> QED BY <1>7, <3>1, <3>2
  <2> QED BY <1>3, <1>4, <1>6, <1>12, <2>1, <2>2 DEF Backup
<1>13. ASSUME NEW p \in Procs, Job(p) PROVE RepoInv'
  <2>1. CASE CheckStamp(p) \/ Work(p) \/ Finish(p)
    <3>1. UNCHANGED <<made, repo, stamp, rows>>
      BY <2>1 DEF CheckStamp, Work, Finish, table, archive
    <3>2. \E l \in Labels \ {"created", "stamp"} : Goto(p, l)
      BY <2>1 DEF CheckStamp, Work, Finish, Fail, Labels, Locked
    <3> QED BY <1>7, <3>1, <3>2
  <2> QED BY <1>5, <1>9, <1>13, <2>1 DEF Job
<1>14. ASSUME NEW d \in Steps, Tick(d) PROVE RepoInv'
  BY <1>8, <1>14 DEF Tick, table, archive
<1> QED BY <1>10, <1>11, <1>12, <1>13, <1>14 DEF Next

\* While the clock does not go back and Borg ends no create with an unknown
\* warning, retention never costs the last protection.
THEOREM ProtectionIsKept ==
  ASSUME Steps \subseteq Nat, ~Warnings
  PROVE  Spec => []ProtectionStays
<1>1. Init => StampInv /\ RepoInv
  BY BoundAssumption
  DEF Init, StampInv, MadeBefore, StampAfter, RepoInv, ProtectionStays
<1>2. IInv /\ StampInv /\ [Next]_vars => StampInv'
  BY StampStep
<1>3. IInv /\ StampInv /\ RepoInv /\ [Next]_vars => RepoInv'
  BY RepoStep
<1>4. RepoInv => ProtectionStays
  BY DEF RepoInv
<1> QED BY <1>1, <1>2, <1>3, <1>4, InvariantHolds, PTL DEF Spec
----------------------------------------------------------------------------
\* The archive of the running backup is newer than the stamp until it is
\* stamped, comes into the repository with Create and stays there to the end.
OneAfterAnother ==
  \A p \in Procs :
    /\ pc[p] \in {"staging", "create", "created", "stamp"} => stamp.archive < rows
    /\ pc[p] \in {"staging", "create"} => rows \notin repo
    /\ \/ pc[p] \in {"created", "stamp", "record"}
       \/ pc[p] = "finish" /\ ok[p] /\ kind[p] \in BackupKinds
       => rows \in repo

\* What is known of the only process that has a row.
LEMMA Alone ==
  ASSUME IInv, NEW p \in Procs, pc[p] \in WithRow
  PROVE  /\ job[p] = rows /\ rows \in JobIds /\ rows \in Nat /\ rows # 0
         /\ jobs[rows].kind = RowKind(kind[p])
         /\ pc[p] # "release" => jobs[rows].state = "running"
         /\ \A q \in Procs \ {p} : pc[q] \notin WithRow
<1>1. LockInv /\ RowIsLast /\ rows \in 0..MaxJobs /\ MaxJobs \in Nat
  BY BoundAssumption DEF IInv, LockInv, StoreType
<1>2. \A q \in Procs \ {p} : pc[q] \notin WithRow
  BY <1>1, RowOfOne DEF WithRow
<1> QED BY <1>1, <1>2 DEF RowIsLast, JobIds

\* Every step of a backup moves its archive on by one record.
LEMMA OneAfterAnotherStep ==
  ASSUME IInv, RepoInv, OneAfterAnother, [Next]_vars
  PROVE  OneAfterAnother'
<1> DEFINE Labelled == {"staging", "create", "created", "stamp", "record", "finish"}
<1>0. /\ pc \in [Procs -> Labels] /\ ok \in [Procs -> BOOLEAN]
      /\ LockInv /\ KindFits /\ Labelled \subseteq WithRow
  BY DEF IInv, RunType, LockInv, WithRow, Locked
<1>1. \* The frame of a step after which its process has no record to make.
      ASSUME NEW p \in Procs, NEW l \in Labels \ Labelled, Goto(p, l),
             \A q \in Procs \ {p} : kind'[q] = kind[q] /\ ok'[q] = ok[q],
             UNCHANGED <<repo, stamp, rows>>
      PROVE  OneAfterAnother'
  BY <1>0, <1>1 DEF OneAfterAnother, Goto
<1>2. CASE UNCHANGED <<pc, kind, ok, repo, stamp, rows>>
  BY <1>2 DEF OneAfterAnother
<1>3. \* The frame of a step of the process that has the row.
      ASSUME NEW p \in Procs, pc[p] \in WithRow, NEW l \in Labels, Goto(p, l), UNCHANGED rows,
             l \in {"staging", "create", "created", "stamp"} => stamp'.archive < rows,
             l \in {"staging", "create"} => rows \notin repo',
             l \in {"created", "stamp", "record"} => rows \in repo',
             l = "finish" /\ ok'[p] /\ kind'[p] \in BackupKinds => rows \in repo'
      PROVE  OneAfterAnother'
  <2>1. \A q \in Procs \ {p} : pc'[q] \notin WithRow
    BY <1>0, <1>3, Alone DEF Goto
  <2>2. pc'[p] = l
    BY <1>0, <1>3 DEF Goto
  <2> QED BY <1>0, <1>3, <2>1, <2>2 DEF OneAfterAnother
<1>4. ASSUME NEW p \in Procs, pc[p] \in WithRow, Fail(p), UNCHANGED rows PROVE OneAfterAnother'
  <2>1. Goto(p, "finish") /\ ~ok'[p] /\ "finish" \in Labels
    BY <1>0, <1>4 DEF Fail, Labels, Locked
  <2> QED BY <1>3, <1>4, <2>1
<1>5. ASSUME NEW p \in Procs, Locking(p) \/ Status(p) \/ Crash(p) PROVE OneAfterAnother'
  <2>1. UNCHANGED <<repo, stamp, rows>>
    BY <1>5 DEF Locking, Status, Start, ReadDue, Acquire, ReadDone, GiveUp, Release,
       ReadLast, ReadLatest, ReadRunning, Probe, Unprobe, Crash, table, archive
  <2>2. \E l \in Labels \ Labelled : Goto(p, l)
    BY <1>5 DEF Locking, Status, Start, ReadDue, Acquire, ReadDone, GiveUp, Release, ReadLast,
       ReadLatest, ReadRunning, Probe, Unprobe, Crash, Decide, Exit, Labels, Locked
  <2>3. \A q \in Procs \ {p} : kind'[q] = kind[q] /\ ok'[q] = ok[q]
    BY <1>5 DEF Locking, Status, Start, ReadDue, Acquire, ReadDone, GiveUp, Release, ReadLast,
       ReadLatest, ReadRunning, Probe, Unprobe, Crash, Decide, Exit, locals, IInv, RunType
  <2> QED BY <1>1, <2>1, <2>2, <2>3
<1>6. ASSUME NEW p \in Procs, Backup(p) PROVE OneAfterAnother'
  <2>1. CASE Ask(p)
    BY <1>2, <2>1 DEF Ask, table, archive
  <2>2. CASE ~Ask(p)
    <3>0. pc[p] \in WithRow /\ UNCHANGED rows
      BY <1>6, <2>2 DEF Backup, Stage, Create, Observe, Stamp, Record, table, WithRow, Locked
    <3>1. CASE Fail(p)
      BY <1>4, <3>0, <3>1
    <3>2. CASE Stage(p) /\ ~Fail(p)
      BY <1>3, <3>0, <3>2 DEF Stage, OneAfterAnother, archive, Labels, Locked
    <3>3. CASE Create(p) /\ ~Fail(p)
      <4>1. Goto(p, "created") /\ repo' = repo \cup {rows} /\ stamp' = stamp
        BY <3>0, <3>3, Alone DEF Create
      <4>2. stamp.archive < rows
        BY <3>3 DEF Create, OneAfterAnother
      <4> QED BY <1>3, <3>0, <4>1, <4>2 DEF Labels, Locked
    <3>4. CASE Observe(p) /\ ~Fail(p)
      BY <1>3, <3>0, <3>4 DEF Observe, OneAfterAnother, archive, Labels, Locked
    <3>5. CASE Stamp(p) /\ ~Fail(p)
      BY <1>3, <3>0, <3>5 DEF Stamp, OneAfterAnother, archive, Labels, Locked
    <3>6. CASE Record(p) /\ ~Fail(p)
      BY <1>3, <3>0, <3>6 DEF Record, OneAfterAnother, archive, Labels, Locked
    <3> QED BY <1>6, <2>2, <3>1, <3>2, <3>3, <3>4, <3>5, <3>6 DEF Backup
  <2> QED BY <2>1, <2>2
<1>7. ASSUME NEW p \in Procs, Job(p) PROVE OneAfterAnother'
  <2>1. CASE StartJob(p)
    <3>1. /\ pc[p] \in Locked /\ pc[p] \notin WithRow
          /\ UNCHANGED <<repo, stamp>> /\ rows' = rows + 1
      BY <2>1 DEF StartJob, Insert, archive, Locked, WithRow
    <3>2. \A q \in Procs \ {p} : pc'[q] \notin WithRow
      BY <1>0, <2>1, <3>1, RowOfOne DEF IInv, StartJob, Goto
    <3>3. pc'[p] \in {"staging", "prune", "work"}
      BY <1>0, <2>1 DEF StartJob, Goto
    <3>4. stamp.archive < rows + 1 /\ rows + 1 \notin repo
      BY BoundAssumption DEF IInv, StoreType, StampWithinRows, RepoInv
    <3> QED BY <1>0, <3>1, <3>2, <3>3, <3>4 DEF OneAfterAnother
  <2>2. CASE CheckStamp(p)
    BY <1>1, <2>2 DEF CheckStamp, locals, table, archive, Labels, Locked
  <2>3. CASE Prune(p) \/ Work(p)
    <3>1. pc[p] \in WithRow /\ kind[p] \notin BackupKinds /\ UNCHANGED <<rows, kind>>
      BY <1>0, <2>3 DEF Prune, Work, table, WithRow, Locked, KindFits, Fits
    <3>2. CASE Fail(p)
      BY <1>4, <3>1, <3>2
    <3>3. CASE ~Fail(p)
      <4>1. \E l \in {"work", "finish"} : Goto(p, l)
        BY <2>3, <3>3 DEF Prune, Work
      <4> QED BY <1>3, <3>1, <4>1 DEF Labels, Locked
    <3> QED BY <3>2, <3>3
  <2>4. CASE Finish(p)
    BY <1>1, <2>4 DEF Finish, locals, table, archive, Labels, Locked
  <2> QED BY <1>7, <2>1, <2>2, <2>3, <2>4 DEF Job
<1>8. ASSUME NEW d \in Steps, Tick(d) PROVE OneAfterAnother'
  BY <1>2, <1>8 DEF Tick, locals, table, archive
<1>9. CASE UNCHANGED vars
  BY <1>2, <1>9 DEF vars, locals, table, archive
<1> QED BY <1>5, <1>6, <1>7, <1>8, <1>9 DEF Next

\* Each step is one of Retention, or none.
LEMMA PromiseStep ==
  ASSUME IInv, RepoInv, RepoInv', OneAfterAnother, ~Warnings, [Next]_vars
  PROVE  [Promise!Next]_(Promise!vars)
<1>0. /\ pc \in [Procs -> Labels] /\ ok \in [Procs -> BOOLEAN]
      /\ rows \in 0..MaxJobs /\ rows \in Nat /\ MaxJobs \in Nat
      /\ stamp.archive \in Nat
      /\ jobs \in [JobIds -> Row \cup {NoRow}] /\ made \in [JobIds -> Borg]
      /\ LockInv /\ KindFits
  BY BoundAssumption DEF IInv, RunType, LockInv, StoreType
<1>1. repo \subseteq 1..rows /\ Complete = repo /\ Complete' = repo'
  BY DEF RepoInv, Complete
<1>2. Backups("succeeded") \subseteq 1..rows
  BY DEF Backups
<1>3. \* The frame: no archive, no stamp and no result.
      ASSUME UNCHANGED <<repo, stamp>>, Backups("succeeded")' = Backups("succeeded")
      PROVE  UNCHANGED Promise!vars
  BY <1>1, <1>3 DEF Promise!vars
<1>4. CASE UNCHANGED <<repo, stamp, jobs, rows>>
  BY <1>3, <1>4 DEF Backups
<1>5. ASSUME NEW p \in Procs, Backup(p) PROVE [Promise!Next]_(Promise!vars)
  <2>1. CASE Ask(p) \/ Stage(p) \/ Observe(p)
    BY <1>4, <2>1 DEF Ask, Stage, Observe, table, archive
  <2>2. CASE Create(p)
    <3>1. pc[p] \in WithRow /\ UNCHANGED <<stamp, jobs, rows>>
      BY <2>2 DEF Create, WithRow, Locked, table
    <3>2. CASE UNCHANGED repo
      BY <1>4, <3>1, <3>2
    <3>3. CASE repo' = repo \cup {job[p]}
      <4>1. /\ job[p] = rows /\ rows \in JobIds /\ jobs[rows].state = "running"
            /\ stamp.archive < rows /\ rows \notin repo
        BY <2>2, <3>1, Alone DEF Create, OneAfterAnother
      <4>2. Backups("succeeded")' = Backups("succeeded") /\ rows \notin Backups("succeeded")
        BY <3>1, <4>1 DEF Backups
      <4>3. \A b \in Complete \cup Backups("succeeded") \cup {stamp.archive} : b < rows
        BY <1>0, <1>1, <1>2, <4>1, <4>2
      <4>4. Promise!Make(rows)
        BY <1>1, <3>1, <3>3, <4>1, <4>2, <4>3 DEF Promise!Make
      <4> QED BY <4>1, <4>4 DEF Promise!Next
    <3> QED BY <2>2, <3>2, <3>3 DEF Create, archive
  <2>3. CASE Stamp(p)
    <3>1. pc[p] \in WithRow /\ UNCHANGED <<repo, jobs, rows>>
      BY <2>3 DEF Stamp, WithRow, Locked, table, archive
    <3>2. CASE UNCHANGED stamp
      BY <1>4, <3>1, <3>2
    <3>3. CASE stamp' = [archive |-> job[p], at |-> now]
      <4>1. /\ job[p] = rows /\ rows \in JobIds
            /\ stamp.archive < rows /\ rows \in repo
        BY <2>3, <3>1, Alone DEF Stamp, OneAfterAnother
      <4>2. Backups("succeeded")' = Backups("succeeded")
        BY <3>1 DEF Backups
      <4>3. \A b \in Complete \cup Backups("succeeded") : b <= rows
        BY <1>0, <1>1, <1>2
      <4>4. Promise!Protect(rows)
        BY <1>0, <1>1, <3>1, <3>3, <4>1, <4>2, <4>3 DEF Promise!Protect
      <4> QED BY <4>1, <4>4 DEF Promise!Next
    <3> QED BY <2>3, <3>2, <3>3 DEF Stamp
  <2>4. CASE Record(p)
    <3>1. pc[p] \in WithRow /\ UNCHANGED <<repo, stamp, rows>>
      BY <2>4 DEF Record, WithRow, Locked, archive
    <3>2. CASE UNCHANGED jobs
      BY <1>4, <3>1, <3>2
    <3>3. CASE jobs' = [jobs EXCEPT ![job[p]].recorded = (@ \/ jobs[job[p]].state = "running")]
      <4>1. job[p] = rows /\ rows \in JobIds /\ jobs[rows] \in Row
        BY <1>0, <2>4, <3>1, Alone DEF Record, NoRow
      <4>2. \A j \in 1..rows : jobs'[j].kind = jobs[j].kind /\ jobs'[j].state = jobs[j].state
        BY <1>0, <3>3, <4>1 DEF Row, NoRow, JobIds
      <4>3. Backups("succeeded")' = Backups("succeeded")
        BY <3>1, <4>2 DEF Backups
      <4> QED BY <1>3, <3>1, <4>3
    <3> QED BY <2>4, <3>2, <3>3 DEF Record
  <2> QED BY <1>5, <2>1, <2>2, <2>3, <2>4 DEF Backup
<1>6. ASSUME NEW p \in Procs, Job(p) PROVE [Promise!Next]_(Promise!vars)
  <2>1. CASE StartJob(p)
    <3>1. /\ rows < MaxJobs /\ rows' = rows + 1 /\ UNCHANGED <<repo, stamp>>
          /\ jobs' = [jobs EXCEPT ![rows + 1] =
                        [kind |-> RowKind(kind[p]), state |-> "running",
                         recorded |-> FALSE, at |-> 0]]
      BY <2>1 DEF StartJob, Insert, archive
    <3>2. /\ rows + 1 \in JobIds /\ jobs'[rows + 1].state = "running"
          /\ \A j \in 1..rows : jobs'[j] = jobs[j]
      BY <1>0, <3>1 DEF JobIds
    <3>3. Backups("succeeded")' = Backups("succeeded")
      BY <1>0, <3>1, <3>2 DEF Backups
    <3> QED BY <1>3, <3>1, <3>3
  <2>2. CASE CheckStamp(p) \/ Work(p)
    BY <1>4, <2>2 DEF CheckStamp, Work, table, archive
  <2>3. CASE Prune(p)
    <3>1. UNCHANGED <<stamp, jobs, rows>> /\ repo' \subseteq repo
      <4>1. Kept(repo) \subseteq repo
        BY DEF Kept, NewestOf
      <4> HIDE DEF Kept
      <4> QED BY <2>3, <4>1 DEF Prune, table
    <3>2. Backups("succeeded")' = Backups("succeeded")
      BY <3>1 DEF Backups
    <3>3. stamp.archive # 0 => \E a \in repo' : a >= stamp.archive
      BY <3>1 DEF RepoInv, ProtectionStays
    <3>4. Promise!Discard
      BY <1>1, <3>1, <3>2, <3>3 DEF Promise!Discard
    <3> QED BY <3>4 DEF Promise!Next
  <2>4. CASE Finish(p)
    <3>1. pc[p] \in WithRow /\ pc[p] = "finish" /\ UNCHANGED <<repo, stamp, rows>>
      BY <2>4 DEF Finish, WithRow, Locked, archive
    <3>2. CASE UNCHANGED jobs
      BY <1>4, <3>1, <3>2
    <3>3. CASE jobs' = [jobs EXCEPT ![job[p]].state = IF ok[p] THEN "succeeded" ELSE "failed",
                                    ![job[p]].at = now]
      <4>1. /\ job[p] = rows /\ rows \in JobIds /\ rows # 0 /\ jobs[rows] \in Row
            /\ jobs[rows].state = "running" /\ jobs[rows].kind = RowKind(kind[p])
        BY <1>0, <2>4, <3>1, Alone DEF Finish, NoRow
      <4>2. /\ jobs'[rows].kind = jobs[rows].kind
            /\ jobs'[rows].state = IF ok[p] THEN "succeeded" ELSE "failed"
            /\ \A j \in JobIds \ {rows} : jobs'[j] = jobs[j]
        BY <1>0, <3>3, <4>1 DEF Row
      <4>3. 1..rows \subseteq JobIds /\ rows \in 1..rows /\ rows \notin Backups("succeeded")
        BY <1>0, <4>1 DEF JobIds, Backups
      <4>4. CASE ok[p] /\ jobs[rows].kind = "backup"
        <5>1. Backups("succeeded")' = Backups("succeeded") \cup {rows}
          BY <1>0, <3>1, <4>2, <4>3, <4>4 DEF Backups
        <5>2. kind[p] \in BackupKinds
          BY <4>1, <4>4 DEF RowKind, BackupKinds
        <5>3. stamp.archive = rows /\ rows \in repo
          BY <3>1, <4>4, <5>2 DEF OneAfterAnother, IInv, BackupProgress
        <5>4. Promise!Report(rows)
          BY <1>1, <3>1, <4>3, <5>1, <5>3 DEF Promise!Report
        <5> QED BY <4>1, <5>4 DEF Promise!Next
      <4>5. CASE ~(ok[p] /\ jobs[rows].kind = "backup")
        <5>1. Backups("succeeded")' = Backups("succeeded")
          BY <1>0, <3>1, <4>2, <4>3, <4>5 DEF Backups
        <5> QED BY <1>3, <3>1, <5>1
      <4> QED BY <4>4, <4>5
    <3> QED BY <2>4, <3>2, <3>3 DEF Finish
  <2> QED BY <1>6, <2>1, <2>2, <2>3, <2>4 DEF Job
<1>7. ASSUME NEW p \in Procs, Locking(p) \/ Status(p) \/ Crash(p) PROVE [Promise!Next]_(Promise!vars)
  BY <1>4, <1>7 DEF Locking, Status, Start, ReadDue, Acquire, ReadDone, GiveUp, Release,
     ReadLast, ReadLatest, ReadRunning, Probe, Unprobe, Crash, table, archive
<1>8. ASSUME NEW d \in Steps, Tick(d) PROVE [Promise!Next]_(Promise!vars)
  BY <1>4, <1>8 DEF Tick, table, archive
<1>9. CASE UNCHANGED vars
  BY <1>4, <1>9 DEF vars, table, archive
<1> QED BY <1>5, <1>6, <1>7, <1>8, <1>9 DEF Next

\* While the clock does not go back and Borg ends no create with an unknown
\* warning, the processes under the lock implement Retention: their records
\* move as if one backup were made after the other.
THEOREM JobsKeepRetention ==
  ASSUME Steps \subseteq Nat, ~Warnings
  PROVE  Spec => KeepsRetention
<1>1. Init => StampInv /\ RepoInv /\ OneAfterAnother /\ Promise!Init
  BY BoundAssumption
  DEF Init, StampInv, MadeBefore, StampAfter, RepoInv, ProtectionStays, OneAfterAnother,
      Promise!Init, Complete, Backups
<1>2. IInv /\ StampInv /\ [Next]_vars => StampInv'
  BY StampStep
<1>3. IInv /\ StampInv /\ RepoInv /\ [Next]_vars => RepoInv'
  BY RepoStep
<1>4. IInv /\ RepoInv /\ OneAfterAnother /\ [Next]_vars => OneAfterAnother'
  BY OneAfterAnotherStep
<1>5. IInv /\ RepoInv /\ RepoInv' /\ OneAfterAnother /\ [Next]_vars
        => [Promise!Next]_(Promise!vars)
  BY PromiseStep
<1> QED BY <1>1, <1>2, <1>3, <1>4, <1>5, InvariantHolds, PTL DEF Spec, KeepsRetention, Promise!Spec
=============================================================================
