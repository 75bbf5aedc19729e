---------------------------- MODULE StatusProofs -----------------------------
(***************************************************************************)
(* What the status display of module Jobs may say, for every interleaving  *)
(* of its separate statements with the writers: the types of what it has   *)
(* read, and that healthy refers to a backup that did succeed.             *)
(***************************************************************************)
EXTENDS JobsProofs

BackupRows == {j \in 1..rows : jobs[j].kind = "backup"}

\* Every row up to the last was inserted.
RowsFilled == \A j \in 1..rows : jobs[j] \in Row

\* What one display has read remains true of the table while it goes on
\* reading: rows are never deleted and a success is never taken back.
ViewHolds(p) ==
  /\ seen[p].last => Backups("succeeded") # {}
  /\ seen[p].base # 0 => seen[p].base \in BackupRows
  /\ pc[p] # "latest" =>
       /\ seen[p].state = "succeeded" =>
            seen[p].latest \in Backups("succeeded") /\ seen[p].base <= seen[p].latest
       /\ seen[p].state = "none" => ~seen[p].last

ViewInv == DisplayType /\ RowsFilled /\ (\A p \in Procs : ViewHolds(p)) /\ HealthyIsCurrent

----------------------------------------------------------------------------
\* Top is the greatest of a set of row ids.
LEMMA TopIsGreatest ==
  ASSUME NEW n \in Nat, NEW S \in SUBSET (1..n)
  PROVE  /\ S = {} => Top(S) = 0
         /\ S # {} => Top(S) \in S
         /\ \A i \in S : i <= Top(S)
         /\ Top(S) \in 0..n
<1>1. CASE S = {}
  BY <1>1 DEF Top
<1>2. CASE S # {}
  <2>1. \E m \in S : \A i \in S : i <= m
    BY <1>2, Greatest
  <2>2. Top(S) = CHOOSE m \in S : \A i \in S : i <= m
    BY <1>2 DEF Top
  <2>3. Top(S) \in S /\ \A i \in S : i <= Top(S)
    BY <2>1, <2>2, Zenon
  <2>4. \A i \in S : i \in 0..n
    OBVIOUS
  <2> QED BY <1>2, <2>3, <2>4, Zenon
<1> QED BY <1>1, <1>2

----------------------------------------------------------------------------
\* The table only grows: rows stay backups, successes stay successes.
LEMMA TableGrows ==
  ASSUME IInv, RowsFilled, [Next]_vars
  PROVE  /\ rows' \in Nat /\ rows <= rows'
         /\ RowsFilled'
         /\ BackupRows \subseteq BackupRows'
         /\ Backups("succeeded") \subseteq Backups("succeeded")'
<1> DEFINE Goal == /\ rows' \in Nat /\ rows <= rows'
                   /\ RowsFilled'
                   /\ BackupRows \subseteq BackupRows'
                   /\ Backups("succeeded") \subseteq Backups("succeeded")'
<1>0. /\ rows \in Nat /\ rows \in 0..MaxJobs /\ MaxJobs \in Nat
      /\ jobs \in [JobIds -> Row \cup {NoRow}]
      /\ \A j \in 1..rows : j \in JobIds
      /\ kind \in [Procs -> AllKinds \cup {"none"}]
      /\ now \in 0..MaxTime
  BY BoundAssumption DEF IInv, RunType, StoreType, JobIds
<1>1. ASSUME UNCHANGED <<jobs, rows>> PROVE Goal
  BY <1>0, <1>1 DEF RowsFilled, BackupRows, Backups
<1>2. ASSUME NEW p \in Procs, StartJob(p) PROVE Goal
  <2>1. kind[p] \in Recorded
    BY <1>2 DEF StartJob, IInv, KindFits, Fits
  <2>2. [kind |-> RowKind(kind[p]), state |-> "running", recorded |-> FALSE, at |-> 0] \in Row
    BY <2>1, BoundAssumption DEF Row, RowKind, Recorded
  <2>3. /\ rows' = rows + 1 /\ rows + 1 \in JobIds
        /\ jobs'[rows + 1] \in Row
        /\ \A j \in 1..rows : jobs'[j] = jobs[j]
    BY <1>0, <1>2, <2>2 DEF StartJob, Insert, JobIds
  <2> QED BY <1>0, <2>3 DEF RowsFilled, BackupRows, Backups
<1>3. ASSUME NEW p \in Procs, pc[p] \in WithRow \ {"release"}, rows' = rows,
             NEW r \in Row, r.kind = jobs[rows].kind, jobs' = [jobs EXCEPT ![rows] = r]
      PROVE  Goal
  <2>1. job[p] = rows /\ rows # 0 /\ jobs[rows].state = "running" /\ rows \in 1..rows
    BY <1>0, <1>3 DEF IInv, RowIsLast
  <2>2. /\ \A j \in 1..rows : j # rows => jobs'[j] = jobs[j]
        /\ jobs'[rows].kind = jobs[rows].kind /\ jobs'[rows] \in Row
    BY <1>0, <1>3, <2>1
  <2> QED BY <1>0, <1>3, <2>1, <2>2 DEF RowsFilled, BackupRows, Backups
<1>4. ASSUME NEW p \in Procs, pc[p] \in WithRow \ {"release"}
      PROVE  /\ job[p] = rows /\ rows \in JobIds /\ jobs[rows] \in Row
             /\ jobs[rows].state = "running"
  BY <1>0, <1>4 DEF IInv, RowIsLast, RowsFilled
<1>5. ASSUME NEW p \in Procs, Finish(p) PROVE Goal
  <2>1. CASE UNCHANGED jobs
    BY <1>1, <1>5, <2>1 DEF Finish
  <2>2. CASE jobs' = [jobs EXCEPT ![job[p]].state = IF ok[p] THEN "succeeded" ELSE "failed",
                                  ![job[p]].at = now]
    <3>1. pc[p] \in WithRow \ {"release"} /\ rows' = rows
      BY <1>5 DEF Finish, WithRow, Locked
    <3>2. PICK s \in {"succeeded", "failed"} : s = IF ok[p] THEN "succeeded" ELSE "failed"
      OBVIOUS
    <3> DEFINE r == [jobs[rows] EXCEPT !.state = s, !.at = now]
    <3>3. r \in Row /\ r.kind = jobs[rows].kind
      BY <1>0, <1>4, <3>1 DEF Row
    <3>4. jobs' = [jobs EXCEPT ![rows] = r]
      BY <1>0, <1>4, <2>2, <3>1, <3>2
    <3> QED BY <1>3, <3>1, <3>3, <3>4
  <2> QED BY <1>5, <2>1, <2>2 DEF Finish
<1>6. ASSUME NEW p \in Procs, Record(p) PROVE Goal
  <2>1. CASE UNCHANGED jobs
    BY <1>1, <1>6, <2>1 DEF Record
  <2>2. CASE jobs' = [jobs EXCEPT ![job[p]].recorded = (@ \/ jobs[job[p]].state = "running")]
    <3>1. pc[p] \in WithRow \ {"release"} /\ rows' = rows
      BY <1>6 DEF Record, WithRow, Locked
    <3> DEFINE r == [jobs[rows] EXCEPT !.recorded = TRUE]
    <3>2. r \in Row /\ r.kind = jobs[rows].kind
      BY <1>4, <3>1 DEF Row
    <3>3. jobs' = [jobs EXCEPT ![rows] = r]
      BY <1>4, <2>2, <3>1 DEF Row
    <3> QED BY <1>3, <3>1, <3>2, <3>3
  <2> QED BY <1>6, <2>1, <2>2 DEF Record
<1>7. CASE UNCHANGED vars
  BY <1>1, <1>7 DEF vars, table
<1>8. ASSUME NEW p \in Procs, Locking(p) \/ Status(p) \/ Crash(p) PROVE Goal
  BY <1>1, <1>8 DEF table, Locking, Status, Start, ReadDue, Acquire, ReadDone, GiveUp, Release,
     ReadLast, ReadLatest, ReadRunning, Probe, Unprobe, Crash
<1>9. ASSUME NEW p \in Procs, Backup(p) PROVE Goal
  BY <1>1, <1>6, <1>9 DEF table, Backup, Ask, Stage, Create, Observe, Stamp
<1>10. ASSUME NEW p \in Procs, Job(p) PROVE Goal
  BY <1>1, <1>2, <1>5, <1>10 DEF table, Job, CheckStamp, Prune, Work
<1>11. ASSUME NEW d \in Steps, Tick(d) PROVE Goal
  BY <1>1, <1>11 DEF table, Tick
<1> QED BY <1>7, <1>8, <1>9, <1>10, <1>11 DEF Next

----------------------------------------------------------------------------
\* What a display has read stays true through the steps of the others.
LEMMA ViewLasts ==
  ASSUME IInv, RowsFilled, [Next]_vars, NEW p \in Procs, ViewHolds(p),
         \/ seen'[p] = seen[p] /\ (pc[p] = "latest" => pc'[p] = "latest")
         \/ seen'[p] = NoView
  PROVE  ViewHolds(p)'
<1>1. CASE seen'[p] = NoView
  BY <1>1 DEF ViewHolds, NoView
<1>2. CASE seen'[p] = seen[p] /\ (pc[p] = "latest" => pc'[p] = "latest")
  BY <1>2, TableGrows DEF ViewHolds
<1> QED BY <1>1, <1>2

\* Health says healthy only of a success that was read.
LEMMA HealthyWasRead ==
  ASSUME ViewInv, NEW p \in Procs, pc[p] # "latest", NEW held \in BOOLEAN
  PROVE  /\ Health(seen[p], held) \in Healths
         /\ Health(seen[p], held) = "healthy" =>
              \E j \in Backups("succeeded") : j >= seen[p].base
<1> DEFINE v == seen[p]
<1>1. v.state \in {"none", "running", "succeeded", "failed"} /\ v.last \in BOOLEAN
  BY DEF ViewInv, DisplayType
<1>2. Health(v, held) \in Healths
  BY <1>1 DEF Health, Healths
<1>3. Health(v, held) = "healthy" => v.last /\ v.state \in {"none", "succeeded"}
  BY <1>1 DEF Health
<1>4. v.state = "succeeded" => v.latest \in Backups("succeeded") /\ v.base <= v.latest
  BY DEF ViewInv, ViewHolds
<1>5. v.state = "none" => ~v.last
  BY DEF ViewInv, ViewHolds
<1>6. v.latest \in Int /\ v.base \in Int
  BY DEF ViewInv, DisplayType
<1> HIDE DEF v
<1>7. v.state = "succeeded" => \E j \in Backups("succeeded") : j >= v.base
  BY <1>4, <1>6
<1> QED BY <1>2, <1>3, <1>5, <1>7 DEF v

\* The frame of a step that neither reads for a display nor shows anything.
LEMMA ViewFrame ==
  ASSUME IInv, ViewInv, [Next]_vars, UNCHANGED shown,
         \A q \in Procs :
           \/ seen'[q] = seen[q] /\ (pc[q] = "latest" => pc'[q] = "latest")
           \/ seen'[q] = NoView,
         DisplayType'
  PROVE  ViewInv'
<1>1. RowsFilled' /\ Backups("succeeded") \subseteq Backups("succeeded")'
  BY TableGrows DEF ViewInv
<1>2. \A q \in Procs : ViewHolds(q)'
  BY ViewLasts DEF ViewInv
<1>3. HealthyIsCurrent'
  BY <1>1 DEF ViewInv, HealthyIsCurrent
<1> QED BY <1>1, <1>2, <1>3 DEF ViewInv

\* A process that leaves forgets what it read.
LEMMA ExitForgets ==
  ASSUME IInv, ViewInv, NEW p \in Procs, Exit(p)
  PROVE  /\ seen' \in [Procs -> [base : 0..MaxJobs, last : BOOLEAN, latest : 0..MaxJobs,
                                 state : {"none", "running", "succeeded", "failed"},
                                 running : 0..MaxJobs]]
         /\ \A q \in Procs :
              \/ seen'[q] = seen[q] /\ (pc[q] = "latest" => pc'[q] = "latest")
              \/ seen'[q] = NoView
<1>1. NoView \in [base : 0..MaxJobs, last : BOOLEAN, latest : 0..MaxJobs,
                  state : {"none", "running", "succeeded", "failed"}, running : 0..MaxJobs]
  BY BoundAssumption DEF NoView
<1> QED BY <1>1 DEF Exit, Goto, IInv, RunType, ViewInv, DisplayType

\* So does one that only moves on, unless it stood between the first two reads.
LEMMA MoveKeepsViews ==
  ASSUME IInv, ViewInv, [Next]_vars, UNCHANGED <<seen, shown>>,
         \A q \in Procs : pc[q] = "latest" => pc'[q] = "latest"
  PROVE  ViewInv'
<1>1. DisplayType'
  BY DEF ViewInv, DisplayType
<1> QED BY <1>1, ViewFrame

\* Every step keeps the views and what is shown.
LEMMA ViewStep ==
  ASSUME IInv, ViewInv, [Next]_vars
  PROVE  ViewInv'
<1> DEFINE View == [base : 0..MaxJobs, last : BOOLEAN, latest : 0..MaxJobs,
                    state : {"none", "running", "succeeded", "failed"}, running : 0..MaxJobs]
<1>0. /\ seen \in [Procs -> View]
      /\ shown \in [health : Healths, base : 0..MaxJobs]
      /\ pc \in [Procs -> Labels]
      /\ rows \in Nat /\ rows \in 0..MaxJobs /\ MaxJobs \in Nat
  BY BoundAssumption DEF ViewInv, DisplayType, IInv, RunType, StoreType
<1>1. ASSUME NEW p \in Procs, Exit(p), UNCHANGED shown PROVE ViewInv'
  <2>1. DisplayType'
    BY <1>0, <1>1, ExitForgets DEF DisplayType
  <2> QED BY <1>1, <2>1, ExitForgets, ViewFrame
<1>2. CASE UNCHANGED vars
  BY <1>2, MoveKeepsViews DEF vars, display
<1>3. ASSUME NEW p \in Procs, Locking(p) PROVE ViewInv'
  <2>1. CASE Exit(p)
    BY <1>1, <1>3, <2>1 DEF Locking, Start, ReadDue, Acquire, ReadDone, GiveUp, Release, display
  <2>2. CASE ~Exit(p)
    <3>1. UNCHANGED <<seen, shown>> /\ pc[p] \in {"idle", "due", "acquire"}
      BY <1>3, <2>2 DEF Locking, Start, ReadDue, Acquire, ReadDone, GiveUp, Release, display
    <3>2. \A q \in Procs \ {p} : pc'[q] = pc[q]
      BY <1>0, <1>3, <2>2 DEF Locking, Start, ReadDue, Acquire, ReadDone, GiveUp, Release, Goto
    <3> QED BY <3>1, <3>2, MoveKeepsViews
  <2> QED BY <2>1, <2>2
<1>4. ASSUME NEW p \in Procs, Backup(p) \/ Job(p) PROVE ViewInv'
  <2>1. UNCHANGED <<seen, shown>>
    BY <1>4 DEF Backup, Job, Ask, Stage, Create, Observe, Stamp, Record, StartJob, CheckStamp,
       Prune, Work, Finish, display
  <2>2. /\ pc[p] # "latest" \/ pc' = pc
        /\ \A q \in Procs \ {p} : pc'[q] = pc[q]
    <3>1. CASE Backup(p)
      BY <1>0, <3>1 DEF Backup, Ask, Stage, Create, Observe, Stamp, Record, Fail, Goto
    <3>2. CASE Job(p)
      BY <1>0, <3>2 DEF Job, StartJob, CheckStamp, Prune, Work, Finish, Fail, Goto
    <3> QED BY <1>4, <3>1, <3>2
  <2> QED BY <2>1, <2>2, MoveKeepsViews
<1>5. ASSUME NEW p \in Procs, Crash(p) PROVE ViewInv'
  BY <1>1, <1>5 DEF Crash
<1>6. ASSUME NEW d \in Steps, Tick(d) PROVE ViewInv'
  BY <1>6, MoveKeepsViews DEF Tick, display
<1>7. \* The frame of a reading step: what it must establish of its own view.
      ASSUME NEW p \in Procs, NEW v \in View, seen' = [seen EXCEPT ![p] = v], UNCHANGED shown,
             \A q \in Procs \ {p} : pc'[q] = pc[q], ViewHolds(p)'
      PROVE  ViewInv'
  <2>1. DisplayType'
    BY <1>0, <1>7 DEF DisplayType
  <2>2. RowsFilled' /\ Backups("succeeded") \subseteq Backups("succeeded")'
    BY TableGrows DEF ViewInv
  <2>3. ASSUME NEW q \in Procs, q # p PROVE ViewHolds(q)'
    BY <1>0, <1>7, <2>3, ViewLasts DEF ViewInv
  <2>4. HealthyIsCurrent'
    BY <1>7, <2>2 DEF ViewInv, HealthyIsCurrent
  <2> QED BY <1>7, <2>1, <2>2, <2>3, <2>4 DEF ViewInv
<1>8. /\ BackupRows \in SUBSET (1..rows)
      /\ {j \in 1..rows : jobs[j].state = "running"} \in SUBSET (1..rows)
      /\ Backups("succeeded") \subseteq BackupRows
  BY DEF BackupRows, Backups
<1>9. ASSUME NEW p \in Procs, ReadLast(p) PROVE ViewInv'
  <2> DEFINE v == [seen[p] EXCEPT !.last = Backups("succeeded") # {}, !.base = Top(BackupRows)]
  <2>1. Top(BackupRows) \in 0..MaxJobs /\ (Top(BackupRows) # 0 => Top(BackupRows) \in BackupRows)
    <3>1. Top(BackupRows) \in 0..rows /\ (Top(BackupRows) # 0 => Top(BackupRows) \in BackupRows)
      BY <1>0, <1>8, TopIsGreatest
    <3> QED BY <1>0, <3>1
  <2>2. v \in View /\ v.last = (Backups("succeeded") # {}) /\ v.base = Top(BackupRows)
    BY <1>0, <2>1
  <2>3. seen' = [seen EXCEPT ![p] = v] /\ UNCHANGED <<shown, jobs, rows>> /\ Goto(p, "latest")
    BY <1>0, <1>9 DEF ReadLast, BackupRows, table
  <2> HIDE DEF v
  <2>4. seen'[p] = v /\ pc'[p] = "latest" /\ \A q \in Procs \ {p} : pc'[q] = pc[q]
    BY <1>0, <2>3 DEF Goto
  <2>5. ViewHolds(p)'
    BY <2>1, <2>2, <2>3, <2>4 DEF ViewHolds, BackupRows, Backups
  <2> QED BY <1>7, <2>2, <2>3, <2>4, <2>5
<1>10. ASSUME NEW p \in Procs, ReadLatest(p) PROVE ViewInv'
  <2> DEFINE t == Top(BackupRows)
             v == [seen[p] EXCEPT !.latest = t, !.state = StateOf(t)]
  <2>1. /\ t \in 0..MaxJobs /\ t \in Nat
        /\ t # 0 => t \in BackupRows
        /\ \A i \in BackupRows : i <= t
        /\ BackupRows # {} => t \in BackupRows
    <3>1. /\ t \in 0..rows
          /\ BackupRows = {} => t = 0
          /\ BackupRows # {} => t \in BackupRows
          /\ \A i \in BackupRows : i <= t
      BY <1>0, <1>8, TopIsGreatest
    <3> QED BY <1>0, <3>1
  <2>2. /\ t = 0 => StateOf(t) = "none"
        /\ t # 0 => StateOf(t) = jobs[t].state /\ jobs[t] \in Row
    BY <2>1 DEF StateOf, ViewInv, RowsFilled, BackupRows
  <2>3. StateOf(t) \in {"none", "running", "succeeded", "failed"} /\ (StateOf(t) = "none" => t = 0)
    BY <2>2 DEF Row
  <2>4. StateOf(t) = "succeeded" => t \in Backups("succeeded") /\ t # 0
    BY <2>1, <2>2 DEF Backups, BackupRows
  <2>5. seen' = [seen EXCEPT ![p] = v] /\ UNCHANGED <<shown, jobs, rows>> /\ Goto(p, "running")
    BY <1>0, <1>10 DEF ReadLatest, BackupRows, table
  <2>6. /\ ViewHolds(p) /\ seen[p] \in View
        /\ seen[p].base \in Nat
    BY <1>0 DEF ViewInv
  <2>7. /\ v \in View /\ v.last = seen[p].last /\ v.base = seen[p].base
        /\ v.latest = t /\ v.state = StateOf(t)
    BY <2>1, <2>3, <2>6
  <2>8. seen'[p] = v /\ pc'[p] = "running" /\ \A q \in Procs \ {p} : pc'[q] = pc[q]
    BY <1>0, <2>5 DEF Goto
  <2> HIDE DEF v, t
  <2>9. v.base # 0 => v.base \in BackupRows /\ v.base <= t
    BY <2>1, <2>6, <2>7 DEF ViewHolds
  <2>10. v.state = "succeeded" => v.latest \in Backups("succeeded") /\ v.base <= v.latest
    BY <2>1, <2>4, <2>6, <2>7, <2>9
  <2>11. v.state = "none" => ~v.last
    BY <1>8, <2>1, <2>3, <2>6, <2>7 DEF ViewHolds, BackupRows
  <2>12. v.last => Backups("succeeded") # {}
    BY <2>6, <2>7 DEF ViewHolds
  <2>13. ViewHolds(p)'
    BY <2>5, <2>8, <2>9, <2>10, <2>11, <2>12 DEF ViewHolds, BackupRows, Backups
  <2> QED BY <1>7, <2>5, <2>7, <2>8, <2>13
<1>11. ASSUME NEW p \in Procs, ReadRunning(p) PROVE ViewInv'
  <2> DEFINE t == Top({j \in 1..rows : jobs[j].state = "running"})
             v == [seen[p] EXCEPT !.running = t]
  <2>1. t \in 0..MaxJobs
    <3>1. t \in 0..rows
      BY <1>0, <1>8, TopIsGreatest
    <3> QED BY <1>0, <3>1
  <2>2. seen' = [seen EXCEPT ![p] = v] /\ UNCHANGED <<shown, jobs, rows>> /\ Goto(p, "probe")
          /\ pc[p] = "running"
    BY <1>0, <1>11 DEF ReadRunning, table
  <2>3. ViewHolds(p) /\ seen[p] \in View
    BY <1>0 DEF ViewInv
  <2>4. /\ v \in View /\ v.last = seen[p].last /\ v.base = seen[p].base
        /\ v.latest = seen[p].latest /\ v.state = seen[p].state
    BY <2>1, <2>3
  <2>5. seen'[p] = v /\ \A q \in Procs \ {p} : pc'[q] = pc[q]
    BY <1>0, <2>2 DEF Goto
  <2> HIDE DEF v, t
  <2>6. ViewHolds(p)'
    BY <2>2, <2>3, <2>4, <2>5 DEF ViewHolds, BackupRows, Backups
  <2> QED BY <1>7, <2>2, <2>4, <2>5, <2>6
<1>12. ASSUME NEW p \in Procs, pc[p] \in {"probe", "probing"}, NEW held \in BOOLEAN,
              Decide(p, held), UNCHANGED table
       PROVE  ViewInv'
  <2>1. CASE kind[p] = "index" /\ ~held
    <3>1. UNCHANGED <<seen, shown>> /\ Goto(p, "acquire")
      BY <1>12, <2>1 DEF Decide, display
    <3>2. \A q \in Procs : pc[q] = "latest" => pc'[q] = "latest"
      BY <1>0, <1>12, <3>1 DEF Goto
    <3> QED BY <3>1, <3>2, MoveKeepsViews
  <2>2. CASE kind[p] = "index" /\ held
    BY <1>1, <1>12, <2>2 DEF Decide
  <2>3. CASE kind[p] # "index"
    <3> DEFINE h == Health(seen[p], held)
    <3>1. Exit(p) /\ shown' = [health |-> h, base |-> seen[p].base]
      BY <1>12, <2>3 DEF Decide
    <3>2. h \in Healths /\ (h = "healthy" => \E j \in Backups("succeeded") : j >= seen[p].base)
      BY <1>12, HealthyWasRead
    <3> HIDE DEF h
    <3>3. shown' \in [health : Healths, base : 0..MaxJobs]
      BY <1>0, <3>1, <3>2
    <3>4. DisplayType'
      BY <3>1, <3>3, ExitForgets DEF DisplayType
    <3>5. RowsFilled' /\ Backups("succeeded") \subseteq Backups("succeeded")'
      BY TableGrows DEF ViewInv
    <3>6. \A q \in Procs : ViewHolds(q)'
      BY <3>1, ExitForgets, ViewLasts DEF ViewInv
    <3>7. HealthyIsCurrent'
      BY <3>1, <3>2, <3>5 DEF HealthyIsCurrent
    <3> QED BY <3>4, <3>5, <3>6, <3>7 DEF ViewInv
  <2> QED BY <2>1, <2>2, <2>3
<1>13. ASSUME NEW p \in Procs, Probe(p) PROVE ViewInv'
  <2>1. CASE Goto(p, "probing") /\ UNCHANGED display /\ pc[p] = "probe"
    <3>1. \A q \in Procs : pc[q] = "latest" => pc'[q] = "latest"
      BY <1>0, <2>1 DEF Goto
    <3> QED BY <2>1, <3>1, MoveKeepsViews DEF display
  <2> QED BY <1>12, <1>13, <2>1 DEF Probe
<1>14. ASSUME NEW p \in Procs, Unprobe(p) PROVE ViewInv'
  BY <1>12, <1>14 DEF Unprobe
<1>15. ASSUME NEW p \in Procs, Status(p) PROVE ViewInv'
  BY <1>9, <1>10, <1>11, <1>13, <1>14, <1>15 DEF Status
<1> QED BY <1>2, <1>3, <1>4, <1>5, <1>6, <1>15 DEF Next

----------------------------------------------------------------------------
\* Before anything runs there are no rows, and nothing was read or shown.
LEMMA ViewInit == Init => ViewInv
<1> SUFFICES ASSUME Init PROVE ViewInv
  OBVIOUS
<1>1. DisplayType
  BY BoundAssumption DEF Init, DisplayType, NoView, NoShow, Healths
<1>2. RowsFilled
  BY DEF Init, RowsFilled
<1>3. \A p \in Procs : ViewHolds(p)
  BY DEF Init, ViewHolds, NoView
<1>4. HealthyIsCurrent
  BY DEF Init, HealthyIsCurrent, NoShow
<1> QED BY <1>1, <1>2, <1>3, <1>4 DEF ViewInv

\* The views are sound in every behaviour.
LEMMA ViewsHold == Spec => []ViewInv
<1>1. IInv /\ ViewInv /\ [Next]_vars => ViewInv'
  BY ViewStep
<1> QED BY <1>1, ViewInit, InvariantHolds, PTL DEF Spec

\* Every variable of Jobs has its type in every behaviour.
THEOREM TypesHold == Spec => []TypeOK
<1>1. IInv /\ ViewInv => TypeOK
  BY DEF IInv, ViewInv, TypeOK
<1> QED BY <1>1, InvariantHolds, ViewsHold, PTL

\* A status that says healthy refers to the success of a backup no older than
\* the newest attempt there was when the status began to read, however its
\* statements interleave with writers, deaths and other displays.
THEOREM HealthyMeansCurrent == Spec => []HealthyIsCurrent
<1>1. ViewInv => HealthyIsCurrent
  BY DEF ViewInv
<1> QED BY <1>1, ViewsHold, PTL
=============================================================================
