------------------------------- MODULE Jobs --------------------------------
(***************************************************************************)
(* The operations of Boxup as the processes they are: JobRunner's backup,  *)
(* due backup, maintenance, check and index refresh, the restores and      *)
(* browsing commands, and the status display, which meet in four places:   *)
(* the advisory lock on state_dir/boxup.lock (LocalLock), the jobs table   *)
(* of the index, the stamp last-success.json, and the Borg repository.     *)
(*                                                                         *)
(* A step is one system call, one statement of SQLite or one run of Borg.  *)
(* The quiescing of applications inside a backup is one step here and the  *)
(* whole of module Quiesce.  An archive bears the number of its job.       *)
(***************************************************************************)
EXTENDS Integers, FiniteSets

CONSTANTS
  Procs,           \* the processes that can run at once
  Kinds,           \* the operations they run
  Cancellable,     \* somebody may cancel a foreground backup
  Warnings,        \* Borg may end a create with an unknown warning
  Steps,           \* what the wall clock may move by
  DueAfter,        \* schedule.due_hours
  RequireWithin,   \* retention.require_backup_within_hours
  Keep,            \* retention.keep_*: periods of which prune keeps an archive
  PeriodLength,    \* the length of such a period
  MaxJobs,         \* bound: rows of the jobs table
  MaxTime,         \* bound: the clock
  MaxCrashes       \* bound: processes that die

Recorded == {"backup", "due", "maintenance", "check", "index"}
AllKinds == Recorded \cup {"read", "status"}

ASSUME KindAssumption  == Kinds \subseteq AllKinds
ASSUME SwitchAssumption == Cancellable \in BOOLEAN /\ Warnings \in BOOLEAN
ASSUME ConfigAssumption ==
  /\ Steps \subseteq Int
  /\ {DueAfter, RequireWithin, Keep, PeriodLength} \subseteq Nat \ {0}
ASSUME BoundAssumption == {MaxJobs, MaxTime, MaxCrashes} \subseteq Nat

JobIds == 1..MaxJobs

VARIABLES
  lock,      \* flock mode each process holds on boxup.lock
  pc,        \* where each process is
  kind,      \* the operation it runs
  job,       \* the row it has inserted, 0 before
  ok,        \* its result so far is Ok
  asked,     \* cancellation was requested before the run was complete
  jobs,      \* the jobs table
  rows,      \* how many rows it has
  made,      \* history: what Borg made of each archive, and when
  repo,      \* the archives the repository lists
  stamp,     \* last-success.json
  seen,      \* what a status display has read so far
  shown,     \* the health it showed last
  now,       \* the wall clock
  crashes    \* counter for the bound

locals  == <<job, ok, asked>>
table   == <<jobs, rows>>
archive == <<made, repo>>
display == <<seen, shown>>
world   == <<now, crashes>>
vars    == <<lock, pc, kind, locals, table, archive, stamp, display, world>>

Row     == [kind : Recorded \ {"due"}, state : {"running", "succeeded", "failed"},
            recorded : BOOLEAN, at : 0..MaxTime]
NoRow   == [kind |-> "backup", state |-> "none", recorded |-> FALSE, at |-> 0]
Borg    == [grade : {"none", "good", "warned"}, at : 0..MaxTime]
NoView  == [base |-> 0, last |-> FALSE, latest |-> 0, state |-> "none", running |-> 0]
Healths == {"nothing", "running", "stale", "failed", "healthy", "never"}
NoShow  == [health |-> "nothing", base |-> 0]

\* Writers inside their exclusive section.
Locked  == {"locked", "list", "staging", "create", "created", "stamp", "record", "prune",
            "work", "finish", "release"}
Labels  == Locked \cup {"idle", "due", "acquire", "reading", "last", "latest", "running",
                        "probe", "probing"}

RunType ==
  /\ lock \in [Procs -> {"free", "shared", "exclusive"}]
  /\ pc \in [Procs -> Labels]
  /\ kind \in [Procs -> AllKinds \cup {"none"}]
  /\ job \in [Procs -> 0..MaxJobs]
  /\ ok \in [Procs -> BOOLEAN]
  /\ asked \in [Procs -> BOOLEAN]

StoreType ==
  /\ jobs \in [JobIds -> Row \cup {NoRow}]
  /\ rows \in 0..MaxJobs
  /\ made \in [JobIds -> Borg]
  /\ repo \subseteq JobIds
  /\ stamp \in [archive : 0..MaxJobs, at : 0..MaxTime]
  /\ now \in 0..MaxTime
  /\ crashes \in 0..MaxCrashes

DisplayType ==
  /\ seen \in [Procs -> [base : 0..MaxJobs, last : BOOLEAN, latest : 0..MaxJobs,
                         state : {"none", "running", "succeeded", "failed"},
                         running : 0..MaxJobs]]
  /\ shown \in [health : Healths, base : 0..MaxJobs]

TypeOK == RunType /\ StoreType /\ DisplayType

Init ==
  /\ lock = [p \in Procs |-> "free"]
  /\ pc = [p \in Procs |-> "idle"]
  /\ kind = [p \in Procs |-> "none"]
  /\ job = [p \in Procs |-> 0]
  /\ ok = [p \in Procs |-> TRUE]
  /\ asked = [p \in Procs |-> FALSE]
  /\ jobs = [j \in JobIds |-> NoRow]
  /\ rows = 0
  /\ made = [j \in JobIds |-> [grade |-> "none", at |-> 0]]
  /\ repo = {}
  /\ stamp = [archive |-> 0, at |-> 0]
  /\ seen = [p \in Procs |-> NoView]
  /\ shown = NoShow
  /\ now = 0
  /\ crashes = 0

----------------------------------------------------------------------------
(* Helpers                                                                 *)

\* Mutant: a due backup records a kind of its own.
RowKindAsStarted(k) == k

\* A due backup is a backup once it is under way; both record that kind.
RowKind(k) == IF k = "due" THEN "backup" ELSE k

Backups(state) == {j \in 1..rows : jobs[j].kind = "backup" /\ jobs[j].state = state}

\* The largest of a set of row ids, 0 of none.
Top(S) == IF S = {} THEN 0 ELSE CHOOSE j \in S : \A i \in S : i <= j

\* Mutants: maintenance, or a backup, is content with the shared lock.
MaintenanceShares(k) == IF k \in {"read", "maintenance"} THEN "shared" ELSE "exclusive"
BackupShares(k)      == IF k \in {"read", "backup"} THEN "shared" ELSE "exclusive"

\* flock grants a mode to p in view of what the others hold.
Mode(k)     == IF k = "read" THEN "shared" ELSE "exclusive"
Grants(p, mode) ==
  \A q \in Procs \ {p} : lock[q] = "free" \/ (mode = "shared" /\ lock[q] = "shared")

\* p moves to label l.
Goto(p, l) == pc' = [pc EXCEPT ![p] = l]

\* The process has returned or died: the kernel drops its lock.
Exit(p) ==
  /\ Goto(p, "idle")
  /\ lock' = [lock EXCEPT ![p] = "free"]
  /\ kind' = [kind EXCEPT ![p] = "none"]
  /\ job' = [job EXCEPT ![p] = 0]
  /\ ok' = [ok EXCEPT ![p] = TRUE]
  /\ asked' = [asked EXCEPT ![p] = FALSE]
  /\ seen' = [seen EXCEPT ![p] = NoView]

\* The result becomes an Err; the row is still to be finished.
Fail(p) ==
  /\ Goto(p, "finish")
  /\ ok' = [ok EXCEPT ![p] = FALSE]

----------------------------------------------------------------------------
(* Starting, and the lock                                                  *)

\* Room in the table for the rows of everything under way.
Room == rows + Cardinality({p \in Procs : kind[p] \in Recorded /\ job[p] = 0}) < MaxJobs

Start(p, k) ==
  /\ pc[p] = "idle"
  /\ k \in Recorded => Room
  /\ kind' = [kind EXCEPT ![p] = k]
  /\ Goto(p, CASE k = "due" -> "due"
               [] k = "index" -> "probe"
               [] k = "status" -> "last"
               [] OTHER -> "acquire")
  /\ UNCHANGED <<lock, locals, table, archive, stamp, display, world>>

\* backup_if_due: the decision is taken before the lock is.
ReadDue(p) ==
  /\ pc[p] = "due"
  /\ IF \E j \in Backups("succeeded") :
          /\ \A i \in Backups("succeeded") : jobs[i].at <= jobs[j].at
          /\ now - jobs[j].at < DueAfter
       THEN Exit(p)
       ELSE /\ Goto(p, "acquire")
            /\ UNCHANGED <<lock, kind, locals, seen>>
  /\ UNCHANGED <<table, archive, stamp, shown, world>>

\* LocalLock::acquire never waits.
Acquire(p) ==
  /\ pc[p] = "acquire"
  /\ IF Grants(p, Mode(kind[p]))
       THEN /\ lock' = [lock EXCEPT ![p] = Mode(kind[p])]
            /\ Goto(p, IF kind[p] = "read" THEN "reading" ELSE "locked")
            /\ UNCHANGED <<kind, locals, seen>>
       ELSE Exit(p)
  /\ UNCHANGED <<table, archive, stamp, shown, world>>

\* A restore or a browsing command under the shared lock; repository,
\* rows and stamp are only read.
ReadDone(p) ==
  /\ pc[p] = "reading"
  /\ Exit(p)
  /\ UNCHANGED <<table, archive, stamp, shown, world>>

----------------------------------------------------------------------------
(* Job rows                                                                *)

\* start_job
Insert(p) ==
  /\ rows < MaxJobs
  /\ rows' = rows + 1
  /\ job' = [job EXCEPT ![p] = rows + 1]
  /\ jobs' = [jobs EXCEPT ![rows + 1] = [kind |-> RowKind(kind[p]), state |-> "running",
                                         recorded |-> FALSE, at |-> 0]]

StartJob(p) ==
  /\ \/ pc[p] = "locked" /\ kind[p] # "maintenance"
     \/ pc[p] = "list" /\ stamp.archive \in repo
  /\ Insert(p)
  /\ Goto(p, CASE kind[p] \in {"backup", "due"} -> "staging"
               [] kind[p] = "maintenance" -> "prune"
               [] OTHER -> "work")
  /\ UNCHANGED <<lock, kind, ok, asked, archive, stamp, display, world>>

\* An error, or prune's refusal, before there is a row.
GiveUp(p) ==
  /\ pc[p] \in {"due", "acquire", "locked", "list", "last", "latest", "running", "probe"}
  /\ Exit(p)
  /\ UNCHANGED <<table, archive, stamp, shown, world>>

\* finish_job, then the notification; without the update the row stays as it is.
Finish(p) ==
  /\ pc[p] = "finish"
  /\ \/ jobs' = [jobs EXCEPT ![job[p]].state = IF ok[p] THEN "succeeded" ELSE "failed",
                             ![job[p]].at = now]
     \/ UNCHANGED jobs
  /\ Goto(p, "release")
  /\ UNCHANGED <<lock, kind, locals, rows, archive, stamp, display, world>>

Release(p) ==
  /\ pc[p] = "release"
  /\ Exit(p)
  /\ UNCHANGED <<table, archive, stamp, shown, world>>

----------------------------------------------------------------------------
(* Backup                                                                  *)

\* Ctrl-C, a signal or a closed control pipe; the command line ignores it
\* once the phase Complete was reported.
Ask(p) ==
  /\ Cancellable
  /\ kind[p] = "backup"
  /\ pc[p] \in {"acquire", "locked", "staging", "create", "created", "stamp", "record"}
  /\ asked' = [asked EXCEPT ![p] = TRUE]
  /\ UNCHANGED <<lock, pc, kind, job, ok, table, archive, stamp, display, world>>

\* backup_inner up to the check of the cancellation: recovery, audit, snapshot.
Stage(p) ==
  /\ pc[p] = "staging"
  /\ \/ Fail(p)
     \/ /\ ~asked[p]
        /\ Goto(p, "create")
        /\ UNCHANGED ok
  /\ UNCHANGED <<lock, kind, job, asked, table, archive, stamp, display, world>>

\* borg create commits the archive, or none.
Create(p) ==
  /\ pc[p] = "create"
  /\ \/ \E grade \in {"good"} \cup (IF Warnings THEN {"warned"} ELSE {}) :
          /\ made' = [made EXCEPT ![job[p]] = [grade |-> grade, at |-> now]]
          /\ repo' = repo \cup {job[p]}
        /\ Goto(p, "created")
        /\ UNCHANGED ok
     \/ /\ Fail(p)
        /\ UNCHANGED archive
  /\ UNCHANGED <<lock, kind, job, asked, table, stamp, display, world>>

\* Mutant: every warning of Borg is a note.
ObserveAnyWarning(p) ==
  /\ pc[p] = "created"
  /\ \/ /\ Goto(p, "stamp")
        /\ UNCHANGED ok
     \/ Fail(p)
  /\ UNCHANGED <<lock, kind, job, asked, table, archive, stamp, display, world>>

\* What Boxup makes of Borg's exit: a warning it does not know is an error,
\* and so is a cancellation, a timeout or unreadable output.  A cancellation
\* that comes with the exit may win or lose.
Observe(p) ==
  /\ pc[p] = "created"
  /\ \/ /\ made[job[p]].grade = "good"
        /\ Goto(p, "stamp")
        /\ UNCHANGED ok
     \/ Fail(p)
  /\ UNCHANGED <<lock, kind, job, asked, table, archive, stamp, display, world>>

\* Mutant: a stamp that could not be written is only logged.
StampOrWarn(p) ==
  /\ pc[p] = "stamp"
  /\ \/ stamp' = [archive |-> job[p], at |-> now]
     \/ UNCHANGED stamp
  /\ Goto(p, "record")
  /\ UNCHANGED <<lock, kind, locals, table, archive, display, world>>

\* write_atomic of last-success.json
Stamp(p) ==
  /\ pc[p] = "stamp"
  /\ \/ /\ stamp' = [archive |-> job[p], at |-> now]
        /\ Goto(p, "record")
        /\ UNCHANGED ok
     \/ /\ Fail(p)
        /\ UNCHANGED stamp
  /\ UNCHANGED <<lock, kind, job, asked, table, archive, display, world>>

\* Mutant: an archive that could not be recorded is only logged.
RecordOrWarn(p) ==
  /\ pc[p] = "record"
  /\ \/ jobs' = [jobs EXCEPT ![job[p]].recorded = (@ \/ jobs[job[p]].state = "running")]
     \/ UNCHANGED jobs
  /\ Goto(p, "finish")
  /\ UNCHANGED <<lock, kind, locals, rows, archive, stamp, display, world>>

\* set_job_archive
Record(p) ==
  /\ pc[p] = "record"
  /\ \/ /\ jobs' = [jobs EXCEPT ![job[p]].recorded = (@ \/ jobs[job[p]].state = "running")]
        /\ Goto(p, "finish")
        /\ UNCHANGED ok
     \/ /\ Fail(p)
        /\ UNCHANGED jobs
  /\ UNCHANGED <<lock, kind, job, asked, rows, archive, stamp, display, world>>

----------------------------------------------------------------------------
(* Maintenance, check, index refresh                                       *)

\* read_success_stamp and its checks against the clock; the live list and the
\* search for the stamped archive come with StartJob.
CheckStamp(p) ==
  /\ pc[p] = "locked"
  /\ kind[p] = "maintenance"
  /\ stamp.archive # 0
  /\ now - stamp.at <= RequireWithin
  /\ stamp.at <= now
  /\ Goto(p, "list")
  /\ UNCHANGED <<lock, kind, locals, table, archive, stamp, display, world>>

\* borg prune keeps the newest archive of each of the Keep newest periods that
\* have one, and the oldest archive while there are fewer.
Period(a)   == made[a].at \div PeriodLength
Later(a, b) == made[a].at > made[b].at \/ (made[a].at = made[b].at /\ a > b)
\* Mutant: the first archive of a period is the one that is kept.
FirstOf(S)  == {a \in S : \A b \in S : Period(b) = Period(a) => ~Later(a, b)}
NewestOf(S) == {a \in S : \A b \in S : Period(b) = Period(a) => ~Later(b, a)}
Kept(S) ==
  LET newest == NewestOf(S)
      Before(a) == {b \in newest : Later(b, a)}
  IN {a \in newest : Cardinality(Before(a)) < Keep}
       \cup (IF Cardinality(newest) < Keep THEN {a \in S : \A b \in S : ~Later(a, b)} ELSE {})

\* Borg deletes what it does not keep; it may fail on the way, or be asked for
\* a dry run.
Prune(p) ==
  /\ pc[p] = "prune"
  /\ \/ /\ repo' = Kept(repo)
        /\ Goto(p, "work")
        /\ UNCHANGED ok
     \/ /\ \E lost \in SUBSET (repo \ Kept(repo)) : repo' = repo \ lost
        /\ Fail(p)
     \/ /\ Goto(p, "finish")
        /\ UNCHANGED <<repo, ok>>
  /\ UNCHANGED <<lock, kind, job, asked, table, made, stamp, display, world>>

\* compact and refresh, check, or the refresh alone.
Work(p) ==
  /\ pc[p] = "work"
  /\ \/ Fail(p)
     \/ Goto(p, "finish") /\ UNCHANGED ok
  /\ UNCHANGED <<lock, kind, job, asked, table, archive, stamp, display, world>>

----------------------------------------------------------------------------
(* LocalLock::is_held, and the status display                              *)

\* The state column of the newest backup row.
StateOf(j) == IF j = 0 THEN "none" ELSE jobs[j].state

\* load_status reads the rows in separate statements.
ReadLast(p) ==
  /\ pc[p] = "last"
  /\ seen' = [seen EXCEPT ![p].last = Backups("succeeded") # {},
                          ![p].base = Top({j \in 1..rows : jobs[j].kind = "backup"})]
  /\ Goto(p, "latest")
  /\ UNCHANGED <<lock, kind, locals, table, archive, stamp, shown, world>>

ReadLatest(p) ==
  /\ pc[p] = "latest"
  /\ LET j == Top({i \in 1..rows : jobs[i].kind = "backup"})
     IN seen' = [seen EXCEPT ![p].latest = j, ![p].state = StateOf(j)]
  /\ Goto(p, "running")
  /\ UNCHANGED <<lock, kind, locals, table, archive, stamp, shown, world>>

ReadRunning(p) ==
  /\ pc[p] = "running"
  /\ seen' = [seen EXCEPT ![p].running = Top({j \in 1..rows : jobs[j].state = "running"})]
  /\ Goto(p, "probe")
  /\ UNCHANGED <<lock, kind, locals, table, archive, stamp, shown, world>>

\* Mutant: a failed attempt does not spoil the health of an earlier success.
HealthOfLastSuccess(v, held) ==
  CASE v.state = "running" /\ held /\ v.running = v.latest -> "running"
    [] v.state = "running" /\ ~(held /\ v.running = v.latest) -> "stale"
    [] v.state # "running" /\ v.last -> "healthy"
    [] v.state = "failed" /\ ~v.last -> "failed"
    [] OTHER -> "never"

\* print_status
Health(v, held) ==
  CASE v.state = "running" /\ held /\ v.running = v.latest -> "running"
    [] v.state = "running" /\ ~(held /\ v.running = v.latest) -> "stale"
    [] v.state = "failed" -> "failed"
    [] v.state \in {"none", "succeeded"} /\ v.last -> "healthy"
    [] OTHER -> "never"

\* The answer of is_held decides: an index refresh is skipped or goes on to
\* take the lock, a status is shown.
Decide(p, held) ==
  IF kind[p] = "index" /\ ~held
    THEN /\ Goto(p, "acquire")
         /\ lock' = [lock EXCEPT ![p] = "free"]
         /\ UNCHANGED <<kind, locals, display>>
    ELSE /\ Exit(p)
         /\ shown' = IF kind[p] = "index" THEN shown
                     ELSE [health |-> Health(seen[p], held), base |-> seen[p].base]

\* The probe takes a shared lock if it can ...
Probe(p) ==
  /\ pc[p] = "probe"
  /\ \/ /\ Grants(p, "shared")
        /\ lock' = [lock EXCEPT ![p] = "shared"]
        /\ Goto(p, "probing")
        /\ UNCHANGED <<kind, locals, display>>
     \/ /\ ~Grants(p, "shared")
        /\ Decide(p, TRUE)
  /\ UNCHANGED <<table, archive, stamp, world>>

\* ... and gives it back.
Unprobe(p) ==
  /\ pc[p] = "probing"
  /\ Decide(p, FALSE)
  /\ UNCHANGED <<table, archive, stamp, world>>

----------------------------------------------------------------------------
Crash(p) ==
  /\ pc[p] # "idle"
  /\ crashes < MaxCrashes
  /\ crashes' = crashes + 1
  /\ Exit(p)
  /\ UNCHANGED <<table, archive, stamp, shown, now>>

Tick(d) ==
  /\ now + d \in 0..MaxTime
  /\ now' = now + d
  /\ UNCHANGED <<lock, pc, kind, locals, table, archive, stamp, display, crashes>>

Locking(p) == \/ \E k \in Kinds : Start(p, k)
              \/ ReadDue(p) \/ Acquire(p) \/ ReadDone(p) \/ GiveUp(p) \/ Release(p)
Backup(p)  == Ask(p) \/ Stage(p) \/ Create(p) \/ Observe(p) \/ Stamp(p) \/ Record(p)
Job(p)     == StartJob(p) \/ CheckStamp(p) \/ Prune(p) \/ Work(p) \/ Finish(p)
Status(p)  == ReadLast(p) \/ ReadLatest(p) \/ ReadRunning(p) \/ Probe(p) \/ Unprobe(p)

Next == \/ \E p \in Procs : Locking(p) \/ Backup(p) \/ Job(p) \/ Status(p) \/ Crash(p)
        \/ \E d \in Steps : Tick(d)

Spec == Init /\ [][Next]_vars

----------------------------------------------------------------------------
(* Properties                                                              *)

\* While a process is inside an operation that writes the repository, its
\* rows or the stamp, no other is inside such an operation or a restore (the
\* test exclusive_lock_refuses_second_writer, for every interleaving).
WritersAlone ==
  \A p, q \in Procs :
    p # q /\ pc[p] \in Locked => pc[q] \notin Locked \cup {"reading"}

\* A job recorded as a successful backup made an archive that Borg created
\* without an unknown warning, its row names that archive, and the stamp that
\* prune relies on names it or a newer one: the three records are written one
\* after the other, and any of the writes may fail or be the last.
SuccessIsStamped ==
  \A j \in Backups("succeeded") :
    jobs[j].recorded /\ made[j].grade = "good" /\ stamp.archive >= j

\* The stamp names an archive that was completely created before the stamp
\* was written, by a run that reached its end.
StampIsArchive ==
  stamp.archive # 0 =>
    made[stamp.archive].grade = "good" /\ made[stamp.archive].at <= stamp.at

\* Whatever runs at the same time, the stamp never goes back to an older archive.
StampAdvances == [][stamp'.archive >= stamp.archive]_vars

\* Retention never costs the last protection: a repository that once held a
\* fully successful backup holds one at least as new (what the live
\* validation in JobRunner::prune is for).
ProtectionStays ==
  stamp.archive # 0 => \E a \in repo : made[a].grade = "good" /\ a >= stamp.archive

\* A status that says healthy was preceded by the success of a backup no older
\* than the newest attempt there was when the status began to read.
HealthyIsCurrent ==
  shown.health = "healthy" => \E j \in Backups("succeeded") : j >= shown.base

\* The archives Borg completed and the repository still has.
Complete == {a \in repo : made[a].grade = "good"}

\* The processes together keep the promise of module Retention: under the lock,
\* the four records move as if one backup were made after the other.
Promise == INSTANCE Retention
             WITH Archives  <- JobIds,
                  archives  <- Complete,
                  protected <- stamp.archive,
                  reported  <- Backups("succeeded")
KeepsRetention == Promise!Spec

----------------------------------------------------------------------------
(* The inductive invariant behind WritersAlone, SuccessIsStamped and       *)
(* StampAdvances                                                           *)

\* Labels of the interval from start_job to the return.
WithRow == Locked \ {"locked", "list"}

BackupLabels == {"staging", "create", "created", "stamp", "record"}
BackupKinds  == {"backup", "due"}

\* Where a process is tells what lock it has.
LockAgrees ==
  \A p \in Procs :
    /\ pc[p] \in Locked <=> lock[p] = "exclusive"
    /\ pc[p] \in {"reading", "probing"} <=> lock[p] = "shared"

LockExcludes ==
  \A p, q \in Procs : p # q /\ lock[p] = "exclusive" => lock[q] = "free"

\* Which operations reach which labels.
Fits(k, l) ==
  /\ l \in WithRow \cup {"locked", "list", "due"} => k \in Recorded
  /\ l = "acquire" => k \in Recorded \cup {"read"}
  /\ l \in BackupLabels => k \in BackupKinds
  /\ l \in {"list", "prune", "work"} => k \notin BackupKinds

KindFits == \A p \in Procs : Fits(kind[p], pc[p])

\* The row of a process is the last of the table, and open until it finishes.
RowIsLast ==
  \A p \in Procs :
    /\ job[p] # 0 <=> pc[p] \in WithRow
    /\ job[p] # 0 => /\ job[p] = rows
                     /\ jobs[rows].kind = RowKind(kind[p])
    /\ job[p] # 0 /\ pc[p] # "release" => jobs[rows].state = "running"

\* What the records of the running backup say at each of its steps.
BackupProgress ==
  \A p \in Procs :
    /\ pc[p] \in {"staging", "create"} => stamp.archive < rows
    /\ pc[p] = "stamp" => made[rows].grade = "good"
    /\ pc[p] = "record" => made[rows].grade = "good" /\ stamp.archive = rows
    /\ pc[p] = "finish" /\ ok[p] /\ kind[p] \in BackupKinds =>
         made[rows].grade = "good" /\ stamp.archive = rows /\ jobs[rows].recorded

StampWithinRows == stamp.archive <= rows

StampIsGood == stamp.archive # 0 => made[stamp.archive].grade = "good"

IInv ==
  /\ RunType
  /\ StoreType
  /\ LockAgrees
  /\ LockExcludes
  /\ KindFits
  /\ RowIsLast
  /\ BackupProgress
  /\ StampWithinRows
  /\ StampIsGood
  /\ SuccessIsStamped
=============================================================================
