------------------------------ MODULE Session ------------------------------
(***************************************************************************)
(* One run of the privileged helper as a user sees it: a front end (the    *)
(* command line or the terminal interface), the helper it starts, the two  *)
(* pipes between them, and the Borg process the helper waits for.          *)
(*                                                                         *)
(* The helper writes its progress synchronously into a pipe of bounded     *)
(* size; the front end asks it to stop by closing the control pipe.  What  *)
(* the helper does to applications is in module Quiesce, what it records   *)
(* in module Jobs: here a backup stages, creates, finalises and records.   *)
(* Deadlines and the waits between two signals are steps taken any time.   *)
(***************************************************************************)
EXTENDS Integers, Sequences

CONSTANTS
  Ops,       \* which runs are made
  PipeSize   \* bound: progress lines a pipe holds

ASSUME OpAssumption == Ops \subseteq {"backup", "restore", "index"}
ASSUME PipeAssumption == PipeSize \in Nat \ {0}

VARIABLES
  op,        \* the operation of the helper
  front,     \* who started it: command line, terminal interface or a timer
  fpc,       \* where the front end is
  asked,     \* a cancellation waits for it
  complete,  \* the last progress it read had the phase Complete
  got,       \* it has read the result
  control,   \* it holds the write end of the helper's stdin
  reader,    \* it holds the read end of the helper's stdout
  shown,     \* what it tells its user
  pipe,      \* the lines in the helper's stdout
  hpc,       \* where the helper is
  out,       \* the line it is writing
  cancel,    \* its watch channel
  job,       \* its row in the index
  archive,   \* the repository holds its archive
  borg,      \* its Borg process
  sent,      \* the last signal sent to the process group of that
  signalled  \* history: the helper was sent a signal

fvars == <<fpc, asked, complete, got, control, reader, shown>>
hvars == <<hpc, out, cancel, job>>
bvars == <<archive, borg, sent>>
vars  == <<op, front, fvars, pipe, hvars, bvars, signalled>>

\* The phases of a helper that holds Boxup's lock.
Locked == {"stage", "create", "interrupt", "terminate", "kill", "finalize", "complete",
           "failing", "record", "work", "stream"}
Ended  == {"ok", "error", "killed"}
Phases == {"start", "preflight", "lock", "result", "exit"} \cup Locked \cup Ended

TypeOK ==
  /\ op \in Ops
  /\ front \in {"cli", "tui", "timer"}
  /\ fpc \in {"reading", "waiting", "cancelling", "done", "gone", "none"}
  /\ asked \in BOOLEAN /\ complete \in BOOLEAN /\ got \in BOOLEAN
  /\ control \in BOOLEAN /\ reader \in BOOLEAN
  /\ shown \in {"none", "success", "failed", "cancelled"}
  /\ pipe \in Seq({"progress", "complete", "result"}) /\ Len(pipe) <= PipeSize
  /\ hpc \in Phases
  /\ out \in {"none", "progress", "complete", "result"}
  /\ cancel \in BOOLEAN
  /\ job \in {"none", "running", "succeeded", "failed"}
  /\ archive \in BOOLEAN
  /\ borg \in {"none", "running", "ok", "failed"}
  /\ sent \in {"none", "INT", "TERM", "KILL"}
  /\ signalled \in BOOLEAN

\* A backup is started from either front end, a restore of the terminal
\* interface has no control pipe, a timer reads nothing.
Init ==
  /\ op \in Ops
  /\ front \in CASE op = "backup" -> {"cli", "tui"} [] op = "restore" -> {"tui"} [] OTHER -> {"timer"}
  /\ fpc = IF front = "timer" THEN "none" ELSE "reading"
  /\ asked = FALSE /\ complete = FALSE /\ got = FALSE
  /\ control = (op = "backup")
  /\ reader = (front # "timer")
  /\ shown = "none"
  /\ pipe = <<>>
  /\ hpc = "start" /\ out = "none" /\ cancel = FALSE /\ job = "none"
  /\ archive = FALSE /\ borg = "none" /\ sent = "none"
  /\ signalled = FALSE

----------------------------------------------------------------------------
(* The front end                                                           *)

\* Mutant: the control pipe is dropped with the phase Complete.
ReadAndRelease ==
  /\ fpc = "reading"
  /\ pipe # <<>>
  /\ pipe' = Tail(pipe)
  /\ complete' = IF Head(pipe) = "result" THEN complete ELSE Head(pipe) = "complete"
  /\ got' = (got \/ Head(pipe) = "result")
  /\ control' = (control /\ ~complete')
  /\ UNCHANGED <<op, front, fpc, asked, reader, shown, hvars, bvars, signalled>>

\* One line of the helper's stdout.  The terminal interface looks for a
\* cancellation before each.
ReadLine ==
  /\ fpc = "reading"
  /\ pipe # <<>>
  /\ pipe' = Tail(pipe)
  /\ complete' = IF Head(pipe) = "result" THEN complete ELSE Head(pipe) = "complete"
  /\ got' = (got \/ Head(pipe) = "result")
  /\ UNCHANGED <<op, front, fpc, asked, control, reader, shown, hvars, bvars, signalled>>

\* Mutant: the reader is kept while the front end waits.
StopAndKeepReader(next) ==
  /\ fpc' = next
  /\ control' = FALSE
  /\ UNCHANGED <<op, front, asked, complete, got, reader, shown, pipe, hvars, bvars, signalled>>

\* Both ends are dropped before the front end waits for the helper, so that
\* a helper with more to write gets an error and not a full pipe.
StopReading(next) ==
  /\ fpc' = next
  /\ control' = FALSE
  /\ reader' = FALSE
  /\ pipe' = <<>>
  /\ UNCHANGED <<op, front, asked, complete, got, shown, hvars, bvars, signalled>>

EndOfOutput ==
  /\ fpc = "reading"
  /\ pipe = <<>>
  /\ hpc \in Ended
  /\ StopReading("waiting")

\* The command line looks at signals until it has read Complete, the
\* terminal interface at its flag before every line.
TakeCancel ==
  /\ fpc = "reading"
  /\ asked
  /\ front = "cli" => ~complete
  /\ StopReading("cancelling")

\* What the user is told once the helper has been waited for.
Outcome ==
  IF fpc = "cancelling" /\ front = "cli" THEN "cancelled"
  ELSE IF hpc = "ok" /\ (op = "restore" \/ got) THEN "success"
  ELSE "failed"

Report ==
  /\ fpc \in {"waiting", "cancelling"}
  /\ hpc \in Ended
  /\ fpc' = "done"
  /\ shown' = Outcome
  /\ UNCHANGED <<op, front, asked, complete, got, control, reader, pipe, hvars, bvars, signalled>>

\* A signal to the command line, a key or the end of the terminal interface.
Ask ==
  /\ fpc = "reading"
  /\ op = "backup"
  /\ ~asked
  /\ asked' = TRUE
  /\ UNCHANGED <<op, front, fpc, complete, got, control, reader, shown, pipe, hvars, bvars, signalled>>

\* The death of the front end closes both pipes.
FrontDies ==
  /\ fpc \in {"reading", "waiting", "cancelling"}
  /\ fpc' = "gone"
  /\ control' = FALSE /\ reader' = FALSE
  /\ pipe' = <<>>
  /\ UNCHANGED <<op, front, asked, complete, got, shown, hvars, bvars, signalled>>

----------------------------------------------------------------------------
(* The helper: its threads                                                 *)

\* Mutant: lines wait in an unbounded queue.
WriteQueued ==
  /\ out # "none"
  /\ out' = "none"
  /\ IF reader
     THEN pipe' = Append(pipe, out) /\ UNCHANGED <<cancel, hpc>>
     ELSE /\ cancel' = (cancel \/ (op = "backup" /\ out # "result"))
          /\ hpc' = IF out = "result" THEN "error" ELSE hpc
          /\ UNCHANGED pipe
  /\ UNCHANGED <<op, front, fvars, job, bvars, signalled>>

\* write_backup_event, and the events of a restore: blocks while the pipe is
\* full.  A progress line that cannot be written cancels a backup, a result
\* that cannot be written is an error of the helper, of a restore neither.
Write ==
  /\ out # "none"
  /\ out' = "none"
  /\ IF reader
     THEN /\ Len(pipe) < PipeSize
          /\ pipe' = Append(pipe, out)
          /\ UNCHANGED <<cancel, hpc>>
     ELSE /\ cancel' = (cancel \/ (op = "backup" /\ out # "result"))
          /\ hpc' = IF out = "result" THEN "error" ELSE hpc
          /\ UNCHANGED pipe
  /\ UNCHANGED <<op, front, fvars, job, bvars, signalled>>

\* Mutant: a byte cancels, the end of the pipe does not.
ControlByte ==
  /\ op = "backup"
  /\ hpc \notin Ended \cup {"start"}
  /\ control /\ asked
  /\ ~cancel
  /\ cancel' = TRUE
  /\ UNCHANGED <<op, front, fvars, pipe, hpc, out, job, bvars, signalled>>

\* interactive_cancellation: a thread reads the control pipe.
ControlClosed ==
  /\ op = "backup"
  /\ hpc \notin Ended \cup {"start"}
  /\ ~control
  /\ ~cancel
  /\ cancel' = TRUE
  /\ UNCHANGED <<op, front, fvars, pipe, hpc, out, job, bvars, signalled>>

\* A terminal signal: cancels a backup, is swallowed in a restore, and kills
\* a helper that has no handler (yet).
Signal ==
  /\ hpc \notin Ended
  /\ ~signalled
  /\ signalled' = TRUE
  /\ IF op = "index" \/ hpc = "start"
     THEN hpc' = "killed" /\ out' = "none" /\ UNCHANGED cancel
     ELSE cancel' = (cancel \/ op = "backup") /\ UNCHANGED <<hpc, out>>
  /\ UNCHANGED <<op, front, fvars, pipe, job, bvars>>

Killed ==
  /\ hpc \notin Ended
  /\ hpc' = "killed"
  /\ out' = "none"
  /\ UNCHANGED <<op, front, fvars, pipe, cancel, job, bvars, signalled>>

----------------------------------------------------------------------------
(* The helper: its main task, which waits while a line is being written    *)

Quiet == out = "none" /\ UNCHANGED <<op, front, fvars, pipe, cancel, signalled>>
Spawn == borg' = "running" /\ sent' = "none" /\ UNCHANGED archive
Drop  == sent' = IF borg = "running" THEN "KILL" ELSE sent   \* ProcessGroupGuard

Start ==
  /\ hpc = "start" /\ Quiet
  /\ hpc' = "preflight"
  /\ Spawn
  /\ UNCHANGED <<out, job>>

\* cancellable_preflight drops the Borg it asks for its version.
PreflightCancelled ==
  /\ hpc = "preflight" /\ Quiet
  /\ cancel
  /\ hpc' = "error"
  /\ Drop
  /\ UNCHANGED <<out, job, archive, borg>>

PreflightDone ==
  /\ hpc = "preflight" /\ Quiet
  /\ borg \in {"ok", "failed"}
  /\ hpc' = IF borg = "ok" THEN "lock" ELSE "error"
  /\ UNCHANGED <<out, job, bvars>>

\* LocalLock::acquire, and the job; a restore makes no job.
Acquire ==
  /\ hpc = "lock" /\ Quiet
  /\ \/ /\ op = "backup"
        /\ hpc' = "stage" /\ job' = "running" /\ out' = "progress"
        /\ UNCHANGED bvars
     \/ /\ op # "backup"
        /\ hpc' = IF op = "index" THEN "stream" ELSE "work"
        /\ job' = IF op = "index" THEN "running" ELSE job
        /\ Spawn
        /\ UNCHANGED out
     \/ hpc' = "error" /\ UNCHANGED <<out, job, bvars>>

\* Heartbeats and the progress of Borg.
Emit ==
  /\ hpc \in {"stage", "create", "interrupt", "terminate", "kill", "work"} /\ Quiet
  /\ out' = "progress"
  /\ UNCHANGED <<hpc, job, bvars>>

\* The phase Failed is reported, then recorded.
Failing ==
  /\ hpc' = "failing"
  /\ out' = IF op = "backup" THEN "progress" ELSE "none"

\* Auditing, quiescing, staging and resuming look at no cancellation; after
\* them it is looked at, and Borg is started.
StageDone ==
  /\ hpc = "stage" /\ Quiet
  /\ IF cancel THEN Failing /\ UNCHANGED bvars
               ELSE hpc' = "create" /\ out' = "progress" /\ Spawn
  /\ UNCHANGED job

StageFails ==
  /\ hpc = "stage" /\ Quiet
  /\ Failing
  /\ UNCHANGED <<job, bvars>>

\* Mutant: a cancelled helper does not wait for Borg.
InterruptAndLeave ==
  /\ hpc = "create" /\ Quiet
  /\ cancel
  /\ Failing
  /\ sent' = IF borg = "running" THEN "INT" ELSE sent
  /\ UNCHANGED <<job, archive, borg>>

\* wait_for_cancelled_borg, in three steps: SIGINT and 30 seconds, SIGTERM
\* and 10 seconds, SIGKILL.
Interrupt ==
  /\ hpc = "create" /\ Quiet
  /\ cancel
  /\ hpc' = "interrupt"
  /\ sent' = IF borg = "running" THEN "INT" ELSE sent
  /\ UNCHANGED <<out, job, archive, borg>>

Escalate ==
  /\ hpc \in {"interrupt", "terminate"} /\ Quiet
  /\ borg = "running"
  /\ hpc' = IF hpc = "interrupt" THEN "terminate" ELSE "kill"
  /\ sent' = IF hpc = "interrupt" THEN "TERM" ELSE "KILL"
  /\ UNCHANGED <<out, job, archive, borg>>

\* Borg has been waited for: whatever it made of it, the run was cancelled.
CancelledEnds ==
  /\ hpc \in {"interrupt", "terminate", "kill"} /\ Quiet
  /\ borg # "running"
  /\ Failing
  /\ UNCHANGED <<job, bvars>>

\* BACKUP_REPOSITORY_TIMEOUT drops the future with its ProcessGroupGuard.
CreateTimesOut ==
  /\ hpc \in {"create", "interrupt", "terminate", "kill"} /\ Quiet
  /\ Failing
  /\ Drop
  /\ UNCHANGED <<job, archive, borg>>

CreateEnds ==
  /\ hpc = "create" /\ Quiet
  /\ borg \in {"ok", "failed"}
  /\ IF borg = "ok" THEN hpc' = "finalize" /\ out' = "progress" ELSE Failing
  /\ UNCHANGED <<job, bvars>>

\* last-success.json and set_job_archive, each of which may fail.
Finalize ==
  /\ hpc = "finalize" /\ Quiet
  /\ hpc' = "complete"
  /\ UNCHANGED <<out, job, bvars>>

FinalizeFails ==
  /\ hpc \in {"finalize", "complete"} /\ Quiet
  /\ Failing
  /\ UNCHANGED <<job, bvars>>

Complete ==
  /\ hpc = "complete" /\ Quiet
  /\ hpc' = "record"
  /\ out' = "complete"
  /\ UNCHANGED <<job, bvars>>

\* Mutant: a job that could not be finished is reported all the same.
RecordOrNot(stored) ==
  /\ hpc \in {"record", "failing"} /\ Quiet
  /\ job' = IF stored /\ op # "restore" THEN (IF hpc = "record" THEN "succeeded" ELSE "failed") ELSE job
  /\ hpc' = IF hpc = "record" THEN "result" ELSE "error"
  /\ out' = IF hpc = "record" /\ op = "backup" THEN "result" ELSE "none"
  /\ UNCHANGED bvars

\* record_result; the lock is released when the run returns.
Record(stored) ==
  /\ hpc \in {"record", "failing"} /\ Quiet
  /\ job' = IF stored /\ op # "restore" THEN (IF hpc = "record" THEN "succeeded" ELSE "failed") ELSE job
  /\ hpc' = IF hpc = "record" /\ stored THEN "result" ELSE "error"
  /\ out' = IF hpc = "record" /\ stored /\ op = "backup" THEN "result" ELSE "none"
  /\ UNCHANGED bvars

Return ==
  /\ hpc = "result" /\ Quiet
  /\ hpc' = "ok"
  /\ UNCHANGED <<out, job, bvars>>

\* A restore waits for its Borg, and publishes.
WorkEnds ==
  /\ hpc = "work" /\ Quiet
  /\ borg \in {"ok", "failed"}
  /\ hpc' \in IF borg = "ok" THEN {"ok", "error"} ELSE {"error"}
  /\ UNCHANGED <<out, job, bvars>>

\* The stream of an index refresh ends with its Borg, or is dropped before
\* on an error or INDEX_JOB_TIMEOUT: the task that owns Borg goes on.
StreamEnds ==
  /\ hpc = "stream" /\ Quiet
  /\ \/ borg = "ok" /\ hpc' = "record" /\ UNCHANGED out
     \/ Failing
  /\ UNCHANGED <<job, bvars>>

\* That task finds at the next line that nobody reads, while the helper is
\* there: it leaves by process::exit.
StreamStops ==
  /\ op = "index"
  /\ hpc = "failing"
  /\ borg = "running" /\ sent = "none"
  /\ sent' = "TERM"
  /\ UNCHANGED <<op, front, fvars, pipe, hvars, archive, borg, signalled>>

HelperStep ==
  \/ Start \/ PreflightCancelled \/ PreflightDone \/ Acquire
  \/ StageDone \/ Interrupt \/ Escalate \/ CancelledEnds \/ CreateEnds
  \/ Finalize \/ Complete
  \/ \E stored \in BOOLEAN : Record(stored)
  \/ Return \/ WorkEnds \/ StreamEnds

----------------------------------------------------------------------------
(* Borg                                                                    *)

\* The archive is there when the repository has committed it.
BorgCommits ==
  /\ borg = "running"
  /\ op = "backup" /\ job # "none"
  /\ ~archive
  /\ archive' = TRUE
  /\ UNCHANGED <<op, front, fvars, pipe, hvars, borg, sent, signalled>>

BorgEnds(code) ==
  /\ borg = "running"
  /\ code = "ok" /\ op = "backup" /\ job # "none" => archive
  /\ borg' = code
  /\ UNCHANGED <<op, front, fvars, pipe, hvars, archive, sent, signalled>>

BorgNext == BorgCommits \/ \E code \in {"ok", "failed"} : BorgEnds(code)

Next ==
  \/ ReadLine \/ EndOfOutput \/ TakeCancel \/ Report \/ Ask \/ FrontDies
  \/ Write \/ ControlClosed \/ Signal \/ Killed
  \/ HelperStep \/ Emit \/ StageFails \/ FinalizeFails \/ CreateTimesOut \/ StreamStops
  \/ BorgNext

Spec == Init /\ [][Next]_vars

\* Threads and processes are scheduled; the main task of the helper polls
\* its operation after every heartbeat, so what stays ready is done although
\* lines are written in between.  Nothing is assumed of Borg but that it
\* dies of SIGKILL, and no deadline of hours is waited for.
Fairness ==
  /\ WF_vars(ReadLine) /\ WF_vars(EndOfOutput) /\ WF_vars(TakeCancel) /\ WF_vars(Report)
  /\ WF_vars(Write) /\ WF_vars(ControlClosed)
  /\ SF_vars(HelperStep)
  /\ WF_vars(sent = "KILL" /\ BorgEnds("failed"))

FairSpec == Spec /\ Fairness

----------------------------------------------------------------------------
(* What a run promises                                                     *)

\* A user who is told that the backup succeeded has it: the archive is in
\* the repository and the job is recorded as succeeded, whatever became of
\* the pipes, the helper and its Borg meanwhile (boxup.rs:1246-1259,
\* tui.rs:705-720, boxup-root.rs:178-202).
SuccessIsRecorded == shown = "success" /\ op = "backup" => job = "succeeded" /\ archive

\* A backup or a restore that returns, by success, failure, cancellation or
\* deadline, has waited for its Borg or killed its process group: no Borg
\* runs on beside the next holder of the lock (borg.rs:406-448).
BorgIsWaitedFor ==
  op # "index" /\ borg = "running" => hpc \notin {"ok", "error"} \/ sent = "KILL"

\* A backup is interrupted only when its user asked for it, the front end is
\* gone, or the helper itself was signalled: the closing of the pipes at the
\* end of a session interrupts nothing (boxup-root.rs:414-440).
CancelHasCause == cancel /\ hpc \notin Ended => asked \/ fpc = "gone" \/ signalled

\* Who asks for a cancellation is answered, with the pipe full of progress
\* and Borg deaf to every signal but the last (boxup.rs:1220-1254,
\* tui.rs:672-724).
Answered == asked ~> fpc \in {"done", "gone"}

\* A backup whose front end is gone ends, and its Borg with it
\* (boxup-root.rs:187-191, 433-438).
GoneStops ==
  op = "backup" /\ fpc = "gone" ~> hpc = "killed" \/ (hpc \in Ended /\ borg # "running")
=============================================================================
