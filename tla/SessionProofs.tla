--------------------------- MODULE SessionProofs ---------------------------
(***************************************************************************)
(* A session says what happened: a backup reported as a success is in the  *)
(* repository and recorded, no Borg of a backup or a restore outlives the  *)
(* helper unless it has been killed, and no backup is interrupted without  *)
(* a cause.  For pipes of any size, and whatever dies when.                *)
(***************************************************************************)
EXTENDS Session, TLAPS

\* Which phases a helper has a Borg in that was not sent SIGKILL, and which
\* only some operations come to.
Phased ==
  /\ op # "index" /\ borg = "running" =>
       hpc \in {"preflight", "create", "interrupt", "terminate", "kill", "work", "killed"}
         \/ sent = "KILL"
  /\ hpc = "work" => op = "restore"
  /\ hpc = "stream" => op = "index"
  /\ out = "result" => hpc = "result"

\* How far a backup is, and what there is of it.
Recorded ==
  /\ op = "backup" /\ hpc \in Locked => job # "none"
  /\ op = "backup" /\ hpc = "create" /\ borg = "ok" => archive
  /\ op = "backup" /\ hpc \in {"finalize", "complete", "record", "result", "ok"} => archive
  /\ op = "backup" /\ hpc \in {"result", "ok"} => job = "succeeded"
  /\ op = "backup" /\ shown = "success" => hpc = "ok"

\* A pipe to a live helper of a backup is closed for a cause.
Cause == asked \/ fpc = "gone" \/ signalled
Caused ==
  op = "backup" /\ hpc \notin Ended => /\ ~control => Cause
                                       /\ ~reader => Cause
                                       /\ cancel => Cause

OnlyBackups == cancel => op = "backup"

IInv == TypeOK /\ Phased /\ Recorded /\ Caused /\ OnlyBackups
----------------------------------------------------------------------------
LEMMA InitInv == Init => IInv
<1> SUFFICES ASSUME Init PROVE IInv
  OBVIOUS
<1>1. op \in {"backup", "restore", "index"}
  BY OpAssumption DEF Init
<1>2. /\ front \in {"cli", "tui", "timer"}
      /\ op = "backup" => front # "timer"
  BY <1>1 DEF Init
<1>3. pipe \in Seq({"progress", "complete", "result"}) /\ Len(pipe) <= PipeSize
  <2>1. <<>> \in Seq({"progress", "complete", "result"}) /\ Len(<<>>) = 0
    OBVIOUS
  <2> QED
    BY <2>1, PipeAssumption DEF Init
<1>4. TypeOK
  BY <1>2, <1>3 DEF Init, TypeOK, Phases
<1> QED
  BY <1>2, <1>4 DEF Init, IInv, Phased, Recorded, Caused, OnlyBackups, Locked, Ended

\* Steps of the front end.
LEMMA FrontSteps ==
  ASSUME IInv, ReadLine \/ EndOfOutput \/ TakeCancel \/ Report \/ Ask \/ FrontDies
  PROVE  IInv'
<1> USE DEF IInv, fvars, hvars, bvars
<1>1. UNCHANGED <<op, front, hpc, out, cancel, job, archive, borg, sent, signalled>>
  BY DEF ReadLine, EndOfOutput, TakeCancel, Report, Ask, FrontDies, StopReading
<1>2. pipe' \in Seq({"progress", "complete", "result"}) /\ Len(pipe') <= PipeSize
  <2>1. <<>> \in Seq({"progress", "complete", "result"}) /\ Len(<<>>) = 0
    OBVIOUS
  <2>2. pipe # <<>> => /\ Tail(pipe) \in Seq({"progress", "complete", "result"})
                       /\ Len(Tail(pipe)) <= PipeSize
    BY PipeAssumption DEF TypeOK
  <2>3. CASE ReadLine
    BY <2>2, <2>3 DEF ReadLine
  <2>4. CASE EndOfOutput \/ TakeCancel \/ FrontDies
    <3>1. pipe' = <<>>
      BY <2>4 DEF EndOfOutput, TakeCancel, FrontDies, StopReading
    <3> QED
      BY <2>1, <3>1, PipeAssumption
  <2>5. CASE Report \/ Ask
    BY <2>5 DEF TypeOK, Report, Ask
  <2> QED
    BY <2>3, <2>4, <2>5
<1>3. TypeOK'
  <2>1. /\ fpc' \in {"reading", "waiting", "cancelling", "done", "gone", "none"}
        /\ shown' \in {"none", "success", "failed", "cancelled"}
    BY DEF TypeOK, ReadLine, EndOfOutput, TakeCancel, Report, Ask, FrontDies, StopReading, Outcome
  <2>2. asked' \in BOOLEAN /\ control' \in BOOLEAN /\ reader' \in BOOLEAN
    BY DEF TypeOK, ReadLine, EndOfOutput, TakeCancel, Report, Ask, FrontDies, StopReading
  <2>3. complete' \in BOOLEAN /\ got' \in BOOLEAN
    BY DEF TypeOK, ReadLine, EndOfOutput, TakeCancel, Report, Ask, FrontDies, StopReading
  <2> QED
    BY <1>1, <1>2, <2>1, <2>2, <2>3 DEF TypeOK
<1>4. Phased' /\ OnlyBackups'
  BY <1>1 DEF Phased, OnlyBackups
<1>5. Recorded'
  <2>1. shown' = "success" /\ op = "backup" => shown = "success" \/ hpc = "ok"
    BY DEF ReadLine, EndOfOutput, TakeCancel, Report, Ask, FrontDies, StopReading, Outcome
  <2> QED
    BY <1>1, <2>1 DEF Recorded
<1>6. Caused'
  BY <1>1 DEF Caused, Cause, ReadLine, EndOfOutput, TakeCancel, Report, Ask, FrontDies,
     StopReading
<1> QED
  BY <1>3, <1>4, <1>5, <1>6

\* Steps of the threads of the helper, and its death.
LEMMA ThreadSteps ==
  ASSUME IInv, Write \/ ControlClosed \/ Signal \/ Killed
  PROVE  IInv'
<1> USE DEF IInv, fvars, hvars, bvars
<1>1. UNCHANGED <<op, front, fvars, job, archive, borg, sent>>
  BY DEF Write, ControlClosed, Signal, Killed
<1>2. pipe' \in Seq({"progress", "complete", "result"}) /\ Len(pipe') <= PipeSize
  <2>1. CASE pipe' = pipe
    BY <2>1 DEF TypeOK
  <2>2. CASE pipe' # pipe
    <3>1. pipe' = Append(pipe, out) /\ Len(pipe) < PipeSize /\ out # "none"
      BY <2>2 DEF Write, ControlClosed, Signal, Killed
    <3>2. out \in {"progress", "complete", "result"}
      BY <3>1 DEF TypeOK
    <3> QED
      BY <3>1, <3>2, PipeAssumption DEF TypeOK
  <2> QED
    BY <2>1, <2>2
<1>3. TypeOK'
  <2>1. cancel' \in BOOLEAN /\ signalled' \in BOOLEAN
    BY DEF TypeOK, Write, ControlClosed, Signal, Killed
  <2>2. hpc' \in Phases
    BY DEF TypeOK, Phases, Ended, Write, ControlClosed, Signal, Killed
  <2>3. out' \in {"none", "progress", "complete", "result"}
    BY DEF TypeOK, Write, ControlClosed, Signal, Killed
  <2> QED
    BY <1>1, <1>2, <2>1, <2>2, <2>3 DEF TypeOK
<1>4. Phased'
  BY <1>1 DEF Phased, TypeOK, Write, ControlClosed, Signal, Killed
<1>5. Recorded'
  BY <1>1 DEF Recorded, Phased, Locked, Ended, Write, ControlClosed, Signal, Killed
<1>6. Caused'
  BY <1>1 DEF Caused, Cause, Ended, TypeOK, Write, ControlClosed, Signal, Killed
<1>7. OnlyBackups'
  BY <1>1 DEF OnlyBackups, TypeOK, Write, ControlClosed, Signal, Killed
<1> QED
  BY <1>3, <1>4, <1>5, <1>6, <1>7

\* Steps of the main task, and of Borg.
HelperWork ==
  \/ HelperStep \/ Emit \/ StageFails \/ FinalizeFails \/ CreateTimesOut

LEMMA WorkSteps == IInv /\ HelperWork => IInv'
<1> SUFFICES ASSUME IInv, HelperWork PROVE IInv'
  OBVIOUS
<1> USE DEF IInv, fvars, hvars, bvars, Quiet, Spawn, Drop, Failing
<1>1. UNCHANGED <<op, front, fvars, pipe, cancel, signalled>>
  BY DEF HelperWork, HelperStep, Start, PreflightCancelled, PreflightDone, Acquire, StageDone,
     Interrupt, Escalate, CancelledEnds, CreateEnds, Finalize, Complete, Record, Return,
     WorkEnds, StreamEnds, Emit, StageFails, FinalizeFails, CreateTimesOut
<1>2. hpc \notin Ended
  BY DEF Ended, HelperWork, HelperStep, Start, PreflightCancelled, PreflightDone, Acquire,
     StageDone, Interrupt, Escalate, CancelledEnds, CreateEnds, Finalize, Complete, Record,
     Return, WorkEnds, StreamEnds, Emit, StageFails, FinalizeFails, CreateTimesOut
<1>3. Caused' /\ OnlyBackups'
  BY <1>1, <1>2 DEF Caused, Cause, OnlyBackups
<1>4. ASSUME /\ hpc' \in Phases /\ out' \in {"none", "progress", "complete", "result"}
             /\ job' \in {"none", "running", "succeeded", "failed"}
             /\ archive' = archive
             /\ borg' \in {"none", "running", "ok", "failed"}
             /\ sent' \in {"none", "INT", "TERM", "KILL"},
             Phased', Recorded'
      PROVE  IInv'
  BY <1>1, <1>3, <1>4 DEF TypeOK
<1> USE DEF Phases, Locked, Ended
<1>5. CASE Start \/ PreflightCancelled \/ PreflightDone
  BY <1>1, <1>4, <1>5 DEF Start, PreflightCancelled, PreflightDone, TypeOK, Phased, Recorded
<1>6. CASE Acquire
  <2>1. CASE op = "backup" /\ hpc' = "stage"
    BY <1>1, <1>4, <1>6, <2>1 DEF Acquire, TypeOK, Phased, Recorded
  <2>2. CASE op # "backup" /\ hpc' \in {"stream", "work"}
    <3>1. op \in {"restore", "index"}
      BY <2>2, OpAssumption DEF TypeOK
    <3>2. /\ hpc' = IF op = "index" THEN "stream" ELSE "work"
          /\ job' \in {job, "running"} /\ borg' = "running" /\ sent' = "none"
          /\ UNCHANGED <<archive, out>>
      BY <1>6, <2>2 DEF Acquire
    <3>3. out = "none"
      BY <1>6 DEF Acquire
    <3>4. Phased' /\ Recorded'
      BY <1>1, <2>2, <3>1, <3>2, <3>3 DEF Phased, Recorded
    <3> QED
      BY <1>4, <3>1, <3>2, <3>4 DEF TypeOK
  <2>3. CASE hpc' = "error"
    BY <1>1, <1>4, <1>6, <2>3 DEF Acquire, TypeOK, Phased, Recorded
  <2> QED
    BY <1>6, <2>1, <2>2, <2>3 DEF Acquire
<1>7. CASE StageDone \/ StageFails \/ Emit
  BY <1>1, <1>4, <1>7 DEF StageDone, StageFails, Emit, TypeOK, Phased, Recorded
<1>8. CASE Interrupt \/ Escalate \/ CancelledEnds \/ CreateTimesOut
  BY <1>1, <1>4, <1>8 DEF Interrupt, Escalate, CancelledEnds, CreateTimesOut, TypeOK, Phased,
     Recorded
<1>9. CASE CreateEnds
  BY <1>1, <1>4, <1>9 DEF CreateEnds, TypeOK, Phased, Recorded
<1>10. CASE Finalize \/ FinalizeFails \/ Complete \/ Return
  BY <1>1, <1>4, <1>10 DEF Finalize, FinalizeFails, Complete, Return, TypeOK, Phased, Recorded
<1>11. ASSUME NEW stored \in BOOLEAN, Record(stored) PROVE IInv'
  BY <1>1, <1>4, <1>11 DEF Record, TypeOK, Phased, Recorded
<1>12. CASE WorkEnds \/ StreamEnds
  BY <1>1, <1>4, <1>12 DEF WorkEnds, StreamEnds, TypeOK, Phased, Recorded
<1> QED
  BY <1>5, <1>6, <1>7, <1>8, <1>9, <1>10, <1>11, <1>12 DEF HelperWork, HelperStep

LEMMA BorgSteps == IInv /\ (BorgNext \/ StreamStops) => IInv'
<1> SUFFICES ASSUME IInv, BorgNext \/ StreamStops PROVE IInv'
  OBVIOUS
<1> USE DEF IInv, fvars, hvars, bvars
<1>1. UNCHANGED <<op, front, fvars, pipe, hvars, signalled>>
  BY DEF BorgNext, BorgCommits, BorgEnds, StreamStops
<1>2. TypeOK'
  <2>1. /\ archive' \in BOOLEAN /\ borg' \in {"none", "running", "ok", "failed"}
        /\ sent' \in {"none", "INT", "TERM", "KILL"}
    BY DEF BorgNext, BorgCommits, BorgEnds, StreamStops, TypeOK
  <2> QED
    BY <1>1, <2>1 DEF TypeOK
<1>3. Phased'
  BY <1>1 DEF BorgNext, BorgCommits, BorgEnds, StreamStops, Phased
<1>4. Recorded'
  BY <1>1 DEF BorgNext, BorgCommits, BorgEnds, StreamStops, Recorded, Locked
<1>5. Caused' /\ OnlyBackups'
  BY <1>1 DEF Caused, Cause, OnlyBackups
<1> QED
  BY <1>2, <1>3, <1>4, <1>5

\* The invariant is inductive.
LEMMA NextInv == IInv /\ [Next]_vars => IInv'
<1> SUFFICES ASSUME IInv, [Next]_vars PROVE IInv'
  OBVIOUS
<1>1. CASE ReadLine \/ EndOfOutput \/ TakeCancel \/ Report \/ Ask \/ FrontDies
  BY <1>1, FrontSteps
<1>2. CASE Write \/ ControlClosed \/ Signal \/ Killed
  BY <1>2, ThreadSteps
<1>3. CASE HelperWork
  BY <1>3, WorkSteps
<1>4. CASE BorgNext \/ StreamStops
  BY <1>4, BorgSteps
<1>5. CASE UNCHANGED vars
  BY <1>5 DEF vars, fvars, hvars, bvars, IInv, TypeOK, Phased, Recorded, Caused, Cause,
     OnlyBackups
<1> QED
  BY <1>1, <1>2, <1>3, <1>4, <1>5 DEF Next, HelperWork

THEOREM Invariance == Spec => []IInv
BY InitInv, NextInv, PTL DEF Spec

\* Types, and that the helper never holds more lines than the pipe takes.
THEOREM TypeTheorem == Spec => []TypeOK
<1>1. IInv => TypeOK
  BY DEF IInv
<1> QED
  BY <1>1, Invariance, PTL

\* A front end that reports a successful backup is right.
THEOREM SuccessTheorem == Spec => []SuccessIsRecorded
<1>1. IInv => SuccessIsRecorded
  BY DEF IInv, Recorded, SuccessIsRecorded
<1> QED
  BY <1>1, Invariance, PTL

\* No Borg of a backup or a restore is left running by a helper that returns.
THEOREM BorgTheorem == Spec => []BorgIsWaitedFor
<1>1. IInv => BorgIsWaitedFor
  BY DEF IInv, Phased, BorgIsWaitedFor
<1> QED
  BY <1>1, Invariance, PTL

\* Nothing interrupts a backup but its user, a signal, or the loss of its
\* front end.
THEOREM CauseTheorem == Spec => []CancelHasCause
<1>1. IInv => CancelHasCause
  BY DEF IInv, Caused, Cause, OnlyBackups, CancelHasCause
<1> QED
  BY <1>1, Invariance, PTL
=============================================================================
