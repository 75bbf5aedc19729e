------------------------------ MODULE Quiesce ------------------------------
(***************************************************************************)
(* The quiescing half of a backup: DockerManager's recover_unfinished,     *)
(* audit, prepare_snapshot, resume and their callers in backup_inner, with *)
(* the recovery journal they keep, interleaved with crashes of Boxup, with *)
(* the daemons (Docker, systemd) that carry out its commands, and with an  *)
(* administrator who starts and stops the same containers and services.    *)
(*                                                                         *)
(* One backup runs at a time: JobRunner takes the exclusive flock before   *)
(* it calls backup_inner (module Jobs).  An external command is one   *)
(* step, except the stop commands, whose client and effect part company.   *)
(***************************************************************************)
EXTENDS Naturals, FiniteSets

CONSTANTS
  Containers,      \* the selected stateful containers
  Services,        \* docker.stop_services
  ServicePaths,    \* docker.service_paths
  NoUnit,          \* no external command concerns a single unit
  MaxCrashes,      \* bound: crashes of Boxup
  MaxOutside       \* bound: starts and stops by the administrator

Units == Containers \cup Services
Items == Containers \cup ServicePaths

ASSUME UnitsAssumption ==
  /\ Containers \cap Services = {}
  /\ Containers \cap ServicePaths = {}
  /\ NoUnit \notin Units
ASSUME BoundAssumption == MaxCrashes \in Nat /\ MaxOutside \in Nat

VARIABLES
  unit,            \* what Docker and systemd have each unit doing
  downed,          \* history: units whose stop by Boxup took effect, not started since
  missed,          \* history: containers resume found running in the middle of a stop
  disturbed,       \* history: units others started or stopped since the run looked
  journal,         \* staging_dir/quiesce-journal.json
  enabled,         \* docker.enabled
  pc,              \* where backup_inner is
  active,          \* containers found running by the audit, or journalled
  services,        \* services found active, or journalled
  pending,         \* what the current loop has still to visit
  target,          \* the unit the current command concerns
  failures,        \* units resume could not verify
  broken,          \* the quiesce block of prepare_snapshot ended in an error
  recovering,      \* resume was called by recover_unfinished
  staged,          \* staged_sources: items the live backup will leave out
  copies,          \* the latest staged copy of each item
  crashes, outside \* counters for the bounds

world  == <<unit, downed, missed, disturbed>>
disk   == <<journal, enabled>>
locals == <<active, services, pending, target, failures, broken, recovering, staged, copies>>
bounds == <<crashes, outside>>
vars   == <<world, disk, pc, locals, bounds>>

Labels == {"idle", "recover", "resume", "settle", "audit", "check", "copyStopped",
           "query", "stop", "stopping", "final", "returned", "creating"}
Phases == {"none", "stopping", "quiesced"}

Journal(phase, cs, ss) == [phase |-> phase, active |-> cs, services |-> ss]
NoJournal == Journal("none", {}, {})
JournalType == [phase : Phases, active : SUBSET Containers, services : SUBSET Services]
Covered   == journal.active \cup journal.services

TypeOK ==
  /\ unit \in [Units -> {"up", "stopping", "down"}]
  /\ downed \subseteq Units
  /\ missed \subseteq Containers
  /\ disturbed \subseteq Units
  /\ journal \in JournalType
  /\ enabled \in BOOLEAN
  /\ pc \in Labels
  /\ active \subseteq Containers
  /\ services \subseteq Services
  /\ pending \subseteq Units \cup Items
  /\ target \in Units \cup {NoUnit}
  /\ failures \subseteq Units
  /\ broken \in BOOLEAN
  /\ recovering \in BOOLEAN
  /\ staged \subseteq Items
  /\ copies \in [Items -> {"none", "live", "quiet"}]
  /\ crashes \in Nat
  /\ outside \in Nat

Init ==
  /\ unit \in [Units -> {"up", "down"}]
  /\ downed = {}
  /\ missed = {}
  /\ disturbed = {}
  /\ journal = NoJournal
  /\ enabled \in BOOLEAN
  /\ pc = "idle"
  /\ active = {}
  /\ services = {}
  /\ pending = {}
  /\ target = NoUnit
  /\ failures = {}
  /\ broken = FALSE
  /\ recovering = FALSE
  /\ staged = {}
  /\ copies = [i \in Items |-> "none"]
  /\ crashes = 0
  /\ outside = 0

----------------------------------------------------------------------------
(* Helpers                                                                 *)

\* State.Running stays true until the container has exited; systemd stops
\* calling a unit active as soon as it deactivates.
Seen(u) == unit[u] = "up" \/ (u \in Containers /\ unit[u] = "stopping")

\* The units of S a loop takes first: `first' before the others.
Upcoming(S, first) == IF S \cap first # {} THEN S \cap first ELSE S

\* A copy taken now shows data nobody is writing.  The mounts of a container
\* are its own, but any service may write to them as to the service paths.
Still(i) == /\ i \in Containers => unit[i] = "down"
            /\ \A s \in Services : unit[s] = "down"

Copy(i) == copies' = [copies EXCEPT ![i] = IF Still(i) THEN "quiet" ELSE "live"]

\* backup_inner is over, by a return or by the death of the process.
Leave ==
  /\ pc' = "idle"
  /\ active' = {}
  /\ services' = {}
  /\ pending' = {}
  /\ target' = NoUnit
  /\ failures' = {}
  /\ broken' = FALSE
  /\ recovering' = FALSE
  /\ staged' = {}
  /\ copies' = [i \in Items |-> "none"]

\* Enter resume for the containers cs and the services ss.
EnterResume(cs, ss) ==
  /\ pc' = "resume"
  /\ active' = cs
  /\ services' = ss
  /\ pending' = cs \cup ss
  /\ failures' = {}
  /\ target' = NoUnit

\* The quiesce block ends in an error: prepare_snapshot goes on to resume.
Break ==
  /\ EnterResume(active, services)
  /\ broken' = TRUE
  /\ UNCHANGED <<recovering, staged, copies>>

----------------------------------------------------------------------------
(* One backup                                                              *)

Begin ==
  /\ pc = "idle"
  /\ pc' = "recover"
  /\ disturbed' = {}
  /\ UNCHANGED <<unit, downed, missed, disk, locals, bounds>>

\* Mutant: a journal left in its first phase is ignored.
RecoverQuiescedOnly ==
  /\ pc = "recover"
  /\ \/ /\ ~enabled \/ journal.phase # "quiesced"
        /\ pc' = "audit"
        /\ UNCHANGED locals
     \/ /\ enabled /\ journal.phase = "quiesced"
        /\ EnterResume(journal.active, journal.services)
        /\ recovering' = TRUE
        /\ UNCHANGED <<broken, staged, copies>>
  /\ UNCHANGED <<world, disk, bounds>>

\* Mutant: recovery starts everything that is configured.
RecoverEverything ==
  /\ pc = "recover"
  /\ \/ /\ ~enabled \/ journal.phase = "none"
        /\ pc' = "audit"
        /\ UNCHANGED locals
     \/ /\ enabled /\ journal.phase # "none"
        /\ EnterResume(Containers, Services)
        /\ recovering' = TRUE
        /\ UNCHANGED <<broken, staged, copies>>
  /\ UNCHANGED <<world, disk, bounds>>

\* recover_unfinished: nothing to do, or resume what the journal lists.
Recover ==
  /\ pc = "recover"
  /\ \/ /\ ~enabled \/ journal.phase = "none"
        /\ pc' = "audit"
        /\ UNCHANGED locals
     \/ /\ enabled /\ journal.phase # "none"
        /\ EnterResume(journal.active, journal.services)
        /\ recovering' = TRUE
        /\ UNCHANGED <<broken, staged, copies>>
  /\ UNCHANGED <<world, disk, bounds>>

\* audit(true), then the guards of prepare_snapshot; with Docker disabled, or
\* nothing selected, there is no snapshot.
Audit ==
  /\ pc = "audit"
  /\ \/ /\ ~enabled \/ Items = {}
        /\ pc' = "returned"
        /\ UNCHANGED <<active, pending>>
     \/ /\ enabled /\ Items # {}
        /\ pc' = "check"
        /\ active' = {c \in Containers : Seen(c)}
        /\ pending' = Containers \ active'
  /\ UNCHANGED <<world, disk, services, target, failures, broken, recovering, staged,
                 copies, bounds>>

\* Mutant: what the audit saw is not looked at again.
StageUnchecked(c) ==
  /\ pc = "check"
  /\ c \in pending
  /\ pc' = "copyStopped"
  /\ target' = c
  /\ disturbed' = disturbed \ {c}
  /\ UNCHANGED <<unit, downed, missed, disk, active, services, pending, failures, broken,
                 recovering, staged, copies, bounds>>

\* A container the audit saw stopped must still be stopped to be staged.
CheckStopped(c) ==
  /\ pc = "check"
  /\ c \in pending
  /\ IF Seen(c)
       THEN Leave
       ELSE /\ pc' = "copyStopped"
            /\ target' = c
            /\ UNCHANGED <<active, services, pending, failures, broken, recovering, staged,
                           copies>>
  /\ disturbed' = disturbed \ {c}
  /\ UNCHANGED <<unit, downed, missed, disk, bounds>>

CopyStopped ==
  /\ pc = "copyStopped"
  /\ Copy(target)
  /\ staged' = staged \cup {target}
  /\ pending' = pending \ {target}
  /\ target' = NoUnit
  /\ pc' = "check"
  /\ UNCHANGED <<world, disk, active, services, failures, broken, recovering, bounds>>

\* Online copies and dumps of the running containers, then a copy of the
\* service paths.
CopyOnline ==
  /\ pc = "check"
  /\ pending = {}
  /\ copies' = [i \in Items |-> IF i \in active THEN "live"
                                ELSE IF i \in ServicePaths
                                       THEN IF Still(i) THEN "quiet" ELSE "live"
                                       ELSE copies[i]]
  /\ pending' = Services
  /\ pc' = "query"
  /\ UNCHANGED <<world, disk, active, services, target, failures, broken, recovering, staged,
                 bounds>>

QueryService(s) ==
  /\ pc = "query"
  /\ s \in pending \cap Services
  /\ services' = IF Seen(s) THEN services \cup {s} ELSE services
  /\ pending' = pending \ {s}
  /\ UNCHANGED <<world, disk, pc, active, target, failures, broken, recovering, staged, copies,
                 bounds>>

\* Mutant: the services are excluded from the archive, not their paths.
SnapshotOfServices ==
  /\ pc = "query"
  /\ pending = {}
  /\ active = {} /\ services = {}
  /\ staged' = staged \cup Services
  /\ pc' = "returned"
  /\ UNCHANGED <<world, disk, active, services, pending, target, failures, broken, recovering,
                 copies, bounds>>

\* Nothing to quiesce: the copies already made are the snapshot.
SnapshotOfStopped ==
  /\ pc = "query"
  /\ pending = {}
  /\ active = {} /\ services = {}
  /\ staged' = staged \cup ServicePaths
  /\ pc' = "returned"
  /\ UNCHANGED <<world, disk, active, services, pending, target, failures, broken, recovering,
                 copies, bounds>>

\* Mutant: the journal forgets the services.
RecordContainers ==
  /\ pc = "query"
  /\ pending = {}
  /\ active \cup services # {}
  /\ journal' = Journal("stopping", active, {})
  /\ pending' = active \cup services
  /\ pc' = "stop"
  /\ UNCHANGED <<world, enabled, active, services, target, failures, broken, recovering,
                 staged, copies, bounds>>

\* Mutant: the services are stopped, the containers are not.
RecordThenStopServices ==
  /\ pc = "query"
  /\ pending = {}
  /\ active \cup services # {}
  /\ journal' = Journal("stopping", active, services)
  /\ pending' = services
  /\ pc' = "stop"
  /\ UNCHANGED <<world, enabled, active, services, target, failures, broken, recovering,
                 staged, copies, bounds>>

\* The journal is on disk before the first stop.
RecordStopping ==
  /\ pc = "query"
  /\ pending = {}
  /\ active \cup services # {}
  /\ journal' = Journal("stopping", active, services)
  /\ pending' = active \cup services
  /\ pc' = "stop"
  /\ UNCHANGED <<world, enabled, active, services, target, failures, broken, recovering,
                 staged, copies, bounds>>

\* A command, a check or a write fails before anything was stopped: `?'.
FailBeforeStop ==
  /\ pc \in {"recover", "audit", "check", "copyStopped", "query"}
  /\ Leave
  /\ UNCHANGED <<world, disk, bounds>>

----------------------------------------------------------------------------
(* The quiesce block: stop services, then containers, then the final copy  *)

\* The stop command reaches the daemon, or is refused or lost on the way.
IssueStop(u) ==
  /\ pc = "stop"
  /\ u \in Upcoming(pending, Services)
  /\ \/ /\ unit' = [unit EXCEPT ![u] = IF @ = "up" THEN "stopping" ELSE @]
        /\ missed' = missed \ {u}
        /\ disturbed' = disturbed \ {u}
        /\ target' = u
        /\ pc' = "stopping"
        /\ UNCHANGED <<active, services, pending, failures, broken, recovering, staged, copies>>
     \/ /\ Break
        /\ UNCHANGED <<unit, missed, disturbed>>
  /\ UNCHANGED <<downed, disk, bounds>>

\* The client returns after the unit is down.
StopDone ==
  /\ pc = "stopping"
  /\ IF unit[target] = "stopping"
       THEN /\ unit' = [unit EXCEPT ![target] = "down"]
            /\ downed' = downed \cup {target}
       ELSE UNCHANGED <<unit, downed>>
  /\ pending' = pending \ {target}
  /\ target' = NoUnit
  /\ pc' = "stop"
  /\ UNCHANGED <<missed, disturbed, disk, active, services, failures, broken, recovering, staged,
                 copies, bounds>>

\* An error, a signal or DOCKER_TIMEOUT ends the client; the daemon carries on.
StopAbandoned ==
  /\ pc = "stopping"
  /\ Break
  /\ UNCHANGED <<world, disk, bounds>>

\* Mutant: the containers that were stopped before keep their first copy.
RecordQuiescedForActive ==
  /\ pc = "stop"
  /\ pending = {}
  /\ journal' = Journal("quiesced", active, services)
  /\ pending' = active \cup ServicePaths
  /\ pc' = "final"
  /\ UNCHANGED <<world, enabled, active, services, target, failures, broken, recovering, staged,
                 copies, bounds>>

\* The journal moves to its second phase.
RecordQuiesced ==
  /\ pc = "stop"
  /\ pending = {}
  /\ \/ /\ journal' = Journal("quiesced", active, services)
        /\ pending' = {c \in Containers : c \in active \/ services # {}} \cup ServicePaths
        /\ pc' = "final"
        /\ UNCHANGED <<active, services, target, failures, broken, recovering, staged, copies>>
     \/ /\ Break
        /\ UNCHANGED journal
  /\ UNCHANGED <<world, enabled, bounds>>

\* One final copy, or its failure or interruption.
FinalCopy(i) ==
  /\ pc = "final"
  /\ i \in Upcoming(pending, Containers)
  /\ \/ /\ Copy(i)
        /\ staged' = staged \cup {i}
        /\ pending' = pending \ {i}
        /\ UNCHANGED <<pc, active, services, target, failures, broken, recovering>>
     \/ Break
  /\ UNCHANGED <<world, disk, bounds>>

FinalCopiesDone ==
  /\ pc = "final"
  /\ pending = {}
  /\ EnterResume(active, services)
  /\ UNCHANGED <<world, disk, broken, recovering, staged, copies, bounds>>

----------------------------------------------------------------------------
(* resume: start and verify every container, then every service            *)

\* The unit is seen running after the start command, whatever it returned.
\* systemctl waits for a stop in progress; docker start finds the container
\* running and does nothing, and so does the check, until that stop is over.
ResumeOk(u) ==
  /\ pc = "resume"
  /\ u \in Upcoming(pending, Containers)
  /\ u \in Services => unit[u] # "stopping"
  /\ unit' = [unit EXCEPT ![u] = IF @ = "down" THEN "up" ELSE @]
  /\ downed' = downed \ {u}
  /\ missed' = IF unit[u] = "stopping" THEN missed \cup {u} ELSE missed \ {u}
  /\ pending' = pending \ {u}
  /\ UNCHANGED <<disturbed, disk, pc, active, services, target, failures, broken, recovering,
                 staged, copies, bounds>>

\* The start or the check fails; the others are still tried.
ResumeFails(u) ==
  /\ pc = "resume"
  /\ u \in Upcoming(pending, Containers)
  /\ \/ UNCHANGED world
     \/ /\ unit[u] = "down"
        /\ unit' = [unit EXCEPT ![u] = "up"]
        /\ downed' = downed \ {u}
        /\ missed' = missed \ {u}
        /\ UNCHANGED disturbed
  /\ failures' = failures \cup {u}
  /\ pending' = pending \ {u}
  /\ UNCHANGED <<disk, pc, active, services, target, broken, recovering, staged, copies, bounds>>

ResumeDone ==
  /\ pc = "resume"
  /\ pending = {}
  /\ pc' = "settle"
  /\ UNCHANGED <<world, disk, locals, bounds>>

\* Mutant: the journal is removed whether or not every unit came back.
SettleAnyway ==
  /\ pc = "settle"
  /\ journal' = NoJournal
  /\ \/ /\ failures # {} \/ broken
        /\ Leave
     \/ /\ failures = {} /\ ~broken
        /\ pc' = IF recovering THEN "audit" ELSE "returned"
        /\ active' = IF recovering THEN {} ELSE active
        /\ services' = IF recovering THEN {} ELSE services
        /\ recovering' = FALSE
        /\ UNCHANGED <<pending, target, failures, broken, staged, copies>>
  /\ UNCHANGED <<world, enabled, bounds>>

\* The journal outlives every failure; without one it is removed, and the
\* backup goes on to the audit, goes on to the archive, or reports why the
\* snapshot failed.
Settle ==
  /\ pc = "settle"
  /\ \/ /\ failures # {}
        /\ Leave
        /\ UNCHANGED journal
     \/ /\ failures = {}
        /\ journal' = NoJournal
        /\ IF broken
             THEN Leave
             ELSE /\ pc' = IF recovering THEN "audit" ELSE "returned"
                  /\ active' = IF recovering THEN {} ELSE active
                  /\ services' = IF recovering THEN {} ELSE services
                  /\ recovering' = FALSE
                  /\ UNCHANGED <<pending, target, failures, broken, staged, copies>>
     \/ /\ failures = {}          \* remove_file fails
        /\ Leave
        /\ UNCHANGED journal
  /\ UNCHANGED <<world, enabled, bounds>>

\* prepare_snapshot has returned Ok: a cancelled backup stops here.
AfterSnapshot ==
  /\ pc = "returned"
  /\ \/ Leave
     \/ /\ pc' = "creating"
        /\ UNCHANGED locals
  /\ UNCHANGED <<world, disk, bounds>>

CreateEnds ==
  /\ pc = "creating"
  /\ Leave
  /\ UNCHANGED <<world, disk, bounds>>

----------------------------------------------------------------------------
(* Crashes, daemons, administrator                                         *)

Crash ==
  /\ pc # "idle"
  /\ crashes < MaxCrashes
  /\ crashes' = crashes + 1
  /\ Leave
  /\ UNCHANGED <<world, disk, outside>>

\* A stop whose client is gone takes effect.
Land(u) ==
  /\ unit[u] = "stopping"
  /\ ~(pc = "stopping" /\ target = u)
  /\ unit' = [unit EXCEPT ![u] = "down"]
  /\ downed' = downed \cup {u}
  /\ UNCHANGED <<missed, disturbed, disk, pc, locals, bounds>>

OutsideStart(u) ==
  /\ unit[u] = "down"
  /\ outside < MaxOutside
  /\ unit' = [unit EXCEPT ![u] = "up"]
  /\ downed' = downed \ {u}
  /\ missed' = missed \ {u}
  /\ disturbed' = disturbed \cup {u}
  /\ outside' = outside + 1
  /\ UNCHANGED <<disk, pc, locals, crashes>>

OutsideStop(u) ==
  /\ unit[u] = "up"
  /\ outside < MaxOutside
  /\ unit' = [unit EXCEPT ![u] = "down"]
  /\ disturbed' = disturbed \cup {u}
  /\ outside' = outside + 1
  /\ UNCHANGED <<downed, missed, disk, pc, locals, crashes>>

\* The administrator switches docker.enabled between two runs.
Reconfigure ==
  /\ pc = "idle"
  /\ enabled' = ~enabled
  /\ UNCHANGED <<world, journal, pc, locals, bounds>>

Quiescing == \/ \E u \in Units : IssueStop(u)
             \/ StopDone \/ StopAbandoned \/ RecordQuiesced
             \/ \E i \in Items : FinalCopy(i)
             \/ FinalCopiesDone

Resuming == \/ \E u \in Units : ResumeOk(u) \/ ResumeFails(u)
            \/ ResumeDone \/ Settle

Backup == \/ Begin \/ Recover \/ Audit
          \/ \E c \in Containers : CheckStopped(c)
          \/ CopyStopped \/ CopyOnline
          \/ \E s \in Services : QueryService(s)
          \/ SnapshotOfStopped \/ RecordStopping \/ FailBeforeStop
          \/ Quiescing \/ Resuming
          \/ AfterSnapshot \/ CreateEnds

Outside == \/ Crash \/ Reconfigure
           \/ \E u \in Units : Land(u) \/ OutsideStart(u) \/ OutsideStop(u)

Next == Backup \/ Outside

Spec == Init /\ [][Next]_vars

\* The timer starts backups again and again, a running backup goes on, a stop
\* the daemon accepted takes effect, and neither the reading of the journal nor
\* the start of a unit fails for ever.
Fairness ==
  /\ WF_vars(Backup)
  /\ SF_vars(Recover)
  /\ \A u \in Units : WF_vars(Land(u)) /\ SF_vars(ResumeOk(u))

FairSpec == Spec /\ Fairness

----------------------------------------------------------------------------
(* Properties                                                              *)

\* Units out of service, or on their way, by Boxup's doing.
Held == downed \cup {u \in Units : unit[u] = "stopping"}

\* Those Boxup still has to put back.  It has finished with a container that
\* resume found running although a stop whose client is gone was in progress.
Owed == Held \ missed

\* Units the running resume has seen back.
SeenBack == IF pc \in {"resume", "settle"} THEN (active \cup services) \ (pending \cup failures)
                                           ELSE {}

\* The recovery journal lists every unit that Boxup took down, or that may
\* still go down for a stop Boxup issued, at every instant a crash can hit
\* (prepare_snapshot writes it before the first stop, and removes it after
\* the last verified start); excepted is a container that a resume took for
\* running while such a stop was in progress.
JournalCovers == Owed \subseteq Covered

\* While the archive is being created by a run that uses Docker, no workload is
\* out of service by Boxup's doing (the comment above the repository phase of
\* backup_inner: cancelling it, or its deadline, cannot strand a quiesced
\* workload), with the exception of JournalCovers.
CreatingHoldsNothing == pc = "creating" /\ enabled => Owed = {}

\* The sources the live backup leaves out are all the selected mounts and
\* service paths, and the staged copy of each was taken with its container and
\* the services stopped (what prepare_snapshot's order of stops, copies and
\* starts, its second look at stopped containers and its early exits are for),
\* unless somebody else started or stopped that container after the look or the
\* stop of this run, or a service since the run began.
SnapshotUndisturbed ==
  pc \in {"returned", "creating"} /\ staged # {} =>
    /\ staged = Items
    /\ \A i \in staged : i \in disturbed \/ disturbed \cap Services # {} \/ copies[i] = "quiet"

\* A step takes a unit out of service, or puts one back, only if it is one the
\* journal of that moment lists: a container the audit saw stopped is never
\* started by Boxup, and none outside the selection is touched.  The exception
\* is the late stop of a container resume took for running.
TouchesOnlyJournalled ==
  [][\A u \in Units :
       unit'[u] # unit[u] /\ outside' = outside => u \in Covered \cup missed]_vars

\* The detailed algorithm keeps the promise of module Custody, for the units
\* resume has not lost sight of.
Promise == INSTANCE Custody WITH held <- Owed, debt <- Covered, settled <- SeenBack
KeepsPromise == Promise!Spec

\* Whatever Boxup has stopped, and has to put back, comes back while Docker
\* stays enabled, however often a run dies, is interrupted or fails to start it.
EventuallyBack ==
  \A u \in Units : u \in downed \ missed /\ enabled ~> u \notin downed \/ ~enabled

\* README.md:186-188: an interrupted run is recorded as failed "after
\* application data is safely resumed"; docs/RESTORE.md:160-161: recovery "retains
\* the journal until all are verified running/active".  So that between two
\* runs, with no journal left, nothing is out of service by Boxup's doing.
SafelyResumed == pc = "idle" /\ journal = NoJournal => downed = {}

----------------------------------------------------------------------------
(* The inductive invariant behind JournalCovers and CreatingHoldsNothing   *)

\* No journal is written for nothing.
JournalListsUnits == IF journal.phase = "none" THEN journal = NoJournal ELSE Covered # {}

\* From the write of the journal to its removal the run works on exactly what
\* the journal lists.
JournalIsRun ==
  pc \in {"stop", "stopping", "final", "resume", "settle"} =>
    /\ journal.phase # "none"
    /\ journal.active = active
    /\ journal.services = services

\* Only a run with Docker enabled gets past the audit or has a journal to resume.
DockerInUse ==
  pc \in {"check", "copyStopped", "query", "stop", "stopping", "final", "resume", "settle"} =>
    enabled

\* Outside that interval a run that uses Docker has no journal.
NoJournalOutsideRun ==
  pc \in {"audit", "check", "copyStopped", "query", "returned", "creating"} /\ enabled =>
    journal = NoJournal

\* A command that concerns a single unit has one.
TargetOK ==
  /\ pc = "copyStopped" => target \in Containers
  /\ pc = "stopping" => target \in Units

\* The loops that stop and start units stay within the run's units.
LoopsWithinRun ==
  /\ pc \in {"stop", "stopping", "resume"} => pending \subseteq active \cup services
  /\ pc = "settle" => pending = {}
  /\ pc = "resume" => pending \cap failures = {}

\* What resume has verified is not out of service by Boxup's doing any more.
VerifiedReleased == SeenBack \cap Owed = {}

IInv ==
  /\ TypeOK
  /\ TargetOK
  /\ JournalListsUnits
  /\ JournalCovers
  /\ JournalIsRun
  /\ DockerInUse
  /\ NoJournalOutsideRun
  /\ LoopsWithinRun
  /\ VerifiedReleased
----------------------------------------------------------------------------
(* The inductive invariant behind SnapshotUndisturbed; none of its parts   *)
(* asks how the runtime answers a start during a stop.                     *)

\* A service on its way down is on the journal, and not one that resume has
\* verified: systemd answers a start after the stop it interrupts.
ServiceStopsRecorded ==
  \A s \in Services : unit[s] = "stopping" =>
    s \in journal.services /\ s \notin SeenBack

\* A run begins with nothing staged, and `broken' and `recovering' name the two
\* ways into resume that lead to no snapshot.
ErrorsInResume ==
  /\ broken \/ recovering => pc \in {"resume", "settle"}
  /\ recovering => ~broken /\ staged = {}
  /\ pc \in {"idle", "recover", "audit"} => staged = {} /\ services = {}
  /\ pc \in {"check", "copyStopped"} => services = {}

\* The units the run may count on to be down, but for what others did.
KnownDown ==
  /\ pc = "check" =>
       \A c \in Containers \ (active \cup pending) : unit[c] = "down" \/ c \in disturbed
  /\ pc = "copyStopped" =>
       \A c \in Containers \ (active \cup (pending \ {target})) :
         unit[c] = "down" \/ c \in disturbed
  /\ pc \in {"query", "stop", "stopping"} =>
       \A c \in Containers \ active : unit[c] = "down" \/ c \in disturbed
  /\ pc = "query" =>
       \A s \in Services \ (services \cup pending) : unit[s] = "down" \/ s \in disturbed
  /\ pc \in {"stop", "stopping"} => \A u \in Units \ pending : unit[u] = "down" \/ u \in disturbed
  /\ pc = "stopping" => unit[target] # "up" \/ target \in disturbed
  /\ pc = "final" => \A u \in Units : unit[u] = "down" \/ u \in disturbed

\* The items the run has staged by now.
StagedNow ==
  /\ pc \in {"check", "copyStopped"} =>
       /\ pending \subseteq Containers \ active
       /\ staged = (Containers \ active) \ pending
       /\ pc = "copyStopped" => target \in pending
  /\ pc = "query" => pending \subseteq Services
  /\ pc \in {"query", "stop", "stopping"} => staged = Containers \ active
  /\ pc = "final" => Items \ pending \subseteq staged
  /\ pc \in {"resume", "settle"} /\ ~broken /\ ~recovering => staged = Items
  /\ pc \in {"returned", "creating"} => staged \in {{}, Items}

\* A copy that is not quiet is that of a container others have started.
Quiet(i) == copies[i] = "quiet" \/ i \in disturbed

\* The services have been left alone since the run began, and down.
ServicesRest == disturbed \cap Services = {} /\ \A s \in Services : unit[s] = "down"

\* A staged copy is quiet if the services were down, or left alone and stopped
\* for the final copies, unless the run has failed and stages nothing.
QuietCopies ==
  /\ pc \in {"check", "copyStopped", "query"} /\ ServicesRest => \A i \in staged : Quiet(i)
  /\ pc = "query" /\ ServicesRest => \A i \in ServicePaths : Quiet(i)
  /\ disturbed \cap Services = {} =>
       /\ pc \in {"stop", "stopping"} /\ services = {} => \A i \in staged : Quiet(i)
       /\ pc = "final" => \A i \in staged \ pending : Quiet(i)
       /\ pc \in {"resume", "settle", "returned", "creating"} /\ ~broken =>
            \A i \in staged : Quiet(i)

Staging == KnownDown /\ StagedNow /\ QuietCopies

SInv ==
  /\ TypeOK
  /\ TargetOK
  /\ JournalListsUnits
  /\ JournalIsRun
  /\ DockerInUse
  /\ NoJournalOutsideRun
  /\ LoopsWithinRun
  /\ ServiceStopsRecorded
  /\ ErrorsInResume
  /\ Staging
=============================================================================
