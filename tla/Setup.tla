------------------------------- MODULE Setup -------------------------------
(***************************************************************************)
(* The life of an installed profile: the helper that installs it           *)
(* (scripts/setup-profile.sh, started by the wizard of src/setup.rs or by  *)
(* hand), the gate of the privileged helper before an operation            *)
(* (boxup-root.rs), and the switch that turns the timers on                *)
(* (boxup automation and scripts/setup-automation.sh).                     *)
(*                                                                         *)
(* The files of a profile are members of a set; who owns them and whether  *)
(* they are well formed is one bit, sound.  What an operation does once it *)
(* has passed the gate is in Jobs, IndexRefresh and Restore: here it is    *)
(* what it means to the repository.                                        *)
(***************************************************************************)
EXTENDS Integers, Sequences, FiniteSets

CONSTANTS
  Helpers,     \* runs of boxup-root at a time
  Operations,  \* what they are asked to do
  MaxFailures  \* bound: what goes wrong with the calls and processes of a switch

AllOperations == {"init", "backup", "maintenance", "check", "index", "snapshots", "restore"}
ASSUME OperationAssumption == Operations \subseteq AllOperations
ASSUME FailureAssumption == MaxFailures \in Nat

VARIABLES
  disk,       \* the files of the profile that exist
  mode,       \* the contents of its setup-mode
  sound,      \* its configuration and credentials are accepted
  chosen,     \* what setup-profile was told: reconnect or new
  step,       \* the files it has yet to write, in order
  repo,       \* the repository at its location
  stamp,      \* last-success.json exists
  validated,  \* history: an archive of the profile was listed, or init has run
  pc,         \* where a helper is
  op,         \* what it was asked to do
  enabled,    \* the timers that are enabled
  active,     \* the timers that are active
  notify,     \* the user's notification unit
  apc,        \* where boxup automation is
  todo,       \* the timers its script has yet to switch
  wanted,     \* enable or disable
  before,     \* the timers as it has found them
  noticed,    \* the unit as it has found it
  attended,   \* the command waits for its script
  said,       \* what the script has told of its rollback
  report,     \* what the command has told in the end
  failures    \* how much has gone wrong with the switches

profile    == <<disk, mode, sound, chosen, step>>
repository == <<repo, stamp, validated>>
helper     == <<pc, op>>
units      == <<enabled, active, notify>>
automation == <<apc, todo, wanted, before, noticed, attended, said, report,
                failures>>
vars       == <<profile, repository, helper, units, automation>>

Modes    == {"reconnect", "new"}
Files    == {"marker", "mode", "config", "keys", "index", "sudo", "lock", "browse"}
Timers   == {"desktop", "server", "index"}
Unit     == [enabled : BOOLEAN, active : BOOLEAN]
NoTimers == [enabled |-> {}, active |-> {}]
Off      == [enabled |-> FALSE, active |-> FALSE]

TypeOK ==
  /\ disk \subseteq Files /\ mode \in Modes \cup {"none"} /\ sound \in BOOLEAN
  /\ ("mode" \in disk) = (mode # "none")
  /\ chosen \in Modes /\ step \in Seq(Files) /\ Len(step) <= Cardinality(Files)
  /\ repo \in {"absent", "empty", "foreign", "ours"}
  /\ stamp \in BOOLEAN /\ validated \in BOOLEAN
  /\ pc \in [Helpers -> {"idle", "gate", "run", "create", "complete", "stamp"}]
  /\ op \in [Helpers -> Operations \cup {"none"}]
  /\ enabled \subseteq Timers /\ active \subseteq Timers /\ notify \in Unit
  /\ apc \in {"idle", "enable", "start", "script", "reload", "call", "rollback", "undo"}
  /\ todo \in Seq(Timers) /\ Len(todo) <= Cardinality(Timers)
  /\ wanted \in BOOLEAN
  /\ before \in [enabled : SUBSET Timers, active : SUBSET Timers]
  /\ noticed \in Unit
  /\ attended \in BOOLEAN
  /\ said \in {"none", "restored", "incomplete"}
  /\ report \in {"none", "changed", "failed", "incomplete"}
  /\ failures \in 0..MaxFailures

\* A computer without the profile, and a repository that may be anybody's.
Init ==
  /\ disk = {} /\ mode = "none" /\ sound = TRUE
  /\ chosen = "reconnect" /\ step = <<>>
  /\ repo \in {"absent", "empty", "foreign", "ours"}
  /\ stamp = FALSE /\ validated = FALSE
  /\ pc = [h \in Helpers |-> "idle"]
  /\ op = [h \in Helpers |-> "none"]
  /\ enabled = {} /\ active = {}
  /\ notify = Off
  /\ apc = "idle" /\ todo = <<>> /\ wanted = TRUE /\ before = NoTimers
  /\ noticed = Off /\ attended = TRUE /\ said = "none" /\ report = "none"
  /\ failures = 0

----------------------------------------------------------------------------
(* Installing the profile                                                  *)

\* Mutant: the marker is written when the profile is there.
MarkerLast(m) ==
  <<"mode", "config", "keys">> \o (IF m = "reconnect" THEN <<"marker">> ELSE <<>>)
    \o <<"index", "sudo", "lock", "browse">>

\* What setup-profile writes, in its order.
Sequence(m) ==
  IF m = "reconnect"
  THEN <<"marker", "mode", "config", "keys", "index", "sudo", "lock", "browse">>
  ELSE <<"mode", "config", "keys", "index", "sudo", "lock", "browse">>

\* It refuses to overwrite; a marker is looked for in reconnect mode only.
Untouched(m) ==
  /\ disk \cap (Files \ {"marker"}) = {}
  /\ m = "reconnect" => "marker" \notin disk

StartSetup ==
  /\ step = <<>>
  /\ chosen' \in Modes
  /\ Untouched(chosen')
  /\ step' = Sequence(chosen')
  /\ UNCHANGED <<disk, mode, sound, repository, helper, units, automation>>

\* Mutant: the mode is known from the first file on.
InstallAsChosen ==
  /\ step # <<>>
  /\ Head(step) = "index" => sound
  /\ disk' = disk \cup {Head(step)}
  /\ mode' = chosen
  /\ step' = Tail(step)
  /\ UNCHANGED <<sound, chosen, repository, helper, units, automation>>

\* The next file.  Before it creates the index it has the helper validate what
\* it has installed.
Install ==
  /\ step # <<>>
  /\ Head(step) = "index" => sound
  /\ disk' = disk \cup {Head(step)}
  /\ mode' = IF Head(step) = "mode" THEN chosen ELSE mode
  /\ step' = Tail(step)
  /\ UNCHANGED <<sound, chosen, repository, helper, units, automation>>

\* It fails or is killed; what it has written stays.
AbandonSetup ==
  /\ step # <<>>
  /\ step' = <<>>
  /\ UNCHANGED <<disk, mode, sound, chosen, repository, helper, units, automation>>

\* An administrator edits the configuration.
Edit ==
  /\ "config" \in disk
  /\ sound' = ~sound
  /\ UNCHANGED <<disk, mode, chosen, step, repository, helper, units, automation>>

----------------------------------------------------------------------------
(* The gate of boxup-root, and what follows for the repository             *)

Gated == {"init", "backup", "maintenance", "check", "index"}

Goto(h, l) ==
  /\ pc' = [pc EXCEPT ![h] = l]
  /\ op' = IF l = "idle" THEN [op EXCEPT ![h] = "none"] ELSE op

\* The configuration is read and validated, and the credentials.
Load(h) ==
  /\ pc[h] = "idle"
  /\ {"config", "keys"} \subseteq disk /\ sound
  /\ op' \in {[op EXCEPT ![h] = o] : o \in Operations}
  /\ pc' = [pc EXCEPT ![h] = "gate"]
  /\ UNCHANGED <<profile, repository, units, automation>>

\* ensure_new_setup_mode and ensure_live_validation_completed.
Pass(h) ==
  /\ pc[h] = "gate"
  /\ op[h] = "init" => mode = "new"
  /\ op[h] \in Gated => "marker" \notin disk
  /\ Goto(h, "run")
  /\ UNCHANGED <<profile, repository, units, automation>>

\* The repository is looked for, and then created if Borg too finds none.
FindNone(h) ==
  /\ pc[h] = "run" /\ op[h] = "init"
  /\ repo = "absent"
  /\ Goto(h, "create")
  /\ UNCHANGED <<profile, repository, units, automation>>

Create(h) ==
  /\ pc[h] = "create"
  /\ repo = "absent"
  /\ repo' = "empty"
  /\ validated' = TRUE
  /\ Goto(h, "complete")
  /\ UNCHANGED <<profile, stamp, units, automation>>

\* A live listing has an archive of the profile.
List(h) ==
  /\ pc[h] = "run" /\ op[h] = "snapshots"
  /\ repo = "ours"
  /\ validated' = TRUE
  /\ Goto(h, "complete")
  /\ UNCHANGED <<profile, repo, stamp, units, automation>>

\* complete_live_validation.
RemoveMarker(h) ==
  /\ pc[h] = "complete"
  /\ disk' = disk \ {"marker"}
  /\ Goto(h, "idle")
  /\ UNCHANGED <<mode, sound, chosen, step, repository, units, automation>>

\* Two steps of a backup matter here; Jobs has the others.
MakeArchive(h) ==
  /\ pc[h] = "run" /\ op[h] = "backup"
  /\ repo # "absent"
  /\ repo' = "ours"
  /\ Goto(h, "stamp")
  /\ UNCHANGED <<profile, stamp, validated, units, automation>>

Stamp(h) ==
  /\ pc[h] = "stamp"
  /\ stamp' = TRUE
  /\ Goto(h, "idle")
  /\ UNCHANGED <<profile, repo, validated, units, automation>>

\* It is done, is refused, fails or is killed.
End(h) ==
  /\ pc[h] # "idle"
  /\ Goto(h, "idle")
  /\ UNCHANGED <<profile, repository, units, automation>>

\* Another computer creates a repository at the location, or uses it.
OthersWrite ==
  /\ repo \in {"absent", "empty"}
  /\ repo' \in {"empty", "foreign"} \ {repo}
  /\ UNCHANGED <<profile, stamp, validated, helper, units, automation>>

----------------------------------------------------------------------------
(* Turning automation on and off                                           *)

BackupTimer == "desktop"
OtherTimer  == "server"

Expected(on) == IF on THEN {BackupTimer, "index"} ELSE {}

\* The order in which the script switches them: each on if it is expected.
Calls(on) ==
  IF on THEN <<OtherTimer, BackupTimer, "index">> ELSE <<"desktop", "server", "index">>

\* S with timer t in it or not.
Put(S, t, on) == IF on THEN S \cup {t} ELSE S \ {t}

\* A call goes wrong, or a process is killed.
GoesWrong ==
  /\ failures < MaxFailures
  /\ failures' = failures + 1

GoesWell == UNCHANGED failures

\* The script is over without success: the command, if there, undoes its part.
Failed == IF attended THEN "undo" ELSE "idle"

\* The unit as it is.  One switch at a time.
Ask ==
  /\ apc = "idle"
  /\ apc' = "enable"
  /\ wanted' \in BOOLEAN
  /\ noticed' = notify /\ before' = NoTimers
  /\ attended' = TRUE /\ said' = "none" /\ report' = "none"
  /\ UNCHANGED <<profile, repository, helper, units, todo, failures>>

\* set_user_notification_state: two calls, each of which may fail.
EnableNotify ==
  /\ apc = "enable"
  /\ \/ notify' = [notify EXCEPT !.enabled = wanted] /\ apc' = "start" /\ GoesWell
     \/ notify' = notify /\ apc' = "undo" /\ GoesWrong
  /\ UNCHANGED <<profile, repository, helper, enabled, active, todo, wanted, before, noticed,
                 attended, said, report>>

StartNotify ==
  /\ apc = "start"
  /\ \/ notify' = [notify EXCEPT !.active = wanted] /\ apc' = "script" /\ GoesWell
     \/ notify' = notify /\ apc' = "undo" /\ GoesWrong
  /\ UNCHANGED <<profile, repository, helper, enabled, active, todo, wanted, before, noticed,
                 attended, said, report>>

\* Mutant: the stamp of a manual backup is not asked for.
PermitValidated(on) == on => "marker" \notin disk

\* What the script asks of the profile before it touches a timer.
Permits(on) == on => "marker" \notin disk /\ stamp

\* It is refused, or reads the timers as they are.
StartScript ==
  /\ apc = "script"
  /\ \/ /\ {"config", "keys"} \subseteq disk /\ sound
        /\ Permits(wanted)
        /\ before' = [enabled |-> enabled, active |-> active]
        /\ todo' = Calls(wanted)
        /\ apc' = IF wanted THEN "reload" ELSE "call"
     \/ apc' = Failed /\ UNCHANGED <<todo, before>>
  /\ UNCHANGED <<profile, repository, helper, units, wanted, noticed, attended, said, report,
                 failures>>

\* daemon-reload; its failure leaves the timers alone.
ReloadUnits ==
  /\ apc = "reload"
  /\ \/ apc' = "call" /\ UNCHANGED todo /\ GoesWell
     \/ apc' = Failed /\ todo' = <<>> /\ GoesWrong
  /\ UNCHANGED <<profile, repository, helper, units, wanted, before, noticed, attended, said,
                 report>>

\* enable --now or disable --now.  One that succeeds may leave a timer that
\* did not start, one that fails may have done half.
Call ==
  /\ apc = "call" /\ todo # <<>>
  /\ LET t == Head(todo)
         on == t \in Expected(wanted)
     IN  \/ /\ enabled' = Put(enabled, t, on) /\ active' = Put(active, t, on)
            /\ apc' = "call"
            /\ GoesWell
         \/ /\ enabled' = Put(enabled, t, on) /\ active' = active
            /\ apc' = "call"
            /\ GoesWrong
         \/ /\ enabled' \in {enabled, Put(enabled, t, on)}
            /\ active' \in {active, Put(active, t, on)}
            /\ apc' = "rollback"
            /\ GoesWrong
  /\ todo' = Tail(todo)
  /\ UNCHANGED <<profile, repository, helper, notify, wanted, before, noticed, attended, said,
                 report>>

\* Mutant: what is enabled is taken for active.
VerifyEnabled ==
  /\ apc = "call" /\ todo = <<>>
  /\ IF enabled = Expected(wanted)
     THEN apc' = "idle" /\ report' = IF attended THEN "changed" ELSE "none"
     ELSE apc' = "rollback" /\ UNCHANGED report
  /\ UNCHANGED <<profile, repository, helper, units, todo, wanted, before, noticed, attended, said,
                 failures>>

\* The script reads back what it has asked for; set -e ends it, with no
\* rollback, when a status is neither yes nor no.
Verify ==
  /\ apc = "call" /\ todo = <<>>
  /\ \/ /\ enabled = Expected(wanted) /\ active = Expected(wanted)
        /\ apc' = "idle"
        /\ report' = IF attended THEN "changed" ELSE "none"
        /\ GoesWell
     \/ /\ enabled # Expected(wanted) \/ active # Expected(wanted)
        /\ apc' = "rollback"
        /\ UNCHANGED report /\ GoesWell
     \/ /\ apc' = Failed
        /\ UNCHANGED report /\ GoesWrong
  /\ UNCHANGED <<profile, repository, helper, units, todo, wanted, before, noticed, attended, said>>

\* The rollback's call for timer and state has no effect on those of e and a.
PutBack(e, a) ==
  /\ enabled' = (enabled \cap e) \cup (before.enabled \ e)
  /\ active' = (active \cap a) \cup (before.active \ a)

\* The script puts the timers back and tells how it went.
Rollback ==
  /\ apc = "rollback"
  /\ \/ PutBack({}, {}) /\ said' = "restored" /\ GoesWell
     \/ /\ \E e, a \in SUBSET Timers : PutBack(e, a)
        /\ said' = "incomplete"
        /\ GoesWrong
  /\ todo' = <<>>
  /\ apc' = Failed
  /\ UNCHANGED <<profile, repository, helper, notify, wanted, before, noticed, attended, report>>

\* The script is killed, and nothing else: a rollback may be half done.
ScriptDies ==
  /\ \/ /\ apc \in {"script", "reload", "call"}
        /\ UNCHANGED <<enabled, active>>
     \/ /\ apc = "rollback"
        /\ \E e, a \in SUBSET Timers : PutBack(e, a)
  /\ todo' = <<>>
  /\ apc' = Failed
  /\ GoesWrong
  /\ UNCHANGED <<profile, repository, helper, notify, wanted, before, noticed, attended, said,
                 report>>

\* restore_user_notification_state, and the error of the command: a plain one,
\* or that the notifications could not be restored.
Undo ==
  /\ apc = "undo"
  /\ apc' = "idle"
  /\ \/ notify' = noticed /\ report' = "failed" /\ GoesWell
     \/ /\ notify' \in [enabled : {notify.enabled, noticed.enabled},
                       active : {notify.active, noticed.active}]
        /\ report' = "incomplete"
        /\ GoesWrong
  /\ UNCHANGED <<profile, repository, helper, enabled, active, todo, wanted, before, noticed,
                 attended, said>>

\* The command is killed; the script goes on by itself.
CommandDies ==
  /\ apc # "idle" /\ attended
  /\ attended' = FALSE
  /\ apc' = IF apc \in {"enable", "start", "undo"} THEN "idle" ELSE apc
  /\ GoesWrong
  /\ UNCHANGED <<profile, repository, helper, units, todo, wanted, before, noticed, said, report>>

Next ==
  \/ StartSetup \/ Install \/ AbandonSetup \/ Edit \/ OthersWrite
  \/ \E h \in Helpers :
       \/ Load(h) \/ Pass(h) \/ FindNone(h) \/ Create(h) \/ List(h) \/ RemoveMarker(h)
       \/ MakeArchive(h) \/ Stamp(h) \/ End(h)
  \/ Ask \/ EnableNotify \/ StartNotify \/ StartScript \/ ReloadUnits \/ Call \/ Verify
  \/ Rollback \/ ScriptDies \/ Undo \/ CommandDies

Spec == Init /\ [][Next]_vars

----------------------------------------------------------------------------
(* Properties                                                              *)

\* A helper past the gate with an operation that needs the repository to be
\* the right one works on one that was listed or created by Boxup, unless the
\* profile was installed as new; wherever an installation has been cut short
\* and whatever other helpers do.
GateHolds ==
  \A h \in Helpers :
    pc[h] \in {"run", "create", "stamp"} /\ op[h] \in Gated => mode = "new" \/ validated

\* Timers are on only for a profile that is no longer waiting for its live
\* validation and has made a backup.
TimersAfterBackup ==
  enabled \cup active # {} =>
    "marker" \notin disk /\ stamp /\ (mode = "new" \/ validated)

\* What a switch of the automation tells its user is so, wherever a call fails
\* or one of its two processes dies: a success has all timers and notifications
\* as asked; a plain failure has the notifications as they were; and where the
\* script says that the timers were restored, they are as it found them.
ReportIsTrue ==
  /\ report = "changed" =>
       /\ enabled = Expected(wanted) /\ active = Expected(wanted)
       /\ notify = [enabled |-> wanted, active |-> wanted]
  /\ report = "failed" => notify = noticed
  /\ said = "restored" => enabled = before.enabled /\ active = before.active
=============================================================================
