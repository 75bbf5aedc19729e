# Boxup: a TLA+ model of the backup frontend

Boxup drives Borg 1.4. It takes a backup of a host, putting running containers
and services to rest for the final copy of their data, keeps a local index for
browsing, prunes old archives and restores files. This directory models the
parts of it where several processes, a crash or a half-finished step can go
wrong, checks them with TLC and proves the central invariants with TLAPS.

All paths are relative to the repository; its own code is in `src/`.

## 1. The system

| Component | Code | State it keeps | Operations | Hard because |
|---|---|---|---|---|
| Application quiescing | `jobs.rs` `DockerManager` | `quiesce-journal.json`, the staged copies; Docker's and systemd's units | `recover_unfinished`, `audit`, `prepare_snapshot`, `resume` | crash between stop and start; a stop that outlives its client; units started and stopped by others |
| Job runner | `jobs.rs` `JobRunner` | rows of the `jobs` table, `last-success.json` | backup, due backup, prune, check, index refresh | four records written one after the other; decisions taken before the lock |
| Local lock | `jobs.rs` `LocalLock` | an flock on `boxup.lock` | acquire shared or exclusive without waiting, `is_held`, drop | the probe is a lock too; the kernel releases on death |
| Borg backend | `borg.rs`, `backend.rs` | none: the repository is Borg's | create (cancellable), list, extract, prune, compact, check, mount, key export | exit codes, cancellation against exit |
| Process control | `jobs.rs` `run_command`, `borg.rs` `ProcessGroupGuard` | child processes | run with deadline and signals, terminate, reap | signal, deadline and exit race; the lock must outlast the child |
| Index cache | `index.rs` | SQLite: archives, files, meta, jobs | refresh, freshness, browse, search, job history | two transactions with a listing between; readers of a stale cache |
| Restore | `restore.rs` | restore staging, the target tree | safe, overwriting and original-path restore | the archive changes under its name; several renames |
| Privileged helper | `bin/boxup-root.rs` | `requires-live-validation`, `setup-mode` | the operations, as root, behind a gate | order of setup, validation and writing |
| Command line | `bin/boxup.rs` | the watcher's last job id | delegation, cancellation, status, notification watch, automation | Ctrl-C against completion; a status from several reads |
| Terminal interface | `tui.rs` | the list, the cursor, the entries, what is marked, a worker | browse, restore, start a backup | the index changes under the list; some reloads fail unseen |
| Configuration, setup | `config.rs`, `setup.rs`, `scripts/` | the files of a profile, timers, a user unit | validate, install, enable and disable | an installation cut short; calls that fail half-way and their rollback |

Interactions: the command line and the timers start the helper; the helper runs
a `JobRunner` operation; that takes the lock, inserts its row, and (for a
backup) calls `DockerManager` and then Borg, writes the stamp and completes its
row. Restores and browsing commands take the same lock shared. A status takes
no lock, reads the rows one query at a time and then probes the lock. Prune
reads the stamp and the live list.

What makes each correct is listed, hazard by hazard, in `PROJECT.json`; in
short: nothing Boxup took down is forgotten; what is left out of the live backup
has a copy at rest; writers are alone; a recorded success is a real archive that
prune protects; a status does not mislead; a restore publishes what was planned,
whole, and nothing is lost that was not selected; who asks a backup to stop is
answered and who is told of a success has one; what is restored is what was on
display; nothing writes to a repository the profile was not validated against.

## 2. The modules

| Module | Models |
|---|---|
| `Custody` | the abstract promise about workloads: recorded before taken down, discarded after seen back |
| `Quiesce` | one backup's use of `DockerManager` after another, with crashes, daemons and an administrator |
| `QuiesceProofs` | theorems about `Quiesce` |
| `Jobs` | the processes: lock, jobs table, stamp, repository, retention, status |
| `Retention` | the abstract promise about archives: made, then protected, then reported, and the last protection not discarded |
| `JobsProofs` | theorems about `Jobs`: the lock, the records of a backup, the stamp, retention |
| `StatusProofs` | theorems about `Jobs`: what the status display reads and shows |
| `IndexRefresh` | the browsing index: refresh in two transactions, a changing repository, readers |
| `IndexRefreshProofs` | theorems about `IndexRefresh` |
| `Restore`, `RestoreProofs` | one restore of any of the three kinds, the archive's name, and the directories others change |
| `Session`, `SessionProofs` | one run of the helper: front end, pipes, threads, Borg |
| `Desktop`, `DesktopProofs` | what a desktop user sees: the terminal interface and the notification watcher |
| `Setup`, `SetupProofs` | the life of a profile: installation, the helper's gate, the switch of the timers |
| `MCQuiesce`, `MCJobs`, `MCIndexRefresh`, `MCRestore`, `MCSession`, `MCDesktop`, `MCSetup` | instances for TLC, with one `.cfg` for each run |

The modules meet at the lock and at the records: `Jobs` has every operation as a
holder of the lock with a row, and what one of them does inside is one step
there and a module here (`Quiesce` the stage of a backup, `IndexRefresh` the work
of a refresh, `Restore` the section of a reader, `Session` the processes around
one operation). `Setup` decides which operations may run at all.

### Quiesce

| Variable | Code |
|---|---|
| `unit`, `downed` | what Docker and systemd have each unit doing; which of the stopped ones Boxup stopped (history) |
| `journal` | `staging_dir/quiesce-journal.json`: phase, container ids, service names |
| `enabled` | `docker.enabled` |
| `pc`, `pending`, `target` | the statement of `backup_inner`, what its loop has left, the unit of the command |
| `active`, `services`, `failures`, `broken` | the locals of `prepare_snapshot` and `resume` |
| `staged`, `copies` | `staged_sources`, and whether each staged copy shows data at rest |
| `missed` | containers that `resume` took for running while a stop of them was in progress (history) |
| `disturbed` | units that somebody else started or stopped after the run looked at them or stopped them (history) |

An external command is one step, except the stops: `IssueStop` is the request
reaching the daemon, `StopDone` the client returning after the unit is down,
`StopAbandoned` the client ending on an error, a signal or its deadline while
the daemon goes on, `Land` that stop taking effect later. `FailBeforeStop`
stands for every `?` before the first stop, `Break` for every `?` in the quiesce
block, after which the code resumes. A crash (`Crash`) is possible at every
step; it loses the locals and keeps the journal and the units. The order of
containers within a loop is left open; services before containers in the stop
loop and containers before services in `resume` is kept (`Upcoming`).

A container is `stopping` from the request until it is down, and Docker calls it
running until then. `docker start` does nothing to it, and the `State.Running` that
`resume` asks for is true (`ResumeOk`, `jobs.rs:1096-1113`): if the client of the
stop is gone, `resume` counts such a container as back, and the stop takes effect
later. `missed` holds these containers, and the properties that this falsifies
except them and nothing else; `Quiesce_abandoned` shows the outcome. systemd queues
a start behind the stop it follows, so a service cannot be missed. The
administrator may switch `docker.enabled` between any two runs (`Reconfigure`).

A copy is at rest (`Still`) when its own container, if it is one's, and all services
are down. So a mount may be shared between a container and services, which is what
the second look of `prepare_snapshot` (`jobs.rs:853-859`, 908-919) is for, but not
between two containers.

Abstracted: what is in a mount, `stage_mounts`, PostgreSQL dumps (an online copy
with the rest), the five attempts of an online rsync (one step that succeeds or
fails), the free-space check and `clean_stale_staging` (may fail, otherwise no
effect on the properties: a run sees only copies it made itself).

`Custody` is what `Quiesce` implements: `held` is `Owed` (what Boxup has down or on
its way, but for the missed containers), `debt` is what the
journal lists, `settled` is what the running resume has seen back.

### Jobs

| Variable | Code |
|---|---|
| `lock` | the flock mode each process holds on `boxup.lock` |
| `pc`, `kind`, `job`, `ok`, `asked` | where the process is, its operation, its row, whether its `Result` is `Ok`, whether cancellation was requested in time |
| `jobs`, `rows` | the `jobs` table: kind, state, whether `archive_name` is set, `finished_at` |
| `made`, `repo` | what Borg made of each archive (history); the archives it lists |
| `stamp` | `last-success.json` |
| `seen`, `shown` | what `load_status` has read; the health `print_status` showed last |

A step is one system call, one SQL statement or one run of Borg. A process is
started with an operation and goes through the labels of `pc` in the order of
the code; `GiveUp` is every `?` before there is a row, `Fail` every error after.
`Finish` may leave the row running: the update can fail. An archive bears the
number of its job. `borg create` may end in success or the allowed warning
(grade `good`), or, where `Warnings` says so, in a warning Boxup treats as an
error (grade `warned`), which leaves the archive in the repository. `Kept` is
`borg prune --keep-*` with one period instead of three. The five minutes of
clock tolerance in prune are below the clock's unit.

Abstracted: the whole of quiescing (one step, `Stage`), the progress columns,
notifications, and `compact` with `check` and the refresh (`Work`: each may
fail and changes nothing modelled here).

`Retention` is what `Jobs` implements: `archives` is `Complete`, `protected` the
archive of the stamp, `reported` the backups whose row says succeeded. It knows no
processes, lock or rows: there one thing happens after the other.

### IndexRefresh

| Variable | Code |
|---|---|
| `at`, `live`, `made` | the repository at `repository.location`; the archives of each; where each archive was made (history) |
| `meta` | the row of `index_meta`: `repository_id`, `refresh_generation`, `refreshed_at`, `complete` |
| `rows` | `archives` with `borg_id`, and for `files` the archive whose list was inserted |
| `pc`, `identity`, `generation`, `listing`, `work`, `todo` | the statement of `Index::refresh`, its locals and its uncommitted transaction |
| `disturbed`, `exact` | what happened to the repository since the refresh began, and the repository at the last undisturbed commit (history) |
| `reader`, `now` | a command that reads the index; the wall clock |

`Mark` is the transaction of `mark_refresh_started`; `Begin`, `Insert` and
`Commit` are the second one, whose rows (`work`) nobody sees before `Commit`, and
which SQLite rolls back when the refresh ends otherwise (`Leave`). Every run of
Borg in between (`Identify`, `List`, each `Insert`, `Confirm`) reads the
repository as it is at that moment. `Refuse` is a refresh that returns an error
because of what it found; `Fail` is one that dies or fails for any other reason.
An archive is its id; an archive deleted and created again under its name has
another id, and a row remembers by `files` whose list it got.

Two assumptions about the world: archive ids are never used again (they are
hashes that Borg keys), and a repository that was replaced under a running
refresh does not come back before that refresh ends (guard of `Swap`):
`Index::refresh` compares two readings of the identity and could not tell.

A command that browses (`Look`, `Read`) holds the shared lock from its question
whether the index is usable to its last read. The terminal interface takes no
lock, shows whether the index is complete and is not covered by `ReadsComplete`.

Abstracted: the columns of a file, the full-text index, paths; schema migration;
the location compared in `is_usable` (one configuration, one location).

### Restore

| Variable | Code |
|---|---|
| `disk` | the tree below `/`: at each path what kind of node stands there, and from which archive it came |
| `dest`, `content` | the destination of a safe restore, and what it holds once published |
| `live`, `used`, `tree` | the archive that has the chosen name, as its Borg id; the ids used; what each archive holds |
| `pc`, `mode`, `sel` | the statement, which of `restore` (by the user or by the helper), `restore_overwrite_root` and `restore_original_root` it is, its normalised paths |
| `plan`, `staging`, `roots`, `done` | `RestorePlan`, the temporary directory, `publication_paths`, those of them already exchanged |
| `at` | the directory `merge_into_directory` is in |
| `seen`, `touched`, `writes` | the tree when the restore was placed; what others have changed since (history); a bound |

A path is the sequence of its names; the path algorithms (`Minimal`, `Root`,
`NotDenied`, `Manifest`) are set definitions over them. A restore lists
(`List`), reads the files of whatever has the name by then (`Plan`), chooses
where to publish (`PlaceSafe`, `PlaceOriginal`), compares the id (`Check`), has
Borg extract by name (`Extract`, of which any one selected subtree may be
missing), compares staging with the plan (`Verify`), compares the id again
(`Recheck`) and publishes: one rename of a directory, one exchange for each root,
or a merge entry by entry with the directories it descends into (`EnterDirectory`,
`LeaveDirectory`). `Fail` is every `?` and the death of the process. Meanwhile
the archive may be deleted and another made under its name, and other processes
make and remove entries.

A node remembers the archive that wrote it, so that owner, mode and times of a
directory are told apart from those of another archive. Borg extracts by
patterns: a directory above a selected path is made without metadata (`Made`).

Abstracted: sizes and link targets (part of the kind of a node), the byte bound,
the free space, the ownership and modes of the recovery directory, the creation
of missing directories above staging.

### Session

| Variable | Code |
|---|---|
| `op`, `front` | the operation; whether `boxup`, the terminal interface or a timer started it |
| `fpc`, `asked`, `complete`, `got`, `shown` | the loop of `invoke_root_backup` or of the worker threads of `tui.rs`; a cancellation that waits for it; what it has read; what it tells its user |
| `control`, `reader`, `pipe` | the write end of the helper's stdin, the read end of its stdout, the lines between |
| `hpc`, `out`, `cancel`, `job` | the main task of the helper, the line it is writing, its watch channel, its row |
| `archive`, `borg`, `sent` | whether the repository has the archive; the Borg child and the last signal its process group was sent |
| `signalled` | the helper itself was signalled (history) |

A helper that writes a line is blocked until the pipe has room or its reader is
gone, as `write_backup_event` is. Its threads (the reader of the control pipe,
the signal handler) run beside it. Deadlines and the waits between two signals
are steps that may be taken at any time. Staging looks at no cancellation, which
is the code (`jobs.rs:217-237`); after it one is looked at, and while Borg runs
it is taken at once.

### Desktop

| Variable | Code |
|---|---|
| `program` | a behaviour runs the terminal interface or the watcher: they share nothing |
| `listing` | the snapshots of the index, which others change at any moment |
| `tpc`, `view`, `focus` | `App.mode`, `view`, `focus` |
| `known`, `at`, `files`, `directory`, `selected`, `filtered` | `snapshots`, `snapshot_index`, `files`, `directory`, `selected`, `search_result_query` |
| `board`, `request` | of the `Dashboard` what the keys ask; the paths and then the snapshot of a restore |
| `torn` | a reload failed half-way and nobody saw the error (history) |
| `jobs`, `active` | the rows of backups; whether the last one is at work |
| `wpc`, `last`, `saved`, `row` | the loop of `watch_notifications`, `last_notified`, its state file, the row it has read |
| `announced`, `restarts` | its notifications (history); a bound |

A path in the model remembers the snapshot it was shown for, which the code does
not: `RestoresWhatWasShown` compares the two. The cursor in the files is left
out (a key that acts on the current entry acts on any), and so are the diff
marks, the automation key and every message.

### Setup

| Variable | Code |
|---|---|
| `disk`, `mode`, `sound` | which files of the profile exist, the text of `setup-mode`, whether configuration and credentials are accepted |
| `chosen`, `step` | what `setup-profile` was told, the files it has yet to write |
| `repo`, `stamp`, `validated` | the repository at the location; `last-success.json`; an archive of the profile was listed or init has run (history) |
| `pc`, `op` | the helpers under way |
| `enabled`, `active`, `notify` | the timers, the notification unit of the user |
| `apc`, `todo`, `wanted`, `before`, `noticed` | `run_automation` and `setup-automation`: the statement, the timers to switch, the states found before |
| `attended`, `said`, `report` | whether the command is there to wait for its script; what the script has said of its rollback, and the command at its end |
| `failures` | a bound: what has gone wrong with the switches |

`Pass` is the gate, evaluated once; what follows may be overtaken by another
helper or another setup. What an operation does after the gate is reduced to what
it means to the repository and the stamp. A call of systemctl may do all, half or
nothing of what it is asked, in success as in failure (`Call`), which is why the
script reads back. A status that is neither yes nor no ends the script under
`set -e` at that point (`Verify`): no rollback, and the command then puts back the
notifications only, as it does when the script alone is killed (`ScriptDies`). When
the command is killed the script goes on (`CommandDies`). Switches come one after
the other.

## 3. What is checked

| Run | Properties | What it shows |
|---|---|---|
| `Quiesce_safety` (pass) | `TypeOK`, `JournalCovers`, `CreatingHoldsNothing`, `SnapshotUndisturbed`, `KeepsPromise`, `TouchesOnlyJournalled`, `EventuallyBack` | Two containers, a service, two crashes, a change by an administrator, Docker switched on and off between runs, and stops whose client is gone: but for a container that resume took for running while such a stop was in progress, the journal accounts for every workload Boxup has down, the algorithm implements Custody, what the archive leaves out has a copy taken at rest, and under fairness every workload comes back. |
| `Jobs_safety` (pass) | `TypeOK`, `WritersAlone`, `SuccessIsStamped`, `StampIsArchive`, `StampAdvances`, `HealthyIsCurrent` | Two processes running backups, due backups, maintenance, index refreshes, readers and a status that reads row by row, with unknown Borg warnings, cancellations, failures at each write and a crash. |
| `Jobs_retention` (pass) | `KeepsRetention` | Two processes with backups, prunes and readers over two retention periods, with a crash and a failure at each write, when Borg ends in success or the allowed warning: archive, stamp, result and prune move as the sequential Retention says, so that a prune never costs the last protection. |
| `IndexRefresh_safety` (pass) | `TypeOK`, `ExactIfUndisturbed`, `RowsOfItsRepository`, `ReadsComplete`, `CompleteAgain` | Refreshes of two repositories that take turns at one location, with archives created, deleted and recreated under the same names at every step, a death, a clock set back and readers: a complete index is of one repository and exact when undisturbed, stays complete under its readers, and comes back after every failure. |
| `Restore_safety` (pass) | `TypeOK`, `RootsWhole`, `DoneIsRestored`, `DestinationWhole`, `PublishesPlanned`, `OnlySelectedIsLost` | Restores into a new directory, over / and to original paths, of every selection, while the archive is deleted and made again under its name, Borg falls short, another process changes the directories and the restore fails at any step: what is published is the planned archive, whole per root, and takes nothing else away. |
| `Session_safety` (pass) | `TypeOK`, `SuccessIsRecorded`, `BorgIsWaitedFor`, `CancelHasCause`, `Answered`, `GoneStops` | A front end, its pipes of bounded size, the helper and its Borg, with cancellations, signals, deadlines and deaths of each: a success that is shown is recorded, no Borg outlives a backup or a restore, and under fair scheduling every request to stop is answered. |
| `Desktop_safety` (pass) | `TypeOK`, `RestoresWhatWasShown`, `ShowsCurrent`, `AnnouncedInOrder`, `EventuallyAnnounced` | Every sequence of keys over an index that changes at any moment, and a notification watcher that dies and restarts beside three backups. |
| `Setup_safety` (pass) | `TypeOK`, `GateHolds`, `TimersAfterBackup`, `ReportIsTrue` | Installations cut short at every file, a helper at the gate, a repository that may be anybody's, and automation switched on and off with two failures among calls that fail or do half, a status that cannot be read, and the deaths of the script and of the command. |
| `Restore_file` (violation) | `RefusedForCause` | A restore of a file to its original path is refused because the file is there. |
| `Jobs_prune` (violation) | `ProtectionStays` | With archives of failed backups in the repository a prune deletes the stamped archive in their favour. |
| `Restore_parents` (violation) | `ParentsAsArchived` | A missing directory above a selected path is published as Borg has made it, without the metadata archived for it. |
| `Quiesce_abandoned` (violation) | `SafelyResumed` | A container is stopped for good by a stop whose client was interrupted: resume finds it still running, removes the journal, and then the stop takes effect. |

Passing runs explore their whole state space. The bounds, and why they are
enough:

- `Quiesce`: two containers and a service are the least with which one loop is
  interrupted between two of its units and one kind before the other. Two
  crashes allow a crash of the run that recovers from a crash. One change by
  an administrator comes between any two steps; the proofs are for any number of
  them. `Quiesce_abandoned` needs one container, no crash and no administrator.
- `Jobs`: two processes for every race between a holder and a newcomer (the lock
  admits one writer, so a third process repeats what the second does); two rows
  beside readers and a status, for a success and a failure or a running attempt in
  either order; four rows where a prune has to choose among several archives; two instants, each
  a period of its own, for a prune (four in `Jobs_prune`), with the clock only moving on. Processes are interchangeable, and the
  passing runs use that symmetry. Kind `check` is left out: to the lock and the table
  it is a maintenance without a prune, as `index` is after its probe.
- `IndexRefresh`: two names, two archives, two repositories and two changes of
  the repository: one archive replaced under its name, one of each repository,
  and a repository that leaves and returns between refreshes. Two completed
  refreshes, one of which builds on what the other left, with one death between;
  a clock of two instants that also goes back, so that an index can be stale
  and dated in the future.

- `Restore`: a directory with a directory that holds one file, a file beside
  them, and the state directory with the inventory: the least with nested
  selections, roots of different depths and a protected path that may be copied
  elsewhere but not restored. Three archive trees, two archives, so that the name
  passes from one to another with a different, or the same, content; one change
  by another process, which is enough to come between any two steps.
- `Session`: pipes of two lines, so that the helper blocks with a line in hand
  and one that tells Complete can be behind another; one run of the helper, since
  a second one meets the first only at the lock.
- `Desktop`: listings of none, one and two snapshots, so that the selected one can
  go, stay and change its place; two directories; three backups and one restart
  for the watcher: one it knows, one it announces, one that overtakes.
- `Setup`: one helper beside setup and automation, with an ungated operation that
  lists, one that creates and one that writes; `Gated` treats the others as these.
  Two failures in the life of the profile (`MaxFailures`): a call that fails and then
  its rollback, or one in each of two switches, so that the second starts from what
  the first has left.
  The proof is for any number of helpers.

Deadlock is checked in the runs of `Quiesce`, `Jobs`, `IndexRefresh` and `Setup`:
there is always a process that can start, a backup that can begin or a clock that
can move, so a run that stops would be an error in the model. A restore and a
session come to their end, and the watcher has nothing to do once the backups
allowed by the bound are over: `Restore_safety`, `Session_safety` and
`Desktop_safety` may stop. That a session does not stop too early is `Answered`
and `GoneStops`.

What an administrator does meanwhile limits what the code can promise, and the
properties say so: `SnapshotUndisturbed` excepts a container that somebody else has
started or stopped since the run looked at it or stopped it, and holds for none when
that is done to a service. `CreatingHoldsNothing` is about runs with Docker on:
`recover_unfinished` returns early when Docker was switched off after a crash (known
deviations). `OnlySelectedIsLost` excepts owner, mode and times of directories above
a selected path, which a merge sets. `ReportIsTrue` says nothing of the timers
where the command fails and the script has not spoken of a rollback.
`ProtectionStays`
is checked with Borg warnings that Boxup allows; `Jobs_prune` shows what the
others do to it. `RootsWhole` and `DoneIsRestored` except the paths that others
changed after they were published (`touched`). `RestoresWhatWasShown` and
`ShowsCurrent` except a reload that failed half-way unseen (`torn`).
`BorgIsWaitedFor` is about backups and restores: the index refresh is listed
below.

The violation runs show where a statement of the documentation or a
message disagrees with the code; each is a finding in `PROJECT.json`.

### Known deviations

Met while translating the code, and not the subject of a run:

- With `docker.enabled` switched off after a crash, the next backup does not recover
  (`jobs.rs:747`) and makes its archive with the workloads of the dead run down; they
  come back with the first run after Docker is switched on again.
- Of two selected containers that share a mount, one stopped and one running, the
  copy of the stopped one is not made again when no service is active
  (`jobs.rs:908-919`), although the other was writing when it was made.
- A merge sets owner, mode and times of existing directories above a selected path
  to those of the staged ones (`restore.rs:1083-1093`), which Borg has made itself and
  not from the archive; so does the rename of such a directory onto an empty one. No
  document says what an overwriting restore does to them. `OnlySelectedIsLost` names
  the exception.
- `setup-automation` ends under `set -e` when `systemctl` answers neither yes nor no
  for a timer it has switched (lines 197-202), or cannot print (203): no
  rollback is tried, and `run_automation` restores the notifications and says
  only "could not change Boxup automation" (`boxup.rs:1450-1454`). The timers are then
  as switched. The same is said when the script is killed half-way.
- A container started between the stopped check (`jobs.rs:847`) and its copy
  (851) is staged while it writes; docs/RESTORE.md:154 calls the copy quiescent.
- The health line says "running" when any operation holds the lock and the newest
  backup row says running (`boxup.rs:858`), also when that row is of a killed
  backup and the holder is another operation (README.md:302).
- A cancellation that arrives after `borg create` has returned is ignored
  (`jobs.rs:234`), the run is recorded as succeeded and the command line prints
  "backup cancelled"; README.md:185 says it is recorded as failed. The terminal
  interface says in the same case that the helper returned no result.
- An overwriting restore of the archived inventory writes into the live state
  directory (`restore.rs:197-247`); docs/RESTORE.md:56-58 says that the state
  directory is not restored over.
- A root that others create between the look and the exchange is exchanged
  away.
- A Borg listing given up by an index refresh runs on without the lock until its
  next line (`borg.rs:267`), against the comment at `borg.rs:443`.
- The watcher says nothing of the backup that runs when it first looks, of one
  that another follows within 15 seconds, and of one that was killed, against
  README.md:243.
- The script that enables automation asks for a validated profile and a stamp, but
  not for the safe-copy restore README.md:47-49 asks for first; and setup looks
  for an old marker in reconnect mode only.
- The prefix test `starts_with` of a host `a-b` also accepts archives of a host
  called `a-b-c` (README.md:22).

### Fairness

`Quiesce`, `IndexRefresh`, `Session` and `Desktop` have liveness. In `Quiesce`, `FairSpec` assumes: a backup that runs goes on and
a timer starts another (`WF(Backup)`; the timers are persistent systemd units);
a stop the daemon accepted takes effect (`WF(Land)`); the reading of the journal
does not fail every time (`SF(Recover)`); the start of a unit does not fail for
ever (`SF(ResumeOk)`: a unit that can never start again is not brought back by
any program). Nothing is assumed of crashes, which are bounded by
`MaxCrashes`, nor of the administrator.

In `IndexRefresh` a refresh goes on, returns or is started again by its timer
(`WF(Refresh)`: each operation of Borg and the refresh as a whole have a
deadline, `INDEX_JOB_TIMEOUT`), and a command that reads comes to its end
(`WF(Read)`), since the lock it holds turns every refresh away. Deaths are
bounded by `MaxFails`, changes of the repository by their own bounds.
`CompleteAgain` then says that no state a refresh leaves behind makes all later
ones fail.

In `Session` the threads and processes are scheduled: the front end goes on
reading, waiting and reporting, the thread of the control pipe runs, and a line
is written when it can be (`WF`). The main task of the helper polls its operation
again after every heartbeat it writes, so what stays ready is done although
writing interrupts it again and again (`SF(HelperStep)`, which holds none of the
failures and deadlines). Of Borg nothing is assumed but that it dies of SIGKILL.
In `Desktop` the watcher's loop goes on and systemd restarts it
(`WF(Watching)`; `Restart=` of its unit).

## 4. What is proved

For every set of containers, services, paths, trees, listings, processes,
helpers, repositories and names, every size of a pipe, and every number of rows,
archives, crashes, restarts and outside changes:

- `QuiesceProofs!TypeCorrect` (`TypeOK`): Every variable keeps its type, for any sets of containers, services and paths.
- `QuiesceProofs!JournalAlwaysCovers` (`JournalCovers`): At every instant a crash can hit, the recovery journal lists every workload Boxup has taken or is taking down, but for a container that a resume took for running while an abandoned stop of it was in progress; nothing is assumed of the constants.
- `QuiesceProofs!CreatingNeverStrands` (`CreatingHoldsNothing`): While a run that uses Docker makes the archive, nothing is down for Boxup, with the same exception: also if docker.enabled was switched off and on again between the runs before.
- `QuiesceProofs!QuiesceKeepsPromise` (`KeepsPromise`): The algorithm implements the abstract promise Custody, step by step, for all units but those a resume took for running while an abandoned stop was in progress.
- `QuiesceProofs!OnlyJournalledTouched` (`TouchesOnlyJournalled`): Boxup never starts or stops a workload that the journal of that moment does not list; the late end of an abandoned stop that a resume overlooked is the one exception.
- `QuiesceProofs!SnapshotIsQuiet` (`SnapshotUndisturbed`): When a run hands its snapshot to Borg, every staged copy was made with its container and all services at rest, unless somebody else started or stopped that container, or a service, after the run had looked at it or stopped it.
- `JobsProofs!InvariantHolds`: The inductive invariant, for any number of processes, operations and rows.
- `JobsProofs!WritersAreAlone` (`WritersAlone`): Two operations that write, or one that writes and a restore, are never inside their sections together.
- `JobsProofs!SuccessHasStamp` (`SuccessIsStamped`): A job recorded as a successful backup has a good archive, a row that names it, and a stamp at least as new.
- `JobsProofs!StampNeverGoesBack` (`StampAdvances`): The stamp never goes back to an older archive.
- `JobsProofs!StampFollowsArchive` (`StampIsArchive`): While the clock does not go back, the stamp names an archive that was completely created before the stamp was written.
- `JobsProofs!ProtectionIsKept`: While the clock does not go back and Borg ends no create with an unknown warning, no prune, complete or interrupted, takes away the last archive as new as the stamp.
- `JobsProofs!JobsKeepRetention` (`KeepsRetention`): While the clock does not go back and Borg ends no create with an unknown warning, the processes implement Retention, step by step: backups, reports and prunes take effect one after the other.
- `StatusProofs!TypesHold` (`TypeOK`): Every variable of Jobs keeps its type, what a status display has read included.
- `StatusProofs!HealthyMeansCurrent` (`HealthyIsCurrent`): A status that says healthy refers to a success no older than the newest attempt there was when it began to read, for any interleaving of its statements.
- `IndexRefreshProofs!TypeCorrect` (`TypeOK`): The index and the refresh are well typed, and an index that says complete has an identity, a generation and a time.
- `IndexRefreshProofs!Exact` (`ExactIfUndisturbed`): A complete index after an undisturbed refresh is exactly the repository at its commit, whatever earlier refreshes left behind.
- `IndexRefreshProofs!OneRepository` (`RowsOfItsRepository`): A complete index holds only archives of the repository whose identity it bears.
- `RestoreProofs!Invariance`: The inductive invariant of a restore, for any paths, trees and number of archives: an extracted archive lies between the planned and the live one, staging holds only it, and every root is as it was or as planned.
- `RestoreProofs!PublishedTheorem` (`PublishesPlanned`): What reaches / or the destination is of the archive that was planned.
- `RestoreProofs!DestinationTheorem` (`DestinationWhole`): A destination that is published holds the whole manifest.
- `RestoreProofs!RootsTheorem` (`RootsWhole`): Whenever an original-path restore stops, each of its roots is as it was, or holds what was planned and nothing else: all selected entries as archived, and above them directories made by Borg without the metadata of the archive.
- `RestoreProofs!TypesTheorem` (`TypeOK`): Every variable keeps its type, for any trees and paths.
- `RestoreProofs!DoneTheorem` (`DoneIsRestored`): A restore that reports success has left every selected entry in its place as the archive has it, but for what others changed meanwhile.
- `RestoreProofs!SelectedTheorem` (`OnlySelectedIsLost`): No step of a restore changes what stood when it was placed and is not selected, its metadata included, except that a merge sets owner, mode and times of the directories above a selected path; nor a destination that others have filled.
- `SessionProofs!Invariance`: The inductive invariant of a session, for any size of the pipes.
- `SessionProofs!TypeTheorem` (`TypeOK`): Every variable keeps its type, and the pipe its bound.
- `SessionProofs!SuccessTheorem` (`SuccessIsRecorded`): A user who is told of a success has the archive and a job recorded as succeeded.
- `SessionProofs!BorgTheorem` (`BorgIsWaitedFor`): No Borg of a backup or a restore runs on after the helper has returned, but for one sent SIGKILL.
- `SessionProofs!CauseTheorem` (`CancelHasCause`): No backup is interrupted without a request, a death of its front end or a signal.
- `DesktopProofs!Invariance`: The inductive invariant of the terminal interface and of the watcher.
- `DesktopProofs!TypeTheorem` (`TypeOK`): Every variable keeps its type, for any listings, backups and restarts: the selected snapshot is one of the list.
- `DesktopProofs!ShownTheorem` (`RestoresWhatWasShown`): Every path of a restore was shown for the snapshot it is restored from.
- `DesktopProofs!CurrentTheorem` (`ShowsCurrent`): The entries shown are of the snapshot under the cursor.
- `DesktopProofs!OrderTheorem` (`AnnouncedInOrder`): One life of the watcher announces ended backups, in order and once.
- `SetupProofs!Invariance`: The inductive invariant of a profile's life, for any number of helpers.
- `SetupProofs!GateTheorem` (`GateHolds`): No gated operation works on a repository the profile was not validated against.
- `SetupProofs!TimersTheorem` (`TimersAfterBackup`): Timers are on only for a validated profile that has made a backup.
- `SetupProofs!TypesTheorem` (`TypeOK`): Every variable keeps its type; no order of writes or of timer calls is longer than the sets they are drawn from.
- `SetupProofs!ReportTheorem` (`ReportIsTrue`): A switch of the automation reports a success only with all timers and notifications as asked and a plain failure only with the notifications as they were, and its script says restored only of timers as it found them, also when a status cannot be read or one of the two processes dies.
- `IndexRefreshProofs!ReadersSafe` (`ReadsComplete`): No refresh takes the complete index away from a command that reads it under the lock.

**Quiesce.** `JournalCovers` is not inductive: the next step after `resume` has
emptied its list removes the journal, and nothing in `JournalCovers` says that
the units are back. `IInv` adds that from the first write of the journal to its
removal the run works on exactly the journalled units (`JournalIsRun`), that
loops stay inside them (`LoopsWithinRun`), that what resume has verified is no
longer out of service (`VerifiedReleased`), that there is no journal in the rest
of the run (`NoJournalOutsideRun`), and that a switched-off Docker has none
as long as it is switched on. `VerifiedReleased` is where
`missed` enters: what resume has verified is back unless a stop of it was still in
progress, and then it is not owed any more. The refinement maps each
step to one of `Custody` or to a stutter, using `IInv`.

`SnapshotUndisturbed` is about the values of flags at the end of a run, and has an
invariant of its own, `SInv`. But for units that others disturb it says at every
statement which units are known to be down (`KnownDown`), which items are staged by
now (`StagedNow`) and that the copies of those are quiet, unless the run has already
failed and stages nothing (`QuietCopies`, `ErrorsInResume`). A stop abandoned in an
earlier run may still land in this one, so that it also needs what such a stop
cannot be: one of a service resume has verified (`ServiceStopsRecorded`). That the
copies of containers are at rest with the services down as well takes two
arguments (`ServicesRest`, `QuietCopies`): either the services were down when the
container was copied, or they were stopped and everything was copied again.

**Jobs.** `WritersAlone` follows from `LockAgrees` (where a process is tells
which lock it has) and `LockExcludes`. `SuccessIsStamped` needs to know that the
row of the process under way is the last of the table (`RowIsLast`, which needs
the lock), and what the archive, the stamp and the row say at each step of the
backup (`BackupProgress`). `StampAdvances` follows: at `Stamp` the writer's row is
the newest and every earlier stamp names an older one. `StampIsArchive` adds that
no archive was made later than now (`MadeBefore`), which assumes a clock that does
not go back (`Steps \subseteq Nat`, as in every run). For `ProtectionStays` also the
archives in the repository are as old as their names say and the running backup has
its own (`RepoInv`); then the last archive is the newest of its period and before
every other, so that prune keeps it (`KeepsNewest`). It assumes `~Warnings`, as the
passing run does; `Jobs_prune` shows that it fails otherwise. TLC checks it in that
run as part of `KeepsRetention`, which implies it: only `Discard` takes archives away.
The refinement (`JobsKeepRetention`) says of every step what these say of states:
`Create` is `Make`, `Stamp` is `Protect`, `Finish` of a success is `Report`, `Prune`
is `Discard`, all others change nothing `Retention` sees. It needs that the archive
of the running backup is not there before `Create`, is newer than the stamp until
`Stamp`, and has not been pruned when its success is reported (`OneAfterAnother`),
which holds because the lock keeps every other writer out (`Alone`). It rests on the
invariant of `ProtectionStays` and hence on its two assumptions.

**Status.** Between its statements a display holds values that may be old. They stay
true because rows are never deleted and a success is never taken back
(`TableGrows`): the success it counted on still exists, the row it took for the
newest is still a backup, and, except between the first and the second read, a
state `succeeded` belongs to a row not older than the base (`ViewHolds`).

**IndexRefresh.** `ExactIfUndisturbed` is about the state after a commit, and the
rows of that state have survived refreshes that were disturbed. `IInv` says what
such rows can be: of an archive of the repository the index names (`Indexed`,
`Of`), and, where their files are those of another archive, of one that is gone
(`GoneIfMixed`), so that no later listing shows it and `Begin` deletes the row.
For the refresh under way it says what the locals know: as long as the
repository at the location has the identity read first, the listing and the rows
are of that repository (`Listed`, `Working`), because a repository that went away
does not return (`Moved`); and a refresh nobody disturbed has the repository
itself as its listing (`Current`). A new archive disturbs none of this because its
id is beyond all used ones (`Fresh`). `ReadsComplete` follows from `Locked`.

**Restore.** Borg extracts by name, so that nothing in a state says which archive
staging holds. What can be said is that ids grow: the archive extracted is not
older than the one planned, because the id was compared before, and not younger
than the one that has the name (`Dated`). When the second comparison finds the
planned id, the three are the same (`Staged`). From there on every node with the
mark of an archive is of the plan (`Traced`), the roots are apart from each other
and each as it was or as planned (`Rooted`, `RootsWhole`), which exchanging one of
them does not change for the others. What of a root is selected is of the archive, all
else in it was made by Borg (`Staged`), which is what `RootsWhole` says and
`ParentsAsArchived` denies.

`DoneIsRestored` needs an account of a merge under way (`Account`). Trees stay trees
(`Shapes`): nothing is staged or stands below what is no directory, so that a move
into an existing directory puts nothing in two places. The merge is in a staged
directory whose counterparts are there, as far as nobody took them away (`Inside`).
And every selected entry is staged still, as planned, or in its place (`Merged`):
when the merge leaves the top, nothing is staged. For original paths it needs that
the roots hold the whole selection (`Exchanged`): above a selected path there is a
shortest missing directory or the path itself (`Shortest`), and the roots are the
least of these (`MinimalCovers`, by induction over the length of a path). The same
account gives `OnlySelectedIsLost`: what is planned outside of the selection are the
directories above it (`Planned`). `ShapeAssumption` states of the constants what
any file system and any Borg archive are: an entry has directories above it; only
an archive may leave these out.

**Session.** `BorgIsWaitedFor` needs to know in which phases a Borg can be running
at all and with which signal sent (`Phased`), since a phase that leaves none behind
is entered from many places. `SuccessIsRecorded` follows from what the pipe, the
line being written and the phase say of the row and the archive (`Recorded`): a
result is written only after the row is. `CancelHasCause` needs that the front end
keeps the control pipe open as long as it reads (`Caused`), and that the helper is
over when it closes it of its own accord.

**Desktop.** Every change of the cursor's snapshot drops what is marked, so that
what is marked or asked for is of the snapshot under the cursor (`Chosen`), in every
mode in which the list can still be reloaded. `AnnouncedInOrder` needs that the
ids announced in this life are not beyond the last one remembered, which a lost
state file resets together with the life (`Told`), and that only the last row can
still change.

**Setup.** `GateHolds` has to hold for a helper that passed the gate long ago: a
marker that is missing means that no configuration is there yet, or that the
profile is new, or that the repository was validated (`Marked`, from the order in
which the files are written, `Ordered`), and all of these last. `TimersAfterBackup`
needs the same of the stamp, and of the timers a rollback will turn on again
(`Switched`).
`ReportIsTrue` needs that the notifications are as asked while the script runs, and
that nothing is told before its time (`Remembered`), for every place at which one of
the two processes may end.

Assumed of the constants, each in the module that declares them and evaluated by
TLC: that they are sets of the kind named, `ShapeAssumption`, and what a theorem names in its
own statement (`~Warnings` and a clock that does not go back, for the theorems
about `StampIsArchive` and `KeepsRetention`). The theorems about `Quiesce` assume nothing.

Only model-checked: liveness (`EventuallyBack`, `CompleteAgain`, `Answered`,
`GoneStops`, `EventuallyAnnounced`), which under fairness is out of the prover's
reach. Every invariant and every action property that a passing run checks is
proved.

## 5. What is not modelled

Argument building and output parsing of `borg.rs`; the validation of each field of
a configuration (`config.rs`: a pure predicate, of which `Setup` has the result);
schema migration, full-text search and the other queries of the index; mount, diff
and key export; rendering. Borg, Docker, systemd and SQLite appear as far as Boxup
uses them. A power loss that undoes a rename (`write_atomic` does not sync the
directory) is not modelled.

## 6. Plan

Done: all modules above and their proofs. What is left, in this order:

1. The sources of a backup: `available_sources` and the coverage of staged
   mounts. README.md:324 says that configured folders currently absent are
   noted in a successful backup, while `available_sources` (`jobs.rs:394`) fails
   the run when one is absent.
2. Mounts that two containers share, as sets of items with several writers.
3. The child of `run_command` in `jobs.rs` (deadline, SIGTERM, grace, SIGKILL,
   reaping) as the child of `Session` is.
4. Pure functions: the duration estimate, path coverage of sources.
5. Abstract specifications of the index (replaced as a whole or marked as not
   usable) and of a session, and their refinements, as `Custody` and `Retention`
   are for theirs.
