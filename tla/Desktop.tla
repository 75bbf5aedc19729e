------------------------------ MODULE Desktop ------------------------------
(***************************************************************************)
(* The two programs a desktop user sees: the terminal interface (src/tui.rs*)
(* App and its keys) and the notification watcher (watch_notifications).   *)
(* Both only read the index, without Boxup's lock, while others change it. *)
(* They share nothing, so a behaviour runs one of them.                    *)
(*                                                                         *)
(* A snapshot is a name; a path remembers the snapshot it was shown for.   *)
(* The cursor in a list is left out: a key that acts on the current entry  *)
(* acts on any.  The helper behind a worker is in module Session, the rows *)
(* of jobs in module Jobs: here one backup at a time.                      *)
(***************************************************************************)
EXTENDS Integers, Sequences

CONSTANTS
  Programs,     \* which of the two are run: a subset of {"tui", "watcher"}
  Listings,     \* what the index may list: sequences of snapshots
  NoSnapshot,
  MaxJobs,      \* bound: backups
  MaxRestarts   \* bound: restarts of the watcher

ASSUME ProgramAssumption == Programs \subseteq {"tui", "watcher"}
ASSUME ListingAssumption ==
  \A l \in Listings : /\ Len(l) \in Nat /\ DOMAIN l = 1..Len(l)
                      /\ \A n \in DOMAIN l : l[n] # NoSnapshot
ASSUME BoundAssumption == MaxJobs \in Nat /\ MaxRestarts \in Nat

Snapshots == UNION {{l[n] : n \in DOMAIN l} : l \in Listings}

\* The top directory has a file and a directory, and that a file.
Directories == {"", "d"}
Names(dir)  == IF dir = "" THEN {"d", "f"} ELSE {"d/g"}
Paths       == [name : {"d", "f", "d/g"}, of : Snapshots]
NoRequest   == [snapshot |-> NoSnapshot, paths |-> {}]

VARIABLES
  program,
  listing,    \* the snapshots in the index
  tpc,        \* "closed", or the Mode of the App
  view,
  focus,
  known,      \* its snapshots
  at,         \* its snapshot_index, from 1
  files,      \* the entries it shows
  directory,
  selected,
  filtered,   \* search_result_query is set
  board,      \* of its dashboard: index_usable and operation_active
  request,    \* the restore asked for, its snapshot once it has started
  torn,       \* history: a reload that nobody saw fail has left old files
  jobs,       \* the backup rows: their states
  active,     \* the backup of the last row is at work
  wpc,        \* where the watcher is
  last,       \* its last_notified, 0 for None
  saved,      \* its state file, 0 for none
  row,        \* the job it has read
  announced,  \* history: its notifications
  restarts    \* counter for the bound

browser == <<known, at, files, directory, selected, filtered, torn>>
app     == <<tpc, view, focus, browser, board, request>>
table   == <<jobs, active>>
watcher == <<wpc, last, saved, row, announced, restarts>>
vars    == <<program, listing, app, table, watcher>>

Modes  == {"normal", "search", "confirm_backup", "backing_up", "choose", "confirm_restore",
           "restoring"}
States == {"running", "succeeded", "failed"}
Notice == [id : 1..MaxJobs, state : States, life : 0..MaxRestarts]

\* load_dashboard.  Whether the index is usable and whether somebody holds the
\* lock are decided elsewhere: it may read either.
Boards == [usable : BOOLEAN, active : BOOLEAN]

AppType ==
  /\ listing \in Listings
  /\ tpc \in {"closed"} \cup Modes
  /\ view \in {"dashboard", "browser"} /\ focus \in {"snapshots", "files"}
  /\ known \in Listings \cup {<<>>}
  /\ at \in 1..Len(known) \cup {1}
  /\ files \subseteq Paths
  /\ directory \in Directories
  /\ selected \subseteq Paths
  /\ filtered \in BOOLEAN /\ torn \in BOOLEAN
  /\ board \in Boards
  /\ request \in [snapshot : Snapshots \cup {NoSnapshot}, paths : SUBSET Paths]

WatcherType ==
  /\ jobs \in Seq(States) /\ Len(jobs) <= MaxJobs
  /\ active \in BOOLEAN
  /\ wpc \in {"look", "announce", "save", "dead"}
  /\ last \in 0..MaxJobs /\ saved \in 0..MaxJobs
  /\ row \in [id : 0..MaxJobs, state : States]
  /\ announced \in Seq(Notice)
  /\ restarts \in 0..MaxRestarts

TypeOK == program \in Programs /\ AppType /\ WatcherType

Init ==
  /\ program \in Programs
  /\ listing \in Listings
  /\ tpc = "closed" /\ view = "dashboard" /\ focus = "snapshots"
  /\ known = <<>> /\ at = 1 /\ files = {} /\ directory = ""
  /\ selected = {} /\ filtered = FALSE /\ torn = FALSE
  /\ board = [usable |-> FALSE, active |-> FALSE]
  /\ request = NoRequest
  /\ jobs = <<>> /\ active = FALSE
  /\ wpc = "look" /\ last = 0 /\ saved = 0 /\ restarts = 0
  /\ row = [id |-> 0, state |-> "running"]
  /\ announced = <<>>
----------------------------------------------------------------------------
(* What the terminal interface reads                                       *)

\* directory_entries: the index answers no entries for a snapshot it does
\* not have.
Entries(s, dir) ==
  IF \E n \in DOMAIN listing : listing[n] = s THEN [name : Names(dir), of : {s}] ELSE {}

Current(k, n) == IF n \in DOMAIN k THEN k[n] ELSE NoSnapshot

\* Mutant: an empty list keeps the entries on display.
ReloadIfAny(k, n, dir) ==
  /\ files' = IF Entries(Current(k, n), dir) = {} THEN files ELSE Entries(Current(k, n), dir)
  /\ filtered' = FALSE
  /\ torn' = (torn /\ selected' # {})

\* reload_files, for the snapshot and the directory the App has by then.
ReloadFiles(k, n, dir) ==
  /\ files' = Entries(Current(k, n), dir)
  /\ filtered' = FALSE
  /\ torn' = (torn /\ selected' # {})

\* Mutant: a snapshot that is gone leaves the index where it was.
PlaceOrStay(k, s) == IF \E n \in DOMAIN k : k[n] = s THEN CHOOSE n \in DOMAIN k : k[n] = s ELSE at

\* The place of snapshot s in k, the first place if it is not there.
Place(k, s) == IF \E n \in DOMAIN k : k[n] = s THEN CHOOSE n \in DOMAIN k : k[n] = s ELSE 1

\* reload_snapshots.  The list and the entries are two queries: between them
\* the snapshot may go.
ReloadSnapshots ==
  /\ known' = listing
  /\ at' = Place(listing, Current(known, at))
  /\ directory' = ""
  /\ selected' = {}
  /\ \/ ReloadFiles(listing, at', "")
     \/ files' = {} /\ filtered' = FALSE /\ torn' = FALSE

\* reload_snapshots whose second query fails, its error ignored.
TearSnapshots ==
  /\ listing # <<>>
  /\ known' = listing
  /\ at' = Place(listing, Current(known, at))
  /\ directory' = ""
  /\ selected' = {}
  /\ torn' = (torn \/ files # {})
  /\ UNCHANGED <<files, filtered>>

\* An ignored reload_snapshots: done, half done, or failed at once.
TryReload == ReloadSnapshots \/ TearSnapshots \/ UNCHANGED browser

\* App::new.  A dashboard or a list that cannot be read is left empty; entries
\* that cannot be read end the program.
Open ==
  /\ tpc = "closed"
  /\ tpc' = "normal"
  /\ \/ known' = listing
     \/ known' = <<>>
  /\ at' = 1
  /\ directory' = "" /\ selected' = {}
  /\ ReloadFiles(known', 1, "")
  /\ board' \in Boards
  /\ UNCHANGED <<view, focus, request>>

\* refresh_dashboard, each second in any mode and by a key of the dashboard.
\* A dashboard that cannot be read stays as it is.
RefreshDashboard ==
  /\ tpc # "closed"
  /\ board' \in Boards
  /\ IF ~board.usable /\ known = <<>> /\ board'.usable THEN TryReload ELSE UNCHANGED browser
  /\ UNCHANGED <<tpc, view, focus, request>>

----------------------------------------------------------------------------
(* Keys of the browser                                                     *)

Browsing == tpc = "normal" /\ view = "browser"

OpenBrowser ==
  /\ tpc = "normal" /\ view = "dashboard"
  /\ board.usable
  /\ view' = "browser"
  /\ UNCHANGED <<tpc, focus, browser, board, request>>

ShowDashboard ==
  /\ Browsing
  /\ view' = "dashboard"
  /\ UNCHANGED <<tpc, focus, browser, board, request>>

Reload ==
  /\ Browsing
  /\ ReloadSnapshots
  /\ UNCHANGED <<tpc, view, focus, board, request>>

SwitchFocus ==
  /\ Browsing
  /\ focus' = IF focus = "snapshots" THEN "files" ELSE "snapshots"
  /\ UNCHANGED <<tpc, view, browser, board, request>>

\* Mutant: another snapshot keeps what is marked.
MoveAndKeep ==
  /\ Browsing /\ focus = "snapshots"
  /\ at' \in DOMAIN known \ {at}
  /\ directory' = ""
  /\ UNCHANGED <<tpc, view, focus, known, selected, board, request>>
  /\ ReloadFiles(known, at', "")

\* move_selection and move_to_edge over the snapshots.
MoveSelection ==
  /\ Browsing /\ focus = "snapshots"
  /\ at' \in (DOMAIN known \cap {1, at - 1, at + 1, Len(known)}) \ {at}
  /\ directory' = ""
  /\ selected' = {}
  /\ ReloadFiles(known, at', "")
  /\ UNCHANGED <<tpc, view, focus, known, board, request>>

EnterSnapshot ==
  /\ Browsing /\ focus = "snapshots"
  /\ directory' = ""
  /\ selected' = {}
  /\ ReloadFiles(known, at, "")
  /\ focus' = "files"
  /\ UNCHANGED <<tpc, view, known, at, board, request>>

EnterDirectory ==
  /\ Browsing /\ focus = "files"
  /\ \E p \in files :
       /\ p.name = "d"
       /\ UNCHANGED selected
       /\ directory' = p.name
       /\ ReloadFiles(known, at, p.name)
  /\ UNCHANGED <<tpc, view, focus, known, at, board, request>>

Leave ==
  /\ Browsing /\ focus = "files"
  /\ IF directory = "" THEN focus' = "snapshots" /\ UNCHANGED browser
     ELSE /\ UNCHANGED <<focus, known, at, selected>>
          /\ directory' = ""
          /\ ReloadFiles(known, at, "")
  /\ UNCHANGED <<tpc, view, board, request>>

ClearFilter ==
  /\ Browsing /\ filtered
  /\ UNCHANGED <<tpc, view, focus, known, at, directory, selected, board, request>>
  /\ ReloadFiles(known, at, directory)

OpenSearch ==
  /\ Browsing
  /\ tpc' = "search"
  /\ UNCHANGED <<view, focus, browser, board, request>>

\* Esc, an empty query, or no snapshot to search.
LeaveSearch ==
  /\ tpc = "search"
  /\ tpc' = "normal"
  /\ UNCHANGED <<view, focus, browser, board, request>>

Search ==
  /\ tpc = "search"
  /\ at \in DOMAIN known
  /\ tpc' = "normal"
  /\ files' \in SUBSET Entries(known[at], directory)
  /\ filtered' = TRUE
  /\ torn' = (torn /\ selected # {})
  /\ UNCHANGED <<view, focus, known, at, directory, selected, board, request>>

Mark ==
  /\ Browsing /\ focus = "files"
  /\ \E p \in files :
       selected' = IF p \in selected THEN selected \ {p} ELSE selected \cup {p}
  /\ UNCHANGED <<tpc, view, focus, known, at, files, directory, filtered, torn, board, request>>

----------------------------------------------------------------------------
(* Restores and backups                                                    *)

\* What is marked, in whatever directory, or else the current entry.
AskRestore ==
  /\ Browsing
  /\ tpc' = "choose"
  /\ \/ selected # {} /\ request' = [NoRequest EXCEPT !.paths = selected]
     \/ selected = {} /\ \E p \in files : request' = [NoRequest EXCEPT !.paths = {p}]
  /\ UNCHANGED <<view, focus, browser, board>>

\* Esc, or a configuration outside /etc/boxup.
GiveUp ==
  /\ tpc \in {"choose", "confirm_restore", "confirm_backup"}
  /\ tpc' = "normal"
  /\ request' = NoRequest
  /\ UNCHANGED <<view, focus, browser, board>>

ChooseOriginal ==
  /\ tpc = "choose"
  /\ tpc' = "confirm_restore"
  /\ UNCHANGED <<view, focus, browser, board, request>>

\* start_restore_worker: a safe copy as soon as it is chosen, the original
\* paths after RESTORE was typed.
StartRestore ==
  /\ tpc \in {"choose", "confirm_restore"}
  /\ at \in DOMAIN known
  /\ tpc' = "restoring"
  /\ request' = [request EXCEPT !.snapshot = known[at]]
  /\ UNCHANGED <<view, focus, browser, board>>

RestoreFinished ==
  /\ tpc = "restoring"
  /\ tpc' = "normal"
  /\ request' = NoRequest
  /\ selected' \in {selected, {}}
  /\ UNCHANGED <<view, focus, known, at, files, directory, filtered, torn, board>>

AskBackup ==
  /\ tpc = "normal" /\ view = "dashboard"
  /\ ~board.active
  /\ tpc' = "confirm_backup"
  /\ UNCHANGED <<view, focus, browser, board, request>>

\* The lock is not looked at again: that is the helper's.
StartBackup ==
  /\ tpc = "confirm_backup"
  /\ tpc' = "backing_up"
  /\ UNCHANGED <<view, focus, browser, board, request>>

\* Both refresh the dashboard, a success the snapshots before it; every error
\* in this is ignored.
BackupFinished ==
  /\ tpc = "backing_up"
  /\ tpc' = "normal"
  /\ board' \in Boards
  /\ TryReload
  /\ UNCHANGED <<view, focus, request>>

\* q, a key whose query or whose helper fails, or a lost terminal.  A worker
\* is waited for.
Quit ==
  /\ tpc # "closed"
  /\ tpc' = "closed" /\ view' = "dashboard" /\ focus' = "snapshots"
  /\ known' = <<>> /\ at' = 1 /\ files' = {} /\ directory' = ""
  /\ selected' = {} /\ filtered' = FALSE /\ torn' = FALSE
  /\ board' = [usable |-> FALSE, active |-> FALSE]
  /\ request' = NoRequest

TuiNext ==
  \/ Open \/ RefreshDashboard
  \/ OpenBrowser \/ ShowDashboard \/ Reload \/ SwitchFocus \/ MoveSelection
  \/ EnterSnapshot \/ EnterDirectory \/ Leave
  \/ OpenSearch \/ LeaveSearch \/ Search \/ ClearFilter \/ Mark
  \/ AskRestore \/ GiveUp \/ ChooseOriginal \/ StartRestore \/ RestoreFinished
  \/ AskBackup \/ StartBackup \/ BackupFinished \/ Quit

----------------------------------------------------------------------------
(* The notification watcher                                                *)

\* Mutants: the last job is looked at again; a running job is recorded.
LookAgain ==
  /\ wpc = "look" /\ jobs # <<>>
  /\ row' = [id |-> Len(jobs), state |-> jobs[Len(jobs)]]
  /\ \/ last # 0 /\ row'.id >= last /\ row'.state # "running" /\ wpc' = "announce"
     \/ last = 0 /\ wpc' = "save"
  /\ UNCHANGED <<last, saved, announced, restarts>>

LookAndRecord ==
  /\ wpc = "look" /\ jobs # <<>>
  /\ row' = [id |-> Len(jobs), state |-> jobs[Len(jobs)]]
  /\ row'.id > last
  /\ wpc' = IF last # 0 /\ row'.state # "running" THEN "announce" ELSE "save"
  /\ UNCHANGED <<last, saved, announced, restarts>>

\* An iteration: the latest backup row, or an index that cannot be read.  The
\* first row seen is recorded without a word.
Look ==
  /\ wpc = "look" /\ jobs # <<>>
  /\ row' = [id |-> Len(jobs), state |-> jobs[Len(jobs)]]
  /\ \/ last # 0 /\ row'.id > last /\ row'.state # "running" /\ wpc' = "announce"
     \/ last = 0 /\ wpc' = "save"
  /\ UNCHANGED <<last, saved, announced, restarts>>

\* send_desktop_notification; one that cannot be delivered is only logged.
Announce ==
  /\ wpc = "announce"
  /\ announced' = Append(announced, [id |-> row.id, state |-> row.state, life |-> restarts])
  /\ wpc' = "save"
  /\ UNCHANGED <<last, saved, row, restarts>>

\* write_notification_state.
Save ==
  /\ wpc = "save"
  /\ saved' = row.id /\ last' = row.id
  /\ wpc' = "look"
  /\ UNCHANGED <<row, announced, restarts>>

\* The state cannot be written, or the watcher is killed, at any point.
Die ==
  /\ wpc # "dead" /\ restarts < MaxRestarts
  /\ wpc' = "dead"
  /\ UNCHANGED <<last, saved, row, announced, restarts>>

\* systemd starts it again.  The state file is in the service's runtime
\* directory, which does not outlive it; one started by hand has kept its own.
Restart ==
  /\ wpc = "dead"
  /\ wpc' = "look"
  /\ saved' \in {saved, 0}
  /\ last' = saved'
  /\ restarts' = restarts + 1
  /\ UNCHANGED <<row, announced>>

WatcherNext == Look \/ Announce \/ Save \/ Die \/ Restart

----------------------------------------------------------------------------
(* What others do                                                          *)

\* A backup, a prune or a refresh.
ChangeIndex == listing' \in Listings

BeginBackup ==
  /\ ~active /\ Len(jobs) < MaxJobs
  /\ jobs' = Append(jobs, "running")
  /\ active' = TRUE

EndBackup ==
  /\ active
  /\ jobs' \in {[jobs EXCEPT ![Len(jobs)] = s] : s \in {"succeeded", "failed"}}
  /\ active' = FALSE

\* Its process is killed: the row says running for ever.
BackupDies ==
  /\ active
  /\ active' = FALSE
  /\ UNCHANGED jobs

Next ==
  \/ /\ program = "tui"
     /\ \/ TuiNext /\ UNCHANGED listing
        \/ ChangeIndex /\ UNCHANGED app
     /\ UNCHANGED <<program, table, watcher>>
  \/ /\ program = "watcher"
     /\ \/ WatcherNext /\ UNCHANGED table
        \/ (BeginBackup \/ EndBackup \/ BackupDies) /\ UNCHANGED watcher
     /\ UNCHANGED <<program, listing, app>>

Spec == Init /\ [][Next]_vars

\* The watcher's loop goes on, and systemd restarts it.
Watching == (Look \/ Announce \/ Save \/ Restart) /\ UNCHANGED <<program, listing, app, table>>
FairSpec == Spec /\ WF_vars(Watching)

----------------------------------------------------------------------------
(* Properties                                                              *)

\* A restore is asked for what the user was shown: every path was on display
\* for the snapshot the helper is given, however the list was reloaded, moved
\* and filtered since (unless a failed reload went unseen).
RestoresWhatWasShown ==
  tpc = "restoring" /\ ~torn => \A p \in request.paths : p.of = request.snapshot

\* The entries on display are those of the snapshot under the cursor and of
\* the directory in the title.
ShowsCurrent ==
  ~torn => \A p \in files : p.of = Current(known, at) /\ p.name \in Names(directory)

\* One life of the watcher announces backups in the order of their ids and
\* none twice, each by the state it ended in.
AnnouncedInOrder ==
  \A i, k \in DOMAIN announced :
    /\ announced[i].state = jobs[announced[i].id] /\ announced[i].state # "running"
    /\ i < k /\ announced[i].life = announced[k].life => announced[i].id < announced[k].id

\* A backup that ends while the watcher knows an earlier one is announced,
\* unless another one starts first or a restart has lost the state file.
EventuallyAnnounced ==
  \A j \in 1..MaxJobs :
    (Len(jobs) = j /\ jobs[j] # "running" /\ last \in 1..j - 1)
      ~> (\E i \in DOMAIN announced : announced[i].id = j) \/ Len(jobs) > j \/ last = 0
=============================================================================
