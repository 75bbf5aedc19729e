--------------------------- MODULE DesktopProofs ---------------------------
(***************************************************************************)
(* The terminal interface restores what it has shown, for any snapshots    *)
(* and any changes of the index; the watcher announces in order, for any   *)
(* number of backups and restarts.                                         *)
(***************************************************************************)
EXTENDS Desktop, TLAPS

Here(p) == p.of = Current(known, at)

\* What is marked, and what a restore is asked for, is of the snapshot under
\* the cursor: the list changes while it is asked for only if it is empty.
Chosen ==
  /\ ~torn => \A p \in selected : Here(p)
  /\ ~torn /\ tpc \in {"choose", "confirm_restore"} => \A p \in request.paths : Here(p)
  /\ torn => known # <<>>

AppInv == AppType /\ ShowsCurrent /\ Chosen /\ RestoresWhatWasShown

\* The watcher has told of no job beyond the last it remembers, or the one it
\* is about to remember.
Told ==
  /\ active => jobs # <<>> /\ jobs[Len(jobs)] = "running"
  /\ wpc \in {"announce", "save"} => row.id \in 1..Len(jobs)
  /\ wpc = "save" => row.id >= last
  /\ wpc = "dead" => restarts < MaxRestarts
  /\ wpc = "announce" => row.id > last /\ row.state # "running" /\ row.state = jobs[row.id]
  /\ \A i \in DOMAIN announced :
       /\ announced[i].id \in 1..Len(jobs) /\ announced[i].life <= restarts
       /\ announced[i].life = restarts =>
            announced[i].id <= last \/ (wpc = "save" /\ announced[i].id <= row.id) \/ wpc = "dead"

WatcherInv == WatcherType /\ Told /\ AnnouncedInOrder

IInv == program \in Programs /\ AppInv /\ WatcherInv
----------------------------------------------------------------------------
(* The terminal interface                                                  *)

\* What a snapshot can be.
LEMMA Listed ==
  ASSUME NEW k \in Listings \cup {<<>>}, NEW n
  PROVE  /\ Len(k) \in Nat /\ DOMAIN k = 1..Len(k)
         /\ n \in DOMAIN k => k[n] \in Snapshots
         /\ Current(k, n) \in Snapshots \cup {NoSnapshot}
         /\ NoSnapshot \notin Snapshots
<1>1. Len(k) \in Nat /\ DOMAIN k = 1..Len(k) /\ (n \in DOMAIN k => k # <<>>)
  BY ListingAssumption
<1>2. n \in DOMAIN k => k[n] \in Snapshots
  BY <1>1 DEF Snapshots
<1>3. NoSnapshot \notin Snapshots
  BY ListingAssumption DEF Snapshots
<1> QED
  BY <1>1, <1>2, <1>3 DEF Current

\* What the index answers.
LEMMA EntriesOf ==
  ASSUME AppType, NEW s, NEW dir \in Directories, NEW p \in Entries(s, dir)
  PROVE  p \in Paths /\ p.of = s /\ p.name \in Names(dir)
<1>1. s \in Snapshots
  BY DEF Entries, AppType, Snapshots
<1>2. Names(dir) \subseteq {"d", "f", "d/g"}
  BY DEF Names, Directories
<1> QED
  BY <1>1, <1>2 DEF Entries, Paths

\* A reload shows what it should, and keeps a marked path only if the cursor
\* stays on its snapshot.
LEMMA Reloaded ==
  ASSUME AppType, NEW k, NEW n, NEW dir \in Directories, ReloadFiles(k, n, dir)
  PROVE  /\ files' \subseteq Paths /\ filtered' \in BOOLEAN
         /\ torn \in BOOLEAN => torn' \in BOOLEAN
         /\ \A p \in files' : p.of = Current(k, n) /\ p.name \in Names(dir)
         /\ torn' => torn
BY EntriesOf DEF ReloadFiles

LEMMA Placed ==
  ASSUME NEW k \in Listings \cup {<<>>}, NEW s
  PROVE  Place(k, s) \in DOMAIN k \cup {1}
BY DEF Place

\* reload_snapshots, as a whole, in part or not at all.
LEMMA ListReloaded ==
  ASSUME AppType, ShowsCurrent, Chosen, TryReload
  PROVE  /\ known' \in Listings \cup {<<>>} /\ at' \in 1..Len(known') \cup {1}
         /\ files' \subseteq Paths /\ directory' \in Directories /\ selected' \subseteq Paths
         /\ filtered' \in BOOLEAN /\ torn' \in BOOLEAN
         /\ ShowsCurrent'
         /\ ~torn' => \A p \in selected' : Here(p)'
         /\ torn' => known' # <<>>
<1>1. CASE ReloadSnapshots
  <2>1. /\ known' = listing /\ at' = Place(listing, Current(known, at))
        /\ directory' = "" /\ selected' = {}
        /\ \/ ReloadFiles(listing, at', "")
           \/ files' = {} /\ filtered' = FALSE /\ torn' = FALSE
    BY <1>1 DEF ReloadSnapshots
  <2>2. listing \in Listings /\ at' \in 1..Len(listing) \cup {1}
    BY <2>1, Placed, Listed DEF AppType
  <2>3. /\ files' \subseteq Paths /\ filtered' \in BOOLEAN /\ torn' = FALSE
        /\ \A p \in files' : p.of = Current(listing, at') /\ p.name \in Names("")
    <3>1. CASE ReloadFiles(listing, at', "")
      BY <2>1, <3>1, Reloaded DEF ReloadFiles, Directories
    <3>2. CASE files' = {} /\ filtered' = FALSE /\ torn' = FALSE
      BY <3>2
    <3> QED
      BY <2>1, <3>1, <3>2
  <2> QED
    BY <2>1, <2>2, <2>3 DEF ShowsCurrent, Here, Directories
<1>2. CASE TearSnapshots
  <2>1. /\ known' = listing /\ listing # <<>> /\ at' = Place(listing, Current(known, at))
        /\ directory' = "" /\ selected' = {} /\ torn' = (torn \/ files # {})
        /\ UNCHANGED <<files, filtered>>
    BY <1>2 DEF TearSnapshots
  <2>2. listing \in Listings /\ at' \in 1..Len(listing) \cup {1}
    BY <2>1, Placed, Listed DEF AppType
  <2> QED
    BY <2>1, <2>2 DEF AppType, ShowsCurrent, Directories
<1>3. CASE UNCHANGED browser
  BY <1>3 DEF browser, AppType, ShowsCurrent, Chosen, Here
<1> QED
  BY <1>1, <1>2, <1>3 DEF TryReload

\* Steps that end in a reload of the list.
LEMMA ListSteps ==
  ASSUME AppInv, RefreshDashboard \/ Reload \/ BackupFinished, UNCHANGED listing
  PROVE  AppInv'
<1> USE DEF AppInv
<1>1. /\ UNCHANGED <<view, focus, request>> /\ board' \in Boards
      /\ tpc' \in Modes /\ (tpc' = tpc \/ tpc' = "normal")
      /\ TryReload
      /\ tpc' \in {"choose", "confirm_restore"} =>
           tpc' = tpc /\ (known = <<>> \/ UNCHANGED browser)
  BY DEF RefreshDashboard, Reload, BackupFinished, Browsing, TryReload, AppType, Modes
<1>2. /\ known' \in Listings \cup {<<>>} /\ at' \in 1..Len(known') \cup {1}
      /\ files' \subseteq Paths /\ directory' \in Directories /\ selected' \subseteq Paths
      /\ filtered' \in BOOLEAN /\ torn' \in BOOLEAN
      /\ ShowsCurrent'
      /\ ~torn' => \A p \in selected' : Here(p)'
      /\ torn' => known' # <<>>
  BY <1>1, ListReloaded
<1>3. AppType'
  BY <1>1, <1>2 DEF AppType
<1>4. ~torn' /\ tpc' \in {"choose", "confirm_restore"} => \A p \in request.paths : Here(p)'
  <2>1. CASE UNCHANGED browser
    BY <1>1, <2>1 DEF browser, Chosen, Here
  <2>2. CASE known = <<>> /\ tpc' \in {"choose", "confirm_restore"}
    <3>1. ~torn /\ \A p \in request.paths : Here(p)
      BY <1>1, <2>2 DEF Chosen
    <3>2. \A p \in request.paths : p.of \in Snapshots
      BY DEF AppType, Paths
    <3>3. Current(known, at) = NoSnapshot
      BY <2>2 DEF Current
    <3>4. NoSnapshot \notin Snapshots
      BY Listed
    <3>5. request.paths = {}
      BY <3>1, <3>2, <3>3, <3>4 DEF Here
    <3> QED
      BY <3>5
  <2> QED
    BY <1>1, <2>1, <2>2
<1>5. RestoresWhatWasShown'
  <2>1. tpc' = "restoring" /\ ~torn' => tpc = "restoring" /\ (UNCHANGED browser \/ known = <<>>)
    BY <1>1 DEF RefreshDashboard, Reload, BackupFinished, Browsing
  <2> QED
    BY <1>1, <2>1 DEF RestoresWhatWasShown, Chosen, browser
<1> QED
  BY <1>1, <1>2, <1>3, <1>4, <1>5 DEF Chosen

\* Keys that reload the entries, and the start of the program.
LEMMA FileSteps ==
  ASSUME AppInv, UNCHANGED listing,
         Open \/ MoveSelection \/ EnterSnapshot \/ EnterDirectory \/ Leave \/ ClearFilter
  PROVE  AppInv'
<1> USE DEF AppInv
<1>1. /\ view' \in {"dashboard", "browser"} /\ focus' \in {"snapshots", "files"}
      /\ board' \in Boards /\ UNCHANGED request /\ tpc' = "normal"
  BY DEF Open, MoveSelection, EnterSnapshot, EnterDirectory, Leave, ClearFilter, Browsing, AppType
<1>2. /\ known' \in Listings \cup {<<>>} /\ at' \in 1..Len(known') \cup {1}
      /\ directory' \in Directories
  <2>1. CASE Open
    <3>1. Len(known') \in Nat
      BY <2>1, Listed DEF Open, AppType
    <3> QED
      BY <2>1, <3>1 DEF Open, AppType, Directories
  <2>2. CASE MoveSelection
    <3>1. DOMAIN known = 1..Len(known)
      BY Listed DEF AppType
    <3> QED
      BY <2>2, <3>1 DEF MoveSelection, AppType, Directories
  <2>3. CASE EnterSnapshot \/ EnterDirectory \/ Leave \/ ClearFilter
    BY <2>3 DEF EnterSnapshot, EnterDirectory, Leave, ClearFilter, AppType, Directories, browser
  <2> QED
    BY <2>1, <2>2, <2>3
<1>3. \/ UNCHANGED browser
      \/ /\ ReloadFiles(known', at', directory')
         /\ selected' = {} \/ UNCHANGED <<selected, known, at>>
         /\ known' = known \/ selected' = {}
  BY DEF Open, MoveSelection, EnterSnapshot, EnterDirectory, Leave, ClearFilter, browser
<1>4. CASE UNCHANGED browser
  BY <1>1, <1>2, <1>4 DEF browser, AppType, Modes, ShowsCurrent, Chosen, Here, RestoresWhatWasShown
<1>5. CASE ReloadFiles(known', at', directory') /\ (selected' = {} \/ UNCHANGED <<selected, known, at>>)
  <2>1. /\ files' \subseteq Paths /\ filtered' \in BOOLEAN
        /\ \A p \in files' : p.of = Current(known', at') /\ p.name \in Names(directory')
    BY <1>2, <1>5, Reloaded
  <2>2. torn' = (torn /\ selected' # {})
    BY <1>5 DEF ReloadFiles
  <2>3. AppType' /\ ShowsCurrent'
    BY <1>1, <1>2, <1>5, <2>1, <2>2 DEF AppType, Modes, ShowsCurrent
  <2>4. Chosen' /\ RestoresWhatWasShown'
    BY <1>1, <1>5, <2>2 DEF Chosen, Here, RestoresWhatWasShown
  <2> QED
    BY <2>3, <2>4
<1> QED
  BY <1>3, <1>4, <1>5

\* Keys that leave the list alone.
LEMMA KeySteps ==
  ASSUME AppInv, UNCHANGED listing,
         \/ OpenBrowser \/ ShowDashboard \/ SwitchFocus \/ OpenSearch \/ LeaveSearch
         \/ Search \/ Mark
  PROVE  AppInv'
<1> USE DEF AppInv
<1>1. CASE OpenBrowser \/ ShowDashboard \/ SwitchFocus \/ OpenSearch \/ LeaveSearch
  <2>1. UNCHANGED <<browser, board, request>> /\ tpc' \in {"normal", "search"}
        /\ view' \in {"dashboard", "browser"} /\ focus' \in {"snapshots", "files"}
    BY <1>1 DEF OpenBrowser, ShowDashboard, SwitchFocus, OpenSearch, LeaveSearch, Browsing, AppType
  <2> QED
    BY <2>1 DEF browser, AppType, Modes, ShowsCurrent, Chosen, Here, RestoresWhatWasShown
<1>2. CASE Search
  <2>1. /\ at \in DOMAIN known /\ tpc' = "normal"
        /\ files' \subseteq Entries(known[at], directory) /\ filtered' = TRUE
        /\ torn' = (torn /\ selected # {})
        /\ UNCHANGED <<view, focus, known, at, directory, selected, board, request>>
    BY <1>2 DEF Search
  <2>2. \A p \in files' : p \in Paths /\ p.of = Current(known, at) /\ p.name \in Names(directory)
    BY <2>1, EntriesOf DEF AppType, Current
  <2>3. AppType' /\ ShowsCurrent'
    BY <2>1, <2>2 DEF AppType, Modes, ShowsCurrent
  <2>4. Chosen' /\ RestoresWhatWasShown'
    BY <2>1 DEF Chosen, Here, RestoresWhatWasShown
  <2> QED
    BY <2>3, <2>4
<1>3. CASE Mark
  <2>1. PICK p \in files : selected' = IF p \in selected THEN selected \ {p} ELSE selected \cup {p}
    BY <1>3 DEF Mark
  <2>2. UNCHANGED <<tpc, view, focus, known, at, files, directory, filtered, torn, board, request>>
    BY <1>3 DEF Mark
  <2>3. AppType' /\ ShowsCurrent'
    BY <2>1, <2>2 DEF AppType, ShowsCurrent
  <2>4. Chosen' /\ RestoresWhatWasShown'
    BY <2>1, <2>2 DEF Chosen, Here, RestoresWhatWasShown, ShowsCurrent
  <2> QED
    BY <2>3, <2>4
<1> QED
  BY <1>1, <1>2, <1>3

\* Restores and backups.
LEMMA RequestSteps ==
  ASSUME AppInv, UNCHANGED listing,
         \/ AskRestore \/ GiveUp \/ ChooseOriginal \/ StartRestore \/ RestoreFinished
         \/ AskBackup \/ StartBackup
  PROVE  AppInv'
<1> USE DEF AppInv
<1>1. /\ UNCHANGED <<view, focus, known, at, files, directory, filtered, torn, board>>
      /\ tpc' \in Modes /\ selected' \in {selected, {}}
  BY DEF AskRestore, GiveUp, ChooseOriginal, StartRestore, RestoreFinished, AskBackup, StartBackup,
     browser, Modes
<1>2. CASE AskRestore
  <2>1. /\ request' = [NoRequest EXCEPT !.paths = request'.paths] /\ request'.paths \subseteq Paths
        /\ request'.paths \subseteq selected \/ request'.paths \subseteq files
    BY <1>2 DEF AskRestore, NoRequest, AppType
  <2>2. request' \in [snapshot : Snapshots \cup {NoSnapshot}, paths : SUBSET Paths]
    BY <2>1 DEF NoRequest
  <2>3. tpc' = "choose"
    BY <1>2 DEF AskRestore
  <2>4. AppType' /\ ShowsCurrent'
    BY <1>1, <2>2 DEF AppType, ShowsCurrent
  <2>5. Chosen' /\ RestoresWhatWasShown'
    BY <1>1, <2>1, <2>3 DEF Chosen, Here, RestoresWhatWasShown, ShowsCurrent
  <2> QED
    BY <2>4, <2>5
<1>3. CASE GiveUp \/ RestoreFinished
  <2>1. request' = NoRequest /\ tpc' = "normal"
    BY <1>3 DEF GiveUp, RestoreFinished
  <2> QED
    BY <1>1, <2>1 DEF AppType, ShowsCurrent, Chosen, Here, RestoresWhatWasShown, NoRequest
<1>4. CASE ChooseOriginal \/ AskBackup \/ StartBackup
  <2>1. /\ UNCHANGED request /\ tpc' # "restoring"
        /\ tpc' \in {"choose", "confirm_restore"} => tpc \in {"choose", "confirm_restore"}
    BY <1>4 DEF ChooseOriginal, AskBackup, StartBackup
  <2> QED
    BY <1>1, <2>1 DEF AppType, ShowsCurrent, Chosen, Here, RestoresWhatWasShown
<1>5. CASE StartRestore
  <2>1. /\ request' = [request EXCEPT !.snapshot = known[at]] /\ at \in DOMAIN known
        /\ tpc' = "restoring" /\ tpc \in {"choose", "confirm_restore"}
    BY <1>5 DEF StartRestore
  <2>2. known[at] \in Snapshots
    BY <2>1, Listed DEF AppType
  <2>3. /\ request' \in [snapshot : Snapshots \cup {NoSnapshot}, paths : SUBSET Paths]
        /\ request'.snapshot = Current(known, at) /\ request'.paths = request.paths
    BY <2>1, <2>2 DEF AppType, Current
  <2>4. AppType' /\ ShowsCurrent'
    BY <1>1, <2>3 DEF AppType, ShowsCurrent
  <2>5. Chosen' /\ RestoresWhatWasShown'
    BY <1>1, <2>1, <2>3 DEF Chosen, Here, RestoresWhatWasShown
  <2> QED
    BY <2>4, <2>5
<1> QED
  BY <1>2, <1>3, <1>4, <1>5

LEMMA QuitSteps ==
  ASSUME AppInv, \/ Quit /\ UNCHANGED listing
                 \/ ChangeIndex /\ UNCHANGED app
                 \/ UNCHANGED <<listing, app>>
  PROVE  AppInv'
<1> USE DEF AppInv
<1>1. CASE Quit /\ UNCHANGED listing
  BY <1>1 DEF Quit, AppType, Modes, Boards, Directories, NoRequest, ShowsCurrent, Chosen,
     RestoresWhatWasShown
<1>2. CASE listing' \in Listings /\ UNCHANGED app
  BY <1>2 DEF app, browser, AppType, ShowsCurrent, Chosen, Here, RestoresWhatWasShown
<1> QED
  BY <1>1, <1>2 DEF ChangeIndex, AppType

----------------------------------------------------------------------------
(* The watcher                                                             *)

\* One iteration, or its end.
LEMMA WatchSteps ==
  ASSUME WatcherInv, UNCHANGED table, WatcherNext
  PROVE  WatcherInv'
<1> USE DEF WatcherInv, table
<1>1. Len(jobs) \in Nat /\ Len(jobs) <= MaxJobs /\ DOMAIN jobs = 1..Len(jobs)
      /\ (jobs # <<>> => Len(jobs) >= 1)
  BY DEF WatcherType
<1>2. CASE Look
  <2>1. /\ row'.id = Len(jobs) /\ row'.state = jobs[Len(jobs)] /\ row'.id \in 1..Len(jobs)
        /\ row' \in [id : 0..MaxJobs, state : States]
    BY <1>1, <1>2, BoundAssumption DEF Look, WatcherType
  <2>2. /\ UNCHANGED <<last, saved, announced, restarts>> /\ wpc = "look"
        /\ \/ last # 0 /\ row'.id > last /\ row'.state # "running" /\ wpc' = "announce"
           \/ last = 0 /\ wpc' = "save"
    BY <1>2 DEF Look
  <2>3. WatcherType'
    BY <2>1, <2>2 DEF WatcherType
  <2>4. Told' /\ AnnouncedInOrder'
    BY <1>1, <2>1, <2>2 DEF Told, WatcherType, AnnouncedInOrder
  <2> QED
    BY <2>3, <2>4
<1>3. CASE Announce
  <2> DEFINE n == [id |-> row.id, state |-> row.state, life |-> restarts]
  <2>1. /\ announced' = Append(announced, n) /\ wpc = "announce" /\ wpc' = "save"
        /\ UNCHANGED <<last, saved, row, restarts>>
    BY <1>3 DEF Announce
  <2>2. /\ row.id \in 1..Len(jobs) /\ row.id > last
        /\ row.state # "running" /\ row.state = jobs[row.id] /\ row.state \in States
    BY <2>1 DEF Told, WatcherType
  <2>3. n \in Notice /\ n.id = row.id /\ n.state = row.state /\ n.life = restarts
    BY <1>1, <2>2 DEF Notice, WatcherType
  <2> HIDE DEF n
  <2>4. /\ announced' \in Seq(Notice) /\ DOMAIN announced' = 1..Len(announced) + 1
        /\ DOMAIN announced = 1..Len(announced) /\ Len(announced) \in Nat
        /\ \A i \in 1..Len(announced) : announced'[i] = announced[i]
        /\ announced'[Len(announced) + 1] = n
    BY <2>1, <2>3 DEF WatcherType
  <2>5. WatcherType'
    BY <2>1, <2>4 DEF WatcherType
  <2>6. Told'
    BY <1>1, <2>1, <2>2, <2>3, <2>4 DEF Told, WatcherType
  <2>7. \A i \in DOMAIN announced : announced[i].life = restarts => announced[i].id <= last
    BY <2>1 DEF Told
  <2>8. \A i \in DOMAIN announced : announced[i].id \in Nat
    BY <1>1 DEF Told
  <2>9. AnnouncedInOrder'
    <3> SUFFICES ASSUME NEW i \in DOMAIN announced', NEW k \in DOMAIN announced'
                 PROVE  /\ /\ announced'[i].state = jobs[announced'[i].id]
                           /\ announced'[i].state # "running"
                        /\ i < k /\ announced'[i].life = announced'[k].life =>
                             announced'[i].id < announced'[k].id
      BY DEF AnnouncedInOrder
    <3>1. CASE i = Len(announced) + 1
      BY <3>1, <2>2, <2>3, <2>4
    <3>2. CASE i \in DOMAIN announced /\ k \in DOMAIN announced
      BY <3>2, <2>4 DEF AnnouncedInOrder
    <3>3. CASE i \in DOMAIN announced /\ k = Len(announced) + 1
      <4>1. announced'[i] = announced[i] /\ announced'[k] = n
        BY <3>3, <2>4
      <4>2. /\ announced[i].state = jobs[announced[i].id]
            /\ announced[i].state # "running"
        BY <3>3 DEF AnnouncedInOrder
      <4>3. announced[i].life = restarts => announced[i].id < row.id
        BY <3>3, <2>2, <2>7, <2>8 DEF WatcherType
      <4> QED
        BY <4>1, <4>2, <4>3, <2>3
    <3> QED
      BY <3>1, <3>2, <3>3, <2>4
  <2> QED
    BY <2>5, <2>6, <2>9
<1>4. CASE Save
  <2>1. /\ saved' = row.id /\ last' = row.id /\ wpc = "save" /\ wpc' = "look"
        /\ UNCHANGED <<row, announced, restarts>>
    BY <1>4 DEF Save
  <2>2. row.id \in 1..Len(jobs) /\ row.id >= last /\ row.id \in 0..MaxJobs
    BY <2>1 DEF Told, WatcherType
  <2>3. WatcherType' /\ AnnouncedInOrder'
    BY <2>1, <2>2 DEF WatcherType, AnnouncedInOrder
  <2>4. Told'
    BY <1>1, <2>1, <2>2 DEF Told, WatcherType
  <2> QED
    BY <2>3, <2>4
<1>5. CASE Die
  BY <1>5 DEF Die, WatcherType, Told, AnnouncedInOrder
<1>6. CASE Restart
  <2>1. /\ wpc' = "look" /\ saved' \in {saved, 0} /\ last' = saved'
        /\ restarts' = restarts + 1 /\ UNCHANGED <<row, announced>> /\ wpc = "dead"
    BY <1>6 DEF Restart
  <2>2. restarts < MaxRestarts /\ restarts \in Nat /\ restarts' \in 0..MaxRestarts
    BY <2>1, BoundAssumption DEF Told, WatcherType
  <2>3. WatcherType' /\ AnnouncedInOrder'
    BY <2>1, <2>2, BoundAssumption DEF WatcherType, AnnouncedInOrder
  <2>4. \A i \in DOMAIN announced :
          announced[i].life \in Nat /\ announced[i].life < restarts'
    <3> SUFFICES ASSUME NEW i \in DOMAIN announced
                 PROVE  announced[i].life \in Nat /\ announced[i].life < restarts'
      OBVIOUS
    <3>1. announced[i] \in Notice
      BY DEF WatcherType
    <3>2. announced[i].life \in Nat
      BY <3>1, BoundAssumption DEF Notice
    <3>3. announced[i].life <= restarts
      BY DEF Told
    <3> QED
      BY <2>1, <2>2, <3>2, <3>3
  <2>5. Told'
    BY <2>1, <2>2, <2>4 DEF Told
  <2> QED
    BY <2>3, <2>5
<1> QED
  BY <1>2, <1>3, <1>4, <1>5, <1>6 DEF WatcherNext

\* A backup starts, ends or is killed: no row that was announced changes, for
\* only the last one can be running.
LEMMA JobSteps ==
  ASSUME WatcherInv, UNCHANGED watcher, BeginBackup \/ EndBackup \/ BackupDies
  PROVE  WatcherInv'
<1> USE DEF WatcherInv, watcher
<1>1. /\ Len(jobs) \in Nat /\ Len(jobs) <= MaxJobs /\ DOMAIN jobs = 1..Len(jobs)
      /\ jobs # <<>> => Len(jobs) >= 1
  BY DEF WatcherType
<1>2. \A i \in DOMAIN announced : announced[i].id \in 1..Len(jobs)
  BY DEF Told
<1>3. CASE BeginBackup
  <2>1. jobs' = Append(jobs, "running") /\ active' /\ Len(jobs) < MaxJobs
    BY <1>3 DEF BeginBackup
  <2>2. /\ jobs' \in Seq(States) /\ Len(jobs') = Len(jobs) + 1 /\ jobs' # <<>>
        /\ \A j \in 1..Len(jobs) : jobs'[j] = jobs[j]
        /\ jobs'[Len(jobs')] = "running"
    BY <2>1, <1>1 DEF WatcherType, States
  <2>3. WatcherType'
    BY <2>1, <2>2, <1>1, <1>3, BoundAssumption DEF WatcherType, BeginBackup
  <2>4. AnnouncedInOrder'
    BY <2>2, <1>2 DEF AnnouncedInOrder
  <2>5. 1..Len(jobs) \subseteq 1..Len(jobs')
    BY <2>2, <1>1
  <2>6. Told'
    BY <2>1, <2>2, <2>5 DEF Told
  <2> QED
    BY <2>3, <2>4, <2>6
<1>4. CASE EndBackup
  <2>1. PICK s \in {"succeeded", "failed"} : jobs' = [jobs EXCEPT ![Len(jobs)] = s]
    BY <1>4 DEF EndBackup
  <2>2. active /\ ~active' /\ jobs # <<>> /\ jobs[Len(jobs)] = "running"
    BY <1>4 DEF EndBackup, Told
  <2>3. /\ jobs' \in Seq(States) /\ Len(jobs') = Len(jobs)
        /\ \A j \in 1..Len(jobs) : jobs[j] # "running" => jobs'[j] = jobs[j]
    <3>1. jobs \in Seq(States) /\ s \in States /\ Len(jobs) \in 1..Len(jobs)
      BY <2>2, <1>1 DEF WatcherType, States
    <3>2. jobs' \in Seq(States) /\ Len(jobs') = Len(jobs)
      BY <3>1, <2>1
    <3>3. \A j \in 1..Len(jobs) : j # Len(jobs) => jobs'[j] = jobs[j]
      BY <3>1, <2>1
    <3> QED
      BY <3>2, <3>3, <2>2
  <2>4. WatcherType'
    BY <2>2, <2>3, <1>4 DEF WatcherType, EndBackup
  <2>5. AnnouncedInOrder'
    BY <2>3, <1>2 DEF AnnouncedInOrder
  <2>6. Told'
    BY <2>2, <2>3 DEF Told
  <2> QED
    BY <2>4, <2>5, <2>6
<1>5. CASE BackupDies
  BY <1>5 DEF BackupDies, WatcherType, Told, AnnouncedInOrder
<1> QED
  BY <1>3, <1>4, <1>5
----------------------------------------------------------------------------
(* The specification                                                       *)

LEMMA InitInv == Init => IInv
<1> SUFFICES ASSUME Init PROVE IInv
  OBVIOUS
<1> USE DEF Init
<1>1. AppInv
  BY DEF AppInv, AppType, ShowsCurrent, Chosen, RestoresWhatWasShown, Boards, Directories, NoRequest
<1>2. jobs \in Seq(States) /\ Len(jobs) = 0 /\ announced \in Seq(Notice) /\ DOMAIN announced = {}
  <2>1. jobs = <<>> /\ announced = <<>>
    OBVIOUS
  <2> QED
    BY ONLY <2>1
<1>3. WatcherType
  <2>1. /\ active = FALSE /\ wpc = "look" /\ last = 0 /\ saved = 0 /\ restarts = 0
        /\ row = [id |-> 0, state |-> "running"]
    OBVIOUS
  <2>2. row \in [id : 0..MaxJobs, state : States]
    BY ONLY <2>1, BoundAssumption DEF States
  <2>3. Len(jobs) <= MaxJobs /\ last \in 0..MaxJobs /\ saved \in 0..MaxJobs /\ restarts \in 0..MaxRestarts
    BY ONLY <1>2, <2>1, BoundAssumption
  <2> QED
    BY ONLY <1>2, <2>1, <2>2, <2>3 DEF WatcherType
<1>4. Told /\ AnnouncedInOrder
  BY <1>2 DEF Told, AnnouncedInOrder
<1> QED
  BY <1>1, <1>3, <1>4 DEF IInv, WatcherInv

LEMMA NextInv == IInv /\ [Next]_vars => IInv'
<1> SUFFICES ASSUME IInv, [Next]_vars PROVE IInv'
  OBVIOUS
<1> USE DEF IInv
<1>1. UNCHANGED <<table, watcher>> => WatcherInv'
  BY DEF table, watcher, WatcherInv, WatcherType, Told, AnnouncedInOrder
<1>2. CASE program = "tui" /\ Next
  <2>1. UNCHANGED <<program, table, watcher>>
    BY <1>2 DEF Next
  <2>2. \/ TuiNext /\ UNCHANGED listing
        \/ ChangeIndex /\ UNCHANGED app
    BY <1>2 DEF Next
  <2>3. AppInv'
    BY <2>2, ListSteps, FileSteps, KeySteps, RequestSteps, QuitSteps DEF TuiNext
  <2> QED
    BY <2>1, <2>3, <1>1
<1>3. CASE program = "watcher" /\ Next
  <2>1. UNCHANGED <<program, listing, app>>
    BY <1>3 DEF Next
  <2>2. \/ WatcherNext /\ UNCHANGED table
        \/ (BeginBackup \/ EndBackup \/ BackupDies) /\ UNCHANGED watcher
    BY <1>3 DEF Next
  <2>3. WatcherInv'
    BY <2>2, WatchSteps, JobSteps
  <2> QED
    BY <2>1, <2>3, QuitSteps
<1>4. CASE UNCHANGED vars
  <2>1. UNCHANGED <<program, listing, app, table, watcher>>
    BY <1>4 DEF vars
  <2> QED
    BY <2>1, <1>1, QuitSteps
<1> QED
  BY <1>2, <1>3, <1>4 DEF Next

\* The inductive invariant holds of the whole program.
THEOREM Invariance == Spec => []IInv
<1> QED
  BY InitInv, NextInv, PTL DEF Spec

\* Both programs keep their state in its types.
THEOREM TypeTheorem == Spec => []TypeOK
<1>1. IInv => TypeOK
  BY DEF IInv, AppInv, WatcherInv, TypeOK
<1> QED
  BY <1>1, Invariance, PTL

\* A restore is asked for the snapshot whose entries were on display.
THEOREM ShownTheorem == Spec => []RestoresWhatWasShown
<1>1. IInv => RestoresWhatWasShown
  BY DEF IInv, AppInv
<1> QED
  BY <1>1, Invariance, PTL

\* The entries on display are those of the snapshot under the cursor.
THEOREM CurrentTheorem == Spec => []ShowsCurrent
<1>1. IInv => ShowsCurrent
  BY DEF IInv, AppInv
<1> QED
  BY <1>1, Invariance, PTL

\* A life of the watcher announces backups in order and none twice.
THEOREM OrderTheorem == Spec => []AnnouncedInOrder
<1>1. IInv => AnnouncedInOrder
  BY DEF IInv, WatcherInv
<1> QED
  BY <1>1, Invariance, PTL
=============================================================================
