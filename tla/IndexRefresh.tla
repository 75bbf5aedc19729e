---------------------------- MODULE IndexRefresh ----------------------------
(***************************************************************************)
(* The browsing index of Boxup: Index::refresh with its two transactions,  *)
(* mark_refresh_started before the listing and the rewriting of the rows   *)
(* after it, against a repository that other hosts change meanwhile, that  *)
(* may be another repository at the same location, and against the death   *)
(* of the refresh at every step; and the commands that first ask whether   *)
(* the index is usable and then read it.                                   *)
(*                                                                         *)
(* A run of Borg is one step and shows one instant of the repository.      *)
(* An archive is its Borg id, a number never used again; its file list is  *)
(* represented by the id of the archive that was listed.  The lock is that *)
(* of module Jobs: a refresh holds it exclusively, a command shared.       *)
(***************************************************************************)
EXTENDS Integers

CONSTANTS
  Repos,         \* repositories that may stand at repository.location
  Names,         \* names of archives
  NoRepo,        \* the repository_id of a new index
  MaxAge,        \* INDEX_MAX_AGE
  Steps,         \* what the wall clock may move by
  MaxId,         \* bound: archives ever created
  MaxSwaps,      \* bound: changes of the repository at the location
  MaxGeneration, \* bound: completed refreshes of one repository
  MaxTime,       \* bound: the clock
  MaxFails       \* bound: failures and deaths without a reason in this state

ASSUME ReposAssumption == NoRepo \notin Repos /\ Repos # {}
ASSUME ClockAssumption == Steps \subseteq Int /\ MaxAge \in Nat
ASSUME BoundAssumption == {MaxId, MaxSwaps, MaxGeneration, MaxTime, MaxFails} \subseteq Nat

Ids   == 1..MaxId
NoId  == 0
NoRow == [id |-> NoId, files |-> NoId]

VARIABLES
  at,        \* the repository at the location
  live,      \* its archives and those of the others: repository, name -> id
  made,      \* history: the repository each id was created in
  used,      \* how many ids are used
  swaps,     \* counter for the bound
  fails,     \* counter for the bound
  meta,      \* the row of index_meta
  rows,      \* tables archives and files: name -> id, and whose files they are
  pc,        \* where the refresh is
  identity,  \* the identity it read first
  generation,\* the generation it goes on from
  listing,   \* the live list it read
  work,      \* its uncommitted rows
  todo,      \* names it has still to insert
  disturbed, \* history: what happened to the repository since it read the identity
  exact,     \* history: the archives at the last commit, if nothing had happened
  reader,    \* where a browsing command is
  now        \* the wall clock

world  == <<at, live, made, used, swaps>>
index  == <<meta, rows>>
locals == <<identity, generation, listing, work, todo>>
vars   == <<world, index, pc, locals, disturbed, exact, reader, now, fails>>

Listing    == [Names -> 0..MaxId]
Rows       == [Names -> [id : 0..MaxId, files : 0..MaxId]]
Empty      == [n \in Names |-> NoRow]
Unknown    == [known |-> FALSE, archives |-> [n \in Names |-> NoId]]
Labels     == {"idle", "identify", "mark", "list", "begin", "insert", "confirm", "commit"}

WorldType ==
  /\ at \in Repos
  /\ live \in [Repos -> Listing]
  /\ made \in [Ids -> Repos \cup {NoRepo}]
  /\ used \in 0..MaxId
  /\ swaps \in 0..MaxSwaps
  /\ now \in 0..MaxTime
  /\ fails \in 0..MaxFails

IndexType ==
  /\ meta \in [repo : Repos \cup {NoRepo}, generation : 0..MaxGeneration,
               refreshed : -1..MaxTime, complete : BOOLEAN]
  /\ meta.complete => meta.repo # NoRepo /\ meta.generation > 0 /\ meta.refreshed >= 0
  /\ rows \in Rows

RefreshType ==
  /\ pc \in Labels
  /\ identity \in Repos \cup {NoRepo}
  /\ generation \in 0..MaxGeneration
  /\ listing \in Listing
  /\ work \in Rows
  /\ todo \subseteq Names
  /\ disturbed \in {"no", "changed", "swapped"}
  /\ exact \in [known : BOOLEAN, archives : Listing]
  /\ reader \in {"idle", "reading"}

\* Types; and a row of index_meta that says complete has all that
\* IndexStatus::is_complete asks of it.
TypeOK == WorldType /\ IndexType /\ RefreshType

Init ==
  /\ at \in Repos
  /\ live = [r \in Repos |-> [n \in Names |-> NoId]]
  /\ made = [i \in Ids |-> NoRepo]
  /\ used = 0
  /\ swaps = 0
  /\ meta = [repo |-> NoRepo, generation |-> 0, refreshed |-> -1, complete |-> FALSE]
  /\ rows = Empty
  /\ pc = "idle"
  /\ identity = NoRepo
  /\ generation = 0
  /\ listing = [n \in Names |-> NoId]
  /\ work = Empty
  /\ todo = {}
  /\ disturbed = "no"
  /\ exact = Unknown
  /\ reader = "idle"
  /\ now = 0
  /\ fails = 0

----------------------------------------------------------------------------
(* The refresh                                                             *)

\* The process has returned or died: SQLite rolls an open transaction back.
Leave ==
  /\ pc' = "idle"
  /\ identity' = NoRepo
  /\ generation' = 0
  /\ listing' = [n \in Names |-> NoId]
  /\ work' = Empty
  /\ todo' = {}

\* The refresh has the lock, which no command may hold.
Start ==
  /\ pc = "idle"
  /\ reader = "idle"
  /\ meta.generation < MaxGeneration
  /\ pc' = "identify"
  /\ disturbed' = "no"
  /\ UNCHANGED <<world, index, locals, exact, reader, now, fails>>

Identify ==
  /\ pc = "identify"
  /\ identity' = at
  /\ pc' = "mark"
  /\ UNCHANGED <<world, index, generation, listing, work, todo, disturbed, exact, reader,
                 now, fails>>

\* Mutant: the index stays complete while it is rewritten.
MarkQuietly ==
  /\ pc = "mark"
  /\ LET same == meta.repo = identity
     IN /\ generation' = IF same THEN meta.generation ELSE 0
        /\ meta' = [meta EXCEPT !.repo = identity, !.generation = generation',
                                !.refreshed = IF same THEN @ ELSE -1]
        /\ rows' = IF same THEN rows ELSE Empty
  /\ pc' = "list"
  /\ UNCHANGED <<world, identity, listing, work, todo, disturbed, exact, reader, now, fails>>

\* mark_refresh_started, a transaction of its own.
Mark ==
  /\ pc = "mark"
  /\ LET same == meta.repo = identity
     IN /\ generation' = IF same THEN meta.generation ELSE 0
        /\ meta' = [repo |-> identity, generation |-> generation',
                    refreshed |-> IF same THEN meta.refreshed ELSE -1, complete |-> FALSE]
        /\ rows' = IF same THEN rows ELSE Empty
  /\ pc' = "list"
  /\ UNCHANGED <<world, identity, listing, work, todo, disturbed, exact, reader, now, fails>>

List ==
  /\ pc = "list"
  /\ listing' = live[at]
  /\ pc' = "begin"
  /\ UNCHANGED <<world, index, identity, generation, work, todo, disturbed, exact, reader,
                 now, fails>>

\* Mutant: an archive that came back under its old name is taken for indexed.
BeginByName ==
  /\ pc = "begin"
  /\ work' = [n \in Names |-> IF listing[n] # NoId THEN rows[n] ELSE NoRow]
  /\ todo' = {n \in Names : listing[n] # NoId /\ rows[n] = NoRow}
  /\ pc' = "insert"
  /\ UNCHANGED <<world, index, identity, generation, listing, disturbed, exact, reader,
                 now, fails>>

\* Mutant: a replaced archive is inserted beside its old row.
BeginWithoutDelete ==
  /\ pc = "begin"
  /\ work' = [n \in Names |-> IF listing[n] # NoId THEN rows[n] ELSE NoRow]
  /\ todo' = {n \in Names : listing[n] # NoId /\ rows[n].id # listing[n]}
  /\ pc' = "insert"
  /\ UNCHANGED <<world, index, identity, generation, listing, disturbed, exact, reader,
                 now, fails>>

\* The second transaction: rows of archives that are gone, or that came back
\* with another id, are deleted; what is listed and not indexed is to do.
Begin ==
  /\ pc = "begin"
  /\ work' = [n \in Names |-> IF rows[n].id = listing[n] THEN rows[n] ELSE NoRow]
  /\ todo' = {n \in Names : listing[n] # NoId /\ rows[n].id # listing[n]}
  /\ pc' = "insert"
  /\ UNCHANGED <<world, index, identity, generation, listing, disturbed, exact, reader,
                 now, fails>>

\* The next archive to insert: the list is oldest first.
Turn(n) == n \in todo /\ \A m \in todo : listing[n] <= listing[m]

\* Names are unique, and an archive that is gone cannot be listed.
Insertable(n) == work[n] = NoRow /\ live[at][n] # NoId

\* insert_archive, and the files of whatever has that name now.
Insert(n) ==
  /\ pc = "insert"
  /\ Turn(n)
  /\ Insertable(n)
  /\ work' = [work EXCEPT ![n] = [id |-> listing[n], files |-> live[at][n]]]
  /\ todo' = todo \ {n}
  /\ UNCHANGED <<world, index, pc, identity, generation, listing, disturbed, exact, reader, now,
                 fails>>

\* Mutant: the identity is not read again.
ConfirmBlindly ==
  /\ pc = "insert"
  /\ todo = {}
  /\ pc' = "commit"
  /\ UNCHANGED <<world, index, locals, disturbed, exact, reader, now, fails>>

\* The identity is read again.
Confirm ==
  /\ pc = "insert"
  /\ todo = {}
  /\ at = identity
  /\ pc' = "commit"
  /\ UNCHANGED <<world, index, locals, disturbed, exact, reader, now, fails>>

\* Mutant: the time of the refresh is left as it was.
CommitUnstamped ==
  /\ pc = "commit"
  /\ meta' = [meta EXCEPT !.generation = generation + 1, !.complete = TRUE]
  /\ rows' = work
  /\ exact' = IF disturbed = "no" THEN [known |-> TRUE, archives |-> live[identity]]
                                  ELSE Unknown
  /\ Leave
  /\ UNCHANGED <<world, disturbed, reader, now, fails>>

\* The row of index_meta and the commit of the second transaction.
Commit ==
  /\ pc = "commit"
  /\ meta' = [repo |-> identity, generation |-> generation + 1, refreshed |-> now,
              complete |-> TRUE]
  /\ rows' = work
  /\ exact' = IF disturbed = "no" THEN [known |-> TRUE, archives |-> live[identity]]
                                  ELSE Unknown
  /\ Leave
  /\ UNCHANGED <<world, disturbed, reader, now, fails>>

\* The refresh returns an error: it cannot insert an archive, or the identity
\* is another one.
Refuse ==
  /\ pc = "insert"
  /\ \/ \E n \in Names : Turn(n) /\ ~Insertable(n)
     \/ todo = {} /\ at # identity
  /\ Leave
  /\ UNCHANGED <<world, index, disturbed, exact, reader, now, fails>>

\* An error of Borg, a timeout or the death of the process, at any step.
Fail ==
  /\ pc # "idle"
  /\ fails < MaxFails
  /\ fails' = fails + 1
  /\ Leave
  /\ UNCHANGED <<world, index, disturbed, exact, reader, now>>

----------------------------------------------------------------------------
(* Browsing                                                                *)

\* IndexStatus::is_complete and is_fresh
Usable == /\ meta.complete
          /\ meta.generation > 0
          /\ now - meta.refreshed \in 0..MaxAge

\* Mutant: a browsing command takes no lock.
LookUnlocked ==
  /\ reader = "idle"
  /\ Usable
  /\ reader' = "reading"
  /\ UNCHANGED <<world, index, pc, locals, disturbed, exact, now, fails>>

\* A command has the shared lock and has found the index usable.
Look ==
  /\ pc = "idle"
  /\ reader = "idle"
  /\ Usable
  /\ reader' = "reading"
  /\ UNCHANGED <<world, index, pc, locals, disturbed, exact, now, fails>>

\* It reads rows in a connection of its own.
Read ==
  /\ reader = "reading"
  /\ reader' = "idle"
  /\ UNCHANGED <<world, index, pc, locals, disturbed, exact, now, fails>>

----------------------------------------------------------------------------
(* Other hosts, the administrator, the clock                               *)

Disturb(what) ==
  disturbed' = IF disturbed = "swapped" THEN disturbed ELSE what

Create(r, n) ==
  /\ used < MaxId
  /\ live[r][n] = NoId
  /\ used' = used + 1
  /\ live' = [live EXCEPT ![r][n] = used + 1]
  /\ made' = [made EXCEPT ![used + 1] = r]
  /\ Disturb("changed")
  /\ UNCHANGED <<at, swaps, index, pc, locals, exact, reader, now, fails>>

Delete(r, n) ==
  /\ live[r][n] # NoId
  /\ live' = [live EXCEPT ![r][n] = NoId]
  /\ Disturb("changed")
  /\ UNCHANGED <<at, made, used, swaps, index, pc, locals, exact, reader, now, fails>>

\* Another repository at the location; not twice under one refresh.
Swap(r) ==
  /\ swaps < MaxSwaps
  /\ r # at
  /\ pc # "idle" => disturbed # "swapped"
  /\ at' = r
  /\ swaps' = swaps + 1
  /\ Disturb("swapped")
  /\ UNCHANGED <<live, made, used, index, pc, locals, exact, reader, now, fails>>

Tick(d) ==
  /\ now + d \in 0..MaxTime
  /\ now' = now + d
  /\ UNCHANGED <<world, index, pc, locals, disturbed, exact, reader, fails>>

Refresh == \/ Start \/ Identify \/ Mark \/ List \/ Begin \/ Confirm \/ Commit \/ Refuse
           \/ \E n \in Names : Insert(n)

Next == \/ Refresh \/ Fail \/ Look \/ Read
        \/ \E r \in Repos : Swap(r) \/ \E n \in Names : Create(r, n) \/ Delete(r, n)
        \/ \E d \in Steps : Tick(d)

Spec == Init /\ [][Next]_vars

\* The timer starts the next refresh when one has ended, every call of Borg
\* returns or runs into its timeout, and a command that reads comes to its end.
Fairness == WF_vars(Refresh) /\ WF_vars(Read)

FairSpec == Spec /\ Fairness

----------------------------------------------------------------------------
(* Properties                                                              *)

\* An index that calls itself complete, after a refresh that nobody disturbed,
\* shows exactly the archives of the repository at its commit, each with its
\* own files, whatever earlier refreshes saw, kept or lost half way.
ExactIfUndisturbed ==
  meta.complete /\ exact.known =>
    \A n \in Names : rows[n] = [id |-> exact.archives[n], files |-> exact.archives[n]]

\* The archives in a complete index all come from the repository whose
\* identity it bears (the second reading of the identity, and the deletion in
\* mark_refresh_started).
RowsOfItsRepository ==
  meta.complete => \A n \in Names : rows[n].id # NoId => made[rows[n].id] = meta.repo

\* A browsing command that found the index usable reads it while it still is
\* complete: a refresh that begins or dies meanwhile cannot empty it.
ReadsComplete == reader = "reading" => meta.complete

\* However often a refresh fails or dies, and whatever it leaves behind, the
\* index becomes complete again.
CompleteAgain ==
  meta.generation < MaxGeneration ~> meta.complete \/ meta.generation = MaxGeneration

----------------------------------------------------------------------------
(* The inductive invariant                                                 *)

\* Archive i was created in repository r.
Of(i, r) == i # NoId => r # NoRepo /\ made[i] = r

\* A row whose files are those of another archive is of an archive that is gone.
GoneIfMixed(row, n, r) ==
  /\ row.id = NoId => row.files = NoId
  /\ row.id # NoId /\ row.files # row.id => live[r][n] # row.id

Fresh   == \A i \in Ids : i > used => made[i] = NoRepo
Here    == \A r \in Repos, n \in Names : Of(live[r][n], r)
Indexed == /\ \A n \in Names : Of(rows[n].id, meta.repo)
           /\ \A r \in Repos, n \in Names : meta.repo = r => GoneIfMixed(rows[n], n, r)
           /\ \A n \in Names : meta.repo = NoRepo => rows[n] = NoRow

\* Where the refresh is, what it knows.
Marked  == pc \in {"list", "begin", "insert", "commit"}
             => meta.repo = identity /\ meta.generation = generation /\ ~meta.complete
Known   == pc \notin {"idle", "identify"} => identity \in Repos
Moved   == pc \notin {"idle", "identify", "commit"} /\ at # identity => disturbed = "swapped"
Listed  == (pc \in {"begin", "insert"} /\ at = identity) \/ pc = "commit"
             => \A n \in Names : Of(listing[n], identity)
Current == pc \in {"begin", "insert", "commit"} /\ disturbed = "no"
             => listing = live[identity]
Working == (pc = "insert" /\ at = identity) \/ pc = "commit"
             => \A n \in Names : /\ Of(work[n].id, identity)
                                  /\ GoneIfMixed(work[n], n, identity)
Done    == /\ pc \in {"insert", "commit"} =>
                \A n \in Names : IF n \in todo THEN listing[n] # NoId
                                             ELSE work[n].id = listing[n]
           /\ pc = "commit" => todo = {}
Bounded == /\ pc \in {"identify", "mark"} => meta.generation < MaxGeneration
           /\ pc \in {"list", "begin", "insert", "commit"} => generation < MaxGeneration
Locked  == reader = "reading" => pc = "idle" /\ meta.complete

IInv == /\ TypeOK
        /\ Fresh /\ Here /\ Indexed /\ Marked /\ Known /\ Moved /\ Listed /\ Current
        /\ Working /\ Done /\ Bounded /\ Locked /\ ExactIfUndisturbed
=============================================================================
