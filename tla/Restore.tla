------------------------------ MODULE Restore ------------------------------
(***************************************************************************)
(* A restore of Boxup: restore into a new directory, restore_overwrite_root*)
(* and restore_original_root.  Each plans from one listing of the live     *)
(* archive, extracts it by name into staging, compares the two, and then   *)
(* publishes by renames, while the archive may be deleted and another made *)
(* under its name, other processes change the same directories, and the    *)
(* restore may fail or die at every step.                                  *)
(*                                                                         *)
(* A path is the sequence of its names, and a directory tree a function    *)
(* from paths to nodes: what stands there and which archive it is from.    *)
(* Sizes and link targets are part of the kind of a node.  One run of Borg *)
(* is one step.  The shared lock a restore holds is in module Jobs.        *)
(***************************************************************************)
EXTENDS Integers, Sequences, FiniteSets

CONSTANTS
  Paths,      \* the paths below /, as sequences of names
  Denied,     \* what ensure_not_denied protects
  StateDir,   \* backup.state_dir, one of them
  Inventory,  \* the directory inventory in it
  Trees,      \* what an archive may hold: path -> kind
  Disks,      \* what may stand below / before: path -> kind
  Modes,      \* restores that are asked for
  MaxFiles,   \* restore.max_files
  MaxId,      \* bound: archives ever created
  MaxWrites   \* bound: changes by other processes

Kinds == {"absent", "dir", "file", "link", "special"}

ASSUME PathAssumption ==
  /\ IsFiniteSet(Paths)
  /\ Paths \subseteq Seq(STRING) \ {<<>>}
  /\ \A p \in Paths : \A n \in 1..Len(p) : SubSeq(p, 1, n) \in Paths
  /\ Denied \subseteq Paths
ASSUME TreeAssumption == Trees \subseteq [Paths -> Kinds] /\ Disks \subseteq [Paths -> Kinds \ {"special"}]
ASSUME ModeAssumption == Modes \subseteq {"safe", "helper", "overwrite", "original"}
ASSUME BoundAssumption == MaxFiles \in Nat /\ MaxId \in Nat /\ MaxWrites \in Nat

Ids   == 1..MaxId
NoId  == 0
Here  == 0     \* a node no archive wrote
Made  == -1    \* a directory Borg made for what it extracts below
Nodes == [kind : Kinds, from : -1..MaxId]
None  == [kind |-> "absent", from |-> Here]
Empty == [p \in Paths |-> None]

VARIABLES
  disk,      \* what stands below /
  dest,      \* the destination of a safe restore
  content,   \* and what it holds once published
  live,      \* the archive under the chosen name, as its Borg id
  used,      \* how many ids are used
  tree,      \* what each of them holds
  pc,        \* where the restore is
  mode,      \* which restore it is
  sel,       \* its normalised paths
  plan,      \* its RestorePlan: the archive id and the manifest
  staging,   \* its temporary directory
  roots,     \* publication_paths
  done,      \* those of them that are published
  at,        \* the directory merge_into_directory is in
  seen,      \* history: what stood below / when the restore was placed
  touched,   \* history: paths others have changed, since they were published
  writes     \* counter for the bound: changes by others

archive == <<live, used, tree>>
target  == <<dest, content>>
request == <<mode, sel>>
history == <<seen, touched, writes>>
vars == <<disk, target, archive, pc, request, plan, staging, roots, done, at, history>>

----------------------------------------------------------------------------
(* Paths and trees                                                         *)

\* archive_path_matches: p is s, or below it.
Matches(p, s) == Len(s) <= Len(p) /\ SubSeq(p, 1, Len(s)) = s
Above(p)      == {q \in Paths : q # p /\ Matches(p, q)}
In(p, d)      == p = Append(d, p[Len(p)])
Exists(t, p)  == t[p].kind # "absent"
Bare(t, p)    == \A q \in Paths : p \in Above(q) => ~Exists(t, q)
\* Nothing stands below what is no directory.  An archive need not hold the
\* directories above its entries.
ASSUME ShapeAssumption ==
  /\ \A d \in Disks, p \in Paths : d[p] # "absent" => \A q \in Above(p) : d[q] = "dir"
  /\ \A t \in Trees, p \in Paths :
       t[p] # "absent" => \A q \in Above(p) : t[q] \in {"absent", "dir"}

Reachable(p)  == \A q \in Above(p) : disk[q].kind = "dir"

Selected(p) == \E s \in sel : Matches(p, s)
Ancestor(p) == \E s \in sel : p \in Above(s)

\* ensure_not_denied: a selection neither holds nor lies in what is
\* protected; the archived inventory may be copied elsewhere.
NotDenied(p, allow_inventory) ==
  \A d \in Denied :
    \/ ~Matches(p, d) /\ ~Matches(d, p)
    \/ allow_inventory /\ d = StateDir /\ Matches(p, Inventory)

\* Mutant: nested selections are both published.
MinimalOfAll(S) == S

\* minimal_restore_paths.
Minimal(S) == {p \in S : \A q \in S : Matches(p, q) => q = p}

\* What the rename of p takes from the tree s to the tree t.
Moved(s, t, p) == [q \in Paths |-> IF Matches(q, p) THEN s[q] ELSE t[q]]

\* What Borg extracts of a tree: the patterns of the selected paths and
\* nothing else, so that directories above them are made without metadata.
Extracted(id) ==
  [p \in Paths |->
    IF Selected(p) /\ tree[id][p] # "absent" THEN [kind |-> tree[id][p], from |-> id]
    ELSE IF \E q \in Paths : p \in Above(q) /\ Selected(q) /\ tree[id][q] # "absent"
         THEN [kind |-> "dir", from |-> Made]
    ELSE None]

Manifest(t) ==
  [p \in Paths |-> IF Selected(p) THEN t[p] ELSE IF Ancestor(p) THEN "dir" ELSE "absent"]

----------------------------------------------------------------------------
(* The state                                                               *)

Working == {"list", "plan", "confirm", "place", "check", "extract", "verify", "recheck",
            "publish", "rename"}
Ended   == {"done", "failed", "refused"}
NoPlan  == [id |-> NoId, manifest |-> [p \in Paths |-> "absent"]]

\* Types; and the directory a merge is in is staged until the merge is out
\* of it.
TypeOK ==
  /\ disk \in [Paths -> Nodes]
  /\ dest \in {"absent", "empty", "occupied", "unsafe", "restored"}
  /\ content \in [Paths -> Nodes]
  /\ live \in 0..MaxId /\ used \in 0..MaxId /\ live <= used
  /\ tree \in [Ids -> [Paths -> Kinds]]
  /\ pc \in {"idle"} \cup Working \cup Ended
  /\ mode \in {"safe", "helper", "overwrite", "original"}
  /\ sel \subseteq Paths
  /\ plan \in [id : 0..MaxId, manifest : [Paths -> Kinds]]
  /\ staging \in [Paths -> Nodes]
  /\ roots \subseteq Paths
  /\ done \subseteq roots
  /\ at \in Paths \cup {<<>>}
  /\ pc = "publish" /\ at # <<>> => Exists(staging, at)
  /\ seen \in [Paths -> Nodes]
  /\ touched \subseteq Paths
  /\ writes \in 0..MaxWrites

\* A safe restore touches nothing but its destination, the others have none.
Init ==
  /\ mode \in Modes
  /\ IF mode \in {"safe", "helper"}
     THEN disk = Empty /\ dest \in {"absent", "empty", "occupied", "unsafe"}
     ELSE /\ \E d \in Disks : disk = [p \in Paths |-> [kind |-> d[p], from |-> Here]]
          /\ dest = "absent"
  /\ content = Empty
  /\ live = NoId /\ used = 0
  /\ tree = [i \in Ids |-> [p \in Paths |-> "absent"]]
  /\ pc = "idle"
  /\ sel = {}
  /\ plan = NoPlan
  /\ staging = Empty
  /\ roots = {} /\ done = {}
  /\ at = <<>>
  /\ seen = disk
  /\ touched = {}
  /\ writes = 0

----------------------------------------------------------------------------
(* Planning                                                                *)

\* prepare_safe_restore_target, of the privileged helper: the destination is a
\* new name in its recovery directory.
SafeTargetReady == dest = "absent"

\* validate_new_target: nothing, or a directory with nothing in it.
NewTarget == dest \in {"absent", "empty"}

\* normalize_paths; restore_original_root drops paths below others and then
\* allows no inventory.
Start(S) ==
  /\ pc = "idle"
  /\ S # {}
  /\ \A p \in S : NotDenied(p, TRUE)
  /\ sel' = IF mode = "original" THEN Minimal(S) ELSE S
  /\ mode = "original" => \A p \in sel' : NotDenied(p, FALSE)
  /\ mode = "helper" => SafeTargetReady
  /\ pc' = "list"
  /\ UNCHANGED <<disk, target, archive, mode, plan, staging, roots, done, at, history>>

\* The lock is taken, and the live listing has the name once.
List ==
  /\ pc = "list"
  /\ live # NoId
  /\ plan' = [plan EXCEPT !.id = live]
  /\ pc' = "plan"
  /\ UNCHANGED <<disk, target, archive, request, staging, roots, done, at, history>>

\* The file list, of whatever archive has the name now.
Plan ==
  /\ pc = "plan"
  /\ live # NoId
  /\ LET files == Manifest(tree[live]) IN
       /\ \A s \in sel : tree[live][s] # "absent"
       /\ \A p \in Paths : Ancestor(p) => tree[live][p] \in {"absent", "dir"}
       /\ \A p \in Paths : files[p] # "special"
       /\ Cardinality({p \in Paths : files[p] # "absent"}) <= MaxFiles
       /\ plan' = [plan EXCEPT !.manifest = files]
  /\ pc' = IF mode = "overwrite" THEN "confirm" ELSE "place"
  /\ UNCHANGED <<disk, target, archive, request, staging, roots, done, at, history>>

\* The phrase is typed, some time after the plan was shown.
Confirm ==
  /\ pc = "confirm"
  /\ pc' = "check"
  /\ seen' = disk
  /\ UNCHANGED <<disk, target, archive, request, plan, staging, roots, done, at, touched, writes>>

\* No symbolic link above, and one file system with the staging.
PlaceSafe ==
  /\ pc = "place"
  /\ mode \in {"safe", "helper"}
  /\ NewTarget
  /\ pc' = "check"
  /\ UNCHANGED <<disk, target, archive, request, plan, staging, roots, done, at, history>>

\* original_publication_paths: up from a selected path to what exists, which
\* must be a directory below directories; the last one missing is the root,
\* given as the set of it.
Missing(p)   == {q \in Above(p) \cup {p} : ~Exists(disk, q)}

\* Mutant: the directory found to exist, not the one that is missing in it.
ExistingRoot(p) ==
  LET there == (Above(p) \cup {p}) \ Missing(p)
  IN  IF there = {} THEN {p} ELSE {q \in there : \A m \in there : Matches(q, m)}

Root(p)      == {q \in Missing(p) \cup {p} : \A m \in Missing(p) : Matches(m, q)}
Placeable(p) == \A q \in Above(p) \cup {p} : disk[q].kind \in {"absent", "dir"}

PlaceOriginal ==
  /\ pc = "place"
  /\ mode = "original"
  /\ \A s \in sel : Placeable(s)
  /\ roots' = Minimal(UNION {Root(s) : s \in sel})
  /\ seen' = disk
  /\ pc' = "check"
  /\ UNCHANGED <<disk, target, archive, request, plan, staging, done, at, touched, writes>>

RefuseOriginal ==
  /\ pc = "place"
  /\ mode = "original"
  /\ \E s \in sel : ~Placeable(s)
  /\ pc' = "refused"
  /\ UNCHANGED <<disk, target, archive, request, plan, staging, roots, done, at, history>>

----------------------------------------------------------------------------
(* Extraction                                                              *)

\* revalidate_snapshot: the name still stands for the planned id.
Unchanged == live = plan.id

Check ==
  /\ pc = "check"
  /\ Unchanged
  /\ pc' = "extract"
  /\ UNCHANGED <<disk, target, archive, request, plan, staging, roots, done, at, history>>

\* What Borg leaves in staging may fall short of the archive.
Extract(lost) ==
  /\ pc = "extract"
  /\ live # NoId
  /\ staging' = [p \in Paths |-> IF \E q \in lost : Matches(p, q) THEN None ELSE Extracted(live)[p]]
  /\ pc' = "verify"
  /\ UNCHANGED <<disk, target, archive, request, plan, roots, done, at, history>>

\* Mutant: what was extracted is in the plan, but need not be all of it.
VerifySubset ==
  /\ pc = "verify"
  /\ \A p \in Paths : Exists(staging, p) => staging[p].kind = plan.manifest[p]
  /\ pc' = "recheck"
  /\ UNCHANGED <<disk, target, archive, request, plan, staging, roots, done, at, history>>

\* verify_extracted_manifest.
Verify ==
  /\ pc = "verify"
  /\ \A p \in Paths : staging[p].kind = plan.manifest[p]
  /\ pc' = "recheck"
  /\ UNCHANGED <<disk, target, archive, request, plan, staging, roots, done, at, history>>

\* Mutant: the archive is not looked at again after the extraction.
RecheckNothing ==
  /\ pc = "recheck"
  /\ pc' = "publish"
  /\ UNCHANGED <<disk, target, archive, request, plan, staging, roots, done, at, history>>

Recheck ==
  /\ pc = "recheck"
  /\ Unchanged
  /\ pc' = "publish"
  /\ UNCHANGED <<disk, target, archive, request, plan, staging, roots, done, at, history>>

----------------------------------------------------------------------------
(* Publication                                                             *)

\* publish_directory removes an empty destination, then renames onto
\* nothing.
ClearTarget ==
  /\ pc = "publish"
  /\ mode \in {"safe", "helper"}
  /\ NewTarget
  /\ dest' = "absent"
  /\ pc' = "rename"
  /\ UNCHANGED <<disk, content, archive, request, plan, staging, roots, done, at, history>>

PublishDirectory ==
  /\ pc = "rename"
  /\ dest = "absent"
  /\ dest' = "restored"
  /\ content' = staging
  /\ staging' = Empty
  /\ pc' = "done"
  /\ UNCHANGED <<disk, archive, request, plan, roots, done, at, history>>

\* Mutant: the root is filled with what is staged and not exchanged.
FillOriginalPath(r) ==
  /\ pc = "publish"
  /\ mode = "original"
  /\ r \in roots \ done
  /\ Reachable(r)
  /\ Exists(staging, r)
  /\ disk' = [p \in Paths |-> IF Matches(p, r) /\ Exists(staging, p) THEN staging[p] ELSE disk[p]]
  /\ staging' = Moved(Empty, staging, r)
  /\ done' = done \cup {r}
  /\ touched' = {p \in touched : ~Matches(p, r)}
  /\ pc' = IF done' = roots THEN "done" ELSE pc
  /\ UNCHANGED <<target, archive, request, plan, roots, at, seen, writes>>

\* publish_original_path: exchanged with what is there, if something is.
\* When that changes between the look and the rename, the rename fails.
PublishOriginalPath(r) ==
  /\ pc = "publish"
  /\ mode = "original"
  /\ r \in roots \ done
  /\ Reachable(r)
  /\ Exists(staging, r)
  /\ disk' = Moved(staging, disk, r)
  /\ staging' = Moved(disk, staging, r)
  /\ done' = done \cup {r}
  /\ touched' = {p \in touched : ~Matches(p, r)}
  /\ pc' = IF done' = roots THEN "done" ELSE pc
  /\ UNCHANGED <<target, archive, request, plan, roots, at, seen, writes>>

\* merge_into_directory is at an entry of the directory it is in.  That one
\* is pinned by a descriptor: once others have removed it, renames fail.
Merging(p) ==
  /\ pc = "publish"
  /\ mode = "overwrite"
  /\ In(p, at)
  /\ Exists(staging, p)
  /\ Reachable(p)
  /\ Above(p) \cap touched = {}

\* A directory goes where nothing or an empty directory is, anything else
\* where no directory is.
MergeEntry(p) ==
  /\ Merging(p)
  /\ IF staging[p].kind = "dir"
     THEN ~Exists(disk, p) \/ (disk[p].kind = "dir" /\ Bare(disk, p))
     ELSE disk[p].kind # "dir"
  /\ disk' = Moved(staging, disk, p)
  /\ staging' = Moved(Empty, staging, p)
  /\ UNCHANGED <<target, archive, pc, request, plan, roots, done, at, history>>

EnterDirectory(p) ==
  /\ Merging(p)
  /\ staging[p].kind = "dir"
  /\ disk[p].kind = "dir"
  /\ ~Bare(disk, p)
  /\ at' = p
  /\ touched' = touched \ {p}
  /\ UNCHANGED <<disk, target, archive, pc, request, plan, staging, roots, done, seen, writes>>

\* Mutant: the merge stays in the directory it has finished.
LeaveAndStay ==
  /\ pc = "publish"
  /\ mode = "overwrite"
  /\ at # <<>>
  /\ Exists(staging, at) /\ Bare(staging, at)
  /\ staging' = [staging EXCEPT ![at] = None]
  /\ UNCHANGED <<disk, target, archive, pc, request, plan, roots, done, at, history>>

\* The directory gets owner, mode and times of the staged one, which is
\* then removed.
LeaveDirectory ==
  /\ pc = "publish"
  /\ mode = "overwrite"
  /\ at # <<>>
  /\ Bare(staging, at)
  /\ disk' = IF at \in touched THEN disk ELSE [disk EXCEPT ![at].from = staging[at].from]
  /\ staging' = [staging EXCEPT ![at] = None]
  /\ at' = SubSeq(at, 1, Len(at) - 1)
  /\ UNCHANGED <<target, archive, pc, request, plan, roots, done, history>>

MergeDone ==
  /\ pc = "publish"
  /\ mode = "overwrite"
  /\ staging = Empty
  /\ pc' = "done"
  /\ UNCHANGED <<disk, target, archive, request, plan, staging, roots, done, at, history>>

\* An error, or the death of the restore: the staging directory, with what
\* was exchanged into it, is deleted or left behind.
Fail ==
  /\ pc \in Working
  /\ pc' = "failed"
  /\ staging' = Empty
  /\ UNCHANGED <<disk, target, archive, request, plan, roots, done, at, history>>

----------------------------------------------------------------------------
(* The others                                                              *)

MakeArchive(t) ==
  /\ pc \notin Ended
  /\ live = NoId
  /\ used < MaxId
  /\ used' = used + 1
  /\ live' = used'
  /\ tree' = [tree EXCEPT ![live'] = t]
  /\ UNCHANGED <<disk, target, pc, request, plan, staging, roots, done, at, history>>

DeleteArchive ==
  /\ pc \notin Ended
  /\ live # NoId
  /\ live' = NoId
  /\ UNCHANGED <<disk, target, used, tree, pc, request, plan, staging, roots, done, at, history>>

\* Another process makes an entry, or removes one with nothing below it.
Write(p, k) ==
  /\ pc \in Working
  /\ mode \in {"overwrite", "original"}
  /\ writes < MaxWrites
  /\ Reachable(p)
  /\ IF Exists(disk, p) THEN Bare(disk, p) /\ k = "absent" ELSE k # "absent"
  /\ disk' = [disk EXCEPT ![p] = [kind |-> k, from |-> Here]]
  /\ touched' = touched \cup {p}
  /\ writes' = writes + 1
  /\ UNCHANGED <<target, archive, pc, request, plan, staging, roots, done, at, seen>>

WriteTarget(d) ==
  /\ pc \in Working
  /\ mode \in {"safe", "helper"}
  /\ writes < MaxWrites
  /\ dest # d
  /\ dest' = d
  /\ writes' = writes + 1
  /\ UNCHANGED <<disk, content, archive, pc, request, plan, staging, roots, done, at, seen, touched>>

Step ==
  \/ \E S \in SUBSET Paths : Start(S)
  \/ List \/ Plan \/ Confirm
  \/ PlaceSafe \/ PlaceOriginal \/ RefuseOriginal
  \/ Check \/ Verify \/ Recheck
  \/ \E lost \in {{}} \cup {{p} : p \in Paths} : Extract(lost)
  \/ ClearTarget \/ PublishDirectory
  \/ \E p \in Paths : PublishOriginalPath(p) \/ MergeEntry(p) \/ EnterDirectory(p)
  \/ LeaveDirectory \/ MergeDone
  \/ Fail

Others ==
  \/ \E t \in Trees : MakeArchive(t)
  \/ DeleteArchive
  \/ \E p \in Paths, k \in {"absent", "dir", "file", "link"} : Write(p, k)
  \/ \E d \in {"absent", "empty", "occupied", "unsafe"} : WriteTarget(d)

Next == Step \/ Others

Spec == Init /\ [][Next]_vars

----------------------------------------------------------------------------
(* What a restore promises                                                 *)

\* What reaches / or the destination is of the archive that was planned and
\* shown, although Borg extracts by name and the name may have passed to
\* another archive in between (restore.rs:186-193, 240-246, 290, 338).
PublishesPlanned ==
  [][\A p \in Paths :
       /\ disk'[p].from \in Ids \ {disk[p].from} => disk'[p].from = plan.id
       /\ content'[p].from \in Ids => content'[p].from = plan.id]_vars

\* Of what stood below / when the restore was placed, only what is selected
\* is replaced, removed or given other metadata by it: the directory that is
\* published instead of a selected path was missing, and a merge goes into
\* directories that hold something (restore.rs:376-407, 1059-1109).  Of the
\* directories above a selected path a merge does set owner, mode and times
\* (restore.rs:1083-1093), and nothing else.  A destination with anything in
\* it is left alone, also when it came to be after the restore had looked
\* (restore.rs:940-970).
OnlySelectedIsLost ==
  [][writes' = writes =>
       /\ \A p \in Paths :
            Exists(disk, p) /\ disk'[p] # disk[p] =>
              \/ Selected(p) \/ ~Exists(seen, p)
              \/ mode = "overwrite" /\ Ancestor(p) /\ disk[p].kind = "dir" /\ disk'[p].kind = "dir"
       /\ dest \in {"occupied", "unsafe"} => dest' = dest]_vars

\* At every instant, a failure or death in the middle included, each root of
\* an original-path restore is as it was, or holds what was planned and nothing
\* else (restore.rs:972-1000), but for what others changed meanwhile: the
\* selected entries as archived, and in the directories above them none of
\* the archive's metadata, as Borg makes those itself (borg.rs:657-673).
RootsWhole ==
  mode = "original" /\ pc # "idle" =>
    \A r \in roots : \A p \in Paths :
      Matches(p, r) /\ p \notin touched =>
        IF r \in done
        THEN /\ disk[p].kind = plan.manifest[p]
             /\ Exists(disk, p) => disk[p].from = IF Selected(p) THEN plan.id ELSE Made
        ELSE disk[p] = seen[p]

\* A missing directory above a selected path, which is published with it, has
\* the metadata that is archived for it (docs/RESTORE.md:84-87).
ParentsAsArchived ==
  mode = "original" =>
    \A r \in done : \A p \in Paths :
      Matches(p, r) /\ p \notin touched /\ Exists(disk, p) /\ tree[plan.id][p] = "dir" =>
        disk[p].from = plan.id

\* A restore that ends well has put every selected entry of the archive in
\* its place, and of an original path nothing else is left there, whatever
\* the selections had to do with each other (restore.rs:362-374).
DoneIsRestored ==
  pc = "done" /\ mode \in {"overwrite", "original"} =>
    \A p \in Paths :
      Selected(p) /\ p \notin touched =>
        IF plan.manifest[p] # "absent"
        THEN disk[p] = [kind |-> plan.manifest[p], from |-> plan.id]
        ELSE mode = "original" => ~Exists(disk, p)

\* The destination of a safe restore is never there in part: what is
\* published is the whole manifest (restore.rs:940-970).
DestinationWhole ==
  dest = "restored" =>
    \A p \in Paths : content[p].kind = plan.manifest[p]
                     /\ (Selected(p) /\ Exists(content, p) => content[p].from = plan.id)

\* A restore to the original path is refused for a directory above the
\* selected path that is not one, or for a symbolic link, but not because
\* the selected path is a file (docs/RESTORE.md:72).
RefusedForCause ==
  pc = "refused" =>
    \E s \in sel : disk[s].kind = "link" \/ \E q \in Above(s) : disk[q].kind \in {"file", "link"}
=============================================================================
