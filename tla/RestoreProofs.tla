--------------------------- MODULE RestoreProofs ---------------------------
(***************************************************************************)
(* Whatever other hosts do to the repository and other processes to the    *)
(* directories, what a restore publishes is of the archive it planned      *)
(* from, a safe restore publishes all of it or nothing, and an original    *)
(* path is as it was or as in the archive.  For trees of any shape.        *)
(*                                                                         *)
(* The argument for the first is that ids grow: the archive extracted by   *)
(* name is not older than the planned one (revalidated before) and not     *)
(* younger than the live one, which is the planned one again afterwards.   *)
(***************************************************************************)
EXTENDS Restore, WellFoundedInduction, TLAPS

Types ==
  /\ disk \in [Paths -> Nodes] /\ content \in [Paths -> Nodes] /\ staging \in [Paths -> Nodes]
  /\ live \in 0..MaxId /\ used \in 0..MaxId /\ live <= used
  /\ tree \in [Ids -> [Paths -> Kinds]]
  /\ pc \in {"idle"} \cup Working \cup Ended
  /\ mode \in {"safe", "helper", "overwrite", "original"}
  /\ plan \in [id : 0..MaxId, manifest : [Paths -> Kinds]]
  /\ sel \subseteq Paths /\ roots \subseteq Paths /\ done \subseteq roots

\* Of which archive things are.
Dated ==
  /\ plan.id <= used /\ (live # NoId => plan.id <= live)
  /\ pc \in {"idle", "list"} => plan.id = NoId
  /\ pc \in Working \ {"list"} => plan.id \in Ids
  /\ \A p \in Paths : disk[p].from \in Ids => disk[p].from = plan.id
  /\ \A p \in Paths : content[p].from \in Ids => content[p].from = plan.id
  /\ pc \in {"publish", "rename"} =>
       \A p \in Paths : staging[p].from \in Ids => staging[p].from = plan.id

\* What was listed and extracted by name is of the planned archive, if that
\* is the one that has the name.
Traced ==
  /\ pc \in Working \ {"list", "plan", "publish", "rename"} /\ live = plan.id =>
       plan.manifest = Manifest(tree[plan.id])
  /\ pc \in {"verify", "recheck"} /\ live = plan.id =>
       \A p \in Paths : staging[p] \in {None, Extracted(plan.id)[p]}

\* What is yet to be published is what was planned.
Pending(p) == mode # "overwrite" /\ \A r \in done : ~Matches(p, r)

Staged ==
  /\ pc \in {"recheck", "publish", "rename"} =>
       \A p \in Paths : Pending(p) => staging[p].kind = plan.manifest[p]
  /\ pc \in {"publish", "rename"} =>
       \A p \in Paths :
         Pending(p) /\ Exists(staging, p) =>
           staging[p].from = IF Selected(p) THEN plan.id ELSE Made

\* The roots are chosen once and apart from each other.
Rooted ==
  /\ pc \in {"idle", "list", "plan", "confirm", "place"} => roots = {}
  /\ roots # {} => mode = "original"
  /\ done # {} => pc \in {"publish", "done", "failed"}
  /\ pc = "rename" => mode \in {"safe", "helper"}
  /\ \A r, q \in roots : Matches(r, q) => r = q

Restored == dest = "restored" => pc = "done"

IInv ==
  /\ Types /\ Dated /\ Traced /\ Staged
  /\ Rooted /\ Restored /\ DestinationWhole /\ RootsWhole
----------------------------------------------------------------------------
(* Paths                                                                   *)

\* Two prefixes of a path are prefixes of each other.
LEMMA Prefixes ==
  ASSUME NEW p \in Paths, NEW r \in Paths, NEW q \in Paths, Matches(p, r), Matches(p, q)
  PROVE  Matches(r, q) \/ Matches(q, r)
<1>1. p \in Seq(STRING) /\ r \in Seq(STRING) /\ q \in Seq(STRING)
  BY PathAssumption
<1>2. /\ \A n \in 1..Len(r) : r[n] = p[n]
      /\ \A n \in 1..Len(q) : q[n] = p[n]
  BY <1>1 DEF Matches
<1>3. ASSUME NEW a \in Seq(STRING), NEW b \in Seq(STRING), Len(b) <= Len(a),
             \A n \in 1..Len(b) : a[n] = b[n]
      PROVE  Matches(a, b)
  <2>1. /\ SubSeq(a, 1, Len(b)) \in Seq(STRING) /\ Len(SubSeq(a, 1, Len(b))) = Len(b)
        /\ \A n \in 1..Len(b) : SubSeq(a, 1, Len(b))[n] = a[n]
    BY <1>3
  <2>2. SubSeq(a, 1, Len(b)) = b
    BY <1>3, <2>1
  <2> QED
    BY <1>3, <2>2 DEF Matches
<1>4. CASE Len(q) <= Len(r)
  BY <1>1, <1>2, <1>3, <1>4
<1>5. CASE Len(r) <= Len(q)
  BY <1>1, <1>2, <1>3, <1>5
<1> QED
  BY <1>1, <1>4, <1>5

\* A path is below one root only.
LEMMA OneRoot ==
  ASSUME Types, Rooted, NEW p \in Paths, NEW r \in roots, NEW q \in roots,
         Matches(p, r), Matches(p, q)
  PROVE  r = q
BY Prefixes DEF Types, Rooted

LEMMA EmptyType == Empty \in [Paths -> Nodes] /\ \A p \in Paths : Empty[p].from \notin Ids /\ ~Exists(Empty, p)
BY BoundAssumption DEF Empty, None, Nodes, Kinds, Here, Ids, Exists
----------------------------------------------------------------------------
(* The invariant                                                           *)

LEMMA InitInv == Init => IInv
<1> SUFFICES ASSUME Init PROVE IInv
  OBVIOUS
<1>1. disk \in [Paths -> Nodes] /\ \A p \in Paths : disk[p].from \notin Ids
  <2>1. CASE disk = Empty
    BY <2>1, EmptyType
  <2>2. ASSUME NEW d \in Disks, disk = [p \in Paths |-> [kind |-> d[p], from |-> Here]]
        PROVE  disk \in [Paths -> Nodes] /\ \A p \in Paths : disk[p].from \notin Ids
    <3>1. d \in [Paths -> Kinds]
      BY TreeAssumption
    <3> QED
      BY <2>2, <3>1, BoundAssumption DEF Nodes, Here, Ids
  <2> QED
    BY <2>1, <2>2 DEF Init
<1>2. content \in [Paths -> Nodes] /\ staging \in [Paths -> Nodes]
      /\ \A p \in Paths : content[p].from \notin Ids
  BY EmptyType DEF Init
<1>3. Types
  BY <1>1, <1>2, ModeAssumption, BoundAssumption DEF Init, Types, NoPlan, NoId, Kinds, Ids
<1>4. Dated
  BY <1>1, <1>2 DEF Init, Dated, Working, NoPlan, NoId
<1> QED
  BY <1>3, <1>4 DEF Init, IInv, Working, Traced, Staged, Rooted, Restored, DestinationWhole, RootsWhole

\* Planning and placing, which publish nothing.
LEMMA PlanSteps ==
  ASSUME IInv,
         \/ \E S \in SUBSET Paths : Start(S)
         \/ List \/ Plan \/ Confirm \/ PlaceSafe \/ PlaceOriginal \/ RefuseOriginal
  PROVE  IInv'
<1> USE DEF IInv, target, archive, request, history
<1>1. UNCHANGED <<disk, target, archive, mode, staging, done>>
  BY DEF Start, List, Plan, Confirm, PlaceSafe, PlaceOriginal, RefuseOriginal
<1>2. /\ pc \in {"idle", "list", "plan", "confirm", "place"}
      /\ pc' \in {"list", "plan", "confirm", "place", "check", "refused"}
      /\ pc' = "list" => plan' = plan /\ pc = "idle"
  BY DEF Start, List, Plan, Confirm, PlaceSafe, PlaceOriginal, RefuseOriginal
<1>3. sel' \subseteq Paths
  BY DEF Start, List, Plan, Confirm, PlaceSafe, PlaceOriginal, RefuseOriginal, Minimal, Types
<1>4. plan' \in [id : 0..MaxId, manifest : [Paths -> Kinds]]
      /\ plan'.id \in {plan.id, live} /\ (plan'.id # plan.id => pc = "list")
      /\ (pc = "list" => plan'.id = live)
  <2>1. CASE List
    BY <2>1 DEF List, Types
  <2>2. CASE Plan
    <3>1. live \in Ids /\ tree[live] \in [Paths -> Kinds]
      BY <2>2 DEF Plan, Types, NoId, Ids
    <3>2. Manifest(tree[live]) \in [Paths -> Kinds]
      BY <3>1 DEF Manifest, Kinds
    <3>3. plan' = [plan EXCEPT !.manifest = Manifest(tree[live])] /\ pc = "plan"
      BY <2>2 DEF Plan
    <3> QED
      BY <3>2, <3>3 DEF Types
  <2>3. CASE ~List /\ ~Plan
    BY <2>3 DEF Start, Confirm, PlaceSafe, PlaceOriginal, RefuseOriginal, Types
  <2> QED
    BY <2>1, <2>2, <2>3
<1>5. roots' \subseteq Paths
      /\ (roots' # {} => mode = "original" /\ pc' = "check")
      /\ \A r, q \in roots' : Matches(r, q) => r = q
  <2>1. CASE PlaceOriginal
    <3>1. UNION {Root(s) : s \in sel} \subseteq Paths
      BY DEF Types, Root, Missing, Above
    <3> QED
      BY <2>1, <3>1 DEF PlaceOriginal, Minimal
  <2>2. CASE ~PlaceOriginal
    BY <1>2, <2>2 DEF Start, List, Plan, Confirm, PlaceSafe, RefuseOriginal, Rooted, Types
  <2> QED
    BY <2>1, <2>2
<1>6. Types'
  BY <1>1, <1>2, <1>3, <1>4, <1>5 DEF Types, Rooted, Working, Ended
<1>7. Dated'
  <2>1. CASE pc = "idle"
    <3>1. pc' = "list" /\ UNCHANGED plan
      BY <1>2, <2>1 DEF Start, List, Plan, Confirm, PlaceSafe, PlaceOriginal, RefuseOriginal
    <3> QED
      BY <1>1, <2>1, <3>1 DEF Dated
  <2>2. CASE pc = "list"
    <3>1. pc' = "plan" /\ plan'.id = live /\ live # NoId
      BY <1>4, <2>2 DEF Start, List, Plan, Confirm, PlaceSafe, PlaceOriginal, RefuseOriginal
    <3>2. plan'.id \in Ids /\ plan'.id <= used
      BY <3>1 DEF Types, Ids, NoId
    <3>3. \A p \in Paths : disk[p].from \notin Ids /\ content[p].from \notin Ids
      BY <2>2 DEF Dated, Ids, NoId
    <3> QED
      BY <1>1, <3>1, <3>2, <3>3 DEF Dated, Types
  <2>3. CASE pc \in {"plan", "confirm", "place"}
    BY <1>1, <1>2, <1>4, <2>3 DEF Dated, Working
  <2> QED
    BY <1>2, <2>1, <2>2, <2>3
<1>8. Traced'
  <2>1. CASE pc \in {"idle", "list"}
    BY <2>1 DEF Start, List, Plan, Confirm, PlaceSafe, PlaceOriginal, RefuseOriginal, Traced
  <2>2. CASE Plan
    <3>1. plan'.manifest = Manifest(tree[live]) /\ UNCHANGED <<sel, tree, live>>
          /\ pc' \in {"confirm", "place"}
      BY <2>2 DEF Plan, Types
    <3> QED
      BY <3>1 DEF Traced, Manifest, Selected, Ancestor
  <2>3. CASE Confirm \/ PlaceSafe \/ PlaceOriginal \/ RefuseOriginal
    BY <2>3 DEF Confirm, PlaceSafe, PlaceOriginal, RefuseOriginal, Traced, Working, Manifest,
       Selected, Ancestor
  <2> QED
    BY <2>1, <2>2, <2>3 DEF Start, List
<1>9. Staged' /\ Restored' /\ DestinationWhole'
  BY <1>1, <1>2 DEF Staged, Restored, DestinationWhole
<1>10. Rooted'
  BY <1>1, <1>2, <1>5 DEF Rooted
<1>11. RootsWhole'
  <2>1. done' = {}
    BY <1>1, <1>2 DEF Rooted
  <2>2. roots' # {} => seen' = disk
    BY <1>1, <1>2 DEF Start, List, Plan, Confirm, PlaceSafe, PlaceOriginal, RefuseOriginal, Rooted
  <2> QED
    BY <1>1, <2>1, <2>2 DEF RootsWhole
<1> QED
  BY <1>6, <1>7, <1>8, <1>9, <1>10, <1>11

\* Extraction by name, between two looks at the id.
LEMMA ExtractSteps ==
  ASSUME IInv,
         \/ Check \/ Verify \/ Recheck
         \/ \E lost \in {{}} \cup {{p} : p \in Paths} : Extract(lost)
  PROVE  IInv'
<1> USE DEF IInv, target, archive, request, history
<1>1. UNCHANGED <<disk, target, archive, request, plan, roots, done, seen, touched>>
  BY DEF Check, Verify, Recheck, Extract
<1>2. done = {}
  BY DEF Check, Verify, Recheck, Extract, Rooted
<1>3. /\ pc \in {"check", "extract", "verify", "recheck"}
      /\ pc' \in {"extract", "verify", "recheck", "publish"}
  BY DEF Check, Verify, Recheck, Extract
<1>4. Restored' /\ DestinationWhole' /\ Rooted' /\ RootsWhole'
  BY <1>1, <1>2, <1>3 DEF Restored, DestinationWhole, Rooted, RootsWhole, Selected, Exists
<1>5. CASE Check
  BY <1>1, <1>2, <1>4, <1>5 DEF Check, Types, Dated, Traced, Staged, Working, Manifest, Selected, Ancestor
<1>6. ASSUME NEW lost, Extract(lost) PROVE IInv'
  <2>1. live \in Ids /\ tree[live] \in [Paths -> Kinds]
    BY <1>6 DEF Extract, Types, NoId, Ids
  <2>2. ASSUME NEW p \in Paths
        PROVE  Extracted(live)[p] \in Nodes /\ None \in Nodes
    BY <2>1, BoundAssumption DEF Extracted, Nodes, Kinds, None, Here, Made, Ids
  <2>3. \A p \in Paths : staging'[p] \in {None, Extracted(live)[p]}
    BY <1>6 DEF Extract
  <2>4. staging' \in [Paths -> Nodes]
    BY <1>6, <2>2 DEF Extract
  <2>5. \A p \in Paths : Extracted(plan.id)'[p] = Extracted(plan.id)[p]
    BY <1>1 DEF Extracted, Selected
  <2> QED
    BY <1>1, <1>2, <1>4, <1>6, <2>3, <2>4, <2>5
       DEF Extract, Types, Dated, Traced, Staged, Working, Manifest, Selected, Ancestor
<1>7. CASE Verify
  <2>1. Traced'
    BY <1>1, <1>7 DEF Verify, Traced, Working, Manifest, Extracted, Selected, Ancestor
  <2> QED
    BY <1>1, <1>2, <1>4, <1>7, <2>1 DEF Verify, Types, Dated, Staged, Working
<1>8. CASE Recheck
  <2>1. live = plan.id /\ plan.id \in Ids /\ plan.manifest = Manifest(tree[plan.id])
        /\ \A p \in Paths : staging[p] \in {None, Extracted(plan.id)[p]}
    BY <1>8 DEF Recheck, Unchanged, Traced, Dated, Working
  <2>2. tree[plan.id] \in [Paths -> Kinds]
    BY <2>1 DEF Types
  <2>3. ASSUME NEW p \in Paths
        PROVE  /\ staging[p].from \in Ids => staging[p].from = plan.id
               /\ Exists(staging, p) /\ staging[p].kind = plan.manifest[p] =>
                    staging[p].from = IF Selected(p) THEN plan.id ELSE Made
    BY <2>1, <2>2, <2>3 DEF Extracted, Manifest, None, Here, Made, Ids, Exists
  <2> QED
    BY <1>1, <1>2, <1>4, <1>8, <2>3
       DEF Recheck, Types, Dated, Traced, Staged, Working, Pending, Exists, Selected
<1> QED
  BY <1>5, <1>6, <1>7, <1>8

\* Publication.
LEMMA PublishSteps ==
  ASSUME IInv, ClearTarget \/ PublishDirectory
  PROVE  IInv'
<1> USE DEF IInv, target, archive, request, history
<1>1. UNCHANGED <<disk, archive, request, plan, roots, done, seen, touched>>
  BY DEF ClearTarget, PublishDirectory
<1>2. done = {} /\ roots = {} /\ mode # "overwrite"
  BY DEF ClearTarget, PublishDirectory, Rooted, Types
<1>3. Rooted' /\ RootsWhole'
  BY <1>1, <1>2 DEF Rooted, RootsWhole, ClearTarget, PublishDirectory
<1>4. CASE ClearTarget
  BY <1>1, <1>2, <1>3, <1>4
     DEF ClearTarget, Types, Dated, Traced, Staged, Restored, DestinationWhole, Pending, Working,
         Selected
<1>5. CASE PublishDirectory
  <2>1. Types'
    BY <1>1, <1>5, EmptyType DEF PublishDirectory, Types, Ended
  <2>2. \A p \in Paths : /\ content'[p] = staging[p] /\ Pending(p)
                         /\ staging[p].from \in Ids => staging[p].from = plan.id
    BY <1>2, <1>5 DEF PublishDirectory, Pending, Dated
  <2>3. Dated' /\ Traced' /\ Staged' /\ Restored'
    BY <1>1, <1>5, <2>2 DEF PublishDirectory, Dated, Traced, Staged, Restored, Working
  <2>4. DestinationWhole'
    BY <1>1, <1>5, <2>2 DEF PublishDirectory, DestinationWhole, Staged, Selected, Exists
  <2> QED
    BY <1>3, <2>1, <2>3, <2>4
<1> QED
  BY <1>4, <1>5

LEMMA ExchangeSteps ==
  ASSUME IInv, NEW r \in Paths, PublishOriginalPath(r)
  PROVE  IInv'
<1> USE DEF IInv, target, archive, request, history
<1>1. /\ UNCHANGED <<target, archive, request, plan, roots, seen>>
      /\ pc = "publish" /\ pc' \in {"publish", "done"} /\ mode = "original"
      /\ r \in roots /\ r \notin done /\ done' = done \cup {r}
      /\ disk' = Moved(staging, disk, r) /\ staging' = Moved(disk, staging, r)
      /\ touched' = {p \in touched : ~Matches(p, r)}
  BY DEF PublishOriginalPath
<1>2. /\ disk' \in [Paths -> Nodes] /\ staging' \in [Paths -> Nodes]
      /\ \A p \in Paths : /\ disk'[p] = IF Matches(p, r) THEN staging[p] ELSE disk[p]
                          /\ staging'[p] = IF Matches(p, r) THEN disk[p] ELSE staging[p]
  BY <1>1 DEF Moved, Types
<1>3. Types'
  BY <1>1, <1>2 DEF Types, Working, Ended
<1>4. Dated' /\ Traced'
  BY <1>1, <1>2 DEF Dated, Traced, Working
<1>5. Staged'
  <2>1. \A p \in Paths : Pending(p)' => Pending(p) /\ ~Matches(p, r)
    BY <1>1 DEF Pending
  <2> QED
    BY <1>1, <1>2, <2>1 DEF Staged, Exists, Selected
<1>6. Rooted' /\ Restored' /\ DestinationWhole'
  BY <1>1 DEF Rooted, Restored, DestinationWhole, Selected, Exists
<1>7. RootsWhole'
  <2> SUFFICES ASSUME NEW q \in roots, NEW p \in Paths, Matches(p, q), p \notin touched'
               PROVE  IF q \in done'
                      THEN /\ disk'[p].kind = plan.manifest[p]
                           /\ Exists(disk', p) =>
                                disk'[p].from = IF Selected(p)' THEN plan.id ELSE Made
                      ELSE disk'[p] = seen[p]
    BY <1>1 DEF RootsWhole
  <2>1. CASE q = r
    <3>1. \A d \in done : ~Matches(p, d)
      BY <1>1, <2>1, OneRoot DEF Types
    <3>2. Pending(p) /\ disk'[p] = staging[p]
      BY <1>1, <1>2, <2>1, <3>1 DEF Pending
    <3> QED
      BY <1>1, <2>1, <3>2 DEF Staged, Exists, Selected
  <2>2. CASE q # r
    <3>1. ~Matches(p, r)
      BY <1>1, <2>2, OneRoot
    <3>2. p \notin touched /\ disk'[p] = disk[p] /\ (q \in done' <=> q \in done)
      BY <1>1, <1>2, <2>2, <3>1
    <3> QED
      BY <1>1, <3>2 DEF RootsWhole, Exists, Selected
  <2> QED
    BY <2>1, <2>2
<1> QED
  BY <1>3, <1>4, <1>5, <1>6, <1>7

LEMMA MergeSteps ==
  ASSUME IInv,
         \/ \E p \in Paths : MergeEntry(p) \/ EnterDirectory(p)
         \/ LeaveDirectory \/ MergeDone
  PROVE  IInv'
<1> USE DEF IInv, target, archive, request, history
<1>1. /\ UNCHANGED <<target, archive, request, plan, roots, done, seen>>
      /\ pc = "publish" /\ pc' \in {"publish", "done"} /\ mode = "overwrite"
  BY DEF MergeEntry, EnterDirectory, LeaveDirectory, MergeDone, Merging
<1>2. roots = {} /\ done = {}
  BY <1>1 DEF Rooted, Types
<1>3. /\ disk' \in [Paths -> Nodes] /\ staging' \in [Paths -> Nodes]
      /\ \A p \in Paths : /\ disk'[p].from \in Ids => disk'[p].from = plan.id
                          /\ staging'[p].from \in Ids => staging'[p].from = plan.id
  <2>1. CASE \E p \in Paths : MergeEntry(p)
    <3>1. PICK q \in Paths : /\ disk' = Moved(staging, disk, q)
                             /\ staging' = Moved(Empty, staging, q)
      BY <2>1 DEF MergeEntry
    <3> QED
      BY <1>1, <3>1, EmptyType DEF Moved, Types, Dated
  <2>2. CASE LeaveDirectory
    <3>1. /\ disk' = disk \/ disk' = [disk EXCEPT ![at].from = staging[at].from]
          /\ staging' = [staging EXCEPT ![at] = None]
      BY <2>2 DEF LeaveDirectory
    <3>2. None \in Nodes /\ None.from \notin Ids
      BY BoundAssumption DEF None, Nodes, Kinds, Here, Ids
    <3>3. \A p \in Paths : staging'[p] \in {staging[p], None}
      BY <3>1 DEF Types
    <3>4. \A p \in Paths : /\ disk'[p] \in Nodes
                           /\ disk'[p].from \in {disk[p].from, staging[p].from}
      BY <3>1 DEF Types, Nodes
    <3>5. disk' \in [Paths -> Nodes] /\ staging' \in [Paths -> Nodes]
      BY <3>1, <3>2, <3>3, <3>4 DEF Types
    <3> QED
      BY <1>1, <3>2, <3>3, <3>4, <3>5 DEF Dated
  <2>3. CASE MergeDone \/ \E p \in Paths : EnterDirectory(p)
    BY <1>1, <2>3 DEF MergeDone, EnterDirectory, Types, Dated
  <2> QED
    BY <2>1, <2>2, <2>3
<1>4. Types'
  BY <1>1, <1>3 DEF Types, Working, Ended
<1>5. Dated' /\ Traced' /\ Staged'
  BY <1>1, <1>3 DEF Dated, Traced, Staged, Pending, Working
<1>6. Rooted' /\ Restored' /\ DestinationWhole' /\ RootsWhole'
  BY <1>1, <1>2 DEF Rooted, Restored, DestinationWhole, RootsWhole, Selected, Exists
<1> QED
  BY <1>4, <1>5, <1>6

\* A failure, and the others.
LEMMA OtherSteps ==
  ASSUME IInv, Fail \/ Others \/ UNCHANGED vars
  PROVE  IInv'
<1> USE DEF IInv, target, archive, request, history
<1>1. CASE Fail
  <2>1. Types' /\ Dated' /\ Traced' /\ Staged'
    BY <1>1, EmptyType DEF Fail, Types, Dated, Traced, Staged, Working, Ended
  <2>2. Rooted' /\ Restored' /\ DestinationWhole' /\ RootsWhole'
    BY <1>1 DEF Fail, Rooted, Restored, DestinationWhole, RootsWhole, Selected, Exists, Working
  <2> QED
    BY <2>1, <2>2
<1>2. ASSUME NEW t \in Trees, MakeArchive(t) PROVE IInv'
  <2>1. /\ live = NoId /\ used' = used + 1 /\ live' = used' /\ used' \in Ids
        /\ tree' = [tree EXCEPT ![live'] = t]
        /\ UNCHANGED <<disk, target, pc, request, plan, staging, roots, done, seen, touched>>
    BY <1>2, BoundAssumption DEF MakeArchive, Types, Ids
  <2>2. t \in [Paths -> Kinds]
    BY TreeAssumption
  <2>3. live' > plan.id
    BY <2>1 DEF Types, Dated
  <2>4. Types'
    BY <2>1, <2>2 DEF Types, Ids
  <2>5. Dated' /\ Traced' /\ Staged'
    BY <2>1, <2>3 DEF Types, Dated, Traced, Staged, Pending, Exists, Selected, Ids
  <2>6. Rooted' /\ Restored' /\ DestinationWhole' /\ RootsWhole'
    BY <2>1 DEF Rooted, Restored, DestinationWhole, RootsWhole, Selected, Exists
  <2> QED
    BY <2>4, <2>5, <2>6
<1>3. CASE DeleteArchive
  <2>1. /\ live' = NoId /\ UNCHANGED <<used, tree>>
        /\ UNCHANGED <<disk, target, pc, request, plan, staging, roots, done, seen, touched>>
    BY <1>3 DEF DeleteArchive
  <2>2. Types' /\ Dated'
    BY <2>1, BoundAssumption DEF Types, Dated, NoId
  <2>3. Traced' /\ Staged'
    BY <2>1 DEF Dated, Traced, Staged, Pending, Exists, Selected, Ids, NoId, Working
  <2>4. Rooted' /\ Restored' /\ DestinationWhole' /\ RootsWhole'
    BY <2>1 DEF Rooted, Restored, DestinationWhole, RootsWhole, Selected, Exists
  <2> QED
    BY <2>2, <2>3, <2>4
<1>4. ASSUME NEW p \in Paths, NEW k \in {"absent", "dir", "file", "link"}, Write(p, k)
      PROVE  IInv'
  <2>1. /\ disk' = [disk EXCEPT ![p] = [kind |-> k, from |-> Here]]
        /\ touched' = touched \cup {p}
        /\ UNCHANGED <<target, archive, pc, request, plan, staging, roots, done, seen>>
    BY <1>4 DEF Write
  <2>2. disk' \in [Paths -> Nodes] /\ disk'[p].from \notin Ids
        /\ \A q \in Paths \ {p} : disk'[q] = disk[q]
    BY <2>1, BoundAssumption DEF Types, Nodes, Kinds, Here, Ids
  <2>3. Types' /\ Dated'
    BY <2>1, <2>2 DEF Types, Dated
  <2>4. Traced' /\ Staged' /\ Rooted' /\ Restored' /\ DestinationWhole'
    BY <2>1 DEF Traced, Staged, Pending, Rooted, Restored, DestinationWhole, Selected, Exists,
       Ancestor, Manifest, Extracted
  <2>5. RootsWhole'
    BY <2>1, <2>2 DEF RootsWhole, Exists, Selected
  <2> QED
    BY <2>3, <2>4, <2>5
<1>5. ASSUME NEW d \in {"absent", "empty", "occupied", "unsafe"}, WriteTarget(d) PROVE IInv'
  <2>1. /\ dest' # "restored"
        /\ UNCHANGED <<disk, content, archive, pc, request, plan, staging, roots, done, seen, touched>>
    BY <1>5 DEF WriteTarget
  <2>2. Types' /\ Dated' /\ Rooted' /\ Restored' /\ DestinationWhole' /\ RootsWhole'
    BY <2>1 DEF Types, Dated, Rooted, Restored, DestinationWhole, RootsWhole, Exists, Selected
  <2>3. Traced' /\ Staged'
    BY <2>1 DEF Traced, Staged, Pending, Selected, Exists, Ancestor, Manifest, Extracted
  <2> QED
    BY <2>2, <2>3
<1>6. CASE UNCHANGED vars
  <2>1. Types' /\ Dated' /\ Rooted' /\ Restored' /\ DestinationWhole' /\ RootsWhole'
    BY <1>6 DEF vars, Types, Dated, Rooted, Restored, DestinationWhole, RootsWhole, Exists, Selected
  <2>2. Traced' /\ Staged'
    BY <1>6 DEF vars, Traced, Staged, Pending, Selected, Exists, Ancestor, Manifest, Extracted
  <2> QED
    BY <2>1, <2>2
<1> QED
  BY <1>1, <1>2, <1>3, <1>4, <1>5, <1>6 DEF Others

\* The invariant is inductive.
LEMMA NextInv == IInv /\ [Next]_vars => IInv'
BY PlanSteps, ExtractSteps, PublishSteps, ExchangeSteps, MergeSteps, OtherSteps DEF Next, Step

THEOREM Invariance == Spec => []IInv
BY InitInv, NextInv, PTL DEF Spec

\* Nothing is published by the step that plans.
LEMMA PlanId == Types /\ [Next]_vars => UNCHANGED <<disk, content>> \/ plan'.id = plan.id
<1> SUFFICES ASSUME Types, [Next]_vars PROVE UNCHANGED <<disk, content>> \/ plan'.id = plan.id
  OBVIOUS
<1> USE DEF vars, target, archive, request, history
<1>1. CASE \/ \E S \in SUBSET Paths : Start(S)
           \/ List \/ Plan \/ Confirm \/ PlaceSafe \/ PlaceOriginal \/ RefuseOriginal
  BY <1>1 DEF Start, List, Plan, Confirm, PlaceSafe, PlaceOriginal, RefuseOriginal
<1>2. CASE \/ Check \/ Verify \/ Recheck
           \/ \E lost \in {{}} \cup {{p} : p \in Paths} : Extract(lost)
           \/ ClearTarget \/ PublishDirectory \/ Fail
  BY <1>2 DEF Check, Verify, Recheck, Extract, ClearTarget, PublishDirectory, Fail
<1>3. CASE \/ \E p \in Paths : PublishOriginalPath(p) \/ MergeEntry(p) \/ EnterDirectory(p)
           \/ LeaveDirectory \/ MergeDone
  BY <1>3 DEF PublishOriginalPath, MergeEntry, EnterDirectory, LeaveDirectory, MergeDone
<1>4. CASE Others \/ UNCHANGED vars
  BY <1>4 DEF Others, MakeArchive, DeleteArchive, Write, WriteTarget
<1> QED
  BY <1>1, <1>2, <1>3, <1>4 DEF Next, Step

\* What a restore publishes, entry by entry, is of the archive it planned
\* from, though it extracts by name.
THEOREM PublishedTheorem == Spec => PublishesPlanned
<1>1. IInv /\ [Next]_vars =>
        [\A p \in Paths :
           /\ disk'[p].from \in Ids \ {disk[p].from} => disk'[p].from = plan.id
           /\ content'[p].from \in Ids => content'[p].from = plan.id]_vars
  <2> SUFFICES ASSUME IInv, [Next]_vars, NEW p \in Paths
               PROVE  /\ disk'[p].from \in Ids \ {disk[p].from} => disk'[p].from = plan.id
                      /\ content'[p].from \in Ids => content'[p].from = plan.id
    OBVIOUS
  <2>1. IInv'
    BY NextInv
  <2>2. UNCHANGED <<disk, content>> \/ plan'.id = plan.id
    BY PlanId DEF IInv
  <2>3. CASE UNCHANGED <<disk, content>>
    BY <2>3 DEF IInv, Dated
  <2>4. CASE plan'.id = plan.id
    BY <2>1, <2>4 DEF IInv, Dated
  <2> QED
    BY <2>2, <2>3, <2>4
<1> QED
  BY <1>1, Invariance, PTL DEF Spec, PublishesPlanned

\* A published safe restore is the whole selection of the planned archive.
THEOREM DestinationTheorem == Spec => []DestinationWhole
<1>1. IInv => DestinationWhole
  BY DEF IInv
<1> QED
  BY <1>1, Invariance, PTL

\* At every instant an original path is as it was, or is what was planned: all
\* selected entries as archived, and above them directories that Borg has made
\* and not restored (publish_original_path, extract).
THEOREM RootsTheorem == Spec => []RootsWhole
<1>1. IInv => RootsWhole
  BY DEF IInv
<1> QED
  BY <1>1, Invariance, PTL
----------------------------------------------------------------------------
(* The account of a merge, and what the roots of an original path cover    *)

\* A tree with nothing below what is no directory.
Tidy(t) == \A p \in Paths : Exists(t, p) => \A q \in Above(p) : t[q].kind = "dir"

MoreTypes ==
  /\ dest \in {"absent", "empty", "occupied", "unsafe", "restored"}
  /\ at \in Paths \cup {<<>>}
  /\ seen \in [Paths -> Nodes] /\ touched \subseteq Paths /\ writes \in 0..MaxWrites

\* Trees stay trees: what stands below / until an original path is exchanged,
\* what Borg extracts, and what a merge has not placed yet.
Shapes ==
  /\ Tidy(seen)
  /\ done = {} => Tidy(disk)
  /\ \A i \in Ids, p \in Paths :
       tree[i][p] # "absent" => \A q \in Above(p) : tree[i][q] \in {"absent", "dir"}
  /\ pc \in {"verify", "recheck"} \/ (pc = "publish" /\ mode = "overwrite") => Tidy(staging)

\* Nothing but the directories above it is planned outside of the selection.
Planned ==
  /\ pc = "confirm" => mode = "overwrite"
  /\ pc = "idle" => plan = NoPlan
  /\ \A p \in Paths : plan.manifest[p] \notin {"absent", "dir"} => Selected(p)
  /\ \A p \in Paths : plan.manifest[p] # "absent" => Selected(p) \/ Ancestor(p)

\* A merge is in a staged directory, and has not lost the directories on its
\* way without somebody else's doing.
Inside ==
  /\ pc \notin {"publish", "done", "failed"} => at = <<>>
  /\ pc = "publish" /\ at # <<>> =>
       /\ mode = "overwrite"
       /\ staging[at].kind = "dir"
       /\ \A q \in Above(at) \cup {at} : q \in touched \/ disk[q].kind = "dir"

\* Every selected entry is still staged as planned, or is in its place.
Merged ==
  /\ pc = "recheck" => \A p \in Paths : staging[p].kind = plan.manifest[p]
  /\ mode = "overwrite" /\ pc \in {"publish", "done"} =>
       \A p \in Paths :
         /\ Exists(staging, p) =>
              /\ pc = "publish" /\ staging[p].kind = plan.manifest[p]
              /\ Selected(p) => staging[p].from = plan.id
         /\ Selected(p) /\ p \notin touched /\ plan.manifest[p] # "absent" =>
              Exists(staging, p) \/ disk[p] = [kind |-> plan.manifest[p], from |-> plan.id]

\* The roots hold every selected path, and beside them only what was missing.
Exchanged ==
  /\ mode = "original" /\ pc \in {"check", "extract", "verify", "recheck", "publish", "done"} =>
       \A s \in sel : \E r \in roots : Matches(s, r)
  /\ \A r \in roots : Selected(r) \/ ~Exists(seen, r)
  /\ mode = "original" /\ pc = "done" => done = roots
  /\ \A r \in done, p \in Paths :
       Matches(p, r) /\ p \notin touched /\ Selected(p) /\ Exists(disk, p) => disk[p].from = plan.id

Account == MoreTypes /\ Shapes /\ Planned /\ Inside /\ Merged /\ Exchanged

\* A path is below itself, and being below carries over.
LEMMA Below ==
  ASSUME NEW p \in Paths, NEW q \in Paths
  PROVE  /\ Matches(p, p)
         /\ Matches(p, q) <=> Len(q) <= Len(p) /\ \A n \in 1..Len(q) : q[n] = p[n]
         /\ Matches(p, q) <=> p = q \/ q \in Above(p)
         /\ q \in Above(p) => Len(q) < Len(p)
<1>1. p \in Seq(STRING) /\ q \in Seq(STRING)
  BY PathAssumption
<1>2. ASSUME NEW a \in Seq(STRING), NEW b \in Seq(STRING)
      PROVE  Matches(a, b) <=> Len(b) <= Len(a) /\ \A n \in 1..Len(b) : b[n] = a[n]
  <2>1. Len(b) <= Len(a) =>
          /\ SubSeq(a, 1, Len(b)) \in Seq(STRING) /\ Len(SubSeq(a, 1, Len(b))) = Len(b)
          /\ \A n \in 1..Len(b) : SubSeq(a, 1, Len(b))[n] = a[n]
    OBVIOUS
  <2>2. Len(b) <= Len(a) /\ (\A n \in 1..Len(b) : b[n] = a[n]) => SubSeq(a, 1, Len(b)) = b
    BY <2>1
  <2> QED
    BY <2>1, <2>2 DEF Matches
<1>3. Matches(p, p)
  BY <1>1, <1>2
<1>4. Matches(p, q) /\ Len(p) <= Len(q) => p = q
  <2> SUFFICES ASSUME Matches(p, q), Len(p) <= Len(q) PROVE p = q
    OBVIOUS
  <2>1. Len(p) = Len(q) /\ \A n \in 1..Len(q) : q[n] = p[n]
    BY <1>1, <1>2
  <2> QED
    BY <1>1, <2>1
<1>5. Len(p) \in Nat /\ Len(q) \in Nat
  BY <1>1
<1> QED
  BY <1>1, <1>2, <1>3, <1>4, <1>5 DEF Above

LEMMA Transitive ==
  ASSUME NEW p \in Paths, NEW q \in Paths, NEW r \in Paths, Matches(p, q), Matches(q, r)
  PROVE  Matches(p, r)
<1>1. Len(p) \in Nat /\ Len(q) \in Nat /\ Len(r) \in Nat
  BY PathAssumption
<1> QED
  BY <1>1, Below

\* What is in a directory is longer by its name.
LEMMA Entry ==
  ASSUME NEW p \in Paths, NEW d \in Paths \cup {<<>>}, In(p, d)
  PROVE  Len(p) = Len(d) + 1
<1>1. d \in Seq(STRING) /\ p \in Seq(STRING)
  <2>1. <<>> \in Seq(STRING)
    OBVIOUS
  <2> QED
    BY <2>1, PathAssumption
<1>2. Len(p) >= 1 /\ p[Len(p)] \in STRING
  <2>1. p # <<>>
    BY PathAssumption
  <2> QED
    BY <1>1, <2>1
<1>3. Len(Append(d, p[Len(p)])) = Len(d) + 1
  BY <1>1, <1>2
<1> QED
  BY <1>3 DEF In

\* The directory a directory is in.
LEMMA Parent ==
  ASSUME NEW d \in Paths
  PROVE  LET e == SubSeq(d, 1, Len(d) - 1)
         IN  e = <<>> \/ (e \in Above(d) /\ Above(e) \subseteq Above(d))
<1> DEFINE e == SubSeq(d, 1, Len(d) - 1)
<1>1. d \in Seq(STRING) /\ d # <<>>
  BY PathAssumption
<1>2. Len(d) \in Nat /\ Len(d) >= 1
  BY <1>1
<1>3. CASE Len(d) = 1
  <2>1. e = <<>>
    BY <1>1, <1>3
  <2> QED
    BY <2>1
<1>4. CASE Len(d) > 1
  <2>1. Len(d) - 1 \in 1..Len(d)
    BY <1>2, <1>4
  <2>2. e \in Paths
    BY <2>1, PathAssumption
  <2>3. e \in Seq(STRING) /\ Len(e) = Len(d) - 1 /\ \A n \in 1..Len(e) : e[n] = d[n]
    BY <1>1, <1>2, <1>4
  <2> HIDE DEF e
  <2>4. Matches(d, e) /\ e # d
    BY <1>2, <2>2, <2>3, Below
  <2>5. \A q \in Above(e) : q \in Above(d)
    <3> SUFFICES ASSUME NEW q \in Above(e) PROVE q \in Above(d)
      OBVIOUS
    <3>1. q \in Paths /\ Matches(e, q) /\ Len(q) < Len(e)
      BY <2>2, Below DEF Above
    <3>2. Matches(d, q)
      BY <2>2, <2>4, <3>1, Transitive
    <3>3. Len(q) \in Nat
      BY <3>1, PathAssumption
    <3> QED
      BY <1>2, <2>3, <3>1, <3>2, <3>3 DEF Above
  <2> QED
    BY <2>2, <2>4, <2>5 DEF Above, e
<1> QED
  BY <1>2, <1>3, <1>4

\* Of the paths above one there is a shortest.
LEMMA Shortest ==
  ASSUME NEW S \in SUBSET Paths, NEW p \in Paths, NEW x \in S, Matches(p, x)
  PROVE  \E r \in S : Matches(p, r) /\ \A q \in S : Matches(p, q) => Len(r) <= Len(q)
<1> DEFINE L == {Len(q) : q \in {q \in S : Matches(p, q)}}
<1>1. L \subseteq Nat /\ Len(x) \in L
  BY PathAssumption
<1> HIDE DEF L
<1>2. PICK m \in L : \A n \in L : m <= n
  <2>1. IsWellFoundedOn(OpToRel(<, Nat), Nat)
    BY NatLessThanWellFounded
  <2>2. PICK m \in L : \A n \in L : <<n, m>> \notin OpToRel(<, Nat)
    BY <1>1, <2>1, WFMin
  <2>3. \A n \in L : ~(n < m) /\ n \in Nat /\ m \in Nat
    BY <1>1, <2>2 DEF OpToRel
  <2> QED
    BY <2>3
<1>3. PICK r \in S : Matches(p, r) /\ Len(r) = m
  BY <1>2 DEF L
<1>4. \A q \in S : Matches(p, q) => Len(q) \in L
  BY DEF L
<1> QED
  BY <1>2, <1>3, <1>4

\* What minimal_restore_paths keeps covers what it was given.
LEMMA MinimalCovers ==
  ASSUME NEW S \in SUBSET Paths, NEW p \in S
  PROVE  \E r \in Minimal(S) : Matches(p, r)
<1>1. p \in Paths /\ Matches(p, p)
  BY Below
<1>2. PICK r \in S : Matches(p, r) /\ \A q \in S : Matches(p, q) => Len(r) <= Len(q)
  BY <1>1, Shortest
<1>3. \A q \in S : Matches(r, q) => q = r
  <2> SUFFICES ASSUME NEW q \in S, Matches(r, q) PROVE q = r
    OBVIOUS
  <2>1. Matches(p, q)
    BY <1>1, <1>2, Transitive
  <2>2. Len(r) <= Len(q) /\ Len(r) \in Nat /\ Len(q) \in Nat
    BY <1>2, <2>1, PathAssumption
  <2>3. r = q \/ Len(q) < Len(r)
    BY Below
  <2> QED
    BY <2>2, <2>3
<1> QED
  BY <1>2, <1>3 DEF Minimal

----------------------------------------------------------------------------
(* The account is kept                                                     *)

LEMMA InitAccount == Init => Account
<1> SUFFICES ASSUME Init PROVE Account
  OBVIOUS
<1>1. Tidy(disk)
  <2>1. CASE disk = Empty
    BY <2>1, EmptyType DEF Tidy
  <2>2. ASSUME NEW d \in Disks, disk = [p \in Paths |-> [kind |-> d[p], from |-> Here]]
        PROVE  Tidy(disk)
    <3>1. \A p \in Paths : disk[p].kind = d[p] /\ Above(p) \subseteq Paths
      BY <2>2 DEF Above
    <3> QED
      BY <3>1, ShapeAssumption DEF Tidy, Exists
  <2> QED
    BY <2>1, <2>2 DEF Init
<1>2. MoreTypes
  BY InitInv, BoundAssumption DEF Init, IInv, Types, MoreTypes
<1>3. Shapes
  BY <1>1 DEF Init, Shapes
<1> QED
  BY <1>2, <1>3 DEF Init, Account, Planned, NoPlan, Inside, Merged, Exchanged

\* The last directory found missing, on the way up from a selected path.
LEMMA HasRoot ==
  ASSUME NEW s \in Paths
  PROVE  /\ \E r \in Root(s) : Matches(s, r)
         /\ Root(s) \subseteq Paths
         /\ \A r \in Root(s) : r = s \/ ~Exists(disk, r)
<1>1. Missing(s) \subseteq Paths /\ \A m \in Missing(s) : Matches(s, m) /\ ~Exists(disk, m)
  BY Below DEF Missing, Above
<1>2. CASE Missing(s) = {}
  BY <1>2, Below DEF Root
<1>3. CASE Missing(s) # {}
  <2>1. PICK x \in Missing(s) : TRUE
    BY <1>3
  <2>2. PICK r \in Missing(s) :
          Matches(s, r) /\ \A q \in Missing(s) : Matches(s, q) => Len(r) <= Len(q)
    BY <1>1, <2>1, Shortest
  <2>3. ASSUME NEW m \in Missing(s) PROVE Matches(m, r)
    <3>1. m \in Paths /\ r \in Paths /\ Matches(s, m) /\ Len(r) <= Len(m)
      BY <1>1, <2>2
    <3>2. Matches(m, r) \/ Matches(r, m)
      BY <1>1, <2>2, <3>1, Prefixes
    <3>3. Len(m) \in Nat /\ Len(r) \in Nat
      BY <3>1, PathAssumption
    <3> QED
      BY <3>1, <3>2, <3>3, Below
  <2>4. r \in Root(s)
    BY <2>2, <2>3 DEF Root
  <2> QED
    BY <1>1, <2>2, <2>4 DEF Root
<1> QED
  BY <1>2, <1>3

\* Planning and placing.
LEMMA PlanAccount ==
  ASSUME IInv, Account,
         \/ \E S \in SUBSET Paths : Start(S)
         \/ List \/ Plan \/ Confirm \/ PlaceSafe \/ PlaceOriginal \/ RefuseOriginal
  PROVE  Account'
<1> USE DEF IInv, Account, target, archive, request, history
<1>1. UNCHANGED <<disk, target, archive, mode, staging, done, at, touched, writes>>
      /\ seen' \in {seen, disk}
  BY DEF Start, List, Plan, Confirm, PlaceSafe, PlaceOriginal, RefuseOriginal
<1>2. /\ pc \in {"idle", "list", "plan", "confirm", "place"}
      /\ pc' \in {"list", "plan", "confirm", "place", "check", "refused"}
      /\ done = {} /\ roots = {}
  BY DEF Start, List, Plan, Confirm, PlaceSafe, PlaceOriginal, RefuseOriginal, Rooted
<1>3. MoreTypes'
  BY <1>1 DEF MoreTypes, Types
<1>4. Shapes'
  BY <1>1, <1>2 DEF Shapes, Tidy, Exists
<1>5. Planned'
  <2>1. CASE \E S \in SUBSET Paths : Start(S)
    <3>1. plan = NoPlan /\ plan' = plan /\ pc' = "list"
      BY <2>1 DEF Start, Planned
    <3> QED
      BY <3>1 DEF Planned, NoPlan
  <2>2. CASE List
    <3>1. plan'.manifest = plan.manifest /\ sel' = sel /\ pc' = "plan"
      BY <2>2 DEF List, Types
    <3> QED
      BY <3>1 DEF Planned, Selected, Ancestor
  <2>3. CASE Plan
    <3>1. plan'.manifest = Manifest(tree[live]) /\ UNCHANGED <<sel, mode>>
          /\ pc' = IF mode = "overwrite" THEN "confirm" ELSE "place"
      BY <2>3 DEF Plan, Types
    <3> QED
      BY <3>1 DEF Planned, Manifest, Selected, Ancestor
  <2>4. CASE Confirm \/ PlaceSafe \/ PlaceOriginal \/ RefuseOriginal
    <3>1. UNCHANGED <<plan, sel>> /\ pc \in {"confirm", "place"} /\ pc' \in {"check", "refused"}
      BY <2>4 DEF Confirm, PlaceSafe, PlaceOriginal, RefuseOriginal
    <3> QED
      BY <3>1 DEF Planned, Selected, Ancestor
  <2> QED
    BY <2>1, <2>2, <2>3, <2>4
<1>6. Inside' /\ Merged'
  BY <1>1, <1>2 DEF Inside, Merged
<1>7. Exchanged'
  <2>1. CASE PlaceOriginal
    <3> DEFINE U == UNION {Root(s) : s \in sel}
    <3>1. roots' = Minimal(U) /\ seen' = disk /\ UNCHANGED <<sel, disk>> /\ pc' = "check"
      BY <2>1 DEF PlaceOriginal
    <3>2. U \subseteq Paths /\ sel \subseteq Paths
      BY HasRoot DEF Types
    <3>3. ASSUME NEW s \in sel PROVE \E r \in roots' : Matches(s, r)
      <4>1. PICK x \in U : Matches(s, x)
        BY <3>2, HasRoot
      <4> HIDE DEF U
      <4>2. PICK r \in Minimal(U) : Matches(x, r)
        BY <3>2, MinimalCovers
      <4>3. r \in Paths
        BY <3>2, <4>2 DEF Minimal
      <4> QED
        BY <3>1, <3>2, <4>1, <4>2, <4>3, Transitive
    <3>4. ASSUME NEW r \in roots' PROVE Selected(r) \/ ~Exists(disk, r)
      <4>1. PICK s \in sel : r \in Root(s)
        BY <3>1 DEF Minimal
      <4> QED
        BY <3>2, <4>1, HasRoot, Below DEF Selected
    <3> QED
      BY <1>1, <1>2, <3>1, <3>3, <3>4 DEF Exchanged, Selected, Exists
  <2>2. CASE ~PlaceOriginal
    <3>1. roots' = {} /\ (pc' = "check" => mode # "original")
      BY <1>2, <2>2 DEF Start, List, Plan, Confirm, PlaceSafe, RefuseOriginal, Planned
    <3> QED
      BY <1>1, <1>2, <3>1 DEF Exchanged
  <2> QED
    BY <2>1, <2>2
<1> QED
  BY <1>3, <1>4, <1>5, <1>6, <1>7

\* What Borg extracts is a tree, though it may fall short.
LEMMA ExtractedTidy ==
  ASSUME NEW id \in Ids, NEW lost \in SUBSET Paths,
         \A p \in Paths :
           tree[id][p] # "absent" => \A q \in Above(p) : tree[id][q] \in {"absent", "dir"}
  PROVE  Tidy([p \in Paths |-> IF \E q \in lost : Matches(p, q) THEN None ELSE Extracted(id)[p]])
<1> DEFINE t == [p \in Paths |-> IF \E q \in lost : Matches(p, q) THEN None ELSE Extracted(id)[p]]
<1> SUFFICES ASSUME NEW p \in Paths, Exists(t, p), NEW q \in Above(p)
             PROVE  t[q].kind = "dir"
  BY DEF Tidy
<1>1. q \in Paths /\ Matches(p, q)
  BY DEF Above
<1>2. t[p] = Extracted(id)[p] /\ Extracted(id)[p] # None
  BY DEF Exists, None
<1>3. t[q] = Extracted(id)[q]
  <2>1. ASSUME NEW x \in lost, Matches(q, x) PROVE FALSE
    <3>1. Matches(p, x)
      BY <1>1, <2>1, Transitive
    <3> QED
      BY <2>1, <3>1 DEF Exists, None
  <2> QED
    BY <1>1, <2>1
<1>4. PICK x \in Paths : Matches(x, p) /\ Selected(x) /\ tree[id][x] # "absent"
  BY <1>2, Below DEF Extracted, Above
<1>5. q \in Above(x)
  <2>1. Matches(x, q) /\ Len(q) < Len(p) /\ Len(p) <= Len(x)
    BY <1>1, <1>4, Transitive, Below
  <2>2. Len(p) \in Nat /\ Len(q) \in Nat /\ Len(x) \in Nat
    BY <1>1, PathAssumption
  <2> QED
    BY <1>1, <2>1, <2>2 DEF Above
<1>6. tree[id][q] \in {"absent", "dir"}
  BY <1>4, <1>5
<1>7. Extracted(id)[q].kind = "dir"
  BY <1>1, <1>4, <1>5, <1>6 DEF Extracted
<1> QED
  BY <1>3, <1>7

LEMMA ExtractAccount ==
  ASSUME IInv, Account,
         \/ Check \/ Verify \/ Recheck
         \/ \E lost \in {{}} \cup {{p} : p \in Paths} : Extract(lost)
  PROVE  Account'
<1> USE DEF IInv, Account, target, archive, request, history
<1>1. UNCHANGED <<disk, target, archive, request, plan, roots, done, at, seen, touched, writes>>
  BY DEF Check, Verify, Recheck, Extract
<1>2. /\ pc \in {"check", "extract", "verify", "recheck"}
      /\ pc' \in {"extract", "verify", "recheck", "publish"}
      /\ done = {} /\ at = <<>>
      /\ pc' = "verify" <=> pc = "extract"
      /\ pc' = "recheck" <=> pc = "verify"
      /\ pc' = "publish" <=> pc = "recheck"
  BY DEF Check, Verify, Recheck, Extract, Rooted, Inside
<1>3. MoreTypes' /\ Planned' /\ Inside' /\ Exchanged'
  BY <1>1, <1>2 DEF MoreTypes, Planned, Inside, Exchanged, Selected, Ancestor, Exists
<1>4. Shapes'
  <2>1. ASSUME NEW lost \in {{}} \cup {{p} : p \in Paths}, Extract(lost)
        PROVE  Tidy(staging')
    <3>1. live \in Ids
      BY <2>1 DEF Extract, Types, NoId, Ids
    <3>2. lost \subseteq Paths
      OBVIOUS
    <3> QED
      BY <2>1, <3>1, <3>2, ExtractedTidy DEF Extract, Shapes
  <2>2. pc \in {"verify", "recheck"} => Tidy(staging) /\ staging' = staging
    BY DEF Shapes, Check, Verify, Recheck, Extract
  <2>3. pc' \in {"verify", "recheck", "publish"} => Tidy(staging')
    BY <1>2, <2>1, <2>2 DEF Check, Verify, Recheck, Extract
  <2> QED
    BY <1>1, <1>2, <2>3 DEF Shapes, Tidy, Exists
<1>5. Merged'
  <2>1. CASE pc' \in {"extract", "verify"}
    BY <2>1 DEF Merged
  <2>2. CASE pc' = "recheck"
    BY <1>1, <1>2, <2>2 DEF Merged, Check, Verify, Recheck, Extract
  <2>3. CASE pc' = "publish"
    <3>1. /\ live = plan.id /\ plan.id \in Ids /\ pc = "recheck" /\ UNCHANGED staging
          /\ \A p \in Paths : staging[p] \in {None, Extracted(plan.id)[p]}
      BY <1>2, <2>3 DEF Check, Verify, Recheck, Extract, Unchanged, Traced, Dated, Working
    <3>2. \A p \in Paths : staging[p].kind = plan.manifest[p]
      BY <3>1 DEF Merged
    <3>3. plan.manifest = Manifest(tree[plan.id])
      BY <3>1 DEF Traced, Working
    <3>4. ASSUME NEW p \in Paths, Selected(p), Exists(staging, p)
          PROVE  staging[p].from = plan.id
      <4>1. plan.manifest[p] = tree[plan.id][p] /\ plan.manifest[p] # "absent"
        BY <3>2, <3>3, <3>4 DEF Manifest, Exists
      <4> QED
        BY <3>1, <3>4, <4>1 DEF Extracted, None, Exists
    <3> QED
      BY <1>1, <2>3, <3>1, <3>2, <3>4 DEF Merged, Exists, Selected
  <2> QED
    BY <1>2, <2>1, <2>2, <2>3
<1> QED
  BY <1>3, <1>4, <1>5

LEMMA SafeAccount ==
  ASSUME IInv, Account, ClearTarget \/ PublishDirectory
  PROVE  Account'
<1> USE DEF IInv, Account, target, archive, request, history
<1>1. /\ UNCHANGED <<disk, archive, request, plan, roots, done, at, seen, touched, writes>>
      /\ mode \in {"safe", "helper"} /\ pc \in {"publish", "rename"} /\ pc' \in {"rename", "done"}
      /\ dest' \in {"absent", "restored"}
  BY DEF ClearTarget, PublishDirectory, Rooted
<1>2. done = {} /\ roots = {} /\ at = <<>>
  BY <1>1 DEF Rooted, Types, Inside
<1> QED
  BY <1>1, <1>2 DEF MoreTypes, Shapes, Tidy, Exists, Planned, Selected, Ancestor,
     Inside, Merged, Exchanged

LEMMA ExchangeAccount ==
  ASSUME IInv, Account, NEW r \in Paths, PublishOriginalPath(r)
  PROVE  Account'
<1> USE DEF IInv, Account, target, archive, request, history
<1>1. /\ UNCHANGED <<target, archive, request, plan, roots, at, seen, writes>>
      /\ pc = "publish" /\ pc' = (IF done' = roots THEN "done" ELSE pc) /\ mode = "original"
      /\ r \in roots /\ r \notin done /\ done' = done \cup {r}
      /\ disk' = Moved(staging, disk, r)
      /\ touched' = {p \in touched : ~Matches(p, r)}
  BY DEF PublishOriginalPath
<1>2. MoreTypes' /\ Shapes' /\ Planned' /\ Inside' /\ Merged'
  BY <1>1 DEF MoreTypes, Shapes, Tidy, Exists, Planned, Selected, Ancestor, Inside, Merged
<1>3. ASSUME NEW q \in done', NEW p \in Paths, Matches(p, q), p \notin touched', Selected(p),
             Exists(disk', p)
      PROVE  disk'[p].from = plan.id
  <2>1. disk'[p] = IF Matches(p, r) THEN staging[p] ELSE disk[p]
    BY <1>1 DEF Moved
  <2>2. CASE q = r
    <3>1. \A d \in done : ~Matches(p, d)
      BY <1>1, <1>3, <2>2, OneRoot DEF Types
    <3>2. Pending(p) /\ disk'[p] = staging[p]
      BY <1>1, <1>3, <2>1, <2>2, <3>1 DEF Pending
    <3> QED
      BY <1>1, <1>3, <3>2 DEF Staged, Exists
  <2>3. CASE q # r
    <3>1. q \in done /\ q \in roots /\ ~Matches(p, r)
      BY <1>1, <1>3, <2>3, OneRoot DEF Types
    <3> QED
      BY <1>1, <1>3, <2>1, <3>1 DEF Exchanged, Exists
  <2> QED
    BY <2>2, <2>3
<1>4. Exchanged'
  BY <1>1, <1>3 DEF Exchanged, Selected, Exists
<1> QED
  BY <1>2, <1>4

\* A merge of one entry: what it replaces on disk is nothing, an empty
\* directory, or what is no directory.
LEMMA EntryAccount ==
  ASSUME IInv, Account, NEW p \in Paths, MergeEntry(p)
  PROVE  Account'
<1> USE DEF IInv, Account, target, archive, request, history
<1>1. /\ UNCHANGED <<target, archive, pc, request, plan, roots, done, at, history>>
      /\ pc = "publish" /\ mode = "overwrite" /\ In(p, at) /\ Exists(staging, p) /\ Reachable(p)
      /\ disk' = Moved(staging, disk, p) /\ staging' = Moved(Empty, staging, p)
  BY DEF MergeEntry, Merging
<1>2. \A q \in Paths : /\ disk'[q] = IF Matches(q, p) THEN staging[q] ELSE disk[q]
                       /\ staging'[q] = IF Matches(q, p) THEN None ELSE staging[q]
  BY <1>1 DEF Moved, Empty
<1>3. done = {} /\ roots = {}
  BY <1>1 DEF Rooted, Types
<1>4. Tidy(disk) /\ Tidy(staging)
  BY <1>1, <1>3 DEF Shapes
<1>5. ASSUME NEW q \in Paths, Matches(q, p), Exists(disk, q)
      PROVE  q = p /\ (staging[p].kind = "dir" => disk[p].kind = "dir")
  <2>1. q = p \/ p \in Above(q)
    BY <1>5, Below
  <2>2. p \in Above(q) => disk[p].kind = "dir" /\ ~Bare(disk, p)
    BY <1>4, <1>5 DEF Tidy, Bare
  <2>3. ~(p \in Above(q))
    BY <2>2 DEF MergeEntry, Exists
  <2> QED
    BY <1>5, <2>1, <2>3 DEF MergeEntry
<1>6. \A q \in Paths : Above(q) \subseteq Paths
  BY DEF Above
<1>7. Tidy(disk')
  <2> SUFFICES ASSUME NEW x \in Paths, Exists(disk', x), NEW q \in Above(x)
               PROVE  disk'[q].kind = "dir"
    BY DEF Tidy
  <2>1. q \in Paths /\ Matches(x, q)
    BY DEF Above
  <2>2. CASE Matches(q, p)
    <3>1. Matches(x, p)
      BY <2>1, <2>2, Transitive
    <3>2. Exists(staging, x)
      BY <1>2, <3>1 DEF Exists
    <3> QED
      BY <1>2, <1>4, <2>1, <2>2, <3>2 DEF Tidy
  <2>3. CASE ~Matches(q, p) /\ Matches(x, p)
    <3>1. q \in Above(p)
      <4>1. Matches(p, q)
        BY <2>1, <2>3, Prefixes
      <4> QED
        BY <2>1, <2>3, <4>1, Below
    <3> QED
      BY <1>1, <1>2, <2>1, <2>3, <3>1 DEF Reachable
  <2>4. CASE ~Matches(q, p) /\ ~Matches(x, p)
    BY <1>2, <1>4, <2>1, <2>4 DEF Tidy, Exists
  <2> QED
    BY <2>2, <2>3, <2>4
<1>8. Tidy(staging')
  <2> SUFFICES ASSUME NEW x \in Paths, Exists(staging', x), NEW q \in Above(x)
               PROVE  staging'[q].kind = "dir"
    BY DEF Tidy
  <2>1. q \in Paths /\ Matches(x, q)
    BY DEF Above
  <2>2. ~Matches(x, p) /\ Exists(staging, x)
    BY <1>2 DEF Exists, None
  <2>3. ~Matches(q, p)
    BY <2>1, <2>2, Transitive
  <2> QED
    BY <1>2, <1>4, <2>1, <2>2, <2>3 DEF Tidy
<1>9. MoreTypes' /\ Planned' /\ Exchanged'
  BY <1>1, <1>3 DEF MoreTypes, Planned, Selected, Ancestor, Exchanged
<1>10. Shapes'
  BY <1>1, <1>3, <1>7, <1>8 DEF Shapes, Tidy, Exists
<1>11. Inside'
  <2>1. ASSUME at # <<>>, NEW q \in Above(at) \cup {at} PROVE q \in Paths /\ ~Matches(q, p)
    <3>1. at \in Paths /\ q \in Paths
      BY <2>1 DEF MoreTypes, Above
    <3>2. Len(p) = Len(at) + 1
      BY <1>1, <3>1, Entry
    <3>3. Len(q) <= Len(at)
      BY <2>1, <3>1, Below, PathAssumption
    <3>4. Len(q) \in Nat /\ Len(at) \in Nat /\ Len(p) \in Nat
      BY <3>1, PathAssumption
    <3> QED
      BY <3>1, <3>2, <3>3, <3>4, Below
  <2> QED
    BY <1>1, <1>2, <2>1 DEF Inside
<1>12. Merged'
  <2>1. ASSUME NEW q \in Paths, Exists(staging', q)
        PROVE  staging'[q] = staging[q] /\ Exists(staging, q)
    BY <1>2, <2>1 DEF Exists, None
  <2>2. ASSUME NEW q \in Paths, Selected(q), q \notin touched, plan.manifest[q] # "absent",
               ~Exists(staging', q)
        PROVE  disk'[q] = [kind |-> plan.manifest[q], from |-> plan.id]
    <3>1. CASE ~Matches(q, p)
      BY <1>1, <1>2, <2>2, <3>1 DEF Merged, Exists
    <3>2. CASE Matches(q, p)
      <4>1. Exists(staging, q)
        <5>1. CASE Exists(disk, q)
          BY <1>1, <1>5, <3>2, <5>1
        <5>2. CASE ~Exists(disk, q)
          <6>1. disk[q] # [kind |-> plan.manifest[q], from |-> plan.id]
            BY <2>2, <5>2 DEF Exists
          <6> QED
            BY <1>1, <2>2, <6>1 DEF Merged
        <5> QED
          BY <5>1, <5>2
      <4>2. staging[q].kind = plan.manifest[q] /\ staging[q].from = plan.id /\ staging[q] \in Nodes
        BY <1>1, <2>2, <4>1 DEF Merged, Types
      <4>3. staging[q] = [kind |-> staging[q].kind, from |-> staging[q].from]
        BY <4>2 DEF Nodes
      <4> QED
        BY <1>2, <3>2, <4>2, <4>3
    <3> QED
      BY <3>1, <3>2
  <2> QED
    BY <1>1, <2>1, <2>2 DEF Merged, Selected, Exists
<1> QED
  BY <1>9, <1>10, <1>11, <1>12

\* The merge goes into a directory, and out of it again.
LEMMA DirectoryAccount ==
  ASSUME IInv, Account,
         (\E p \in Paths : EnterDirectory(p)) \/ LeaveDirectory \/ MergeDone
  PROVE  Account'
<1> USE DEF IInv, Account, target, archive, request, history
<1>1. /\ UNCHANGED <<target, archive, request, plan, roots, done, seen, writes>>
      /\ pc = "publish" /\ mode = "overwrite"
  BY DEF EnterDirectory, LeaveDirectory, MergeDone, Merging
<1>2. done = {} /\ roots = {} /\ Tidy(disk) /\ Tidy(staging)
  BY <1>1 DEF Rooted, Types, Shapes
<1>3. ASSUME NEW p \in Paths, EnterDirectory(p) PROVE Account'
  <2>1. /\ at' = p /\ touched' = touched \ {p} /\ UNCHANGED <<disk, pc, staging>>
        /\ Exists(staging, p) /\ Reachable(p) /\ staging[p].kind = "dir" /\ disk[p].kind = "dir"
    BY <1>3 DEF EnterDirectory, Merging
  <2>2. MoreTypes' /\ Shapes' /\ Planned' /\ Exchanged'
    BY <1>1, <1>2, <2>1 DEF MoreTypes, Shapes, Tidy, Exists, Planned, Selected, Ancestor, Exchanged
  <2>3. Inside'
    BY <1>1, <2>1 DEF Inside, Reachable
  <2>4. Merged'
    BY <1>1, <2>1 DEF Merged, Exists, Selected
  <2> QED
    BY <2>2, <2>3, <2>4
<1>4. CASE LeaveDirectory
  <2> DEFINE e == SubSeq(at, 1, Len(at) - 1)
  <2>1. /\ at \in Paths /\ at' = e /\ Bare(staging, at)
        /\ disk' = IF at \in touched THEN disk ELSE [disk EXCEPT ![at].from = staging[at].from]
        /\ staging' = [staging EXCEPT ![at] = None]
        /\ UNCHANGED <<pc, touched>>
    BY <1>4 DEF LeaveDirectory, MoreTypes
  <2>2. /\ staging[at].kind = "dir"
        /\ \A q \in Above(at) \cup {at} : q \in touched \/ disk[q].kind = "dir"
    BY <1>1, <1>4 DEF LeaveDirectory, Inside
  <2>3. e = <<>> \/ (e \in Above(at) /\ Above(e) \subseteq Above(at))
    BY <2>1, Parent
  <2> HIDE DEF e
  <2>4. /\ \A q \in Paths : disk'[q].kind = disk[q].kind /\ (q # at \/ q \in touched => disk'[q] = disk[q])
        /\ at \notin touched => disk'[at] = [kind |-> disk[at].kind, from |-> staging[at].from]
    BY <2>1 DEF Types, Nodes
  <2>5. \A q \in Paths : staging'[q] = IF q = at THEN None ELSE staging[q]
    BY <2>1 DEF Types
  <2>6. MoreTypes' /\ Planned' /\ Exchanged'
    BY <1>1, <1>2, <2>1, <2>3 DEF MoreTypes, Planned, Selected, Ancestor, Exchanged, Above
  <2>7. Shapes'
    <3>1. Tidy(disk')
      BY <1>2, <2>4 DEF Tidy, Exists, Above
    <3>2. Tidy(staging')
      BY <1>2, <2>1, <2>5 DEF Tidy, Exists, Above, Bare, None
    <3> QED
      BY <1>1, <3>1, <3>2 DEF Shapes, Tidy, Exists
  <2>8. Inside'
    <3>1. e # <<>> => Exists(staging, at) /\ staging[e].kind = "dir" /\ e # at
      BY <1>2, <2>1, <2>2, <2>3 DEF Tidy, Exists, Above
    <3>2. e # <<>> => staging'[e].kind = "dir"
      BY <2>3, <2>5, <3>1 DEF Above
    <3> QED
      BY <1>1, <2>1, <2>2, <2>3, <2>4, <3>2 DEF Inside, Above
  <2>9. Merged'
    <3>1. at \notin touched /\ Selected(at) =>
            disk'[at] = [kind |-> plan.manifest[at], from |-> plan.id]
      BY <1>1, <2>1, <2>2, <2>4 DEF Merged, Exists
    <3> QED
      BY <1>1, <2>1, <2>4, <2>5, <3>1 DEF Merged, Exists, Selected, None
  <2> QED
    BY <2>6, <2>7, <2>8, <2>9
<1>5. CASE MergeDone
  <2>1. /\ staging = Empty /\ pc' = "done" /\ UNCHANGED <<disk, staging, at, touched>>
    BY <1>5 DEF MergeDone
  <2>2. MoreTypes' /\ Shapes' /\ Planned' /\ Inside' /\ Exchanged'
    BY <1>1, <1>2, <2>1 DEF MoreTypes, Shapes, Tidy, Exists, Planned, Selected,
       Ancestor, Inside, Exchanged
  <2>3. Merged'
    BY <1>1, <2>1, EmptyType DEF Merged, Exists, Selected
  <2> QED
    BY <2>2, <2>3
<1> QED
  BY <1>3, <1>4, <1>5

\* A failure, and the others.
LEMMA OtherAccount ==
  ASSUME IInv, Account, Fail \/ Others \/ UNCHANGED vars
  PROVE  Account'
<1> USE DEF IInv, Account, target, archive, request, history
<1>1. CASE Fail
  <2>1. /\ pc \in Working /\ pc' = "failed"
        /\ UNCHANGED <<disk, target, archive, request, plan, roots, done, at, history>>
    BY <1>1 DEF Fail
  <2>2. MoreTypes' /\ Inside' /\ Merged' /\ Exchanged'
    BY <2>1 DEF MoreTypes, Inside, Merged, Exchanged, Selected, Exists
  <2>3. Shapes'
    BY <2>1 DEF Shapes, Tidy, Exists
  <2>4. Planned'
    BY <2>1 DEF Planned, Selected, Ancestor
  <2> QED
    BY <2>2, <2>3, <2>4
<1>2. ASSUME NEW t \in Trees, MakeArchive(t) PROVE Account'
  <2>1. /\ live' \in Ids /\ tree' = [tree EXCEPT ![live'] = t]
        /\ UNCHANGED <<disk, target, pc, request, plan, staging, roots, done, at, history>>
    BY <1>2, BoundAssumption DEF MakeArchive, Types, Ids
  <2>2. \A i \in Ids : tree'[i] \in {tree[i], t}
    BY <2>1 DEF Types
  <2>3. Shapes'
    BY <2>1, <2>2, ShapeAssumption DEF Shapes, Tidy, Exists
  <2> QED
    BY <2>1, <2>3 DEF MoreTypes, Exists, Planned, Selected, Ancestor,
     Inside, Merged, Exchanged
<1>3. CASE DeleteArchive
  BY <1>3 DEF DeleteArchive, MoreTypes, Shapes, Tidy, Exists, Planned, Selected,
     Ancestor, Inside, Merged, Exchanged
<1>4. ASSUME NEW p \in Paths, NEW k \in {"absent", "dir", "file", "link"}, Write(p, k)
      PROVE  Account'
  <2>1. /\ disk' = [disk EXCEPT ![p] = [kind |-> k, from |-> Here]]
        /\ touched' = touched \cup {p} /\ writes' = writes + 1 /\ writes < MaxWrites
        /\ UNCHANGED <<target, archive, pc, request, plan, staging, roots, done, at, seen>>
        /\ Reachable(p)
        /\ IF Exists(disk, p) THEN Bare(disk, p) /\ k = "absent" ELSE k # "absent"
    BY <1>4 DEF Write
  <2>2. \A q \in Paths : disk'[q] = IF q = p THEN [kind |-> k, from |-> Here] ELSE disk[q]
    BY <2>1 DEF Types
  <2>3. MoreTypes' /\ Planned' /\ Merged'
    BY <2>1, <2>2, BoundAssumption DEF MoreTypes, Planned, Selected, Ancestor, Merged, Exists
  <2>4. Inside' /\ Exchanged'
    BY <2>1, <2>2 DEF MoreTypes, Inside, Exchanged, Selected, Exists, Above
  <2>5. Shapes'
    <3>1. Tidy(disk) => Tidy(disk')
      <4> SUFFICES ASSUME Tidy(disk), NEW x \in Paths, Exists(disk', x), NEW q \in Above(x)
                   PROVE  disk'[q].kind = "dir"
        BY DEF Tidy
      <4>1. q \in Paths /\ q # x
        BY DEF Above
      <4>2. CASE x = p
        BY <2>1, <2>2, <4>1, <4>2 DEF Reachable
      <4>3. CASE x # p /\ q = p
        <5>1. Exists(disk, x) /\ disk[p].kind = "dir" /\ ~Bare(disk, p)
          BY <2>2, <4>3 DEF Tidy, Bare, Exists
        <5> QED
          BY <2>1, <5>1 DEF Exists
      <4>4. CASE x # p /\ q # p
        BY <2>2, <4>1, <4>4 DEF Tidy, Exists
      <4> QED
        BY <4>2, <4>3, <4>4
    <3> QED
      BY <2>1, <3>1 DEF Shapes, Tidy, Exists
  <2> QED
    BY <2>3, <2>4, <2>5
<1>5. ASSUME NEW d \in {"absent", "empty", "occupied", "unsafe"}, WriteTarget(d) PROVE Account'
  <2>1. /\ dest' = d /\ writes' = writes + 1 /\ writes < MaxWrites
        /\ UNCHANGED <<disk, content, archive, pc, request, plan, staging, roots, done, at, seen, touched>>
    BY <1>5 DEF WriteTarget
  <2>2. MoreTypes'
    BY <2>1, BoundAssumption DEF MoreTypes
  <2> QED
    BY <2>1, <2>2 DEF Shapes, Tidy, Exists, Planned, Selected, Ancestor,
     Inside, Merged, Exchanged
<1>6. CASE UNCHANGED vars
  BY <1>6 DEF vars, MoreTypes, Shapes, Tidy, Exists, Planned, Selected, Ancestor,
     Inside, Merged, Exchanged
<1> QED
  BY <1>1, <1>2, <1>3, <1>4, <1>5, <1>6 DEF Others

\* The account of every reachable state.
LEMMA AccountInvariance == Spec => []Account
<1>1. IInv /\ Account /\ [Next]_vars => Account'
  BY PlanAccount, ExtractAccount, SafeAccount, ExchangeAccount, EntryAccount, DirectoryAccount,
     OtherAccount DEF Next, Step
<1> QED
  BY <1>1, InitAccount, Invariance, PTL DEF Spec

\* Every variable stays of its type, and the directory a merge is in is staged
\* until the merge is out of it (merge_into_directory).
THEOREM TypesTheorem == Spec => []TypeOK
<1>1. IInv /\ Account => TypeOK
  BY DEF IInv, Account, Types, MoreTypes, Inside, Exists, TypeOK
<1> QED
  BY <1>1, Invariance, AccountInvariance, PTL

\* A restore that ends well has every selected entry of the planned archive in
\* its place, whichever selections lie in others, whatever was there before and
\* whatever others do to other paths (minimal_restore_paths,
\* original_publication_paths, merge_into_directory).
THEOREM DoneTheorem == Spec => []DoneIsRestored
<1>1. ASSUME IInv, Account PROVE DoneIsRestored
  <2> SUFFICES ASSUME pc = "done", mode \in {"overwrite", "original"},
                      NEW p \in Paths, Selected(p), p \notin touched
               PROVE  IF plan.manifest[p] # "absent"
                      THEN disk[p] = [kind |-> plan.manifest[p], from |-> plan.id]
                      ELSE mode = "original" => ~Exists(disk, p)
    BY DEF DoneIsRestored
  <2> USE <1>1 DEF IInv, Account
  <2>1. CASE mode = "overwrite"
    BY <2>1 DEF Merged
  <2>2. CASE mode = "original"
    <3>1. PICK s \in sel : Matches(p, s)
      BY DEF Selected
    <3>2. PICK r \in roots : Matches(s, r)
      BY <2>2 DEF Exchanged
    <3>3. r \in done /\ Matches(p, r)
      BY <2>2, <3>1, <3>2, Transitive DEF Exchanged, Types
    <3>4. disk[p].kind = plan.manifest[p]
      BY <2>2, <3>2, <3>3 DEF RootsWhole
    <3>5. Exists(disk, p) => disk[p].from = plan.id
      BY <3>3 DEF Exchanged
    <3>6. disk[p] = [kind |-> disk[p].kind, from |-> disk[p].from]
      BY DEF Types, Nodes
    <3> QED
      BY <3>4, <3>5, <3>6 DEF Exists
  <2> QED
    BY <2>1, <2>2
<1> QED
  BY <1>1, Invariance, AccountInvariance, PTL

\* Of what stood below / when the restore was placed, its steps replace or
\* change only what is selected, but for the metadata of the directories above
\* it, which a merge sets; and they leave an occupied destination alone
\* (publish_original_path, merge_into_directory, publish_directory).
THEOREM SelectedTheorem == Spec => OnlySelectedIsLost
<1> DEFINE Allowed(p) ==
             \/ Selected(p) \/ ~Exists(seen, p)
             \/ mode = "overwrite" /\ Ancestor(p) /\ disk[p].kind = "dir" /\ disk'[p].kind = "dir"
           Spared ==
             writes' = writes =>
               /\ \A p \in Paths : Exists(disk, p) /\ disk'[p] # disk[p] => Allowed(p)
               /\ dest \in {"occupied", "unsafe"} => dest' = dest
<1>1. ASSUME IInv, Account, Next PROVE Spared
  <2> SUFFICES ASSUME writes' = writes PROVE Spared
    OBVIOUS
  <2> USE <1>1 DEF IInv, Account, target, archive, request, history
  <2>1. ASSUME NEW r \in Paths, PublishOriginalPath(r) PROVE Spared
    <3>1. /\ disk' = Moved(staging, disk, r) /\ dest' = dest /\ r \in roots
      BY <2>1 DEF PublishOriginalPath
    <3>2. ASSUME NEW p \in Paths, disk'[p] # disk[p]
          PROVE  Selected(p) \/ ~Exists(seen, p)
      <4>1. Matches(p, r)
        BY <3>1, <3>2 DEF Moved
      <4>2. CASE Selected(r)
        <5>1. PICK s \in sel : Matches(r, s)
          BY <4>2 DEF Selected
        <5>2. Matches(p, s)
          BY <4>1, <5>1, Transitive DEF Types
        <5> QED
          BY <5>2 DEF Selected
      <4>3. CASE ~Exists(seen, r)
        <5>1. p = r \/ r \in Above(p)
          BY <4>1, Below
        <5> QED
          BY <4>3, <5>1 DEF Shapes, Tidy, Exists
      <4> QED
        BY <3>1, <4>2, <4>3 DEF Exchanged
    <3> QED
      BY <3>1, <3>2
  <2>2. ASSUME NEW q \in Paths, MergeEntry(q) PROVE Spared
    <3>1. /\ disk' = Moved(staging, disk, q) /\ dest' = dest
          /\ pc = "publish" /\ mode = "overwrite" /\ Exists(staging, q)
      BY <2>2 DEF MergeEntry, Merging
    <3>2. ASSUME NEW p \in Paths, Exists(disk, p), disk'[p] # disk[p]
          PROVE  Allowed(p)
      <4>1. Matches(p, q) /\ disk'[p] = staging[p]
        BY <3>1, <3>2 DEF Moved
      <4>2. ~(q \in Above(p))
        <5>1. Tidy(disk)
          BY <3>1 DEF Shapes, Rooted, Types
        <5>2. q \in Above(p) => disk[q].kind = "dir" /\ ~Bare(disk, q)
          BY <3>2, <5>1 DEF Tidy, Bare
        <5> QED
          BY <2>2, <5>2 DEF MergeEntry, Exists
      <4>3. p = q
        BY <4>1, <4>2, Below
      <4>4. staging[p].kind = plan.manifest[p] /\ plan.manifest[p] # "absent"
        BY <3>1, <4>3 DEF Merged, Exists
      <4>5. CASE staging[p].kind = "dir"
        <5>1. disk[p].kind = "dir" /\ disk'[p].kind = "dir"
          BY <2>2, <3>2, <4>1, <4>3, <4>5 DEF MergeEntry, Exists
        <5> QED
          BY <3>1, <4>4, <5>1 DEF Planned
      <4>6. CASE staging[p].kind # "dir"
        BY <4>4, <4>6 DEF Planned
      <4> QED
        BY <4>5, <4>6
    <3> QED
      BY <3>1, <3>2
  <2>3. CASE LeaveDirectory
    <3>1. /\ pc = "publish" /\ mode = "overwrite" /\ at # <<>> /\ dest' = dest
          /\ disk' = IF at \in touched THEN disk ELSE [disk EXCEPT ![at].from = staging[at].from]
      BY <2>3 DEF LeaveDirectory
    <3>2. ASSUME NEW p \in Paths, disk'[p] # disk[p]
          PROVE  Allowed(p)
      <4>1. p = at /\ at \notin touched /\ disk'[p].kind = disk[p].kind
        BY <3>1, <3>2 DEF MoreTypes, Types, Nodes
      <4>2. staging[at].kind = "dir" /\ disk[at].kind = "dir"
        BY <3>1, <4>1 DEF Inside
      <4>3. plan.manifest[p] # "absent"
        BY <3>1, <4>1, <4>2 DEF Merged, Exists
      <4> QED
        BY <3>1, <4>1, <4>2, <4>3 DEF Planned
    <3> QED
      BY <3>1, <3>2
  <2>4. CASE ClearTarget \/ PublishDirectory
    BY <2>4 DEF ClearTarget, PublishDirectory, NewTarget
  <2>5. CASE \/ \E S \in SUBSET Paths : Start(S)
             \/ List \/ Plan \/ Confirm \/ PlaceSafe \/ PlaceOriginal \/ RefuseOriginal
    BY <2>5 DEF Start, List, Plan, Confirm, PlaceSafe, PlaceOriginal, RefuseOriginal
  <2>6. CASE \/ Check \/ Verify \/ Recheck
             \/ \E lost \in {{}} \cup {{p} : p \in Paths} : Extract(lost)
             \/ MergeDone \/ Fail \/ \E p \in Paths : EnterDirectory(p)
    BY <2>6 DEF Check, Verify, Recheck, Extract, MergeDone, Fail, EnterDirectory
  <2>7. CASE Others
    <3>1. \A p \in Paths, k \in {"absent", "dir", "file", "link"} : ~Write(p, k)
      BY DEF Write, MoreTypes
    <3>2. \A d \in {"absent", "empty", "occupied", "unsafe"} : ~WriteTarget(d)
      BY DEF WriteTarget, MoreTypes
    <3> QED
      BY <2>7, <3>1, <3>2 DEF Others, MakeArchive, DeleteArchive
  <2> QED
    BY <1>1, <2>1, <2>2, <2>3, <2>4, <2>5, <2>6, <2>7 DEF Next, Step
<1>2. IInv /\ Account /\ [Next]_vars => [Spared]_vars
  BY <1>1
<1>3. [][Spared]_vars => OnlySelectedIsLost
  BY PTL DEF OnlySelectedIsLost
<1>4. QED
  BY <1>2, <1>3, Invariance, AccountInvariance, PTL DEF Spec
=============================================================================
