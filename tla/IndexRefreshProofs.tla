------------------------- MODULE IndexRefreshProofs -------------------------
(***************************************************************************)
(* The index, for every set of repositories and names and every bound:     *)
(* IInv is inductive, and with it a complete index holds the archives of   *)
(* one repository, holds exactly what an undisturbed refresh saw, and      *)
(* stays complete under whoever reads it.                                  *)
(***************************************************************************)
EXTENDS IndexRefresh, TLAPS

\* What the bounds and the sentinel are.
LEMMA Constants ==
  /\ MaxId \in Nat /\ MaxSwaps \in Nat /\ MaxGeneration \in Nat
  /\ MaxTime \in Nat /\ MaxFails \in Nat
  /\ NoRepo \notin Repos
  /\ NoId \notin Ids /\ NoId \in 0..MaxId /\ Ids \subseteq 0..MaxId
  /\ NoRow \in [id : 0..MaxId, files : 0..MaxId]
  /\ NoRow.id = NoId /\ NoRow.files = NoId
BY BoundAssumption, ReposAssumption DEF Ids, NoId, NoRow

\* A new index and an empty repository satisfy the invariant.
LEMMA InitInv == Init => IInv
<1> SUFFICES ASSUME Init PROVE IInv
  OBVIOUS
<1> USE Constants DEF Init
<1>1. TypeOK
  BY DEF TypeOK, WorldType, IndexType, RefreshType, Listing, Rows, Empty, Unknown, Labels, NoId
<1>2. Fresh /\ Here /\ Indexed
  BY DEF Fresh, Here, Indexed, Of, GoneIfMixed, Empty
<1>3. Marked /\ Known /\ Moved /\ Listed /\ Current
  BY DEF Marked, Known, Moved, Listed, Current
<1>4. Working /\ Done /\ Bounded /\ Locked /\ ExactIfUndisturbed
  BY DEF Working, Done, Bounded, Locked, ExactIfUndisturbed
<1> QED
  BY <1>1, <1>2, <1>3, <1>4 DEF IInv

----------------------------------------------------------------------------
(* One lemma per action, or per kind of action                             *)

\* The steps of a refresh that read or decide and leave the rows alone.
LEMMA EarlySteps == IInv /\ (Start \/ Identify \/ Mark \/ List) => IInv'
<1> SUFFICES ASSUME IInv, Start \/ Identify \/ Mark \/ List PROVE IInv'
  OBVIOUS
<1> USE Constants DEF IInv, world, index, locals
<1> USE DEF TypeOK, WorldType, IndexType, RefreshType
<1>1. CASE Start
  <2>1. TypeOK'
    BY <1>1 DEF Start, Labels
  <2>2. (Fresh /\ Here /\ Indexed)'
    BY <1>1 DEF Start, Fresh, Here, Indexed, Of, GoneIfMixed
  <2>3. (Marked /\ Known /\ Moved /\ Listed /\ Current /\ Working /\ Done /\ Bounded /\ Locked)'
    BY <1>1 DEF Start, Marked, Known, Moved, Listed, Current, Working, Done, Bounded, Locked
  <2>4. ExactIfUndisturbed'
    BY <1>1 DEF Start, ExactIfUndisturbed
  <2> QED
    BY <2>1, <2>2, <2>3, <2>4
<1>2. CASE Identify
  <2>1. TypeOK'
    BY <1>2 DEF Identify, Labels
  <2>2. (Fresh /\ Here /\ Indexed)'
    BY <1>2 DEF Identify, Fresh, Here, Indexed, Of, GoneIfMixed
  <2>3. (Marked /\ Known /\ Moved /\ Listed /\ Current /\ Working /\ Done /\ Bounded /\ Locked)'
    BY <1>2 DEF Identify, Marked, Known, Moved, Listed, Current, Working, Done, Bounded, Locked
  <2>4. ExactIfUndisturbed'
    BY <1>2 DEF Identify, ExactIfUndisturbed
  <2> QED
    BY <2>1, <2>2, <2>3, <2>4
<1>3. CASE Mark
  <2>0. identity \in Repos
    BY <1>3 DEF Mark, Known
  <2>1. TypeOK'
    BY <1>3, <2>0 DEF Mark, Labels, Rows, Empty
  <2>2. (Fresh /\ Here)'
    BY <1>3 DEF Mark, Fresh, Here, Of
  <2>3. Indexed'
    <3>1. CASE meta.repo = identity
      BY <1>3, <2>0, <3>1 DEF Mark, Indexed, Of, GoneIfMixed
    <3>2. CASE meta.repo # identity
      BY <1>3, <2>0, <3>2 DEF Mark, Indexed, Of, GoneIfMixed, Empty
    <3> QED
      BY <3>1, <3>2
  <2>4. (Marked /\ Known /\ Moved /\ Listed /\ Current /\ Working /\ Done)'
    BY <1>3, <2>0 DEF Mark, Marked, Known, Moved, Listed, Current, Working, Done
  <2>5. Bounded'
    BY <1>3 DEF Mark, Bounded
  <2>6. (Locked /\ ExactIfUndisturbed)'
    BY <1>3 DEF Mark, Locked, ExactIfUndisturbed
  <2> QED
    BY <2>1, <2>2, <2>3, <2>4, <2>5, <2>6
<1>4. CASE List
  <2>1. TypeOK'
    BY <1>4 DEF List, Labels
  <2>2. (Fresh /\ Here /\ Indexed)'
    BY <1>4 DEF List, Fresh, Here, Indexed, Of, GoneIfMixed
  <2>3. Listed'
    BY <1>4 DEF List, Listed, Here, Of
  <2>4. Current'
    BY <1>4 DEF List, Current, Moved
  <2>5. (Marked /\ Known /\ Moved /\ Working /\ Done /\ Bounded /\ Locked)'
    BY <1>4 DEF List, Marked, Known, Moved, Working, Done, Bounded, Locked
  <2>6. ExactIfUndisturbed'
    BY <1>4 DEF List, ExactIfUndisturbed
  <2> QED
    BY <2>1, <2>2, <2>3, <2>4, <2>5, <2>6
<1> QED
  BY <1>1, <1>2, <1>3, <1>4

\* Begin keeps the rows of archives that are listed under their own id.
LEMMA BeginStep == IInv /\ Begin => IInv'
<1> SUFFICES ASSUME IInv, Begin PROVE IInv'
  OBVIOUS
<1> USE Constants DEF IInv, Begin, world, index
<1> USE DEF TypeOK, WorldType, IndexType, RefreshType
<1>1. TypeOK'
  <2>1. \A n \in Names : (IF rows[n].id = listing[n] THEN rows[n] ELSE NoRow)
                            \in [id : 0..MaxId, files : 0..MaxId]
    BY DEF Rows
  <2> QED
    BY <2>1 DEF Labels, Rows
<1>2. (Fresh /\ Here /\ Indexed)'
  BY DEF Fresh, Here, Indexed, Of, GoneIfMixed
<1>3. (Marked /\ Known /\ Moved /\ Listed /\ Current)'
  BY DEF Marked, Known, Moved, Listed, Current, Of
<1>4. Working'
  <2> SUFFICES ASSUME NEW n \in Names
               PROVE  Of(work'[n].id, identity) /\ GoneIfMixed(work'[n], n, identity)
    BY DEF Working, Of, GoneIfMixed
  <2>1. work'[n] = rows[n] \/ work'[n] = NoRow
    OBVIOUS
  <2>2. identity \in Repos /\ meta.repo = identity
    BY DEF Known, Marked
  <2> QED
    BY <2>1, <2>2 DEF Indexed, Of, GoneIfMixed
<1>5. Done'
  BY DEF Done
<1>6. (Bounded /\ Locked /\ ExactIfUndisturbed)'
  BY DEF Bounded, Locked, ExactIfUndisturbed
<1> QED
  BY <1>1, <1>2, <1>3, <1>4, <1>5, <1>6

\* Insert gives the name its listed id; where the files are those of another
\* archive, the listed one is gone, or the repository is another one.
LEMMA InsertStep == ASSUME NEW n \in Names PROVE IInv /\ Insert(n) => IInv'
<1> SUFFICES ASSUME IInv, Insert(n) PROVE IInv'
  OBVIOUS
<1> USE Constants DEF IInv, Insert, Turn, Insertable, world, index
<1> USE DEF TypeOK, WorldType, IndexType, RefreshType
<1>1. TypeOK'
  <2>1. live[at][n] \in 0..MaxId /\ listing[n] \in 0..MaxId
    BY DEF Listing
  <2> QED
    BY <2>1 DEF Labels, Rows
<1>2. (Fresh /\ Here /\ Indexed)'
  BY DEF Fresh, Here, Indexed, Of, GoneIfMixed
<1>3. (Marked /\ Known /\ Moved /\ Listed /\ Current)'
  BY DEF Marked, Known, Moved, Listed, Current, Of
<1>4. Working'
  <2> SUFFICES ASSUME at = identity, NEW m \in Names
               PROVE  Of(work'[m].id, identity) /\ GoneIfMixed(work'[m], m, identity)
    BY DEF Working, Of, GoneIfMixed
  <2>1. CASE m = n
    <3>1. work'[m] = [id |-> listing[n], files |-> live[identity][n]]
      BY <2>1 DEF Rows
    <3>2. Of(listing[n], identity)
      BY DEF Listed
    <3>3. listing[n] = NoId => live[identity][n] = NoId
      <4>1. listing[n] # NoId
        BY DEF Done, Rows
      <4> QED
        BY <4>1
    <3> QED
      BY <2>1, <3>1, <3>2, <3>3 DEF GoneIfMixed
  <2>2. CASE m # n
    <3>1. work'[m] = work[m]
      BY <2>2 DEF Rows
    <3> QED
      BY <3>1 DEF Working, GoneIfMixed
  <2> QED
    BY <2>1, <2>2
<1>5. Done'
  BY DEF Done, Rows
<1>6. (Bounded /\ Locked /\ ExactIfUndisturbed)'
  BY DEF Bounded, Locked, ExactIfUndisturbed
<1> QED
  BY <1>1, <1>2, <1>3, <1>4, <1>5, <1>6

\* Confirm has seen the identity again, so what is listed and kept is of it.
LEMMA ConfirmStep == IInv /\ Confirm => IInv'
<1> SUFFICES ASSUME IInv, Confirm PROVE IInv'
  OBVIOUS
<1> USE Constants DEF IInv, Confirm, world, index, locals
<1>1. TypeOK'
  BY DEF TypeOK, WorldType, IndexType, RefreshType, Labels
<1>2. (Fresh /\ Here /\ Indexed)'
  BY DEF Fresh, Here, Indexed, Of, GoneIfMixed
<1>3. (Marked /\ Known /\ Moved /\ Listed /\ Current)'
  BY DEF Marked, Known, Moved, Listed, Current, Of
<1>4. (Working /\ Done)'
  BY DEF Working, Done, Of, GoneIfMixed
<1>5. (Bounded /\ Locked /\ ExactIfUndisturbed)'
  BY DEF Bounded, Locked, ExactIfUndisturbed
<1> QED
  BY <1>1, <1>2, <1>3, <1>4, <1>5

\* Commit makes the rows of the refresh the index; undisturbed, every row is
\* of an archive that is still there, and so not a mixed one.
LEMMA CommitStep == IInv /\ Commit => IInv'
<1> SUFFICES ASSUME IInv, Commit PROVE IInv'
  OBVIOUS
<1> USE Constants DEF IInv, Commit, Leave, world
<1> USE DEF TypeOK, WorldType, IndexType, RefreshType
<1>0. identity \in Repos /\ generation < MaxGeneration
  BY DEF Known, Bounded
<1>1. TypeOK'
  BY <1>0 DEF Labels, Rows, Listing, Empty, Unknown
<1>2. (Fresh /\ Here)'
  BY DEF Fresh, Here, Of
<1>3. Indexed'
  BY <1>0 DEF Indexed, Working, Of, GoneIfMixed
<1>4. (Marked /\ Known /\ Moved /\ Listed /\ Current /\ Working /\ Done /\ Bounded)'
  BY DEF Marked, Known, Moved, Listed, Current, Working, Done, Bounded
<1>5. Locked'
  BY DEF Locked
<1>6. ExactIfUndisturbed'
  <2> SUFFICES ASSUME disturbed = "no", NEW n \in Names
               PROVE  work[n] = [id |-> live[identity][n], files |-> live[identity][n]]
    BY DEF ExactIfUndisturbed, Unknown
  <2>1. work[n].id = live[identity][n]
    BY DEF Done, Current
  <2>2. work[n].files = work[n].id
    BY <2>1 DEF Working, GoneIfMixed
  <2> QED
    BY <2>1, <2>2 DEF Rows
<1> QED
  BY <1>1, <1>2, <1>3, <1>4, <1>5, <1>6

\* A refresh that ends early leaves the index as it was, and knows nothing.
LEMMA EndSteps == IInv /\ (Refuse \/ Fail) => IInv'
<1> SUFFICES ASSUME IInv, Refuse \/ Fail PROVE IInv'
  OBVIOUS
<1> USE Constants DEF IInv, Refuse, Fail, Leave, world, index
<1>1. TypeOK'
  BY DEF TypeOK, WorldType, IndexType, RefreshType, Labels, Listing, Rows, Empty
<1>2. (Fresh /\ Here /\ Indexed)'
  BY DEF Fresh, Here, Indexed, Of, GoneIfMixed
<1>3. (Marked /\ Known /\ Moved /\ Listed /\ Current /\ Working /\ Done /\ Bounded)'
  BY DEF Marked, Known, Moved, Listed, Current, Working, Done, Bounded
<1>4. (Locked /\ ExactIfUndisturbed)'
  BY DEF Locked, ExactIfUndisturbed
<1> QED
  BY <1>1, <1>2, <1>3, <1>4

\* Readers and the clock touch neither the index nor the refresh.
LEMMA OtherSteps == IInv /\ (Look \/ Read \/ (\E d \in Steps : Tick(d))) => IInv'
<1> SUFFICES ASSUME IInv, Look \/ Read \/ (\E d \in Steps : Tick(d)) PROVE IInv'
  OBVIOUS
<1> USE DEF IInv, Look, Read, Tick, Usable, world, index, locals
<1>1. TypeOK'
  BY DEF TypeOK, WorldType, IndexType, RefreshType
<1>2. (Fresh /\ Here /\ Indexed)'
  BY DEF Fresh, Here, Indexed, Of, GoneIfMixed
<1>3. (Marked /\ Known /\ Moved /\ Listed /\ Current)'
  BY DEF Marked, Known, Moved, Listed, Current, Of
<1>4. (Working /\ Done /\ Bounded)'
  BY DEF Working, Done, Bounded, Of, GoneIfMixed
<1>5. (Locked /\ ExactIfUndisturbed)'
  BY DEF Locked, ExactIfUndisturbed
<1> QED
  BY <1>1, <1>2, <1>3, <1>4, <1>5

\* A new archive has an id that nothing in the index or the refresh has.
LEMMA CreateStep ==
  ASSUME NEW r \in Repos, NEW n \in Names PROVE IInv /\ Create(r, n) => IInv'
<1> SUFFICES ASSUME IInv, Create(r, n) PROVE IInv'
  OBVIOUS
<1> USE Constants DEF IInv, Create, Disturb, index, locals
<1> USE DEF TypeOK, WorldType, IndexType, RefreshType
<1> DEFINE new == used + 1
<1>0. new \in Ids /\ new \in 0..MaxId /\ made[new] = NoRepo /\ new # NoId
  BY DEF Fresh, Ids, NoId
<1>1. TypeOK'
  BY <1>0 DEF Listing
<1>2. ASSUME NEW i \in 0..MaxId, NEW q \in Repos \cup {NoRepo}, Of(i, q)
      PROVE  Of(i, q)' /\ i # new
  BY <1>0, <1>2 DEF Of, Ids, NoId
<1>3. \A q \in Repos, m \in Names :
        live'[q][m] = live[q][m] \/ (q = r /\ live'[q][m] = new)
  BY DEF Listing
<1>4. ASSUME NEW row \in [id : 0..MaxId, files : 0..MaxId], NEW m \in Names, NEW q \in Repos,
             Of(row.id, q), GoneIfMixed(row, m, q)
      PROVE  GoneIfMixed(row, m, q)'
  BY <1>2, <1>3, <1>4 DEF GoneIfMixed
<1>5. Fresh' /\ Here'
  <2>1. Fresh'
    BY <1>0 DEF Fresh, Ids
  <2>2. ASSUME NEW q \in Repos, NEW m \in Names PROVE Of(live[q][m], q)'
    <3>1. CASE live'[q][m] = live[q][m]
      BY <1>2, <3>1 DEF Here, Of, Listing
    <3>2. CASE q = r /\ live'[q][m] = new
      BY <1>0, <3>2 DEF Of
    <3> QED
      BY <1>3, <3>1, <3>2
  <2> QED
    BY <2>1, <2>2 DEF Here
<1>6. Indexed'
  <2>1. \A m \in Names : rows[m] \in [id : 0..MaxId, files : 0..MaxId]
    BY DEF Rows
  <2>2. \A m \in Names : Of(rows[m].id, meta.repo)'
    BY <1>2, <2>1 DEF Indexed
  <2>3. \A q \in Repos, m \in Names : meta.repo = q => GoneIfMixed(rows[m], m, q)'
    BY <1>4, <2>1 DEF Indexed
  <2> QED
    BY <2>2, <2>3 DEF Indexed
<1>7. (Marked /\ Known /\ Moved)'
  BY DEF Marked, Known, Moved
<1>8. Listed'
  BY <1>2 DEF Listed, Listing
<1>9. Current'
  BY DEF Current
<1>10. Working'
  <2> SUFFICES ASSUME (pc = "insert" /\ at = identity) \/ pc = "commit", NEW m \in Names
               PROVE  Of(work[m].id, identity)' /\ GoneIfMixed(work[m], m, identity)'
    BY DEF Working, Of, GoneIfMixed
  <2>1. work[m] \in [id : 0..MaxId, files : 0..MaxId] /\ identity \in Repos
    BY DEF Rows, Known
  <2>2. Of(work[m].id, identity) /\ GoneIfMixed(work[m], m, identity)
    BY DEF Working
  <2> QED
    BY <1>2, <1>4, <2>1, <2>2
<1>11. (Done /\ Bounded /\ Locked /\ ExactIfUndisturbed)'
  BY DEF Done, Bounded, Locked, ExactIfUndisturbed
<1> QED
  BY <1>1, <1>5, <1>6, <1>7, <1>8, <1>9, <1>10, <1>11

\* An archive that is deleted was live, and its id does not come back.
LEMMA DeleteStep ==
  ASSUME NEW r \in Repos, NEW n \in Names PROVE IInv /\ Delete(r, n) => IInv'
<1> SUFFICES ASSUME IInv, Delete(r, n) PROVE IInv'
  OBVIOUS
<1> USE Constants DEF IInv, Delete, Disturb, index, locals
<1> USE DEF TypeOK, WorldType, IndexType, RefreshType
<1>1. TypeOK'
  BY DEF Listing
<1>2. \A q \in Repos, m \in Names : live'[q][m] = live[q][m] \/ live'[q][m] = NoId
  BY DEF Listing
<1>3. ASSUME NEW row, NEW m \in Names, NEW q \in Repos, GoneIfMixed(row, m, q)
      PROVE  GoneIfMixed(row, m, q)'
  BY <1>2, <1>3 DEF GoneIfMixed
<1>4. (Fresh /\ Here)'
  BY <1>2 DEF Fresh, Here, Of
<1>5. Indexed'
  BY <1>3 DEF Indexed, Of
<1>6. (Marked /\ Known /\ Moved /\ Listed /\ Current)'
  BY DEF Marked, Known, Moved, Listed, Current, Of
<1>7. Working'
  BY <1>3 DEF Working, Known, Of
<1>8. (Done /\ Bounded /\ Locked /\ ExactIfUndisturbed)'
  BY DEF Done, Bounded, Locked, ExactIfUndisturbed
<1> QED
  BY <1>1, <1>4, <1>5, <1>6, <1>7, <1>8

\* A repository that has moved away under a refresh does not come back.
LEMMA SwapStep == ASSUME NEW r \in Repos PROVE IInv /\ Swap(r) => IInv'
<1> SUFFICES ASSUME IInv, Swap(r) PROVE IInv'
  OBVIOUS
<1> USE Constants DEF IInv, Swap, Disturb, index, locals
<1> USE DEF TypeOK, WorldType, IndexType, RefreshType
<1>1. TypeOK'
  OBVIOUS
<1>2. (Fresh /\ Here /\ Indexed)'
  BY DEF Fresh, Here, Indexed, Of, GoneIfMixed
<1>3. pc \notin {"idle", "identify", "commit"} => at = identity /\ at' # identity
  BY DEF Moved
<1>4. (Marked /\ Known /\ Moved /\ Current)'
  BY DEF Marked, Known, Moved, Current
<1>5. (Listed /\ Working)'
  BY <1>3 DEF Listed, Working, Of, GoneIfMixed
<1>6. (Done /\ Bounded /\ Locked /\ ExactIfUndisturbed)'
  BY DEF Done, Bounded, Locked, ExactIfUndisturbed
<1> QED
  BY <1>1, <1>2, <1>4, <1>5, <1>6

----------------------------------------------------------------------------
(* The theorems                                                            *)

\* A step that changes nothing.
LEMMA StutterStep == IInv /\ UNCHANGED vars => IInv'
BY DEF vars, world, index, locals, IInv, TypeOK, WorldType, IndexType, RefreshType, Fresh, Here,
       Indexed, Of, GoneIfMixed, Marked, Known, Moved, Listed, Current, Working, Done, Bounded,
       Locked, ExactIfUndisturbed

\* Every action keeps the inductive invariant.
LEMMA NextInv == IInv /\ [Next]_vars => IInv'
<1> SUFFICES ASSUME IInv, [Next]_vars PROVE IInv'
  OBVIOUS
<1>1. CASE Refresh
  BY <1>1, EarlySteps, BeginStep, InsertStep, ConfirmStep, CommitStep, EndSteps DEF Refresh
<1>2. CASE Fail \/ Look \/ Read \/ \E d \in Steps : Tick(d)
  BY <1>2, EndSteps, OtherSteps
<1>3. CASE \E r \in Repos : Swap(r) \/ \E n \in Names : Create(r, n) \/ Delete(r, n)
  BY <1>3, SwapStep, CreateStep, DeleteStep
<1>4. CASE UNCHANGED vars
  BY <1>4, StutterStep
<1> QED
  BY <1>1, <1>2, <1>3, <1>4 DEF Next

\* IInv holds in every reachable state.
THEOREM Invariance == Spec => []IInv
<1>1. Init => IInv
  BY InitInv
<1>2. IInv /\ [Next]_vars => IInv'
  BY NextInv
<1> QED
  BY <1>1, <1>2, PTL DEF Spec

\* The index and the refresh are well typed, and a row of index_meta that says
\* complete has all that IndexStatus::is_complete asks of it.
THEOREM TypeCorrect == Spec => []TypeOK
BY Invariance, PTL DEF IInv

\* A complete index after an undisturbed refresh shows exactly the archives
\* that were in the repository at its commit, each with its own files,
\* whatever earlier refreshes saw, kept or lost half way (Index::refresh).
THEOREM Exact == Spec => []ExactIfUndisturbed
BY Invariance, PTL DEF IInv

\* A complete index holds archives of the repository whose identity it bears,
\* though another one may have stood at the location meanwhile.
THEOREM OneRepository == Spec => []RowsOfItsRepository
<1>1. IInv => RowsOfItsRepository
  BY DEF IInv, Indexed, Of, RowsOfItsRepository
<1> QED
  BY <1>1, Invariance, PTL

\* No refresh takes the complete index away from a command that reads it.
THEOREM ReadersSafe == Spec => []ReadsComplete
<1>1. IInv => ReadsComplete
  BY DEF IInv, Locked, ReadsComplete
<1> QED
  BY <1>1, Invariance, PTL
=============================================================================
