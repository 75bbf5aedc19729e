--------------------------- MODULE QuiesceProofs ---------------------------
(***************************************************************************)
(* Proofs about module Quiesce, for every number of containers, services   *)
(* and service paths and every bound on crashes and outside interference.  *)
(***************************************************************************)
EXTENDS Quiesce, TLAPS

\* An absent journal, and every journal Boxup writes, is a journal.
LEMMA JournalTyped ==
  /\ NoJournal \in JournalType
  /\ \A p \in Phases, cs \in SUBSET Containers, ss \in SUBSET Services :
       Journal(p, cs, ss) \in JournalType
  BY DEF NoJournal, Journal, Phases, JournalType

LEMMA TypeInit == Init => TypeOK /\ TargetOK
<1> SUFFICES ASSUME Init
             PROVE  TypeOK /\ TargetOK
  OBVIOUS
<1>1. unit \in [Units -> {"up", "stopping", "down"}]
  BY DEF Init
<1>2. journal \in JournalType
  BY JournalTyped DEF Init
<1>3. copies \in [Items -> {"none", "live", "quiet"}]
  BY DEF Init
<1>4. QED
  BY <1>1, <1>2, <1>3, BoundAssumption DEF Init, TypeOK, TargetOK, Labels

\* Types, with the unit of the current command: neither half is inductive alone.
LEMMA TypeInvariant == Spec => [](TypeOK /\ TargetOK)
<1> USE UnitsAssumption, BoundAssumption
<1>1. TypeOK /\ TargetOK /\ [Next]_vars => (TypeOK /\ TargetOK)'
  <2> SUFFICES ASSUME TypeOK, TargetOK, [Next]_vars
               PROVE  (TypeOK /\ TargetOK)'
    OBVIOUS
  <2> USE DEF TypeOK, TargetOK, Units, Items, Labels, Phases, world, disk, locals, bounds
  <2>1. CASE Begin
    BY <2>1 DEF Begin
  <2>2. CASE Recover
    BY <2>2 DEF Recover, EnterResume, JournalType
  <2>3. CASE Audit
    BY <2>3 DEF Audit
  <2>4. ASSUME NEW c \in Containers, CheckStopped(c)
       PROVE  (TypeOK /\ TargetOK)'
    BY <2>4 DEF CheckStopped, Leave
  <2>5. CASE CopyStopped
    BY <2>5 DEF CopyStopped, Copy
  <2>6. CASE CopyOnline
    BY <2>6 DEF CopyOnline
  <2>7. ASSUME NEW s \in Services, QueryService(s)
       PROVE  (TypeOK /\ TargetOK)'
    BY <2>7 DEF QueryService
  <2>8. CASE SnapshotOfStopped
    BY <2>8 DEF SnapshotOfStopped
  <2>9. CASE RecordStopping
    BY <2>9, JournalTyped DEF RecordStopping
  <2>10. CASE FailBeforeStop
    BY <2>10 DEF FailBeforeStop, Leave
  <2>11. ASSUME NEW u \in Units, IssueStop(u)
       PROVE  (TypeOK /\ TargetOK)'
    BY <2>11 DEF IssueStop, Break, EnterResume, Upcoming
  <2>12. CASE StopDone
    BY <2>12 DEF StopDone
  <2>13. CASE StopAbandoned
    BY <2>13 DEF StopAbandoned, Break, EnterResume
  <2>14. CASE RecordQuiesced
    <3>1. {c \in Containers : c \in active \/ services # {}} \cup ServicePaths \subseteq Items
      OBVIOUS
    <3>2. Journal("quiesced", active, services) \in JournalType
      BY JournalTyped
    <3>3. QED
      BY <2>14, <3>1, <3>2 DEF RecordQuiesced, Break, EnterResume
  <2>15. ASSUME NEW i \in Items, FinalCopy(i)
       PROVE  (TypeOK /\ TargetOK)'
    BY <2>15 DEF FinalCopy, Copy, Break, EnterResume
  <2>16. CASE FinalCopiesDone
    BY <2>16 DEF FinalCopiesDone, EnterResume
  <2>17. ASSUME NEW u \in Units, ResumeOk(u)
       PROVE  (TypeOK /\ TargetOK)'
    BY <2>17 DEF ResumeOk
  <2>18. ASSUME NEW u \in Units, ResumeFails(u)
       PROVE  (TypeOK /\ TargetOK)'
    BY <2>18 DEF ResumeFails
  <2>19. CASE ResumeDone
    BY <2>19 DEF ResumeDone
  <2>20. CASE Settle
    <3>1. active' \subseteq Containers /\ services' \subseteq Services /\ pc' \in Labels
      BY <2>20 DEF Settle, Leave
    <3>2. journal' \in JournalType
      BY <2>20, JournalTyped DEF Settle
    <3>3. /\ pending' \subseteq Units \cup Items
          /\ target' \in Units \cup {NoUnit}
          /\ failures' \subseteq Units
          /\ staged' \subseteq Items
      BY <2>20 DEF Settle, Leave
    <3>4. broken' \in BOOLEAN /\ recovering' \in BOOLEAN
      BY <2>20 DEF Settle, Leave
    <3>5. copies' \in [Items -> {"none", "live", "quiet"}]
      BY <2>20 DEF Settle, Leave
    <3>6. TargetOK'
      BY <2>20 DEF Settle, Leave
    <3>7. UNCHANGED <<unit, downed, missed, disturbed, enabled, crashes, outside>>
      BY <2>20 DEF Settle
    <3>8. QED
      BY <3>1, <3>2, <3>3, <3>4, <3>5, <3>6, <3>7
  <2>21. CASE AfterSnapshot
    BY <2>21 DEF AfterSnapshot, Leave
  <2>22. CASE CreateEnds
    BY <2>22 DEF CreateEnds, Leave
  <2>23. CASE Crash
    <3>1. copies' \in [Items -> {"none", "live", "quiet"}]
      BY <2>23 DEF Crash, Leave
    <3>2. crashes' \in Nat /\ UNCHANGED <<world, disk, outside>>
      BY <2>23 DEF Crash
    <3>3. /\ pc' = "idle" /\ active' = {} /\ services' = {} /\ pending' = {}
          /\ target' = NoUnit /\ failures' = {} /\ staged' = {}
          /\ broken' = FALSE /\ recovering' = FALSE
      BY <2>23 DEF Crash, Leave
    <3>4. QED
      BY <3>1, <3>2, <3>3
  <2>24. ASSUME NEW u \in Units, Land(u)
       PROVE  (TypeOK /\ TargetOK)'
    BY <2>24 DEF Land
  <2>25. ASSUME NEW u \in Units, OutsideStart(u)
       PROVE  (TypeOK /\ TargetOK)'
    BY <2>25 DEF OutsideStart
  <2>26. ASSUME NEW u \in Units, OutsideStop(u)
       PROVE  (TypeOK /\ TargetOK)'
    BY <2>26 DEF OutsideStop
  <2>27. CASE Reconfigure
    BY <2>27 DEF Reconfigure
  <2>28. CASE UNCHANGED vars
    BY <2>28 DEF vars
  <2>29. QED
    BY <2>1, <2>2, <2>3, <2>4, <2>5, <2>6, <2>7, <2>8, <2>9, <2>10, <2>11, <2>12, <2>13,
       <2>14, <2>15, <2>16, <2>17, <2>18, <2>19, <2>20, <2>21, <2>22, <2>23, <2>24, <2>25,
       <2>26, <2>27, <2>28
    DEF Next, Backup, Outside, Quiescing, Resuming
<1>2. QED
  BY <1>1, TypeInit, PTL DEF Spec

\* The variables stay of their types, whatever the steps and whoever takes
\* them (all actions of Quiesce; no assumption on the container runtime).
THEOREM TypeCorrect == Spec => []TypeOK
BY TypeInvariant, PTL

\* The inductive invariant of Quiesce.  It speaks of what Boxup still owes
\* (Owed): a stop whose client Boxup killed may take effect after resume has
\* verified the container, which is what `missed' remembers.
LEMMA InvInit == Init => IInv
<1> SUFFICES ASSUME Init
             PROVE  IInv
  OBVIOUS
<1>1. TypeOK /\ TargetOK
  BY TypeInit
<1>2. Owed = {} /\ SeenBack = {}
  BY DEF Init, Held, Owed, SeenBack
<1>3. JournalListsUnits
  BY DEF Init, JournalListsUnits, NoJournal, Journal
<1>4. QED
  BY <1>1, <1>2, <1>3
  DEF Init, IInv, JournalListsUnits, JournalCovers, JournalIsRun, DockerInUse,
      NoJournalOutsideRun, LoopsWithinRun, VerifiedReleased

LEMMA InvStep ==
  ASSUME IInv, TypeOK', TargetOK', [Next]_vars
  PROVE  IInv'
<1> USE UnitsAssumption
    DEF TypeOK, TargetOK, Units, Items, Labels, Phases, JournalType, world, disk, locals,
        bounds, IInv, JournalListsUnits, JournalCovers, JournalIsRun, DockerInUse,
        NoJournalOutsideRun, LoopsWithinRun, VerifiedReleased, Held, Owed,
        SeenBack, Covered, NoJournal, Journal
<1>1. CASE Begin
  BY <1>1 DEF Begin
<1>2. CASE Recover
  BY <1>2 DEF Recover, EnterResume
<1>3. CASE Audit
  BY <1>3 DEF Audit
<1>4. ASSUME NEW c \in Containers, CheckStopped(c)
     PROVE  IInv'
  BY <1>4 DEF CheckStopped, Leave
<1>5. CASE CopyStopped
  BY <1>5 DEF CopyStopped, Copy
<1>6. CASE CopyOnline
  BY <1>6 DEF CopyOnline
<1>7. ASSUME NEW s \in Services, QueryService(s)
     PROVE  IInv'
  BY <1>7 DEF QueryService
<1>8. CASE SnapshotOfStopped
  BY <1>8 DEF SnapshotOfStopped
<1>9. CASE RecordStopping
  BY <1>9 DEF RecordStopping, Journal
<1>10. CASE FailBeforeStop
  BY <1>10 DEF FailBeforeStop, Leave
<1>11. ASSUME NEW u \in Units, IssueStop(u)
     PROVE  IInv'
  BY <1>11 DEF IssueStop, Break, EnterResume, Upcoming
<1>12. CASE StopDone
  BY <1>12 DEF StopDone
<1>13. CASE StopAbandoned
  BY <1>13 DEF StopAbandoned, Break, EnterResume
<1>14. CASE RecordQuiesced
  BY <1>14 DEF RecordQuiesced, Break, EnterResume, Journal
<1>15. ASSUME NEW i \in Items, FinalCopy(i)
     PROVE  IInv'
  BY <1>15 DEF FinalCopy, Copy, Break, EnterResume
<1>16. CASE FinalCopiesDone
  BY <1>16 DEF FinalCopiesDone, EnterResume
<1>17. ASSUME NEW u \in Units, ResumeOk(u)
     PROVE  IInv'
  BY <1>17 DEF ResumeOk, Upcoming
<1>18. ASSUME NEW u \in Units, ResumeFails(u)
     PROVE  IInv'
  BY <1>18 DEF ResumeFails, Upcoming
<1>19. CASE ResumeDone
  BY <1>19 DEF ResumeDone
<1>20. CASE Settle
  BY <1>20 DEF Settle, Leave, NoJournal, Journal
<1>21. CASE AfterSnapshot
  BY <1>21 DEF AfterSnapshot, Leave
<1>22. CASE CreateEnds
  BY <1>22 DEF CreateEnds, Leave
<1>23. CASE Crash
  BY <1>23 DEF Crash, Leave
<1>24. ASSUME NEW u \in Units, Land(u)
     PROVE  IInv'
  BY <1>24 DEF Land
<1>25. ASSUME NEW u \in Units, OutsideStart(u)
     PROVE  IInv'
  BY <1>25 DEF OutsideStart
<1>26. ASSUME NEW u \in Units, OutsideStop(u)
     PROVE  IInv'
  BY <1>26 DEF OutsideStop
<1>27. CASE Reconfigure
  BY <1>27 DEF Reconfigure
<1>28. CASE UNCHANGED vars
  BY <1>28 DEF vars
<1>29. QED
  BY <1>1, <1>2, <1>3, <1>4, <1>5, <1>6, <1>7, <1>8, <1>9, <1>10, <1>11, <1>12,
     <1>13, <1>14, <1>15, <1>16, <1>17, <1>18, <1>19, <1>20, <1>21, <1>22,
     <1>23, <1>24, <1>25, <1>26, <1>27, <1>28
  DEF Next, Backup, Outside, Quiescing, Resuming

LEMMA InvAlways == Spec => []IInv
<1>1. IInv /\ (TypeOK /\ TargetOK)' /\ [Next]_vars => IInv'
  BY InvStep
<1>2. QED
  BY <1>1, InvInit, TypeInvariant, PTL DEF Spec

\* Whatever the containers, services and crashes: a unit Boxup took down, or
\* may still take down, is on the recovery journal (prepare_snapshot, resume,
\* recover_unfinished), but for a container a resume took for running.
THEOREM JournalAlwaysCovers == Spec => []JournalCovers
<1>1. IInv => JournalCovers
  BY DEF IInv
<1>2. QED
  BY <1>1, InvAlways, PTL

\* No workload is held down while a run that uses Docker creates its archive
\* (backup_inner's repository phase), but for one a resume took for running.
THEOREM CreatingNeverStrands == Spec => []CreatingHoldsNothing
<1>1. IInv => CreatingHoldsNothing
  BY DEF IInv, CreatingHoldsNothing, NoJournalOutsideRun, JournalCovers,
         Covered, NoJournal, Journal, TypeOK
<1>2. QED
  BY <1>1, InvAlways, PTL

\* Every step of the quiescing code is a step of the promise of Custody, for
\* the units that resume has not lost sight of, or leaves it alone.
THEOREM QuiesceKeepsPromise == Spec => KeepsPromise
<1>1. Init => Promise!Init
  BY DEF Init, Promise!Init, Held, Owed, Covered, SeenBack, NoJournal, Journal, Units
<1>2. ASSUME IInv, [Next]_vars
      PROVE  [Promise!Next]_(Promise!vars)
  <2> USE UnitsAssumption, <1>2
      DEF TypeOK, TargetOK, Units, Labels, Phases, JournalType, world, disk, locals, bounds,
          IInv, JournalListsUnits, JournalCovers, JournalIsRun, DockerInUse,
          NoJournalOutsideRun, LoopsWithinRun, VerifiedReleased, Held, Owed, SeenBack, Covered,
          NoJournal, Journal, Promise!vars
  <2>1. CASE Begin
    BY <2>1 DEF Begin
  <2>2. CASE Recover
    BY <2>2 DEF Recover, EnterResume
  <2>3. CASE Audit
    BY <2>3 DEF Audit
  <2>4. ASSUME NEW c \in Containers, CheckStopped(c)
       PROVE  [Promise!Next]_(Promise!vars)
    BY <2>4 DEF CheckStopped, Leave
  <2>5. CASE CopyStopped
    BY <2>5 DEF CopyStopped, Copy
  <2>6. CASE CopyOnline
    BY <2>6 DEF CopyOnline
  <2>7. ASSUME NEW s \in Services, QueryService(s)
       PROVE  [Promise!Next]_(Promise!vars)
    BY <2>7 DEF QueryService
  <2>8. CASE SnapshotOfStopped
    BY <2>8 DEF SnapshotOfStopped
  <2>9. CASE RecordStopping
    <3>1. Promise!Open(active \cup services)
      BY <2>9 DEF RecordStopping, Promise!Open
    <3>2. QED
      BY <3>1 DEF Promise!Next
  <2>10. CASE FailBeforeStop
    BY <2>10 DEF FailBeforeStop, Leave
  <2>11. ASSUME NEW u \in Units, IssueStop(u)
       PROVE  [Promise!Next]_(Promise!vars)
    <3>1. Promise!Seize(u) \/ UNCHANGED Promise!vars
      BY <2>11 DEF IssueStop, Break, EnterResume, Upcoming, Promise!Seize
    <3>2. QED
      BY <3>1 DEF Promise!Next
  <2>12. CASE StopDone
    BY <2>12 DEF StopDone
  <2>13. CASE StopAbandoned
    BY <2>13 DEF StopAbandoned, Break, EnterResume
  <2>14. CASE RecordQuiesced
    BY <2>14 DEF RecordQuiesced, Break, EnterResume, Journal
  <2>15. ASSUME NEW i \in Items, FinalCopy(i)
       PROVE  [Promise!Next]_(Promise!vars)
    BY <2>15 DEF FinalCopy, Copy, Break, EnterResume
  <2>16. CASE FinalCopiesDone
    BY <2>16 DEF FinalCopiesDone, EnterResume
  <2>17. ASSUME NEW u \in Units, ResumeOk(u)
       PROVE  [Promise!Next]_(Promise!vars)
    <3>1. Promise!Settle(u)
      BY <2>17 DEF ResumeOk, Upcoming, Promise!Settle
    <3>2. QED
      BY <3>1 DEF Promise!Next
  <2>18. ASSUME NEW u \in Units, ResumeFails(u)
       PROVE  [Promise!Next]_(Promise!vars)
    <3>1. Promise!Release(u) \/ UNCHANGED Promise!vars
      BY <2>18 DEF ResumeFails, Upcoming, Promise!Release
    <3>2. QED
      BY <3>1 DEF Promise!Next
  <2>19. CASE ResumeDone
    BY <2>19 DEF ResumeDone
  <2>20. CASE Settle
    <3>1. CASE journal' = journal
      <4>1. Promise!Forget
        BY <2>20, <3>1 DEF Settle, Leave, Promise!Forget
      <4>2. QED
        BY <4>1 DEF Promise!Next
    <3>2. CASE journal' # journal
      <4>1. Promise!Close
        BY <2>20, <3>2 DEF Settle, Leave, Promise!Close
      <4>2. QED
        BY <4>1 DEF Promise!Next
    <3>3. QED
      BY <3>1, <3>2
  <2>21. CASE AfterSnapshot
    BY <2>21 DEF AfterSnapshot, Leave
  <2>22. CASE CreateEnds
    BY <2>22 DEF CreateEnds, Leave
  <2>23. CASE Crash
    <3>1. Promise!Forget
      BY <2>23 DEF Crash, Leave, Promise!Forget
    <3>2. QED
      BY <3>1 DEF Promise!Next
  <2>24. ASSUME NEW u \in Units, Land(u)
       PROVE  [Promise!Next]_(Promise!vars)
    BY <2>24 DEF Land
  <2>25. ASSUME NEW u \in Units, OutsideStart(u)
       PROVE  [Promise!Next]_(Promise!vars)
    <3>1. Promise!Release(u) \/ UNCHANGED Promise!vars
      BY <2>25 DEF OutsideStart, Promise!Release
    <3>2. QED
      BY <3>1 DEF Promise!Next
  <2>26. ASSUME NEW u \in Units, OutsideStop(u)
       PROVE  [Promise!Next]_(Promise!vars)
    BY <2>26 DEF OutsideStop
  <2>27. CASE Reconfigure
    BY <2>27 DEF Reconfigure
  <2>28. CASE UNCHANGED vars
    BY <2>28 DEF vars
  <2>29. QED
    BY <2>1, <2>2, <2>3, <2>4, <2>5, <2>6, <2>7, <2>8, <2>9, <2>10, <2>11,
       <2>12, <2>13, <2>14, <2>15, <2>16, <2>17, <2>18, <2>19, <2>20, <2>21,
       <2>22, <2>23, <2>24, <2>25, <2>26, <2>27, <2>28
    DEF Next, Backup, Outside, Quiescing, Resuming
<1>3. QED
  BY <1>1, <1>2, InvAlways, PTL DEF Spec, KeepsPromise, Promise!Spec

\* Boxup and the stops it has issued move only units on the journal of that
\* moment (docker_action and service_action are called from the loops of
\* prepare_snapshot and resume only), or end a stop that resume has overlooked.
THEOREM OnlyJournalledTouched == Spec => TouchesOnlyJournalled
<1> DEFINE Touches ==
      \A u \in Units :
        unit'[u] # unit[u] /\ outside' = outside => u \in Covered \cup missed
<1>1. ASSUME IInv, Next
      PROVE  Touches
  <2> SUFFICES ASSUME NEW v \in Units, unit'[v] # unit[v], outside' = outside
               PROVE  v \in Covered \cup missed
    OBVIOUS
  <2> USE <1>1 DEF IInv, TypeOK, TargetOK, Units, Covered
  <2>1. ASSUME NEW u \in Units, IssueStop(u)
       PROVE  v \in Covered \cup missed
    BY <2>1 DEF IssueStop, JournalIsRun, LoopsWithinRun, Upcoming
  <2>2. CASE StopDone
    BY <2>2 DEF StopDone, JournalCovers, Held, Owed, world
  <2>3. ASSUME NEW u \in Units, ResumeOk(u)
       PROVE  v \in Covered \cup missed
    <3>1. u \in pending
      BY <2>3 DEF ResumeOk, Upcoming
    <3>2. v = u
      BY <2>3 DEF ResumeOk, world
    <3>3. QED
      BY <2>3, <3>1, <3>2 DEF ResumeOk, JournalIsRun, LoopsWithinRun
  <2>4. ASSUME NEW u \in Units, ResumeFails(u)
       PROVE  v \in Covered \cup missed
    <3>1. u \in pending
      BY <2>4 DEF ResumeFails, Upcoming
    <3>2. v = u
      BY <2>4 DEF ResumeFails, world
    <3>3. QED
      BY <2>4, <3>1, <3>2 DEF ResumeFails, JournalIsRun, LoopsWithinRun
  <2>5. ASSUME NEW u \in Units, Land(u)
       PROVE  v \in Covered \cup missed
    BY <2>5 DEF Land, JournalCovers, Held, Owed
  <2>6. ASSUME NEW u \in Units, OutsideStart(u)
       PROVE  v \in Covered \cup missed
    BY <2>6 DEF OutsideStart
  <2>7. ASSUME NEW u \in Units, OutsideStop(u)
       PROVE  v \in Covered \cup missed
    BY <2>7 DEF OutsideStop
  <2>8. ASSUME UNCHANGED unit
       PROVE  v \in Covered \cup missed
    BY <2>8
  <2>9. QED
    BY <2>1, <2>2, <2>3, <2>4, <2>5, <2>6, <2>7, <2>8
    DEF Next, Backup, Outside, Quiescing, Resuming, world, Begin, Recover, Audit,
        CheckStopped, CopyStopped, CopyOnline, QueryService, SnapshotOfStopped,
        RecordStopping, FailBeforeStop, StopAbandoned, RecordQuiesced, FinalCopy,
        FinalCopiesDone, ResumeDone, Settle, AfterSnapshot, CreateEnds, Crash, Reconfigure
<1>2. IInv /\ [Next]_vars => [Touches]_vars
  BY <1>1
<1>3. QED
  BY <1>2, InvAlways, PTL DEF Spec, TouchesOnlyJournalled

\* The part of SInv about the run and its journal.
LEMMA RunStep ==
  ASSUME SInv, TypeOK', TargetOK', [Next]_vars
  PROVE  /\ JournalListsUnits' /\ JournalIsRun' /\ DockerInUse' /\ NoJournalOutsideRun'
         /\ LoopsWithinRun' /\ ServiceStopsRecorded' /\ ErrorsInResume'
<1> DEFINE RunInv == /\ JournalListsUnits /\ JournalIsRun /\ DockerInUse
                     /\ NoJournalOutsideRun /\ LoopsWithinRun /\ ServiceStopsRecorded
                     /\ ErrorsInResume
<1> USE UnitsAssumption
    DEF TypeOK, TargetOK, Units, Items, Labels, Phases, JournalType, world, disk, locals,
        bounds, SInv, JournalListsUnits, JournalIsRun, DockerInUse, NoJournalOutsideRun,
        LoopsWithinRun, ServiceStopsRecorded, ErrorsInResume, SeenBack, Covered
<1>1. CASE Begin
  BY <1>1 DEF Begin
<1>2. CASE Recover
  BY <1>2 DEF Recover, EnterResume, NoJournal, Journal
<1>3. CASE Audit
  BY <1>3 DEF Audit, Seen
<1>4. ASSUME NEW c \in Containers, CheckStopped(c)
     PROVE  RunInv'
  BY <1>4 DEF CheckStopped, Leave, Seen
<1>5. CASE CopyStopped
  BY <1>5 DEF CopyStopped, Copy, Still
<1>6. CASE CopyOnline
  BY <1>6 DEF CopyOnline, Still
<1>7. ASSUME NEW s \in Services, QueryService(s)
     PROVE  RunInv'
  BY <1>7 DEF QueryService, Seen, DockerInUse, NoJournal, Journal
<1>8. CASE SnapshotOfStopped
  BY <1>8 DEF SnapshotOfStopped
<1>9. CASE RecordStopping
  BY <1>9 DEF RecordStopping, Journal, NoJournal
<1>10. CASE FailBeforeStop
  BY <1>10 DEF FailBeforeStop, Leave
<1>11. ASSUME NEW u \in Units, IssueStop(u)
     PROVE  RunInv'
  BY <1>11 DEF IssueStop, Break, EnterResume, Upcoming
<1>12. CASE StopDone
  BY <1>12 DEF StopDone
<1>13. CASE StopAbandoned
  BY <1>13 DEF StopAbandoned, Break, EnterResume
<1>14. CASE RecordQuiesced
  BY <1>14 DEF RecordQuiesced, Break, EnterResume, Journal, NoJournal
<1>15. ASSUME NEW i \in Items, FinalCopy(i)
     PROVE  RunInv'
  BY <1>15 DEF FinalCopy, Copy, Still, Break, EnterResume, Upcoming
<1>16. CASE FinalCopiesDone
  BY <1>16 DEF FinalCopiesDone, EnterResume
<1>17. ASSUME NEW u \in Units, ResumeOk(u)
     PROVE  RunInv'
  BY <1>17 DEF ResumeOk, Upcoming
<1>18. ASSUME NEW u \in Units, ResumeFails(u)
     PROVE  RunInv'
  BY <1>18 DEF ResumeFails, Upcoming
<1>19. CASE ResumeDone
  BY <1>19 DEF ResumeDone
<1>20. CASE Settle
  BY <1>20 DEF Settle, Leave, NoJournal, Journal
<1>21. CASE AfterSnapshot
  BY <1>21 DEF AfterSnapshot, Leave
<1>22. CASE CreateEnds
  BY <1>22 DEF CreateEnds, Leave
<1>23. CASE Crash
  BY <1>23 DEF Crash, Leave
<1>24. ASSUME NEW u \in Units, Land(u)
     PROVE  RunInv'
  BY <1>24 DEF Land
<1>25. ASSUME NEW u \in Units, OutsideStart(u)
     PROVE  RunInv'
  BY <1>25 DEF OutsideStart
<1>26. ASSUME NEW u \in Units, OutsideStop(u)
     PROVE  RunInv'
  BY <1>26 DEF OutsideStop
<1>27. CASE Reconfigure
  BY <1>27 DEF Reconfigure
<1>28. CASE UNCHANGED vars
  BY <1>28 DEF vars
<1>29. QED
  BY <1>1, <1>2, <1>3, <1>4, <1>5, <1>6, <1>7, <1>8, <1>9, <1>10, <1>11,
     <1>12, <1>13, <1>14, <1>15, <1>16, <1>17, <1>18, <1>19, <1>20, <1>21, <1>22,
     <1>23, <1>24, <1>25, <1>26, <1>27, <1>28
  DEF Next, Backup, Outside, Quiescing, Resuming

\* The part of SInv about the units of a run.
LEMMA KnownDownStep ==
  ASSUME SInv, TypeOK', TargetOK', [Next]_vars
  PROVE  KnownDown'
<1> USE UnitsAssumption
    DEF TypeOK, TargetOK, Units, Items, Labels, world, disk, locals, bounds, SInv, JournalIsRun,
        NoJournalOutsideRun, LoopsWithinRun, ServiceStopsRecorded, ErrorsInResume, Staging,
        KnownDown, StagedNow
<1>1. CASE Begin
  BY <1>1 DEF Begin
<1>2. CASE Recover
  BY <1>2 DEF Recover, EnterResume, NoJournal, Journal
<1>3. CASE Audit
  BY <1>3 DEF Audit, Seen
<1>4. ASSUME NEW c \in Containers, CheckStopped(c)
     PROVE  KnownDown'
  BY <1>4 DEF CheckStopped, Leave, Seen
<1>5. CASE CopyStopped
  BY <1>5 DEF CopyStopped, Copy, Still
<1>6. CASE CopyOnline
  BY <1>6 DEF CopyOnline, Still
<1>7. ASSUME NEW s \in Services, QueryService(s)
     PROVE  KnownDown'
  BY <1>7 DEF QueryService, Seen, DockerInUse, NoJournal, Journal
<1>8. CASE SnapshotOfStopped
  BY <1>8 DEF SnapshotOfStopped
<1>9. CASE RecordStopping
  BY <1>9 DEF RecordStopping, Journal, NoJournal
<1>10. CASE FailBeforeStop
  BY <1>10 DEF FailBeforeStop, Leave
<1>11. ASSUME NEW u \in Units, IssueStop(u)
     PROVE  KnownDown'
  BY <1>11 DEF IssueStop, Break, EnterResume, Upcoming
<1>12. CASE StopDone
  BY <1>12 DEF StopDone
<1>13. CASE StopAbandoned
  BY <1>13 DEF StopAbandoned, Break, EnterResume
<1>14. CASE RecordQuiesced
  BY <1>14 DEF RecordQuiesced, Break, EnterResume, Journal, NoJournal
<1>15. ASSUME NEW i \in Items, FinalCopy(i)
     PROVE  KnownDown'
  BY <1>15 DEF FinalCopy, Copy, Still, Break, EnterResume, Upcoming
<1>16. CASE FinalCopiesDone
  BY <1>16 DEF FinalCopiesDone, EnterResume
<1>17. ASSUME NEW u \in Units, ResumeOk(u)
     PROVE  KnownDown'
  BY <1>17 DEF ResumeOk, Upcoming
<1>18. ASSUME NEW u \in Units, ResumeFails(u)
     PROVE  KnownDown'
  BY <1>18 DEF ResumeFails, Upcoming
<1>19. CASE ResumeDone
  BY <1>19 DEF ResumeDone
<1>20. CASE Settle
  BY <1>20 DEF Settle, Leave, NoJournal, Journal
<1>21. CASE AfterSnapshot
  BY <1>21 DEF AfterSnapshot, Leave
<1>22. CASE CreateEnds
  BY <1>22 DEF CreateEnds, Leave
<1>23. CASE Crash
  BY <1>23 DEF Crash, Leave
<1>24. ASSUME NEW u \in Units, Land(u)
     PROVE  KnownDown'
  BY <1>24 DEF Land, DockerInUse, NoJournal, Journal
<1>25. ASSUME NEW u \in Units, OutsideStart(u)
     PROVE  KnownDown'
  BY <1>25 DEF OutsideStart
<1>26. ASSUME NEW u \in Units, OutsideStop(u)
     PROVE  KnownDown'
  BY <1>26 DEF OutsideStop
<1>27. CASE Reconfigure
  BY <1>27 DEF Reconfigure
<1>28. CASE UNCHANGED vars
  BY <1>28 DEF vars
<1>29. QED
  BY <1>1, <1>2, <1>3, <1>4, <1>5, <1>6, <1>7, <1>8, <1>9, <1>10, <1>11,
     <1>12, <1>13, <1>14, <1>15, <1>16, <1>17, <1>18, <1>19, <1>20, <1>21, <1>22,
     <1>23, <1>24, <1>25, <1>26, <1>27, <1>28
  DEF Next, Backup, Outside, Quiescing, Resuming

\* The part of SInv about what a run has staged.
LEMMA StagedStep ==
  ASSUME SInv, TypeOK', TargetOK', [Next]_vars
  PROVE  StagedNow'
<1> USE UnitsAssumption
    DEF TypeOK, TargetOK, Units, Items, Labels, world, disk, locals, bounds, SInv, LoopsWithinRun,
        ErrorsInResume, Staging, StagedNow
<1>1. CASE Begin
  BY <1>1 DEF Begin
<1>2. CASE Recover
  BY <1>2 DEF Recover, EnterResume, NoJournal, Journal
<1>3. CASE Audit
  BY <1>3 DEF Audit, Seen
<1>4. ASSUME NEW c \in Containers, CheckStopped(c)
     PROVE  StagedNow'
  BY <1>4 DEF CheckStopped, Leave, Seen
<1>5. CASE CopyStopped
  BY <1>5 DEF CopyStopped, Copy, Still
<1>6. CASE CopyOnline
  BY <1>6 DEF CopyOnline, Still
<1>7. ASSUME NEW s \in Services, QueryService(s)
     PROVE  StagedNow'
  BY <1>7 DEF QueryService, Seen, DockerInUse, NoJournal, Journal
<1>8. CASE SnapshotOfStopped
  BY <1>8 DEF SnapshotOfStopped
<1>9. CASE RecordStopping
  BY <1>9 DEF RecordStopping, Journal, NoJournal
<1>10. CASE FailBeforeStop
  BY <1>10 DEF FailBeforeStop, Leave
<1>11. ASSUME NEW u \in Units, IssueStop(u)
     PROVE  StagedNow'
  BY <1>11 DEF IssueStop, Break, EnterResume, Upcoming
<1>12. CASE StopDone
  BY <1>12 DEF StopDone
<1>13. CASE StopAbandoned
  BY <1>13 DEF StopAbandoned, Break, EnterResume
<1>14. CASE RecordQuiesced
  BY <1>14 DEF RecordQuiesced, Break, EnterResume, Journal, NoJournal
<1>15. ASSUME NEW i \in Items, FinalCopy(i)
     PROVE  StagedNow'
  BY <1>15 DEF FinalCopy, Copy, Still, Break, EnterResume, Upcoming
<1>16. CASE FinalCopiesDone
  BY <1>16 DEF FinalCopiesDone, EnterResume
<1>17. ASSUME NEW u \in Units, ResumeOk(u)
     PROVE  StagedNow'
  BY <1>17 DEF ResumeOk, Upcoming
<1>18. ASSUME NEW u \in Units, ResumeFails(u)
     PROVE  StagedNow'
  BY <1>18 DEF ResumeFails, Upcoming
<1>19. CASE ResumeDone
  BY <1>19 DEF ResumeDone
<1>20. CASE Settle
  BY <1>20 DEF Settle, Leave, NoJournal, Journal
<1>21. CASE AfterSnapshot
  BY <1>21 DEF AfterSnapshot, Leave
<1>22. CASE CreateEnds
  BY <1>22 DEF CreateEnds, Leave
<1>23. CASE Crash
  BY <1>23 DEF Crash, Leave
<1>24. ASSUME NEW u \in Units, Land(u)
     PROVE  StagedNow'
  BY <1>24 DEF Land, DockerInUse, NoJournal, Journal
<1>25. ASSUME NEW u \in Units, OutsideStart(u)
     PROVE  StagedNow'
  BY <1>25 DEF OutsideStart
<1>26. ASSUME NEW u \in Units, OutsideStop(u)
     PROVE  StagedNow'
  BY <1>26 DEF OutsideStop
<1>27. CASE Reconfigure
  BY <1>27 DEF Reconfigure
<1>28. CASE UNCHANGED vars
  BY <1>28 DEF vars
<1>29. QED
  BY <1>1, <1>2, <1>3, <1>4, <1>5, <1>6, <1>7, <1>8, <1>9, <1>10, <1>11,
     <1>12, <1>13, <1>14, <1>15, <1>16, <1>17, <1>18, <1>19, <1>20, <1>21, <1>22,
     <1>23, <1>24, <1>25, <1>26, <1>27, <1>28
  DEF Next, Backup, Outside, Quiescing, Resuming

\* The part of SInv about the copies.
LEMMA QuietStep ==
  ASSUME SInv, TypeOK', TargetOK', [Next]_vars
  PROVE  QuietCopies'
<1> USE UnitsAssumption
    DEF TypeOK, TargetOK, Units, Items, Labels, world, disk, locals, bounds, SInv, JournalIsRun,
        NoJournalOutsideRun, LoopsWithinRun, ServiceStopsRecorded, ErrorsInResume, Staging,
        KnownDown, StagedNow, QuietCopies, Quiet, ServicesRest
<1>1. CASE Begin
  BY <1>1 DEF Begin
<1>2. CASE Recover
  BY <1>2 DEF Recover, EnterResume, NoJournal, Journal
<1>3. CASE Audit
  BY <1>3 DEF Audit, Seen
<1>4. ASSUME NEW c \in Containers, CheckStopped(c)
     PROVE  QuietCopies'
  BY <1>4 DEF CheckStopped, Leave, Seen
<1>5. CASE CopyStopped
  BY <1>5 DEF CopyStopped, Copy, Still
<1>6. CASE CopyOnline
  BY <1>6 DEF CopyOnline, Still
<1>7. ASSUME NEW s \in Services, QueryService(s)
     PROVE  QuietCopies'
  BY <1>7 DEF QueryService, Seen, DockerInUse, NoJournal, Journal
<1>8. CASE SnapshotOfStopped
  BY <1>8 DEF SnapshotOfStopped
<1>9. CASE RecordStopping
  BY <1>9 DEF RecordStopping, Journal, NoJournal
<1>10. CASE FailBeforeStop
  BY <1>10 DEF FailBeforeStop, Leave
<1>11. ASSUME NEW u \in Units, IssueStop(u)
     PROVE  QuietCopies'
  BY <1>11 DEF IssueStop, Break, EnterResume, Upcoming
<1>12. CASE StopDone
  BY <1>12 DEF StopDone
<1>13. CASE StopAbandoned
  BY <1>13 DEF StopAbandoned, Break, EnterResume
<1>14. CASE RecordQuiesced
  BY <1>14 DEF RecordQuiesced, Break, EnterResume, Journal, NoJournal
<1>15. ASSUME NEW i \in Items, FinalCopy(i)
     PROVE  QuietCopies'
  BY <1>15 DEF FinalCopy, Copy, Still, Break, EnterResume, Upcoming
<1>16. CASE FinalCopiesDone
  BY <1>16 DEF FinalCopiesDone, EnterResume
<1>17. ASSUME NEW u \in Units, ResumeOk(u)
     PROVE  QuietCopies'
  BY <1>17 DEF ResumeOk, Upcoming
<1>18. ASSUME NEW u \in Units, ResumeFails(u)
     PROVE  QuietCopies'
  BY <1>18 DEF ResumeFails, Upcoming
<1>19. CASE ResumeDone
  BY <1>19 DEF ResumeDone
<1>20. CASE Settle
  BY <1>20 DEF Settle, Leave, NoJournal, Journal
<1>21. CASE AfterSnapshot
  BY <1>21 DEF AfterSnapshot, Leave
<1>22. CASE CreateEnds
  BY <1>22 DEF CreateEnds, Leave
<1>23. CASE Crash
  BY <1>23 DEF Crash, Leave
<1>24. ASSUME NEW u \in Units, Land(u)
     PROVE  QuietCopies'
  BY <1>24 DEF Land, DockerInUse, NoJournal, Journal
<1>25. ASSUME NEW u \in Units, OutsideStart(u)
     PROVE  QuietCopies'
  BY <1>25 DEF OutsideStart
<1>26. ASSUME NEW u \in Units, OutsideStop(u)
     PROVE  QuietCopies'
  BY <1>26 DEF OutsideStop
<1>27. CASE Reconfigure
  BY <1>27 DEF Reconfigure
<1>28. CASE UNCHANGED vars
  BY <1>28 DEF vars
<1>29. QED
  BY <1>1, <1>2, <1>3, <1>4, <1>5, <1>6, <1>7, <1>8, <1>9, <1>10, <1>11,
     <1>12, <1>13, <1>14, <1>15, <1>16, <1>17, <1>18, <1>19, <1>20, <1>21, <1>22,
     <1>23, <1>24, <1>25, <1>26, <1>27, <1>28
  DEF Next, Backup, Outside, Quiescing, Resuming

\* Nothing is staged to begin with.
LEMMA SInvInit == Init => SInv
<1> SUFFICES ASSUME Init
             PROVE  SInv
  OBVIOUS
<1>1. TypeOK /\ TargetOK
  BY TypeInit
<1>2. JournalListsUnits /\ SeenBack = {}
  BY DEF Init, JournalListsUnits, NoJournal, Journal, SeenBack
<1>3. Staging
  BY DEF Init, Staging, KnownDown, StagedNow, QuietCopies
<1>4. QED
  BY <1>1, <1>2, <1>3
  DEF Init, SInv, JournalIsRun, DockerInUse, NoJournalOutsideRun, LoopsWithinRun,
      ServiceStopsRecorded, ErrorsInResume, Units

\* A backup leaves a source out of the live archive only with all the others,
\* and only for a copy taken with its container and the services down, unless
\* somebody else started or stopped that container or a service meanwhile
\* (prepare_snapshot, its early exits and its failures).  Nothing is assumed of
\* the container runtime: a container still on its way down counts as running,
\* and no service is on its way down when the services are queried.
THEOREM SnapshotIsQuiet == Spec => []SnapshotUndisturbed
<1>1. SInv /\ (TypeOK /\ TargetOK)' /\ [Next]_vars => SInv'
  BY RunStep, KnownDownStep, StagedStep, QuietStep DEF SInv, Staging
<1>2. SInv => SnapshotUndisturbed
  BY DEF SInv, Staging, StagedNow, QuietCopies, Quiet, ErrorsInResume, SnapshotUndisturbed
<1>3. QED
  BY <1>1, <1>2, SInvInit, TypeInvariant, PTL DEF Spec

=============================================================================
