---------------------------- MODULE SetupProofs ----------------------------
(***************************************************************************)
(* Setup keeps its gate: whatever installation is cut short and whatever   *)
(* helpers run, an operation that may write has a validated repository or  *)
(* a profile installed as new, and timers are on only after a backup.      *)
(*                                                                         *)
(* The gate looks at one file, the marker.  That this is enough rests on   *)
(* the order in which setup-profile writes (Ordered) and on the marker     *)
(* being removed after a validation only (Marked).                         *)
(***************************************************************************)
EXTENDS Setup, FiniteSetTheorems, TLAPS

Types ==
  /\ disk \subseteq Files /\ mode \in Modes \cup {"none"}
  /\ chosen \in Modes /\ step \in Seq(Files)
  /\ stamp \in BOOLEAN /\ validated \in BOOLEAN
  /\ pc \in [Helpers -> {"idle", "gate", "run", "create", "complete", "stamp"}]
  /\ op \in [Helpers -> Operations \cup {"none"}]
  /\ enabled \subseteq Timers /\ active \subseteq Timers
  /\ todo \in Seq(Timers) /\ wanted \in BOOLEAN
  /\ before \in [enabled : SUBSET Timers, active : SUBSET Timers]

\* What is yet to be written comes in its order: the marker before the mode,
\* the mode before the configuration, and no mode twice.
Ordered ==
  \A i \in DOMAIN step :
    /\ step[i] = "marker" => mode = "none" /\ \A j \in 1..i - 1 : step[j] # "mode"
    /\ step[i] = "mode" =>
         /\ mode \in {"none", chosen}
         /\ chosen = "reconnect" =>
              "marker" \in disk \/ validated \/ \E j \in 1..i - 1 : step[j] = "marker"
    /\ step[i] = "config" => mode # "none" \/ \E j \in 1..i - 1 : step[j] = "mode"

\* A profile that is reconnected is marked until it is validated.
Marked ==
  /\ "mode" \in disk <=> mode # "none"
  /\ mode = "reconnect" => validated \/ "marker" \in disk
  /\ "config" \in disk => mode # "none"
  /\ stamp => mode # "none"
  /\ \A h \in Helpers : pc[h] # "idle" => mode # "none"
  /\ \A h \in Helpers : pc[h] = "complete" => validated

Ready == "marker" \notin disk /\ stamp /\ (mode = "new" \/ validated)

\* A timer that is on, was on or is about to be.
Switched ==
  /\ enabled \cup active \cup before.enabled \cup before.active # {} => Ready
  /\ apc \in {"reload", "call"} /\ wanted => Ready

IInv == Types /\ Ordered /\ Marked /\ GateHolds /\ Switched
----------------------------------------------------------------------------
(* Facts the steps share                                                   *)

\* Each order of setup-profile is one that Ordered asks for.
LEMMA SequenceOrder ==
  ASSUME NEW m \in Modes
  PROVE  /\ Sequence(m) \in Seq(Files)
         /\ \A i \in DOMAIN Sequence(m) :
              /\ Sequence(m)[i] = "marker" => \A j \in 1..i - 1 : Sequence(m)[j] # "mode"
              /\ Sequence(m)[i] = "mode" /\ m = "reconnect" =>
                   \E j \in 1..i - 1 : Sequence(m)[j] = "marker"
              /\ Sequence(m)[i] = "config" => \E j \in 1..i - 1 : Sequence(m)[j] = "mode"
<1>1. CASE m = "reconnect"
  <2> DEFINE s == <<"marker", "mode", "config", "keys", "index", "sudo", "lock", "browse">>
  <2>1. Sequence(m) = s
    BY <1>1 DEF Sequence
  <2>2. s \in Seq(Files) /\ DOMAIN s = 1..8
    BY DEF Files
  <2>3. s[1] = "marker" /\ s[2] = "mode" /\ s[3] = "config"
    OBVIOUS
  <2>4. \A i \in 1..8 : /\ s[i] = "marker" => i = 1
                        /\ s[i] = "mode" => i = 2
                        /\ s[i] = "config" => i = 3
    OBVIOUS
  <2> HIDE DEF s
  <2> QED
    BY <2>1, <2>2, <2>3, <2>4
<1>2. CASE m = "new"
  <2> DEFINE s == <<"mode", "config", "keys", "index", "sudo", "lock", "browse">>
  <2>1. Sequence(m) = s
    BY <1>2 DEF Sequence
  <2>2. s \in Seq(Files) /\ DOMAIN s = 1..7
    BY DEF Files
  <2>3. s[1] = "mode" /\ s[2] = "config"
    OBVIOUS
  <2>4. \A i \in 1..7 : s[i] # "marker" /\ (s[i] = "config" => i = 2)
    OBVIOUS
  <2> HIDE DEF s
  <2> QED
    BY <1>2, <2>1, <2>2, <2>3, <2>4
<1> QED
  BY <1>1, <1>2 DEF Modes

\* What is left to write after the first file.
LEMMA Rest ==
  ASSUME NEW S, NEW s \in Seq(S), s # <<>>
  PROVE  /\ Head(s) \in S /\ Tail(s) \in Seq(S)
         /\ 1 \in DOMAIN s /\ Head(s) = s[1]
         /\ DOMAIN Tail(s) = 1..Len(s) - 1 /\ DOMAIN s = 1..Len(s)
         /\ \A i \in DOMAIN Tail(s) : i + 1 \in DOMAIN s /\ Tail(s)[i] = s[i + 1]
OBVIOUS

\* What the script is about to do.
LEMMA CallTypes ==
  ASSUME NEW on \in BOOLEAN
  PROVE  Calls(on) \in Seq(Timers) /\ Expected(on) \subseteq Timers
<1> USE DEF Timers, OtherTimer, BackupTimer
<1>1. <<"server", "desktop", "index">> \in Seq(Timers)
  OBVIOUS
<1>2. <<"desktop", "server", "index">> \in Seq(Timers)
  OBVIOUS
<1>3. Calls(on) \in {<<"server", "desktop", "index">>, <<"desktop", "server", "index">>}
  BY DEF Calls
<1>4. Expected(on) \subseteq Timers
  BY DEF Expected
<1> QED
  BY <1>1, <1>2, <1>3, <1>4

----------------------------------------------------------------------------
(* The invariant                                                           *)

LEMMA InitInv == Init => IInv
<1> SUFFICES ASSUME Init PROVE IInv
  OBVIOUS
<1> USE DEF Init
<1>1. Types
  <2>1. step \in Seq(Files) /\ todo \in Seq(Timers)
    OBVIOUS
  <2>2. before \in [enabled : SUBSET Timers, active : SUBSET Timers]
    BY DEF NoTimers
  <2>3. /\ pc \in [Helpers -> {"idle", "gate", "run", "create", "complete", "stamp"}]
        /\ op \in [Helpers -> Operations \cup {"none"}]
    OBVIOUS
  <2> QED
    BY <2>1, <2>2, <2>3 DEF Types, Modes
<1>2. Ordered /\ Marked /\ GateHolds
  BY DEF Ordered, Marked, GateHolds
<1>3. Switched
  BY DEF Switched, NoTimers
<1> QED
  BY <1>1, <1>2, <1>3 DEF IInv

\* Steps of setup-profile.
LEMMA ProfileSteps == IInv /\ (StartSetup \/ Install \/ AbandonSetup \/ Edit) => IInv'
<1> SUFFICES ASSUME IInv, StartSetup \/ Install \/ AbandonSetup \/ Edit PROVE IInv'
  OBVIOUS
<1> USE DEF IInv, profile, repository, helper, units, automation
<1>1. CASE StartSetup
  <2>1. chosen' \in Modes /\ step' = Sequence(chosen') /\ mode = "none"
    BY <1>1 DEF StartSetup, Untouched, Marked, Files
  <2>2. Types'
    BY <1>1, <2>1, SequenceOrder DEF StartSetup, Types
  <2>3. Ordered'
    BY <1>1, <2>1, SequenceOrder DEF StartSetup, Ordered
  <2>4. (Marked /\ GateHolds /\ Switched)'
    BY <1>1 DEF StartSetup, Marked, GateHolds, Switched, Ready
  <2> QED
    BY <2>2, <2>3, <2>4
<1>2. CASE Install
  <2> DEFINE f == Head(step)
  <2>1. /\ f \in Files /\ step' \in Seq(Files)
        /\ 1 \in DOMAIN step /\ f = step[1]
        /\ DOMAIN step' = 1..Len(step) - 1 /\ DOMAIN step = 1..Len(step)
        /\ \A i \in DOMAIN step' : i + 1 \in DOMAIN step /\ step'[i] = step[i + 1]
    BY <1>2, Rest DEF Install, Types
  <2>2. /\ disk' = disk \cup {f} /\ mode' = IF f = "mode" THEN chosen ELSE mode
        /\ UNCHANGED <<chosen, repo, stamp, validated, pc, op>>
        /\ UNCHANGED <<enabled, active, apc, todo, wanted, before>>
    BY <1>2 DEF Install
  <2> HIDE DEF f
  <2>3. Types'
    BY <2>1, <2>2 DEF Types, Modes
  <2>4. Ordered'
    <3> SUFFICES ASSUME NEW i \in DOMAIN step'
                 PROVE  /\ step'[i] = "marker" => mode' = "none" /\ \A j \in 1..i - 1 : step'[j] # "mode"
                        /\ step'[i] = "mode" =>
                             /\ mode' \in {"none", chosen'}
                             /\ chosen' = "reconnect" =>
                                  "marker" \in disk' \/ validated' \/ \E j \in 1..i - 1 : step'[j] = "marker"
                        /\ step'[i] = "config" => mode' # "none" \/ \E j \in 1..i - 1 : step'[j] = "mode"
      BY DEF Ordered
    <3>1. /\ i \in Nat /\ i + 1 \in DOMAIN step /\ step'[i] = step[i + 1]
          /\ \A j \in 1..i - 1 : j + 1 \in 1..(i + 1) - 1 /\ step'[j] = step[j + 1]
      BY <2>1
    <3>2. \A j \in 1..(i + 1) - 1 : j # 1 => j - 1 \in 1..i - 1 /\ step'[j - 1] = step[j]
      BY <2>1, <3>1
    <3>3. 1 \in 1..(i + 1) - 1
      BY <2>1, <3>1
    <3>4. step'[i] = "marker" => mode' = "none" /\ \A j \in 1..i - 1 : step'[j] # "mode"
      BY <2>1, <2>2, <3>1, <3>3 DEF Ordered
    <3>5. step'[i] = "mode" => mode' \in {"none", chosen'}
      BY <2>1, <2>2, <3>1 DEF Ordered
    <3>6. step'[i] = "mode" /\ chosen' = "reconnect" =>
            "marker" \in disk' \/ validated' \/ \E j \in 1..i - 1 : step'[j] = "marker"
      BY <2>1, <2>2, <3>1, <3>2 DEF Ordered
    <3>7. step'[i] = "config" => mode' # "none" \/ \E j \in 1..i - 1 : step'[j] = "mode"
      BY <2>1, <2>2, <3>1, <3>2 DEF Ordered, Types, Modes
    <3> QED
      BY <3>4, <3>5, <3>6, <3>7
  <2>a. \A j \in 1..1 - 1 : FALSE
    OBVIOUS
  <2>5. mode # "none" => mode' = mode
    BY <2>1, <2>2 DEF Ordered, Types
  <2>6. f = "marker" => mode = "none"
    BY <2>1 DEF Ordered
  <2>7. f = "config" => mode # "none"
    BY <2>1, <2>a DEF Ordered
  <2>8. f = "mode" /\ chosen = "reconnect" => "marker" \in disk \/ validated
    BY <2>1, <2>a DEF Ordered
  <2>9. Marked'
    BY <2>2, <2>5, <2>7, <2>8 DEF Marked, Types, Modes
  <2>10. GateHolds'
    BY <2>2, <2>5 DEF Marked, GateHolds
  <2>11. Ready => Ready'
    BY <2>2, <2>5, <2>6 DEF Ready, Marked
  <2>12. Switched'
    BY <2>2, <2>11 DEF Switched
  <2> QED
    BY <2>3, <2>4, <2>9, <2>10, <2>12
<1>3. CASE AbandonSetup \/ Edit
  <2>1. UNCHANGED <<disk, mode, chosen, repository, helper, units, automation>>
    BY <1>3 DEF AbandonSetup, Edit
  <2>2. step' \in {step, <<>>}
    BY <1>3 DEF AbandonSetup, Edit
  <2>3. Types'
    <3>1. step' \in Seq(Files)
      <4>1. <<>> \in Seq(Files)
        OBVIOUS
      <4> QED
        BY <2>2, <4>1 DEF Types
    <3> QED
      BY <2>1, <3>1 DEF Types
  <2>4. Ordered'
    <3>1. CASE step' = step
      BY <2>1, <3>1 DEF Ordered
    <3>2. CASE step' = <<>>
      BY <3>2 DEF Ordered
    <3> QED
      BY <2>2, <3>1, <3>2
  <2>5. (Marked /\ GateHolds /\ Switched)'
    BY <2>1 DEF Marked, GateHolds, Switched, Ready
  <2> QED
    BY <2>3, <2>4, <2>5
<1> QED
  BY <1>1, <1>2, <1>3

\* Steps of a helper.
LEMMA HelperSteps ==
  ASSUME IInv, NEW h \in Helpers,
         \/ Load(h) \/ Pass(h) \/ FindNone(h) \/ Create(h) \/ List(h) \/ RemoveMarker(h)
         \/ MakeArchive(h) \/ Stamp(h) \/ End(h)
  PROVE  IInv'
<1> USE DEF IInv, profile, repository, helper, units, automation, Goto
<1>1. CASE Load(h)
  <2>1. (Types /\ Ordered /\ Switched)'
    BY <1>1 DEF Load, Types, Ordered, Switched, Ready
  <2>2. (Marked /\ GateHolds)'
    BY <1>1 DEF Load, Types, Marked, GateHolds
  <2> QED
    BY <2>1, <2>2
<1>2. CASE Pass(h)
  <2>1. (Types /\ Ordered /\ Switched)'
    BY <1>2 DEF Pass, Types, Ordered, Switched, Ready
  <2>2. (Marked /\ GateHolds)'
    BY <1>2 DEF Pass, Types, Modes, Marked, GateHolds
  <2> QED
    BY <2>1, <2>2
<1>3. CASE FindNone(h)
  <2>1. (Types /\ Ordered /\ Switched)'
    BY <1>3 DEF FindNone, Types, Ordered, Switched, Ready
  <2>2. (Marked /\ GateHolds)'
    BY <1>3 DEF FindNone, Types, Marked, GateHolds
  <2> QED
    BY <2>1, <2>2
<1>4. CASE Create(h)
  <2>1. (Types /\ Ordered /\ Switched)'
    BY <1>4 DEF Create, Types, Ordered, Switched, Ready
  <2>2. (Marked /\ GateHolds)'
    BY <1>4 DEF Create, Types, Marked, GateHolds
  <2> QED
    BY <2>1, <2>2
<1>5. CASE List(h)
  <2>1. (Types /\ Ordered /\ Switched)'
    BY <1>5 DEF List, Types, Ordered, Switched, Ready
  <2>2. (Marked /\ GateHolds)'
    BY <1>5 DEF List, Types, Marked, GateHolds
  <2> QED
    BY <2>1, <2>2
<1>6. CASE RemoveMarker(h)
  <2>1. validated /\ UNCHANGED validated
    BY <1>6 DEF RemoveMarker, Marked
  <2>2. (Types /\ Ordered /\ Switched)'
    BY <1>6, <2>1 DEF RemoveMarker, Types, Ordered, Switched, Ready
  <2>3. (Marked /\ GateHolds)'
    BY <1>6, <2>1 DEF RemoveMarker, Types, Marked, GateHolds
  <2> QED
    BY <2>2, <2>3
<1>7. CASE MakeArchive(h)
  <2>1. (Types /\ Ordered /\ Switched)'
    BY <1>7 DEF MakeArchive, Types, Ordered, Switched, Ready
  <2>2. (Marked /\ GateHolds)'
    BY <1>7 DEF MakeArchive, Types, Marked, GateHolds
  <2> QED
    BY <2>1, <2>2
<1>8. CASE Stamp(h)
  <2>1. (Types /\ Ordered /\ Switched)'
    BY <1>8 DEF Stamp, Types, Ordered, Switched, Ready
  <2>2. (Marked /\ GateHolds)'
    BY <1>8 DEF Stamp, Types, Marked, GateHolds
  <2> QED
    BY <2>1, <2>2
<1>9. CASE End(h)
  <2>1. (Types /\ Ordered /\ Switched)'
    BY <1>9 DEF End, Types, Ordered, Switched, Ready
  <2>2. (Marked /\ GateHolds)'
    BY <1>9 DEF End, Types, Marked, GateHolds
  <2> QED
    BY <2>1, <2>2
<1> QED
  BY <1>1, <1>2, <1>3, <1>4, <1>5, <1>6, <1>7, <1>8, <1>9

\* Steps of boxup automation, which leave the profile and the helpers alone.
LEMMA AutomationSteps ==
  ASSUME IInv,
         \/ Ask \/ EnableNotify \/ StartNotify \/ StartScript \/ ReloadUnits \/ Call \/ Verify
         \/ Rollback \/ ScriptDies \/ Undo \/ CommandDies
  PROVE  IInv'
<1> USE DEF IInv, profile, repository, helper, units, automation
<1>1. UNCHANGED <<profile, repository, helper>>
  BY DEF Ask, EnableNotify, StartNotify, StartScript, ReloadUnits, Call, Verify, Rollback,
         ScriptDies, Undo, CommandDies
<1>2. (Ordered /\ Marked /\ GateHolds)' /\ (Ready <=> Ready')
  BY <1>1 DEF Ordered, Marked, GateHolds, Ready
<1>3. /\ disk' \subseteq Files /\ mode' \in Modes \cup {"none"}
      /\ chosen' \in Modes /\ step' \in Seq(Files)
      /\ stamp' \in BOOLEAN /\ validated' \in BOOLEAN
      /\ pc' \in [Helpers -> {"idle", "gate", "run", "create", "complete", "stamp"}]
      /\ op' \in [Helpers -> Operations \cup {"none"}]
  BY <1>1 DEF Types
<1>4. CASE Ask
  BY <1>2, <1>3, <1>4 DEF Ask, NoTimers, Types, Switched
<1>5. CASE EnableNotify \/ StartNotify \/ Verify \/ Undo
  BY <1>2, <1>3, <1>5 DEF EnableNotify, StartNotify, Verify, Undo, Failed, Types, Switched
<1>6. CASE StartScript
  <2>1. CASE UNCHANGED <<todo, before>> /\ apc' = Failed
    BY <1>2, <1>3, <1>6, <2>1 DEF StartScript, Failed, Types, Switched
  <2>2. CASE ~(UNCHANGED <<todo, before>> /\ apc' = Failed)
    <3>1. /\ Permits(wanted) /\ todo' = Calls(wanted) /\ "config" \in disk
          /\ before' = [enabled |-> enabled, active |-> active]
          /\ UNCHANGED <<enabled, active, wanted>>
      BY <1>6, <2>2 DEF StartScript
    <3>2. wanted => Ready
      BY <3>1 DEF Permits, Ready, Marked, Types, Modes
    <3> QED
      BY <1>2, <1>3, <3>1, <3>2, CallTypes DEF Types, Switched
  <2> QED
    BY <2>1, <2>2
<1>7. CASE ReloadUnits
  <2>1. /\ todo' \in {todo, <<>>} /\ apc = "reload" /\ apc' \in {"call", "undo", "idle"}
        /\ UNCHANGED <<enabled, active, wanted, before>>
    BY <1>7 DEF ReloadUnits, Failed
  <2>2. <<>> \in Seq(Timers)
    OBVIOUS
  <2>3. todo' \in Seq(Timers)
    BY <2>1, <2>2 DEF Types
  <2> QED
    BY <1>2, <1>3, <2>1, <2>3 DEF Types, Switched
<1>8. CASE Call
  <2> DEFINE t == Head(todo)
  <2>1. /\ t \in Timers /\ todo' \in Seq(Timers)
        /\ active' \in {active, Put(active, t, t \in Expected(wanted))}
        /\ enabled' \in {enabled, Put(enabled, t, t \in Expected(wanted))}
        /\ apc = "call" /\ apc' \in {"call", "rollback"}
        /\ UNCHANGED <<wanted, before>>
    BY <1>8, Rest DEF Call, Types
  <2> HIDE DEF t
  <2>2. enabled' \subseteq Timers /\ active' \subseteq Timers
    BY <2>1 DEF Put, Types
  <2>3. t \in Expected(wanted) => Ready
    BY <2>1 DEF Expected, Switched
  <2>4. enabled' \cup active' # {} => Ready
    BY <2>1, <2>3 DEF Put, Switched
  <2> QED
    BY <1>2, <1>3, <2>1, <2>2, <2>4 DEF Types, Switched
<1>9. CASE Rollback
  <2>1. /\ todo' = <<>> /\ apc' = Failed /\ UNCHANGED <<wanted, before>>
        /\ enabled' \subseteq enabled \cup before.enabled
        /\ active' \subseteq active \cup before.active
    BY <1>9 DEF Rollback, PutBack
  <2> QED
    BY <1>2, <1>3, <2>1 DEF Failed, Types, Switched
<1>10. CASE ScriptDies
  <2>1. /\ todo' = <<>> /\ apc' = Failed /\ UNCHANGED <<wanted, before>>
        /\ enabled' \subseteq enabled \cup before.enabled
        /\ active' \subseteq active \cup before.active
    BY <1>10 DEF ScriptDies, PutBack
  <2> QED
    BY <1>2, <1>3, <2>1 DEF Failed, Types, Switched
<1>11. CASE CommandDies
  BY <1>2, <1>3, <1>11 DEF CommandDies, Types, Switched
<1> QED
  BY <1>4, <1>5, <1>6, <1>7, <1>8, <1>9, <1>10, <1>11

\* The invariant is inductive.
LEMMA NextInv == IInv /\ [Next]_vars => IInv'
<1> SUFFICES ASSUME IInv, [Next]_vars PROVE IInv'
  OBVIOUS
<1>1. CASE StartSetup \/ Install \/ AbandonSetup \/ Edit
  BY <1>1, ProfileSteps
<1>2. ASSUME NEW h \in Helpers,
             \/ Load(h) \/ Pass(h) \/ FindNone(h) \/ Create(h) \/ List(h) \/ RemoveMarker(h)
             \/ MakeArchive(h) \/ Stamp(h) \/ End(h)
      PROVE  IInv'
  BY <1>2, HelperSteps
<1>3. CASE \/ Ask \/ EnableNotify \/ StartNotify \/ StartScript \/ ReloadUnits \/ Call \/ Verify
           \/ Rollback \/ ScriptDies \/ Undo \/ CommandDies
  BY <1>3, AutomationSteps
<1>4. CASE OthersWrite \/ UNCHANGED vars
  BY <1>4 DEF OthersWrite, vars, profile, repository, helper, units, automation, IInv, Types,
     Ordered, Marked, GateHolds, Switched, Ready
<1> QED
  BY <1>1, <1>2, <1>3, <1>4 DEF Next

\* The strengthening holds of every reachable state.
THEOREM Invariance == Spec => []IInv
BY InitInv, NextInv, PTL DEF Spec

\* boxup-root: an operation past the gate has a validated repository or a
\* profile installed as new, for any number of helpers and any interrupted
\* installation.
THEOREM GateTheorem == Spec => []GateHolds
<1>1. IInv => GateHolds
  BY DEF IInv
<1> QED
  BY <1>1, Invariance, PTL

\* setup-automation: a timer is on only after the validation and a backup.
THEOREM TimersTheorem == Spec => []TimersAfterBackup
<1>1. IInv => TimersAfterBackup
  BY DEF IInv, Switched, Ready, TimersAfterBackup
<1> QED
  BY <1>1, Invariance, PTL
----------------------------------------------------------------------------
(* What boxup automation remembers, for ReportIsTrue                       *)

\* The types of the variables that the gate does not depend on.
OtherTypes ==
  /\ sound \in BOOLEAN /\ repo \in {"absent", "empty", "foreign", "ours"}
  /\ notify \in Unit /\ noticed \in Unit
  /\ apc \in {"idle", "enable", "start", "script", "reload", "call", "rollback", "undo"}
  /\ attended \in BOOLEAN
  /\ said \in {"none", "restored", "incomplete"}
  /\ report \in {"none", "changed", "failed", "incomplete"}
  /\ failures \in 0..MaxFailures
  /\ Len(step) <= 8 /\ Len(todo) <= 3

\* How far the switch has come: the notification unit is as asked while the
\* script runs, and nothing is told before its time.
Remembered ==
  /\ apc = "start" => notify.enabled = wanted
  /\ apc \in {"script", "reload", "call"} => notify = [enabled |-> wanted, active |-> wanted]
  /\ apc # "idle" => report = "none"
  /\ apc \notin {"idle", "undo"} => said = "none"

RInv == Types /\ Marked /\ OtherTypes /\ Remembered /\ ReportIsTrue

\* One element more.
LEMMA Grown ==
  ASSUME NEW S, NEW x, NEW n, IsFiniteSet(S), Cardinality(S) = n, x \notin S
  PROVE  IsFiniteSet(S \cup {x}) /\ Cardinality(S \cup {x}) = n + 1
BY FS_AddElement

\* The bounds of TypeOK are the longest orders there are.
LEMMA Counted == Cardinality(Files) = 8 /\ Cardinality(Timers) = 3
<1>a1. IsFiniteSet({}) /\ Cardinality({}) = 0
  BY FS_EmptySet
<1>a2. IsFiniteSet({"marker"}) /\ Cardinality({"marker"}) = 1
  <2>1. {"marker"} = {} \cup {"marker"} /\ "marker" \notin {}
    OBVIOUS
  <2> QED
    BY <1>a1, <2>1, Grown
<1>a3. IsFiniteSet({"marker", "mode"}) /\ Cardinality({"marker", "mode"}) = 2
  <2>1. {"marker", "mode"} = {"marker"} \cup {"mode"} /\ "mode" \notin {"marker"}
    OBVIOUS
  <2> QED
    BY <1>a2, <2>1, Grown
<1>a4. IsFiniteSet({"marker", "mode", "config"}) /\ Cardinality({"marker", "mode", "config"}) = 3
  <2>1. {"marker", "mode", "config"} = {"marker", "mode"} \cup {"config"} /\ "config" \notin {"marker", "mode"}
    OBVIOUS
  <2> QED
    BY <1>a3, <2>1, Grown
<1>a5. IsFiniteSet({"marker", "mode", "config", "keys"}) /\ Cardinality({"marker", "mode", "config", "keys"}) = 4
  <2>1. {"marker", "mode", "config", "keys"} = {"marker", "mode", "config"} \cup {"keys"} /\ "keys" \notin {"marker", "mode", "config"}
    OBVIOUS
  <2> QED
    BY <1>a4, <2>1, Grown
<1>a6. IsFiniteSet({"marker", "mode", "config", "keys", "index"}) /\ Cardinality({"marker", "mode", "config", "keys", "index"}) = 5
  <2>1. {"marker", "mode", "config", "keys", "index"} = {"marker", "mode", "config", "keys"} \cup {"index"} /\ "index" \notin {"marker", "mode", "config", "keys"}
    OBVIOUS
  <2> QED
    BY <1>a5, <2>1, Grown
<1>a7. IsFiniteSet({"marker", "mode", "config", "keys", "index", "sudo"}) /\ Cardinality({"marker", "mode", "config", "keys", "index", "sudo"}) = 6
  <2>1. {"marker", "mode", "config", "keys", "index", "sudo"} = {"marker", "mode", "config", "keys", "index"} \cup {"sudo"} /\ "sudo" \notin {"marker", "mode", "config", "keys", "index"}
    OBVIOUS
  <2> QED
    BY <1>a6, <2>1, Grown
<1>a8. IsFiniteSet({"marker", "mode", "config", "keys", "index", "sudo", "lock"}) /\ Cardinality({"marker", "mode", "config", "keys", "index", "sudo", "lock"}) = 7
  <2>1. {"marker", "mode", "config", "keys", "index", "sudo", "lock"} = {"marker", "mode", "config", "keys", "index", "sudo"} \cup {"lock"} /\ "lock" \notin {"marker", "mode", "config", "keys", "index", "sudo"}
    OBVIOUS
  <2> QED
    BY <1>a7, <2>1, Grown
<1>a9. IsFiniteSet({"marker", "mode", "config", "keys", "index", "sudo", "lock", "browse"}) /\ Cardinality({"marker", "mode", "config", "keys", "index", "sudo", "lock", "browse"}) = 8
  <2>1. {"marker", "mode", "config", "keys", "index", "sudo", "lock", "browse"} = {"marker", "mode", "config", "keys", "index", "sudo", "lock"} \cup {"browse"} /\ "browse" \notin {"marker", "mode", "config", "keys", "index", "sudo", "lock"}
    OBVIOUS
  <2> QED
    BY <1>a8, <2>1, Grown
<1>b1. IsFiniteSet({}) /\ Cardinality({}) = 0
  BY FS_EmptySet
<1>b2. IsFiniteSet({"desktop"}) /\ Cardinality({"desktop"}) = 1
  <2>1. {"desktop"} = {} \cup {"desktop"} /\ "desktop" \notin {}
    OBVIOUS
  <2> QED
    BY <1>b1, <2>1, Grown
<1>b3. IsFiniteSet({"desktop", "server"}) /\ Cardinality({"desktop", "server"}) = 2
  <2>1. {"desktop", "server"} = {"desktop"} \cup {"server"} /\ "server" \notin {"desktop"}
    OBVIOUS
  <2> QED
    BY <1>b2, <2>1, Grown
<1>b4. IsFiniteSet({"desktop", "server", "index"}) /\ Cardinality({"desktop", "server", "index"}) = 3
  <2>1. {"desktop", "server", "index"} = {"desktop", "server"} \cup {"index"} /\ "index" \notin {"desktop", "server"}
    OBVIOUS
  <2> QED
    BY <1>b3, <2>1, Grown
<1> QED
  BY <1>a9, <1>b4 DEF Files, Timers

\* Nothing has been reported yet.
LEMMA InitReport == Init => RInv
<1> SUFFICES ASSUME Init PROVE RInv
  OBVIOUS
<1>1. Types /\ Marked
  BY InitInv DEF IInv
<1>2. OtherTypes
  BY FailureAssumption DEF Init, OtherTypes, Off, Unit
<1> QED
  BY <1>1, <1>2 DEF Init, RInv, Remembered, ReportIsTrue

\* The steps of everybody else leave the timers and the switch alone.
LEMMA ReportApart ==
  ASSUME RInv, UNCHANGED <<units, automation>>
  PROVE  (Remembered /\ ReportIsTrue)'
BY DEF RInv, units, automation, Remembered, ReportIsTrue

\* The steps of setup-profile, of the helpers and of other computers.
LEMMA SetupTypes ==
  ASSUME RInv,
         \/ StartSetup \/ Install \/ AbandonSetup \/ Edit \/ OthersWrite
         \/ \E h \in Helpers :
              \/ Load(h) \/ Pass(h) \/ FindNone(h) \/ Create(h) \/ List(h) \/ RemoveMarker(h)
              \/ MakeArchive(h) \/ Stamp(h) \/ End(h)
  PROVE  OtherTypes' /\ UNCHANGED <<units, automation>>
<1> USE DEF RInv, OtherTypes, profile, repository, helper, units, automation
<1>1. CASE StartSetup
  <2>1. Len(step') <= 8
    BY <1>1 DEF StartSetup, Sequence
  <2> QED
    BY <1>1, <2>1 DEF StartSetup
<1>2. CASE Install
  <2>1. Len(step') <= 8
    BY <1>2 DEF Install, Types
  <2> QED
    BY <1>2, <2>1 DEF Install
<1>3. CASE AbandonSetup
  BY <1>3 DEF AbandonSetup
<1>4. CASE Edit
  BY <1>4 DEF Edit
<1>5. CASE OthersWrite
  BY <1>5 DEF OthersWrite
<1>6. ASSUME NEW h \in Helpers,
             \/ Load(h) \/ Pass(h) \/ FindNone(h) \/ Create(h) \/ List(h) \/ RemoveMarker(h)
             \/ MakeArchive(h) \/ Stamp(h) \/ End(h)
      PROVE  OtherTypes' /\ UNCHANGED <<units, automation>>
  BY <1>6 DEF Load, Pass, FindNone, Create, List, RemoveMarker, MakeArchive, Stamp, End
<1> QED
  BY <1>1, <1>2, <1>3, <1>4, <1>5, <1>6

\* What has gone wrong stays within its bound.
LEMMA Bounded ==
  ASSUME failures \in 0..MaxFailures, GoesWrong \/ GoesWell
  PROVE  failures' \in 0..MaxFailures
BY FailureAssumption DEF GoesWrong, GoesWell

\* The steps of boxup automation, one after the other.
LEMMA ReportSteps ==
  ASSUME RInv,
         \/ Ask \/ EnableNotify \/ StartNotify \/ StartScript \/ ReloadUnits \/ Call \/ Verify
         \/ Rollback \/ ScriptDies \/ Undo \/ CommandDies
  PROVE  (OtherTypes /\ Remembered /\ ReportIsTrue)'
<1> USE DEF RInv, profile, repository, helper, units, automation, Unit
<1>1. sound' \in BOOLEAN /\ repo' \in {"absent", "empty", "foreign", "ours"} /\ Len(step') <= 8
  BY DEF OtherTypes, Ask, EnableNotify, StartNotify, StartScript, ReloadUnits, Call, Verify,
         Rollback, ScriptDies, Undo, CommandDies
<1>a. failures' \in 0..MaxFailures
  <2>1. GoesWrong \/ GoesWell
    BY DEF Ask, EnableNotify, StartNotify, StartScript, ReloadUnits, Call, Verify, Rollback,
           ScriptDies, Undo, CommandDies, GoesWell
  <2> QED
    BY <2>1, Bounded DEF OtherTypes
<1>2. CASE Ask
  BY <1>1, <1>a, <1>2 DEF Ask, OtherTypes, Remembered, ReportIsTrue
<1>3. CASE EnableNotify
  BY <1>1, <1>a, <1>3 DEF EnableNotify, Types, OtherTypes, Remembered, ReportIsTrue
<1>4. CASE StartNotify
  BY <1>1, <1>a, <1>4 DEF StartNotify, Types, OtherTypes, Remembered, ReportIsTrue
<1>5. CASE StartScript
  <2>1. Len(Calls(wanted)) = 3
    BY DEF Calls
  <2>2. /\ apc = "script" /\ apc' \in {"reload", "call", "undo", "idle"}
        /\ UNCHANGED <<enabled, active, notify, wanted, noticed, attended, said, report>>
    BY <1>5 DEF StartScript, Failed
  <2>3. Len(todo') = 3 \/ todo' = todo
    BY <1>5, <2>1, Zenon DEF StartScript
  <2>4. Len(todo') <= 3
    <3>1. CASE Len(todo') = 3
      BY <3>1
    <3>2. CASE todo' = todo
      BY <3>2 DEF OtherTypes
    <3> QED
      BY <2>3, <3>1, <3>2
  <2> QED
    BY <1>1, <1>a, <2>2, <2>4 DEF OtherTypes, Remembered, ReportIsTrue
<1>6. CASE ReloadUnits
  BY <1>1, <1>a, <1>6 DEF ReloadUnits, Failed, OtherTypes, Remembered, ReportIsTrue
<1>7. CASE Call
  <2>1. Len(todo') <= 3
    BY <1>7 DEF Call, Types, OtherTypes
  <2>2. /\ apc = "call" /\ apc' \in {"call", "rollback"}
        /\ UNCHANGED <<notify, wanted, noticed, attended, said, report>>
    BY <1>7 DEF Call
  <2> QED
    BY <1>1, <1>a, <2>1, <2>2 DEF OtherTypes, Remembered, ReportIsTrue
<1>8. CASE Verify
  BY <1>1, <1>a, <1>8 DEF Verify, Failed, OtherTypes, Remembered, ReportIsTrue
<1>9. CASE Rollback
  <2>1. /\ apc = "rollback" /\ apc' \in {"undo", "idle"} /\ todo' = <<>>
        /\ UNCHANGED <<notify, wanted, before, noticed, attended, report>>
    BY <1>9 DEF Rollback, Failed
  <2>2. CASE PutBack({}, {}) /\ said' = "restored"
    BY <1>1, <1>a, <2>1, <2>2 DEF PutBack, OtherTypes, Remembered, ReportIsTrue
  <2>3. CASE said' = "incomplete"
    BY <1>1, <1>a, <2>1, <2>3 DEF OtherTypes, Remembered, ReportIsTrue
  <2> QED
    BY <1>9, <2>2, <2>3 DEF Rollback
<1>10. CASE ScriptDies
  <2>1. /\ apc \in {"script", "reload", "call", "rollback"} /\ apc' \in {"undo", "idle"}
        /\ todo' = <<>>
        /\ UNCHANGED <<notify, wanted, before, noticed, attended, said, report>>
    BY <1>10 DEF ScriptDies, Failed
  <2> QED
    BY <1>1, <1>a, <2>1 DEF OtherTypes, Remembered, ReportIsTrue
<1>11. CASE Undo
  <2>1. /\ apc = "undo" /\ apc' = "idle"
        /\ UNCHANGED <<enabled, active, todo, wanted, before, noticed, attended, said>>
    BY <1>11 DEF Undo
  <2>2. notify' \in Unit
    BY <1>11 DEF Undo, OtherTypes
  <2>3. \/ report' = "failed" /\ notify' = noticed
        \/ report' = "incomplete"
    BY <1>11 DEF Undo
  <2> QED
    BY <1>1, <1>a, <2>1, <2>2, <2>3 DEF OtherTypes, Remembered, ReportIsTrue
<1>12. CASE CommandDies
  BY <1>1, <1>a, <1>12 DEF CommandDies, OtherTypes, Remembered, ReportIsTrue
<1> QED
  BY <1>2, <1>3, <1>4, <1>5, <1>6, <1>7, <1>8, <1>9, <1>10, <1>11, <1>12

\* The report invariant, on top of the one of the gate.
LEMMA ReportInvariance == Spec => []RInv
<1>1. ASSUME IInv, RInv, IInv', [Next]_vars
      PROVE  RInv'
  <2>1. CASE \/ StartSetup \/ Install \/ AbandonSetup \/ Edit \/ OthersWrite
             \/ \E h \in Helpers :
                  \/ Load(h) \/ Pass(h) \/ FindNone(h) \/ Create(h) \/ List(h) \/ RemoveMarker(h)
                  \/ MakeArchive(h) \/ Stamp(h) \/ End(h)
    BY <1>1, <2>1, SetupTypes, ReportApart DEF IInv, RInv
  <2>2. CASE \/ Ask \/ EnableNotify \/ StartNotify \/ StartScript \/ ReloadUnits \/ Call
             \/ Verify \/ Rollback \/ ScriptDies \/ Undo \/ CommandDies
    BY <1>1, <2>2, ReportSteps DEF IInv, RInv
  <2>3. CASE UNCHANGED vars
    BY <1>1, <2>3, ReportApart DEF IInv, RInv, OtherTypes, vars, profile, repository, units,
       automation
  <2> QED
    BY <1>1, <2>1, <2>2, <2>3 DEF Next
<1> QED
  BY <1>1, InitReport, Invariance, PTL DEF Spec

\* Every variable stays of its type, the order of the files and the script's
\* calls within their lengths, and the mode is known as soon as its file is
\* there and not before (all actions of Setup).
THEOREM TypesTheorem == Spec => []TypeOK
<1>1. RInv => TypeOK
  BY Counted DEF RInv, Types, Marked, OtherTypes, TypeOK
<1> QED
  BY <1>1, ReportInvariance, PTL

\* boxup automation, its script and their undo, wherever a call fails, the
\* script reads no status or one of the two dies: `changed' is said only of
\* timers and notifications that are all as asked, a plain failure only of
\* notifications as they were found, and the script says `restored' only of
\* timers as it found them.
THEOREM ReportTheorem == Spec => []ReportIsTrue
<1>1. RInv => ReportIsTrue
  BY DEF RInv
<1> QED
  BY <1>1, ReportInvariance, PTL

=============================================================================
