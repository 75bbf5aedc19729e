----------------------------- MODULE Retention ------------------------------
(***************************************************************************)
(* What the records of Boxup promise together about the archives of a      *)
(* host, without the processes that write them.                            *)
(*                                                                         *)
(* One backup follows another: a new archive is newer than all there ever  *)
(* were; the protection moves to it only once it exists, and never back;   *)
(* a success is told only of the archive that is protected, and while it   *)
(* is there; and what is taken away is never the last archive at least as  *)
(* new as the protected one.                                               *)
(***************************************************************************)
EXTENDS Integers

CONSTANT Archives         \* numbers of archives, in the order of their backups

VARIABLES
  archives,               \* the complete archives there are
  protected,              \* the newest one that retention must answer for, 0 before
  reported                \* those of which a success was told

vars == <<archives, protected, reported>>

Init ==
  /\ archives = {}
  /\ protected = 0
  /\ reported = {}

\* An archive comes into being, newer than any archive or record.
Make(a) ==
  /\ \A b \in archives \cup reported \cup {protected} : b < a
  /\ archives' = archives \cup {a}
  /\ UNCHANGED <<protected, reported>>

\* The newest archive becomes the one to answer for.
Protect(a) ==
  /\ a \in archives
  /\ \A b \in archives \cup reported : b <= a
  /\ a > protected
  /\ protected' = a
  /\ UNCHANGED <<archives, reported>>

\* Its success is told, once.
Report(a) ==
  /\ a \in archives
  /\ a = protected
  /\ a \notin reported
  /\ reported' = reported \cup {a}
  /\ UNCHANGED <<archives, protected>>

\* Archives are taken away, but not the protection.
Discard ==
  /\ archives' \in SUBSET archives
  /\ protected # 0 => \E a \in archives' : a >= protected
  /\ UNCHANGED <<protected, reported>>

Next ==
  \/ \E a \in Archives : Make(a) \/ Protect(a) \/ Report(a)
  \/ Discard

Spec == Init /\ [][Next]_vars
=============================================================================
