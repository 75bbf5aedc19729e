------------------------------ MODULE Custody ------------------------------
(***************************************************************************)
(* What the Docker/systemd quiescing of Boxup promises, without how.       *)
(*                                                                         *)
(* Boxup may take a workload out of service only after it has durably      *)
(* recorded that it owes that workload a restart, and the record may be    *)
(* discarded only when every workload on it has been put back and seen     *)
(* back.  A crash forgets what has been seen back, never the record.       *)
(***************************************************************************)
CONSTANT Units            \* containers and services that can be quiesced

VARIABLES
  held,                   \* units out of service, or on their way, by Boxup's doing
  debt,                   \* units the durable record says Boxup must put back
  settled                 \* units of the debt seen back since the last crash

vars == <<held, debt, settled>>

TypeOK ==
  /\ held \subseteq Units
  /\ debt \subseteq Units
  /\ settled \subseteq Units

Init ==
  /\ held = {}
  /\ debt = {}
  /\ settled = {}

\* The record is written before anything is taken down.
Open(S) ==
  /\ debt = {}
  /\ S # {}
  /\ debt' = S
  /\ settled' = {}
  /\ UNCHANGED held

\* A unit on the record, and not yet put back, goes out of service.
Seize(u) ==
  /\ u \in debt \ settled
  /\ held' = held \cup {u}
  /\ UNCHANGED <<debt, settled>>

\* A unit comes back: Boxup starts it, its administrator does, or it turns
\* out never to have gone down.
Release(u) ==
  /\ u \in held
  /\ held' = held \ {u}
  /\ UNCHANGED <<debt, settled>>

\* A unit is put back and seen back.
Settle(u) ==
  /\ u \in debt
  /\ held' = held \ {u}
  /\ settled' = settled \cup {u}
  /\ UNCHANGED debt

\* The process dies or gives up: what it saw is lost, the record stays.
Forget ==
  /\ settled' = {}
  /\ UNCHANGED <<held, debt>>

\* The record is discarded once every unit on it was seen back.
Close ==
  /\ debt # {}
  /\ settled = debt
  /\ debt' = {}
  /\ settled' = {}
  /\ UNCHANGED held

Next ==
  \/ \E S \in SUBSET Units : Open(S)
  \/ \E u \in Units : Seize(u) \/ Release(u) \/ Settle(u)
  \/ Forget
  \/ Close

Spec == Init /\ [][Next]_vars

\* Nothing is out of service by Boxup's doing unless the durable record says
\* so, and nothing seen back has gone out of service again.
Accounted ==
  /\ held \subseteq debt
  /\ held \cap settled = {}
=============================================================================
