---------------------------- MODULE DecisionAudit ----------------------------
(***************************************************************************)
(* What the decision loop promises an auditor, without saying how: human   *)
(* decisions are recorded, then audited, then acknowledged to the caller,  *)
(* in that order and each once; the two files that hold records and audit  *)
(* entries live and die together.                                          *)
(***************************************************************************)
CONSTANT Decisions
VARIABLES recorded, audited, acked

vars == <<recorded, audited, acked>>

Init == recorded = {} /\ audited = {} /\ acked = {}

\* A decision enters the system of record; it was not there before.
Record(d) ==
    /\ d \notin recorded
    /\ recorded' = recorded \cup {d}
    /\ UNCHANGED <<audited, acked>>

\* Only a recorded decision is audited.
Audit(d) ==
    /\ d \in recorded
    /\ audited' = audited \cup {d}
    /\ UNCHANGED <<recorded, acked>>

\* Only an audited decision is acknowledged.
Acknowledge(d) ==
    /\ d \in audited
    /\ acked' = acked \cup {d}
    /\ UNCHANGED <<recorded, audited>>

\* The disk is lost: both files at once.
LoseDisk ==
    /\ recorded' = {} /\ audited' = {}
    /\ UNCHANGED acked

Next == \/ \E d \in Decisions : Record(d) \/ Audit(d) \/ Acknowledge(d)
        \/ LoseDisk

Spec == Init /\ [][Next]_vars
=============================================================================
