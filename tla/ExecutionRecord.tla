--------------------------- MODULE ExecutionRecord ---------------------------
(***************************************************************************)
(* What the execution layer promises about its journal: for each           *)
(* idempotency key at most one execution is live; an execution becomes     *)
(* live once, is reversed at most once, and never comes back.              *)
(***************************************************************************)
CONSTANTS Executions, Keys

VARIABLES
    live,       \* live executions, as <<key, execution>> pairs
    retired     \* reversed executions

vars == <<live, retired>>

Init == live = {} /\ retired = {}

Execute(k, x) ==
    /\ \A p \in live : p[1] # k /\ p[2] # x
    /\ x \notin retired
    /\ live' = live \cup {<<k, x>>}
    /\ UNCHANGED retired

Reverse(k, x) ==
    /\ <<k, x>> \in live
    /\ live' = live \ {<<k, x>>}
    /\ retired' = retired \cup {x}

Next == \E k \in Keys, x \in Executions : Execute(k, x) \/ Reverse(k, x)

Spec == Init /\ [][Next]_vars
=============================================================================
