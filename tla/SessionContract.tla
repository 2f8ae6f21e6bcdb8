-------------------------- MODULE SessionContract --------------------------
(***************************************************************************)
(* What a guarded session promises its caller, without the loop, the       *)
(* budgets and the batches: tools succeed one at a time and only after     *)
(* their prerequisites, and the session ends once, either committed to a   *)
(* terminal node that succeeded after every required node, or failed with  *)
(* no commitment.  A cancelled session never commits.                      *)
(***************************************************************************)
CONSTANTS Nodes, Terminals, Blocked, Required, Prereqs, None

VARIABLES
    succeeded,   \* nodes with a successful tool result
    outcome,     \* "running", "terminal", "rejected" or "failed"
    committed,   \* the terminal node the result names
    stopped      \* the caller asked to cancel

vars == <<succeeded, outcome, committed, stopped>>

Init ==
    /\ succeeded = {} /\ outcome = "running"
    /\ committed = None /\ stopped \in BOOLEAN

Succeed(n) ==
    /\ outcome = "running"
    /\ \A p \in Prereqs[n] : p.node \in succeeded
    /\ succeeded' = succeeded \cup {n}
    /\ UNCHANGED <<outcome, committed, stopped>>

Commit(t) ==
    /\ outcome = "running" /\ ~stopped
    /\ t \in succeeded /\ Required \subseteq succeeded
    /\ committed' = t
    /\ outcome' = IF t \in Blocked THEN "rejected" ELSE "terminal"
    /\ UNCHANGED <<succeeded, stopped>>

Fail ==
    /\ outcome = "running" /\ outcome' = "failed"
    /\ UNCHANGED <<succeeded, committed, stopped>>

Stop ==
    /\ ~stopped /\ stopped' = TRUE
    /\ UNCHANGED <<succeeded, outcome, committed>>

Next ==
    \/ \E n \in Nodes : Succeed(n)
    \/ \E t \in Terminals : Commit(t)
    \/ Fail \/ Stop

Spec == Init /\ [][Next]_vars
=============================================================================
