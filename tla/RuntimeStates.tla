--------------------------- MODULE RuntimeStates ---------------------------
(***************************************************************************)
(* The nine-state machine the RuntimeState docstring promises: states are  *)
(* passed in order, a failure or an interruption may come from any state   *)
(* that is not terminal, and a terminal state is final.                    *)
(***************************************************************************)
VARIABLE state

Terminal == {"completed", "failed", "interrupted"}

Forward ==
    {<<"received", "verified">>,
     <<"verified", "backend_session_constructed">>,
     <<"backend_session_constructed", "running">>,
     <<"running", "terminal_intent_received">>,
     <<"running", "finalizing">>,
     <<"terminal_intent_received", "finalizing">>,
     <<"finalizing", "completed">>}

Advance == \E t \in Forward : state = t[1] /\ state' = t[2]

Break == state \notin Terminal /\ state' \in {"failed", "interrupted"}

Init == state = "received"
Next == Advance \/ Break
Spec == Init /\ [][Next]_state
=============================================================================
