---------------------------- MODULE ToolExecution ----------------------------
(***************************************************************************)
(* The boundary between a model's tool call and its side effect: the       *)
(* bridge of the session (ForgeToolBridge.invoke), the executor of the     *)
(* compiled bindings (CompiledToolBindingExecutor) and the connector       *)
(* broker behind it.  Bridge and executor each keep a trace.               *)
(*                                                                         *)
(* An implementation is what may go wrong here: it begins and completes    *)
(* its effect at any time, answers honestly, answers for another call,     *)
(* answers with something that is no result, raises, or is cancelled.      *)
(* Calls of one session run one after another.                             *)
(***************************************************************************)
EXTENDS Naturals

CONSTANTS
    Nodes,        \* nodes of the compiled plan, one model-visible tool each
    Kind,         \* node -> "builtin" or "connector"
    Prereqs,      \* node -> nodes that must have succeeded before
    Denied,       \* nodes whose capability or binding is not available
    Terminals,    \* built-in nodes that propose the end of the session
    Idempotency,  \* node -> IdempotencyClass
    Approval,     \* node -> ConnectorApprovalPolicy of its admission
    CallIdKey,    \* connector nodes whose idempotency_key_policy is "call_id"
    MaxCalls,     \* bound on the calls of a session
    None          \* "no record"

Classes == {"idempotent", "with_key", "non_idempotent"}
Policies == {"none", "explicit", "operator", "forbidden"}

Certainties == {"not_attempted", "confirmed_absent", "rolled_back",
                "confirmed_complete", "completion_unknown"}
Statuses == {"success", "not_executed", "soft_failure", "hard_failure",
             "timed_out", "cancelled", "ambiguous"}

Results == [status : Statuses, certainty : Certainties, retryable : BOOLEAN]

ASSUME ToolAssumption ==
    /\ Kind \in [Nodes -> {"builtin", "connector"}]
    /\ Prereqs \in [Nodes -> SUBSET Nodes] /\ Denied \subseteq Nodes
    /\ Terminals \subseteq {n \in Nodes : Kind[n] = "builtin"}
    /\ Idempotency \in [Nodes -> Classes] /\ Approval \in [Nodes -> Policies]
    /\ CallIdKey \subseteq Nodes
    /\ MaxCalls \in Nat
    /\ None \notin Results \cup Nodes

VARIABLES
    phase,    \* where the current call stands
    calls,    \* call ids given so far; the current one is the last
    nodeOf,   \* call id -> the node it was made to, or None
    token,    \* the cancellation token is set
    expired,  \* the session deadline has passed
    ctx,      \* ToolExecutionContext: what was read of the two above, and
              \* whether an explicit approval grant was in force
    owned,    \* _owned_successes
    result,   \* what the executor returned, or None
    work,     \* call id -> how far its side effect has got
    executorTrace,  \* call id -> record of the executor, or None
    bridgeTrace     \* call id -> record of the bridge, or None

callVars == <<calls, nodeOf>>
worldVars == <<token, expired>>
traceVars == <<executorTrace, bridgeTrace>>
toolVars == <<phase, callVars, worldVars, ctx, owned, result, work, traceVars>>

Ids == 1..MaxCalls
Node == nodeOf[calls]   \* of the current call

-----------------------------------------------------------------------------
Result(status, certainty, retryable) ==
    [status |-> status, certainty |-> certainty, retryable |-> retryable]

Denial(status) == Result(status, "not_attempted", FALSE)
Defect == Result("hard_failure", "completion_unknown", FALSE)

\* What a result may say of the effect without being a lie.
Honest(certainty, done) ==
    /\ certainty \in {"not_attempted", "confirmed_absent", "rolled_back"} =>
          done = "none"
    /\ certainty = "confirmed_complete" => done = "complete"

\* _result_consistency and _trace_consistency: the results a record can be
\* made of, for a call to the node n.
Recordable(r, n) ==
    /\ r.status = "success" => ~r.retryable
    /\ r.status = "not_executed" => r.certainty = "not_attempted"
    /\ r.retryable /\ r.certainty = "completion_unknown" =>
          Idempotency[n] # "non_idempotent"

\* _connector_retryable_for_outcome.
Retryable(status, certainty, n, requested) ==
    /\ status # "success" /\ requested
    /\ \/ Idempotency[n] = "with_key" /\ n \in CallIdKey
       \/ Idempotency[n] = "idempotent" /\ certainty # "confirmed_complete"

-----------------------------------------------------------------------------
(***************************************************************************)
(* The bridge, before execution.                                           *)
(***************************************************************************)
BridgeRecords(r, next) ==
    /\ bridgeTrace' = [bridgeTrace EXCEPT ![calls'] = r]
    /\ phase' = next

Invoke(n) ==
    /\ phase = "idle" /\ calls < MaxCalls
    /\ calls' = calls + 1
    /\ nodeOf' = [nodeOf EXCEPT ![calls'] = n]
    /\ \/ \* ToolResolutionError: the model may try again.  A prerequisite that
          \* succeeded may have done so with other arguments.
          /\ n \in Denied \/ Prereqs[n] # {}
          /\ BridgeRecords(Denial("not_executed"), "idle")
       \/ /\ n \notin Denied /\ Prereqs[n] \subseteq owned
          /\ \/ token /\ BridgeRecords(Denial("cancelled"), "ended")
             \/ ~token /\ expired /\ BridgeRecords(Denial("timed_out"), "ended")
             \/ ~token /\ ~expired /\ phase' = "context" /\ UNCHANGED bridgeTrace
             \/ \* A terminal call whose selected output is not admitted.
                /\ ~token /\ ~expired /\ n \in Terminals
                /\ BridgeRecords(Result("not_executed", "not_attempted", TRUE),
                                 "idle")
    /\ UNCHANGED <<worldVars, ctx, owned, result, work, executorTrace>>

\* _execution_context: one reading of the token and of the clock; a grant,
\* where one is asked for, may be missing, of another scope, or expired.
ReadContext ==
    /\ phase = "context"
    /\ phase' = "executor"
    /\ \E granted \in {FALSE, Approval[Node] = "explicit"} :
          ctx' = [token |-> token, expired |-> expired, granted |-> granted]
    /\ UNCHANGED <<callVars, worldVars, owned, result, work, traceVars>>

-----------------------------------------------------------------------------
(***************************************************************************)
(* The executor.                                                           *)
(***************************************************************************)
ExecutorRecords(r, next) ==
    /\ result' = r
    /\ executorTrace' = [executorTrace EXCEPT ![calls] = r]
    /\ phase' = next
    /\ UNCHANGED <<callVars, worldVars, ctx, owned, bridgeTrace>>

ExecutorReturns(r) == ExecutorRecords(r, "returning")

\* validate_model_tool_call and _preflight_result: the binding, the
\* arguments, the built-in policy, the terminal result; the deadline and the
\* token as the context read them.
Preflight ==
    /\ phase = "executor"
    /\ \E status \in {"not_executed", "hard_failure"} :
          ExecutorReturns(Denial(status))
    /\ UNCHANGED work

\* Approval of a connector node, as the context and its admission tell.
Approved ==
    \/ Approval[Node] = "none"
    \/ Approval[Node] = "explicit" /\ ctx.granted

ConnectorDenies ==
    /\ phase = "executor" /\ Kind[Node] = "connector"
    /\ ~ctx.expired /\ ~ctx.token
    /\ \/ ~Approved /\ ExecutorReturns(Denial("not_executed"))
       \/ \* The broker does not have the tool, or its evidence drifted.
          /\ Approved
          /\ \E status \in {"not_executed", "hard_failure"} :
                ExecutorReturns(Denial(status))
    /\ UNCHANGED work

Enter(next) ==
    /\ phase = "executor" /\ ~ctx.expired /\ ~ctx.token
    /\ phase' = next
    /\ UNCHANGED <<callVars, worldVars, ctx, owned, result, work, traceVars>>

EnterImplementation == Enter("implementation") /\ Kind[Node] = "builtin"
EnterBroker == Enter("broker") /\ Kind[Node] = "connector" /\ Approved

Inside == phase \in {"implementation", "broker"}

\* What the implementation or the provider does to the world.
Work(from, to) ==
    /\ Inside
    /\ work[calls] = from
    /\ work' = [work EXCEPT ![calls] = to]
    /\ UNCHANGED <<phase, callVars, worldVars, ctx, owned, result, traceVars>>

WorkBegins == Work("none", "begun")
WorkCompletes == Work("begun", "complete")

\* The implementation answers; an output that fails the descriptor's
\* schema becomes a hard failure that keeps what was said of the effect.
Validated(r, valid) ==
    IF valid THEN r ELSE Result("hard_failure", r.certainty, FALSE)

\* No implementation of the repository asks for a retry.
Answers(status, certainty, valid) ==
    /\ phase = "implementation"
    /\ LET r == Validated(Result(status, certainty, FALSE), valid)
       IN  /\ Recordable(r, Node)
           /\ ExecutorRecords(r, IF valid THEN "answered" ELSE "returning")
    /\ UNCHANGED work

ImplementationReturns(status, certainty, valid) ==
    Honest(certainty, work[calls]) /\ Answers(status, certainty, valid)

BrokerReturns(status, certainty, requested, valid) ==
    /\ phase = "broker"
    /\ Honest(certainty, work[calls])
    /\ LET retryable == Retryable(status, certainty, Node, requested)
           r == Validated(Result(status, certainty, retryable), valid)
       IN  Recordable(r, Node) /\ ExecutorReturns(r)
    /\ UNCHANGED work

\* Mutant: an exception is taken for a call that was not made.
ImplementationRaisesNothing ==
    /\ Inside
    /\ ExecutorReturns(Denial("hard_failure"))
    /\ UNCHANGED work

\* except Exception around the implementation and around broker.invoke,
\* and a broker that returns something that is no outcome.
ImplementationRaises ==
    /\ Inside
    /\ ExecutorReturns(Defect)
    /\ UNCHANGED work

\* An outcome no ToolExecutionResult can be made of, or a result no record
\* can be made of, raises outside that try, and so past the executor's trace.
ResultRaises ==
    /\ Inside
    /\ phase' = "raising"
    /\ UNCHANGED <<callVars, worldVars, ctx, owned, result, work, traceVars>>

\* asyncio.CancelledError is no Exception: it passes both traces.
CancelledInside ==
    /\ Inside
    /\ phase' = "cancelled"
    /\ UNCHANGED <<callVars, worldVars, ctx, owned, result, work, traceVars>>

-----------------------------------------------------------------------------
(***************************************************************************)
(* The bridge, after execution.                                            *)
(***************************************************************************)
BridgeCatches ==
    /\ phase = "raising"
    /\ UNCHANGED callVars
    /\ BridgeRecords(Defect, "ended")
    /\ UNCHANGED <<worldVars, ctx, owned, result, work, executorTrace>>

\* The result's call id, input digest or output digest is not this call's:
\* only an implementation can return such a one.
BoundaryDefect ==
    /\ phase = "answered"
    /\ UNCHANGED callVars
    /\ BridgeRecords(Defect, "ended")
    /\ result' = None
    /\ UNCHANGED <<worldVars, ctx, owned, work, executorTrace>>

\* A soft or retryable failure goes back to the model, any other ends the
\* session, and so does a terminal candidate that fails the owned history.
GoesBack ==
    /\ result.status \notin {"cancelled", "timed_out"}
    /\ result.status \in {"success", "soft_failure"} \/ result.retryable

BridgeReturns ==
    /\ phase \in {"returning", "answered"}
    /\ UNCHANGED callVars
    /\ \/ GoesBack /\ BridgeRecords(result, "idle")
       \/ /\ ~GoesBack \/ (result.status = "success" /\ Node \in Terminals)
          /\ BridgeRecords(result, "ended")
    /\ owned' = IF result.status = "success" THEN owned \cup {Node} ELSE owned
    /\ result' = None
    /\ UNCHANGED <<worldVars, ctx, work, executorTrace>>

-----------------------------------------------------------------------------
(***************************************************************************)
(* The rest of the world.  Nothing reads the deadline inside a tool, so it *)
(* is let pass before and after.                                           *)
(***************************************************************************)
Open == phase \notin {"ended", "cancelled"}

DeadlinePasses ==
    /\ Open /\ ~Inside
    /\ ~expired /\ expired' = TRUE
    /\ UNCHANGED <<phase, callVars, token, ctx, owned, result, work, traceVars>>

TokenIsSet ==
    /\ Open /\ ~token /\ token' = TRUE
    /\ UNCHANGED <<phase, callVars, expired, ctx, owned, result, work, traceVars>>

-----------------------------------------------------------------------------
ToolInit ==
    /\ phase = "idle" /\ calls = 0 /\ nodeOf = [i \in Ids |-> None]
    /\ token = FALSE /\ expired = FALSE
    /\ ctx = [token |-> FALSE, expired |-> FALSE, granted |-> FALSE]
    /\ owned = {} /\ result = None
    /\ work = [i \in Ids |-> "none"]
    /\ executorTrace = [i \in Ids |-> None]
    /\ bridgeTrace = [i \in Ids |-> None]

BoundaryStep ==
    \/ \E n \in Nodes : Invoke(n)
    \/ ReadContext \/ Preflight \/ ConnectorDenies \/ EnterBroker
    \/ BridgeCatches \/ BoundaryDefect \/ BridgeReturns

BrokerStep ==
    /\ phase = "broker"
    /\ \/ WorkBegins \/ WorkCompletes
       \/ ImplementationRaises \/ ResultRaises \/ CancelledInside
       \/ \E status \in Statuses, certainty \in Certainties,
             requested, valid \in BOOLEAN :
             BrokerReturns(status, certainty, requested, valid)

ImplementationStep ==
    \/ EnterImplementation
    \/ /\ phase = "implementation"
       /\ \/ WorkBegins \/ WorkCompletes
          \/ ImplementationRaises \/ ResultRaises \/ CancelledInside
          \/ \E status \in Statuses, certainty \in Certainties, valid \in BOOLEAN :
                ImplementationReturns(status, certainty, valid)

ToolNext ==
    BoundaryStep \/ BrokerStep \/ ImplementationStep \/ DeadlinePasses \/ TokenIsSet

ToolSpec == ToolInit /\ [][ToolNext]_toolVars

-----------------------------------------------------------------------------
(***************************************************************************)
(* Correctness.                                                            *)
(***************************************************************************)
ToolTypeOK ==
    /\ phase \in {"idle", "context", "executor", "implementation", "broker",
                  "raising", "returning", "answered", "ended", "cancelled"}
    /\ calls \in 0..MaxCalls /\ nodeOf \in [Ids -> Nodes \cup {None}]
    /\ token \in BOOLEAN /\ expired \in BOOLEAN
    /\ ctx \in [token : BOOLEAN, expired : BOOLEAN, granted : BOOLEAN]
    /\ owned \subseteq Nodes /\ result \in Results \cup {None}
    /\ work \in [Ids -> {"none", "begun", "complete"}]
    /\ executorTrace \in [Ids -> Results \cup {None}]
    /\ bridgeTrace \in [Ids -> Results \cup {None}]

Over(i) == i < calls \/ (i = calls /\ phase \in {"idle", "ended"})

\* README.md:650-651, "Every attempted or denied call emits a
\* ToolTraceRecord": a call that is over has a record of the bridge, and
\* the record does not deny an effect that began nor claim one that did
\* not complete.  The call a CancelledError passed through has none.
TraceAccountsForEffects ==
    \A i \in Ids : Over(i) =>
        /\ bridgeTrace[i] # None
        /\ Honest(bridgeTrace[i].certainty, work[i])

\* Where bridge and executor both have a record of a call, the bridge's is
\* the executor's or admits that nothing is known; it never upgrades it.
BridgeNeverMoreCertain ==
    \A i \in Ids : bridgeTrace[i] # None /\ executorTrace[i] # None =>
        bridgeTrace[i] \in {executorTrace[i], Defect}

\* A record that allows a retry is of a call that may be repeated: its
\* effect never began, or the node is idempotent; and when the effect is
\* known to be complete, only a key makes the repetition safe.
RetryIsSafe ==
    \A i \in Ids : bridgeTrace[i] # None /\ bridgeTrace[i].retryable =>
        LET class == Idempotency[nodeOf[i]]
        IN  /\ work[i] = "none" \/ class # "non_idempotent"
            /\ bridgeTrace[i].certainty = "confirmed_complete" =>
                  class = "with_key" /\ nodeOf[i] \in CallIdKey
=============================================================================
