--------------------------- MODULE GuardedSession ---------------------------
(***************************************************************************)
(* One guarded session: ForgeGuardrailBackend.run_session driving          *)
(* WorkflowRunner.run, run_inference, the guardrails (ErrorTracker,        *)
(* StepEnforcer over StepTracker) and ForgeToolBridge.invoke.              *)
(*                                                                         *)
(* The model's reply, the tool's outcome, the caller's cancellation and    *)
(* the deadline are chosen by the environment.  A step of the session runs *)
(* from one point where it can be interrupted to the next: the awaits, and *)
(* the reads of the cancellation token, which another thread may set.      *)
(***************************************************************************)
EXTENDS Integers, Sequences, FiniteSets

CONSTANTS
    Nodes,               \* nodes of the compiled plan, one model tool each
    Terminals,           \* nodes with a terminal_result
    Blocked,             \* terminals whose disposition is blocked or rejected
    Required,            \* nodes the plan marks required
    Denied,              \* nodes whose capability or binding is not granted
    Args,                \* abstract argument values of a call
    Calls,               \* calls the model can make: [node, arg] records
    Prereqs,             \* node -> set of [node, match] prerequisites
    Artifacts,           \* artifact identities a tool result may carry
    RequiredArtifacts,   \* node -> artifacts its terminal result needs
    MaxBatch,            \* bound on the calls of one model reply
    MaxIterations, MaxRetries, MaxToolErrors, MaxPremature, MaxPrereq,
    None                 \* "no value"

ASSUME PlanAssumption ==
    /\ Terminals \subseteq Nodes
    /\ Blocked \subseteq Terminals
    /\ Required \subseteq Nodes
    /\ Denied \subseteq Nodes
    /\ Calls \subseteq [node : Nodes, arg : Args]
    /\ Prereqs \in [Nodes -> SUBSET [node : Nodes, match : BOOLEAN]]
    /\ RequiredArtifacts \in [Nodes -> SUBSET Artifacts]

ASSUME BudgetAssumption ==
    /\ MaxBatch \in Nat \ {0}
    /\ MaxIterations \in Nat \ {0}
    /\ {MaxRetries, MaxToolErrors, MaxPremature, MaxPrereq} \subseteq Nat

VARIABLES
    pc,                \* where run_session stands
    iteration,         \* WorkflowRunner.run: iterations consumed
    attempts,          \* run_inference: model calls of this inference
    retries,           \* ErrorTracker._consecutive_retries
    toolErrors,        \* ErrorTracker._consecutive_tool_errors
    premature,         \* StepEnforcer._premature_attempts
    prereqViolations,  \* StepEnforcer._consecutive_prereq_violations
    executed,          \* StepTracker.executed_tools: node -> recorded args
    owned,             \* ForgeToolBridge._owned_successes: node -> last args
    artifacts,         \* ForgeToolBridge._owned_artifacts
    intent,            \* ForgeToolBridge._terminal_intent
    batch, idx,        \* validated tool calls of the reply, and the current one
    batchHadError,     \* an ordinary exception was raised in this batch
    terminalResult,    \* the runner's terminal_result when it is a value
    cancelled,         \* the caller's cancellation token
    cancelEvent,       \* the event the watcher task sets
    expired,           \* the session deadline has passed
    exc,               \* exception (or "Returned") that ended the runner
    status,            \* status of the GuardedSessionResult
    traced,            \* the bridge holds at least one ToolTraceRecord
    resultTrace        \* the result carries the bridge's tool_trace

budgetVars == <<retries, toolErrors, premature, prereqViolations>>
historyVars == <<executed, owned, artifacts, intent>>
batchVars == <<batch, idx, batchHadError, terminalResult>>
envVars == <<cancelled, cancelEvent, expired>>
endVars == <<exc, status, resultTrace>>
vars == <<pc, iteration, attempts, budgetVars, historyVars, batchVars,
          envVars, endVars, traced>>

-----------------------------------------------------------------------------
(* Exceptions of the session, and the result run_session makes of each.    *)

\* GuardedSessionStatus that each except clause of run_session reports.
StatusOf(e) ==
    CASE e \in {"OperationCancelled", "WorkflowCancelled", "ModelCancelled"}
                                              -> "CANCELLED"
      [] e \in {"DeadlineExceeded", "ModelDeadline"} -> "TIMED_OUT"
      [] e \in {"ToolCallError", "ModelTransportError", "ModelException"}
                                              -> "MODEL_FAILED"
      [] e = "StepEnforcementError"           -> "INVALID_TERMINAL"
      [] e = "PrerequisiteError"   -> "PREREQUISITE_BUDGET_EXHAUSTED"
      [] e = "MaxIterationsError"             -> "BUDGET_EXHAUSTED"
      [] e \in {"ToolExecutionError", "NonRetryableToolError"}
                                              -> "TOOL_FAILED"
      [] OTHER                                -> "BACKEND_FAILED"

\* The except clauses that build a result without the bridge's tool_trace.
TraceDropped ==
    {"ForgeBridgeError", "ToolCallError", "ModelTransportError"}

Exceptions ==
    {"OperationCancelled", "WorkflowCancelled", "ModelCancelled",
     "DeadlineExceeded", "ModelDeadline", "ToolCallError",
     "ModelTransportError", "StepEnforcementError", "PrerequisiteError",
     "MaxIterationsError", "ToolExecutionError", "NonRetryableToolError",
     "ModelException", "ForgeBridgeError", "CancelledError"}

ASSUME NoneAssumption ==
    None \notin Nodes \cup Args \cup Exceptions \cup {"Returned"}

Statuses == {"running", "TERMINAL", "REJECTED", "CANCELLED", "TIMED_OUT",
             "MODEL_FAILED", "INVALID_TERMINAL", "BUDGET_EXHAUSTED",
             "PREREQUISITE_BUDGET_EXHAUSTED", "TOOL_FAILED",
             "BACKEND_FAILED", "aborted"}

-----------------------------------------------------------------------------
(* What the guardrails and the bridge read.                                *)

\* attempt_limit of run_inference: one more than the larger retry budget,
\* and never more than the iterations left.
AttemptLimit ==
    LET byBudget == (IF MaxRetries >= MaxToolErrors
                     THEN MaxRetries ELSE MaxToolErrors) + 1
        left == MaxIterations - iteration
    IN  IF byBudget <= left THEN byBudget ELSE left

\* Iterations after a usable reply: retries consume iterations too.
\* Mutant: the successful attempt is not counted.
ConsumedByRetries == iteration + attempts
Consumed == iteration + attempts + 1

\* Required steps of the workflow: required nodes that are not terminal.
RequiredSteps == Required \ Terminals

\* StepTracker.is_satisfied.
StepsSatisfied == \A n \in RequiredSteps : executed[n] # {}

\* StepTracker.check_prerequisites: any recorded call satisfies it.
EnforcerAllows(call) ==
    \A p \in Prereqs[call.node] :
        IF p.match THEN call.arg \in executed[p.node] ELSE executed[p.node] # {}

\* ForgeToolBridge._prerequisite_decisions: only the last success counts.
BridgeAllows(call) ==
    /\ \A p \in Prereqs[call.node] :
          /\ owned[p.node] # None
          /\ p.match => owned[p.node] = call.arg
    /\ call.node \notin Denied

Batches == UNION {[1..n -> Calls] : n \in 1..MaxBatch}
InBatch == pc = "dispatch" /\ idx <= Len(batch)
Call == batch[idx]

-----------------------------------------------------------------------------
Init ==
    /\ pc = "setup"
    /\ iteration = 0 /\ attempts = 0
    /\ retries = 0 /\ toolErrors = 0 /\ premature = 0 /\ prereqViolations = 0
    /\ executed = [n \in Nodes |-> {}]
    /\ owned = [n \in Nodes |-> None]
    /\ artifacts = {} /\ intent = None
    /\ batch = <<>> /\ idx = 1
    /\ batchHadError = FALSE /\ terminalResult = None
    /\ cancelled \in BOOLEAN /\ cancelEvent = FALSE /\ expired \in BOOLEAN
    /\ exc = None /\ status = "running"
    /\ traced = FALSE /\ resultTrace = FALSE

\* Leave the runner with an exception; run_session translates it next.
Raise(e) == pc' = "raised" /\ exc' = e /\ UNCHANGED <<status, resultTrace>>

(***************************************************************************)
(* run_session up to the runner: the deadline, then the token; then the    *)
(* awaited load of the plan, which may be rejected, and the token again.   *)
(***************************************************************************)
Admit ==
    /\ pc = "setup"
    /\ IF expired THEN Raise("DeadlineExceeded")
       ELSE IF cancelled THEN Raise("OperationCancelled")
       ELSE pc' = "load" /\ UNCHANGED endVars
    /\ UNCHANGED <<iteration, attempts, budgetVars, historyVars, batchVars,
                   envVars, traced>>

LoadPlan ==
    /\ pc = "load"
    /\ \/ Raise("ForgeBridgeError")
       \/ cancelled /\ Raise("OperationCancelled")
       \/ ~cancelled /\ pc' = "loop" /\ UNCHANGED endVars
    /\ UNCHANGED <<iteration, attempts, budgetVars, historyVars, batchVars,
                   envVars, traced>>

\* Mutant of LoopTop: the cancellation event is not consulted.
LoopTopUncancelled ==
    /\ pc = "loop"
    /\ IF iteration >= MaxIterations THEN Raise("MaxIterationsError")
       ELSE pc' = "infer" /\ UNCHANGED endVars
    /\ attempts' = 0
    /\ UNCHANGED <<iteration, budgetVars, historyVars, batchVars, envVars,
                   traced>>

(***************************************************************************)
(* Top of the runner's loop.                                               *)
(***************************************************************************)
LoopTop ==
    /\ pc = "loop"
    /\ IF iteration >= MaxIterations THEN Raise("MaxIterationsError")
       ELSE IF cancelEvent THEN Raise("WorkflowCancelled")
       ELSE pc' = "infer" /\ UNCHANGED endVars
    /\ attempts' = 0
    /\ UNCHANGED <<iteration, budgetVars, historyVars, batchVars, envVars,
                   traced>>

(***************************************************************************)
(* run_inference.  A usable reply (tool calls, or calls rescued from text) *)
(* resets the retry count and charges the attempts to the iterations.      *)
(***************************************************************************)
ReplyCalls ==
    /\ pc = "infer"
    /\ batch' \in Batches
    /\ retries' = 0
    /\ iteration' = Consumed
    /\ attempts' = attempts + 1
    /\ pc' = "check"
    /\ idx' = 1 /\ batchHadError' = FALSE /\ terminalResult' = None
    /\ UNCHANGED <<toolErrors, premature, prereqViolations, historyVars,
                   envVars, endVars, traced>>

\* A failed reply: its budget is charged; then the budget is exhausted
\* (ToolCallError), or the attempts are used up (run_inference returns None
\* and the runner leaves its loop), or the model is asked again.
FailedReply(exhausted) ==
    /\ attempts' = attempts + 1
    /\ IF exhausted THEN Raise("ToolCallError")
       ELSE IF attempts + 1 >= AttemptLimit THEN Raise("MaxIterationsError")
       ELSE UNCHANGED <<pc, endVars>>
    /\ UNCHANGED <<iteration, premature, prereqViolations, historyVars,
                   batchVars, envVars, traced>>

\* Bare text or an unknown tool name: the retry budget.
ReplyUnusable ==
    /\ pc = "infer"
    /\ retries' = retries + 1
    /\ UNCHANGED toolErrors
    /\ FailedReply(retries' > MaxRetries)

\* Arguments that are not an object: the tool-error budget.
ReplyBadArgs ==
    /\ pc = "infer"
    /\ toolErrors' = toolErrors + 1
    /\ UNCHANGED retries
    /\ FailedReply(toolErrors' > MaxToolErrors)

\* The model client raises: a transport failure, an exception of its own, or
\* a cancellation or a deadline it noticed during the request.
ModelRaises ==
    /\ pc = "infer"
    /\ \/ Raise("ModelTransportError")
       \/ Raise("ModelException")
       \/ cancelled /\ Raise("ModelCancelled")
       \/ expired /\ Raise("ModelDeadline")
    /\ UNCHANGED <<iteration, attempts, budgetVars, historyVars, batchVars,
                   envVars, traced>>

(***************************************************************************)
(* The guardrail checks before a batch runs: a premature terminal call     *)
(* first, then prerequisites, both on the whole batch against the history  *)
(* before it.                                                              *)
(***************************************************************************)
\* Mutant: only the first call of the batch is looked at.
PrematureFirstOnly == ~StepsSatisfied /\ batch[1].node \in Terminals
Premature == ~StepsSatisfied /\ \E i \in DOMAIN batch : batch[i].node \in Terminals
PrereqMissing == \E i \in DOMAIN batch : ~EnforcerAllows(batch[i])

CheckBatch ==
    /\ pc = "check"
    /\ \/ /\ Premature
          /\ premature' = premature + 1
          /\ UNCHANGED prereqViolations
          /\ IF premature' > MaxPremature THEN Raise("StepEnforcementError")
             ELSE pc' = "loop" /\ UNCHANGED endVars
       \/ /\ ~Premature /\ PrereqMissing
          /\ prereqViolations' = prereqViolations + 1
          /\ UNCHANGED premature
          /\ IF prereqViolations' > MaxPrereq THEN Raise("PrerequisiteError")
             ELSE pc' = "loop" /\ UNCHANGED endVars
       \/ /\ ~Premature /\ ~PrereqMissing
          /\ pc' = "dispatch"
          /\ UNCHANGED <<premature, prereqViolations, endVars>>
    /\ UNCHANGED <<iteration, attempts, retries, toolErrors, historyVars,
                   batchVars, envVars, traced>>

(***************************************************************************)
(* ForgeToolBridge.invoke before the executor is entered.                  *)
(***************************************************************************)
\* A ToolResolutionError: the model is told, nothing is counted; a terminal
\* call that fails this way overwrites the runner's terminal_result.
Soft ==
    /\ pc' = "dispatch" /\ idx' = idx + 1
    /\ terminalResult' = IF Call.node \in Terminals THEN None ELSE terminalResult
    /\ UNCHANGED <<batch, batchHadError, endVars>>

DenyCall ==
    /\ InBatch
    /\ ~BridgeAllows(Call)
    /\ Soft
    /\ traced' = TRUE
    /\ UNCHANGED <<iteration, attempts, budgetVars, historyVars, envVars>>

\* The call is allowed, but the token is set or the deadline has passed.
StopCall ==
    /\ InBatch
    /\ BridgeAllows(Call)
    /\ \/ cancelled /\ Raise("OperationCancelled")
       \/ ~cancelled /\ expired /\ Raise("DeadlineExceeded")
    /\ traced' = TRUE
    /\ UNCHANGED <<iteration, attempts, budgetVars, historyVars, batchVars,
                   envVars>>

\* A terminal call whose selected output is not admitted.
RejectCandidate ==
    /\ InBatch
    /\ BridgeAllows(Call) /\ ~cancelled /\ ~expired
    /\ Call.node \in Terminals
    /\ Soft
    /\ traced' = TRUE
    /\ UNCHANGED <<iteration, attempts, budgetVars, historyVars, envVars>>

EnterExecutor ==
    /\ InBatch
    /\ BridgeAllows(Call) /\ ~cancelled /\ ~expired
    /\ pc' = "exec"
    /\ UNCHANGED <<iteration, attempts, budgetVars, historyVars, batchVars,
                   envVars, endVars, traced>>

(***************************************************************************)
(* The executor returns to the bridge.  Every outcome is traced.           *)
(***************************************************************************)
OwnedAfter == [owned EXCEPT ![Call.node] = Call.arg]

\* StepTracker.record.
Recorded == [executed EXCEPT ![Call.node] = @ \cup {Call.arg}]

\* _accept_terminal_candidate: owned history covers the required nodes and
\* the artifacts of this terminal result.
Acceptable(newArtifacts) ==
    /\ \A n \in Required : OwnedAfter[n] # None
    /\ RequiredArtifacts[Call.node] \subseteq newArtifacts

ToolSucceeds ==
    /\ pc = "exec"
    /\ owned' = OwnedAfter
    /\ traced' = TRUE
    /\ \E new \in SUBSET Artifacts :
        /\ artifacts' = artifacts \cup new
        /\ IF Call.node \in Terminals /\ ~Acceptable(artifacts')
           THEN /\ Raise("NonRetryableToolError")
                /\ UNCHANGED <<executed, intent, batchVars>>
           ELSE /\ executed' = Recorded
                /\ intent' = IF Call.node \in Terminals THEN Call.node ELSE intent
                /\ terminalResult' =
                      IF Call.node \in Terminals THEN Call.node ELSE terminalResult
                /\ pc' = "dispatch" /\ idx' = idx + 1
                /\ UNCHANGED <<batch, batchHadError, endVars>>
    /\ UNCHANGED <<iteration, attempts, budgetVars, envVars>>

ToolFailsSoftly ==
    /\ pc = "exec"
    /\ Soft
    /\ traced' = TRUE
    /\ UNCHANGED <<iteration, attempts, budgetVars, historyVars, envVars>>

\* The executor raises: the runner counts an error for the batch.
ToolRaises ==
    /\ pc = "exec"
    /\ pc' = "dispatch" /\ idx' = idx + 1
    /\ batchHadError' = TRUE
    /\ terminalResult' = IF Call.node \in Terminals THEN None ELSE terminalResult
    /\ traced' = TRUE
    /\ UNCHANGED <<iteration, attempts, budgetVars, historyVars, batch,
                   envVars, endVars>>

\* A hard failure, a defective result, or a cancelled or timed-out tool.
ToolFailsHard ==
    /\ pc = "exec"
    /\ \E e \in {"NonRetryableToolError", "OperationCancelled",
                 "DeadlineExceeded"} : Raise(e)
    /\ traced' = TRUE
    /\ UNCHANGED <<iteration, attempts, budgetVars, historyVars, batchVars,
                   envVars>>

(***************************************************************************)
(* After the batch: budgets, then the terminal result.                     *)
(***************************************************************************)
EndBatch ==
    /\ pc = "dispatch"
    /\ idx > Len(batch)
    /\ IF batchHadError
       THEN /\ toolErrors' = toolErrors + 1
            /\ UNCHANGED <<premature, prereqViolations>>
       ELSE toolErrors' = 0 /\ premature' = 0 /\ prereqViolations' = 0
    /\ IF toolErrors' > MaxToolErrors THEN Raise("ToolExecutionError")
       ELSE IF terminalResult # None THEN Raise("Returned")
       ELSE pc' = "loop" /\ UNCHANGED endVars
    /\ UNCHANGED <<iteration, attempts, retries, historyVars, batchVars,
                   envVars, traced>>

(***************************************************************************)
(* run_session after the runner: the last cancellation check, then the     *)
(* result.                                                                 *)
(***************************************************************************)
\* Mutant: a blocked disposition is reported like any other terminal.
TerminalForAll == "TERMINAL"
FinalStatus == IF intent \in Blocked THEN "REJECTED" ELSE "TERMINAL"

Finish ==
    /\ pc = "raised"
    /\ pc' = "done"
    /\ IF exc # "Returned"
       THEN /\ status' = StatusOf(exc)
            /\ resultTrace' = (exc \notin TraceDropped /\ traced)
            /\ UNCHANGED exc
       ELSE IF cancelled
       THEN /\ exc' = "OperationCancelled" /\ status' = "CANCELLED"
            /\ resultTrace' = traced
       ELSE IF intent = None
       THEN /\ exc' = "ForgeBridgeError" /\ status' = "BACKEND_FAILED"
            /\ resultTrace' = FALSE
       ELSE /\ status' = FinalStatus
            /\ resultTrace' = traced
            /\ UNCHANGED exc
    /\ UNCHANGED <<iteration, attempts, budgetVars, historyVars, batchVars,
                   envVars, traced>>

(***************************************************************************)
(* The environment: the caller cancels, the watcher task relays it, the    *)
(* deadline passes, or the task awaiting the session is itself cancelled.  *)
(***************************************************************************)
RestUnchanged == UNCHANGED <<iteration, attempts, budgetVars, historyVars,
                             batchVars, traced>>

CancelToken ==
    /\ ~cancelled /\ cancelled' = TRUE
    /\ UNCHANGED <<pc, cancelEvent, expired, endVars>> /\ RestUnchanged

WatcherRelays ==
    /\ cancelled /\ ~cancelEvent /\ pc \notin {"setup", "done"}
    /\ cancelEvent' = TRUE
    /\ UNCHANGED <<pc, cancelled, expired, endVars>> /\ RestUnchanged

DeadlinePasses ==
    /\ ~expired /\ expired' = TRUE
    /\ UNCHANGED <<pc, cancelled, cancelEvent, endVars>> /\ RestUnchanged

TaskCancelled ==
    /\ pc \in {"load", "infer", "exec"}
    /\ pc' = "done" /\ exc' = "CancelledError" /\ status' = "aborted"
    /\ UNCHANGED <<envVars, resultTrace>> /\ RestUnchanged

Done == pc = "done" /\ UNCHANGED vars

SessionStep ==
    \/ Admit \/ LoadPlan \/ LoopTop
    \/ ReplyCalls \/ ReplyUnusable \/ ReplyBadArgs \/ ModelRaises
    \/ CheckBatch
    \/ DenyCall \/ StopCall \/ RejectCandidate \/ EnterExecutor
    \/ ToolSucceeds \/ ToolFailsSoftly \/ ToolRaises \/ ToolFailsHard
    \/ EndBatch \/ Finish

Next ==
    \/ SessionStep
    \/ CancelToken \/ WatcherRelays \/ DeadlinePasses \/ TaskCancelled
    \/ Done

\* The coroutine is scheduled again once its await completes; model and tool
\* calls complete because both carry the session deadline.
Fairness == WF_vars(SessionStep) /\ WF_vars(WatcherRelays)

Spec == Init /\ [][Next]_vars /\ Fairness

-----------------------------------------------------------------------------
(* Properties.                                                             *)

TypeOK ==
    /\ pc \in {"setup", "load", "loop", "infer", "check", "dispatch", "exec",
               "raised", "done"}
    /\ iteration \in Nat /\ attempts \in Nat
    /\ retries \in Nat /\ toolErrors \in Nat
    /\ premature \in Nat /\ prereqViolations \in Nat
    /\ executed \in [Nodes -> SUBSET Args]
    /\ owned \in [Nodes -> Args \cup {None}]
    /\ artifacts \subseteq Artifacts
    /\ intent \in Terminals \cup {None}
    /\ batch \in Seq(Calls) /\ Len(batch) <= MaxBatch
    /\ idx \in 1..MaxBatch + 1
    /\ pc = "exec" => idx <= Len(batch)
    /\ terminalResult \in Terminals \cup {None}
    /\ batchHadError \in BOOLEAN /\ traced \in BOOLEAN /\ resultTrace \in BOOLEAN
    /\ cancelled \in BOOLEAN /\ cancelEvent \in BOOLEAN /\ expired \in BOOLEAN
    /\ exc \in Exceptions \cup {None, "Returned"}
    /\ status \in Statuses

\* No sequence of retries, corrections and batches makes more model calls
\* than max_iterations: while a reply is awaited there is an iteration left
\* to charge it to (runner.py passes max_iterations - iteration down).
ModelCallsBounded ==
    /\ iteration <= MaxIterations
    /\ pc = "infer" => iteration + attempts < MaxIterations

\* The session goes on only while every consecutive-failure counter is within
\* its budget, whichever of run_inference, the guardrails and the batch
\* bookkeeping charged it.
BudgetsRespected ==
    exc = None => /\ retries <= MaxRetries /\ toolErrors <= MaxToolErrors
                  /\ premature <= MaxPremature /\ prereqViolations <= MaxPrereq

\* The two histories of the session, the runner's StepTracker and the
\* bridge's owned successes, agree as long as the runner goes on: the same
\* nodes have succeeded, and the bridge's last success is one it recorded.
HistoriesAgree ==
    exc = None =>
        \A n \in Nodes : IF owned[n] = None THEN executed[n] = {}
                        ELSE owned[n] \in executed[n]

\* Whenever the executor runs a tool, each of its prerequisites has a
\* recorded success with the matching argument, and a terminal tool runs
\* only after all required steps, although both were checked for the whole
\* batch before its first call.
ExecutionIsOrdered ==
    pc = "exec" => /\ EnforcerAllows(Call)
                   /\ Call.node \in Terminals => StepsSatisfied

\* A session reported TERMINAL or REJECTED has an accepted intent, and the
\* owned history covers every required node and every artifact of the
\* accepted terminal result.
TerminalIsEarned ==
    status \in {"TERMINAL", "REJECTED"} =>
        /\ intent # None
        /\ \A n \in Required : owned[n] # None
        /\ RequiredArtifacts[intent] \subseteq artifacts

\* The runner returns only the result of the terminal call whose intent the
\* bridge holds: the branch "completed without terminal intent" of
\* run_session is dead, and no other terminal's intent is reported.
ReturnedIsIntent ==
    exc = "Returned" => intent # None /\ intent = terminalResult

\* Cancellation wins: once the token is set no executor is entered and no
\* terminal status is reported, and once the watcher relayed it no further
\* inference starts.
CancellationWins ==
    [][/\ cancelled => /\ (pc' = "exec" => pc = "exec")
                       /\ (pc' = "done" => status' \notin {"TERMINAL", "REJECTED"}
                                           \/ pc = "done")
       /\ cancelEvent /\ pc' = "infer" => pc = "infer"]_vars

\* Every session ends with a result, whatever the model and the tools answer.
SessionEnds == <>(pc = "done")

\* The session implements its contract: read the owned successes as the
\* succeeded nodes, and the intent as committed once the result reports it.
Contract == INSTANCE SessionContract WITH
    succeeded <- {n \in Nodes : owned[n] # None},
    outcome <- CASE status = "running" -> "running"
                 [] status = "TERMINAL" -> "terminal"
                 [] status = "REJECTED" -> "rejected"
                 [] OTHER -> "failed",
    committed <- IF status \in {"TERMINAL", "REJECTED"} THEN intent ELSE None,
    stopped <- cancelled

ImplementsContract == Contract!Spec
=============================================================================
