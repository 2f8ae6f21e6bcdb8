--------------------------- MODULE HarnessRuntime ---------------------------
(***************************************************************************)
(* DefaultHarnessRuntime.execute: preflight, one backend session, and the  *)
(* artifacts that record how the execution ended.                          *)
(*                                                                         *)
(* The cancellation token and the clock belong to other threads, so they   *)
(* may change between any two steps.  The task awaiting execute may itself *)
(* be cancelled wherever execute waits for something that can suspend: the *)
(* plan loader, the backend and the artifact writer, each of them a        *)
(* protocol of protocols.py.                                               *)
(***************************************************************************)
EXTENDS Integers, Sequences, Functions

CONSTANTS
    Timeout,           \* request.timeout.timeout_seconds, on the monotonic clock
    AbsoluteDeadline,  \* request.timeout.deadline, on the same scale
    MaxTime,           \* bound on the clock
    None               \* "no value"

ASSUME ClockAssumption ==
    Timeout \in Nat \ {0} /\ AbsoluteDeadline \in Nat /\ MaxTime \in Nat

VARIABLES
    pc,               \* where execute stands
    phase,            \* preflight phase, an index of Phases
    state,            \* self._state
    prepared,         \* run_directory_prepared
    deadline,         \* the deadline of the preflight
    sessionDeadline,  \* session_request.deadline
    session,          \* session_result.status once the backend returned
    todo,             \* artifacts still to be written, in order
    pending,          \* the result the artifacts being written will report
    reraise,          \* a CancelledError is being propagated
    disk,             \* artifacts complete under run_directory/millforge
    summary,          \* what execution_summary.json says
    manifest,         \* artifact ids that artifact_manifest.json lists
    result,           \* the HarnessExecutionResult returned
    cancelled,        \* the token behind request.cancellation
    now               \* the monotonic clock

progressVars == <<pc, phase, state, prepared>>
deadlineVars == <<deadline, sessionDeadline>>
reportVars == <<todo, pending, reraise, result>>
diskVars == <<disk, summary, manifest>>
envVars == <<cancelled, now>>
vars == <<progressVars, deadlineVars, session, reportVars, diskVars, envVars>>

-----------------------------------------------------------------------------
(* The failure matrices.                                                   *)

\* _FAILURE_MATRIX.
ClassOf(origin) ==
    CASE origin \in {"compiled_harness_invalid", "hash_mismatch",
                     "identity_mismatch", "incompatible_stage"}
                                         -> "compiled_harness_invalid"
      [] origin = "missing_capability"   -> "binding_rejected"
      [] origin = "already_cancelled"    -> "cancelled"
      [] origin = "expired_deadline"     -> "timed_out"
      [] origin = "invalid_terminal"     -> "terminal_result_invalid"
      [] origin = "artifact_write_failure" -> "artifact_finalization_failed"
      [] origin = "infrastructure_failure" -> "internal_failure"
      [] OTHER                           -> origin

\* _FAILURE_STATUS.
StatusOf(origin) ==
    IF origin \in {"already_cancelled", "expired_deadline"}
    THEN "interrupted" ELSE "failed"

\* _SESSION_STATUS_MATRIX without TERMINAL and REJECTED.
NonDomain ==
    [BACKEND_FAILED   |-> [class |-> "backend_failure", status |-> "failed"],
     MODEL_FAILED     |-> [class |-> "model_failure", status |-> "failed"],
     TOOL_FAILED      |-> [class |-> "tool_failure", status |-> "failed"],
     BUDGET_EXHAUSTED |-> [class |-> "budget_exhausted", status |-> "interrupted"],
     PREREQUISITE_BUDGET_EXHAUSTED
                      |-> [class |-> "budget_exhausted", status |-> "failed"],
     TIMED_OUT        |-> [class |-> "timed_out", status |-> "interrupted"],
     CANCELLED        |-> [class |-> "cancelled", status |-> "interrupted"],
     INVALID_TERMINAL |-> [class |-> "terminal_result_invalid", status |-> "failed"]]

\* TERMINAL and REJECTED.
Domain == [TERMINAL |-> "domain_terminal", REJECTED |-> "domain_rejected"]

\* The phases between two checkpoints, and the origins each can fail with.
Phases == <<"prepare", "load", "identity", "hash", "stage", "profile",
            "capabilities", "inputs", "construct">>
PhaseOrigins ==
    <<{"infrastructure_failure"},
      {"compiled_harness_invalid", "infrastructure_failure"},
      {"identity_mismatch"}, {"hash_mismatch"}, {"incompatible_stage"},
      {"identity_mismatch"}, {"missing_capability"}, {"missing_capability"},
      {"infrastructure_failure"}>>

Report(class, status, certainty, refs) ==
    [class |-> class, status |-> status, certainty |-> certainty, refs |-> refs]

ArtifactIds == {"terminal_result", "execution_summary", "events", "tool_trace",
                "metrics", "diagnostic", "artifact_manifest"}

\* Artifacts of _write_artifacts after terminal_result, and those of
\* _write_non_terminal_artifacts, in the order they are written.
Diagnosed(diagnosed) ==
    IF diagnosed THEN <<"diagnostic", "artifact_manifest">>
    ELSE <<"artifact_manifest">>
AfterCommit(diagnosed) ==
    <<"events", "tool_trace", "metrics", "execution_summary">> \o Diagnosed(diagnosed)
\* Mutant: the failure path trusts that the summary is there already.
NonTerminalWithoutSummary(fromSession, diagnosed) ==
    <<"metrics">> \o Diagnosed(diagnosed)
NonTerminal(fromSession, diagnosed) ==
    <<"execution_summary", "metrics">>
        \o (IF fromSession THEN <<"events", "tool_trace">> ELSE <<>>)
        \o Diagnosed(diagnosed)

-----------------------------------------------------------------------------
Init ==
    /\ pc = "receive" /\ phase = 1
    /\ state = "received" /\ prepared = FALSE
    /\ deadline = 0 /\ sessionDeadline = 0
    /\ session = None
    /\ todo = <<>> /\ pending = None /\ reraise = FALSE /\ result = None
    /\ disk = {} /\ summary = None /\ manifest = None
    /\ cancelled \in BOOLEAN /\ now = 0

\* Write the artifacts of todo', then return the pending report.
Finalize(report, artifacts) ==
    /\ pc' = "finalize"
    /\ pending' = report
    /\ todo' = artifacts
    \* _enter_non_terminal_finalizing
    /\ state' = IF state = "running" THEN "finalizing" ELSE state
    /\ UNCHANGED result

\* _failure_result: the report is returned without any artifact.
ReturnFailure(origin, certainty) ==
    /\ pc' = "done"
    /\ state' = IF origin = "already_cancelled" THEN "interrupted" ELSE "failed"
    /\ result' = IF reraise THEN None
                 ELSE Report(ClassOf(origin), StatusOf(origin), certainty, {})
    /\ UNCHANGED <<todo, pending>>

\* The closure fail of execute.
FailWith(origin, certainty) ==
    IF prepared
    THEN LET artifacts == NonTerminal(FALSE, TRUE)
         IN  Finalize(Report(ClassOf(origin), StatusOf(origin), certainty,
                             Range(artifacts)), artifacts)
    ELSE ReturnFailure(origin, certainty)

Fail(origin) == FailWith(origin, "not_applicable")

(***************************************************************************)
(* Steps 1 to 5: validate the request, resolve the token, check it, and    *)
(* derive the preflight deadline.                                          *)
(***************************************************************************)
Receive ==
    /\ pc = "receive"
    /\ \/ Fail("infrastructure_failure") /\ UNCHANGED deadline
       \/ cancelled /\ Fail("already_cancelled") /\ UNCHANGED deadline
       \/ /\ ~cancelled /\ now >= AbsoluteDeadline
          /\ Fail("expired_deadline") /\ UNCHANGED deadline
       \/ /\ ~cancelled /\ now < AbsoluteDeadline
          /\ deadline' = now + Timeout
          /\ pc' = "checkpoint"
          /\ UNCHANGED <<state, todo, pending, result>>
    /\ UNCHANGED <<phase, prepared, sessionDeadline, session, reraise,
                   diskVars, envVars>>

(***************************************************************************)
(* Steps 6b to 11: a checkpoint before and after every phase; the plan is  *)
(* verified (step 10) between the last two.                                *)
(***************************************************************************)
\* _checkpoint_invocation: the token first, then the clock.
Checkpoint(limit, passed) ==
    IF cancelled THEN Fail("already_cancelled")
    ELSE IF now >= limit THEN Fail("expired_deadline")
    ELSE passed /\ UNCHANGED <<todo, pending, result>>

CheckPhase ==
    /\ pc = "checkpoint"
    /\ Checkpoint(deadline,
                  IF Phases[phase] = "construct" /\ state = "received"
                  THEN state' = "verified" /\ UNCHANGED pc
                  ELSE pc' = "perform" /\ UNCHANGED state)
    /\ UNCHANGED <<phase, prepared, deadlineVars, session, reraise, diskVars,
                   envVars>>

PerformPhase ==
    /\ pc = "perform"
    /\ Phases[phase] # "construct"
    /\ \/ \E origin \in PhaseOrigins[phase] : Fail(origin) /\ UNCHANGED <<phase, prepared>>
       \/ /\ prepared' = TRUE
          /\ phase' = phase + 1 /\ pc' = "checkpoint"
          /\ UNCHANGED <<state, todo, pending, result>>
    /\ UNCHANGED <<deadlineVars, session, reraise, diskVars, envVars>>

\* The session gets a deadline of its own, counted from now.
ConstructSession ==
    /\ pc = "perform"
    /\ Phases[phase] = "construct"
    /\ \/ now >= AbsoluteDeadline /\ Fail("expired_deadline") /\ UNCHANGED sessionDeadline
       \/ /\ now < AbsoluteDeadline
          /\ sessionDeadline' = now + Timeout
          /\ pc' = "constructed"
          /\ UNCHANGED <<state, todo, pending, result>>
    /\ UNCHANGED <<phase, prepared, deadline, session, reraise, diskVars, envVars>>

SessionConstructed ==
    /\ pc = "constructed"
    /\ Checkpoint(sessionDeadline,
                  pc' = "enter" /\ state' = "backend_session_constructed")
    /\ UNCHANGED <<phase, prepared, deadlineVars, session, reraise, diskVars,
                   envVars>>

(***************************************************************************)
(* Steps 13 to 18: the last recheck, the deadline first; the one call of   *)
(* the backend; and what it answers.                                       *)
(***************************************************************************)
EnterBackend ==
    /\ pc = "enter"
    /\ IF now >= sessionDeadline THEN Fail("expired_deadline")
       ELSE IF cancelled THEN Fail("already_cancelled")
       ELSE /\ pc' = "backend" /\ state' = "running"
            /\ UNCHANGED <<todo, pending, result>>
    /\ UNCHANGED <<phase, prepared, deadlineVars, session, reraise, diskVars,
                   envVars>>

BackendRaises ==
    /\ pc = "backend"
    /\ \E origin \in {"already_cancelled", "expired_deadline", "backend_failure",
                      "model_failure", "tool_failure", "artifact_write_failure",
                      "infrastructure_failure"} : Fail(origin)
    /\ UNCHANGED <<phase, prepared, deadlineVars, session, reraise, diskVars,
                   envVars>>

\* Another session's result, or an intent the plan does not admit.
BackendAnswersBadly ==
    /\ pc = "backend"
    /\ Fail("invalid_terminal")
    /\ UNCHANGED <<phase, prepared, deadlineVars, session, reraise, diskVars,
                   envVars>>

\* A session without a legal terminal, or a terminal one without an intent.
BackendAnswersNonDomain ==
    /\ pc = "backend"
    /\ \E s \in DOMAIN NonDomain, diagnosed \in BOOLEAN :
        LET artifacts == NonTerminal(TRUE, diagnosed)
        IN  /\ session' = s
            /\ Finalize(Report(NonDomain[s].class, NonDomain[s].status,
                               "not_applicable", Range(artifacts)), artifacts)
    /\ UNCHANGED <<phase, prepared, deadlineVars, reraise, diskVars, envVars>>

BackendAnswersTerminal ==
    /\ pc = "backend"
    /\ \E s \in DOMAIN Domain, diagnosed \in BOOLEAN :
        /\ session' = s
        /\ todo' = AfterCommit(diagnosed)
        /\ pending' = Report(Domain[s], "completed", "committed",
                             {"terminal_result"} \cup Range(todo'))
    /\ pc' = "intent" /\ state' = "terminal_intent_received"
    /\ UNCHANGED <<phase, prepared, deadlineVars, reraise, result, diskVars,
                   envVars>>

(***************************************************************************)
(* Step 19: terminal_result.json commits the execution.                    *)
(***************************************************************************)
BeginFinalizing ==
    /\ pc = "intent"
    /\ pc' = "commit" /\ state' = "finalizing"
    /\ UNCHANGED <<phase, prepared, deadlineVars, session, reportVars, diskVars,
                   envVars>>

CheckCommit ==
    /\ pc = "commit"
    /\ Checkpoint(sessionDeadline, pc' = "write_terminal" /\ UNCHANGED state)
    /\ UNCHANGED <<phase, prepared, deadlineVars, session, reraise, diskVars,
                   envVars>>

\* The certainty reported when the writer itself was interrupted.
\* Mutant: the write is taken to have succeeded.
CertaintyAssumed == "committed"
InterruptedCertainty == "unknown"

WriteTerminal ==
    /\ pc = "write_terminal"
    /\ \/ /\ disk' = disk \cup {"terminal_result"}
          /\ pc' = "post_check"
          /\ UNCHANGED <<state, todo, pending, result>>
       \/ Fail("artifact_write_failure") /\ UNCHANGED disk
       \/ /\ \E origin \in {"already_cancelled", "expired_deadline"} :
                FailWith(origin, InterruptedCertainty)
          /\ disk' \in {disk, disk \cup {"terminal_result"}}
    /\ UNCHANGED <<phase, prepared, deadlineVars, session, reraise, summary,
                   manifest, envVars>>

(***************************************************************************)
(* Steps 17 to 20: the other artifacts.  An interruption between two       *)
(* writes stops the writing and keeps the result; a failed write does not. *)
(***************************************************************************)
Complete ==
    /\ pc' = "done" /\ state' = "completed" /\ result' = pending
    /\ UNCHANGED <<todo, pending>>

\* _checkpoint_after_terminal_commit.
CheckAfterCommit ==
    /\ pc = "post_check"
    /\ IF todo = <<>> \/ cancelled \/ now >= sessionDeadline THEN Complete
       ELSE pc' = "post_write" /\ UNCHANGED <<state, todo, pending, result>>
    /\ UNCHANGED <<phase, prepared, deadlineVars, session, reraise, diskVars,
                   envVars>>

\* RuntimeArtifactWriter: the file replaces its predecessor whole.  A summary
\* carries the pending report; a manifest lists every tracked artifact.
Written(id) ==
    /\ disk' = disk \cup {id}
    /\ summary' = IF id = "execution_summary" THEN pending ELSE summary
    /\ manifest' = IF id = "artifact_manifest"
                   THEN disk \ {"artifact_manifest"} ELSE manifest

WriteAfterCommit ==
    /\ pc = "post_write"
    /\ \/ /\ Written(Head(todo))
          /\ todo' = Tail(todo) /\ pc' = "post_check"
          /\ UNCHANGED <<state, pending, result>>
       \/ Fail("artifact_write_failure") /\ UNCHANGED diskVars
    /\ UNCHANGED <<phase, prepared, deadlineVars, session, reraise, envVars>>

\* A writer reports a cancellation or a timeout of its own, its file written
\* or not: unlike one execute sees between two writes, it replaces the result.
LaterWriteInterrupted ==
    /\ pc = "post_write"
    /\ \E origin \in {"already_cancelled", "expired_deadline"} : Fail(origin)
    /\ Written(Head(todo)) \/ UNCHANGED diskVars
    /\ UNCHANGED <<phase, prepared, deadlineVars, session, reraise, envVars>>

(***************************************************************************)
(* _write_non_terminal_artifacts, and the result of the two finalizers.    *)
(***************************************************************************)
\* Mutant: a failed write finalizes again instead of giving up.
GiveUpAndRetry(certainty) == Fail("artifact_write_failure")
GiveUp(certainty) == ReturnFailure("artifact_write_failure", certainty)

WriteNonTerminal ==
    /\ pc = "finalize"
    /\ \/ /\ Written(Head(todo))
          /\ todo' = Tail(todo)
          /\ IF todo' = <<>>
             THEN /\ pc' = "done" /\ state' = pending.status
                  /\ result' = IF reraise THEN None ELSE pending
             ELSE UNCHANGED <<pc, state, result>>
          /\ UNCHANGED pending
       \/ GiveUp(pending.certainty) /\ UNCHANGED diskVars
    /\ UNCHANGED <<phase, prepared, deadlineVars, session, reraise, envVars>>

(***************************************************************************)
(* The environment: the caller cancels, time passes, and the task that     *)
(* awaits execute is cancelled, which writes the evidence of a             *)
(* cancellation once and propagates.                                       *)
(***************************************************************************)
RestUnchanged == UNCHANGED <<progressVars, deadlineVars, session, reportVars, diskVars>>

CancelToken == ~cancelled /\ cancelled' = TRUE /\ UNCHANGED now /\ RestUnchanged

Tick == now < MaxTime /\ now' = now + 1 /\ UNCHANGED cancelled /\ RestUnchanged

Suspended ==
    \/ pc = "perform" /\ Phases[phase] = "load"
    \/ pc \in {"backend", "write_terminal", "post_write", "finalize"}

TaskCancelled ==
    /\ Suspended
    /\ IF reraise
       THEN pc' = "done" /\ UNCHANGED <<state, todo, pending, result, reraise>>
       ELSE Fail("already_cancelled") /\ reraise' = TRUE
    /\ disk' \in {disk} \cup
          (IF pc = "write_terminal" THEN {disk \cup {"terminal_result"}} ELSE {})
    /\ UNCHANGED <<phase, prepared, deadlineVars, session, summary, manifest,
                   envVars>>

Done == pc = "done" /\ UNCHANGED vars

ExecuteStep ==
    \/ Receive \/ CheckPhase \/ PerformPhase \/ ConstructSession
    \/ SessionConstructed \/ EnterBackend
    \/ BackendRaises \/ BackendAnswersBadly \/ BackendAnswersNonDomain
    \/ BackendAnswersTerminal
    \/ BeginFinalizing \/ CheckCommit \/ WriteTerminal
    \/ CheckAfterCommit \/ WriteAfterCommit \/ LaterWriteInterrupted
    \/ WriteNonTerminal

Next == ExecuteStep \/ CancelToken \/ Tick \/ TaskCancelled \/ Done

\* The coroutine runs on once its await completes: the loader and the writer
\* do bounded file work, and the session ends by its deadline.
Fairness == WF_vars(ExecuteStep)

Spec == Init /\ [][Next]_vars /\ Fairness

-----------------------------------------------------------------------------
(* Properties.                                                             *)

Classes == {"domain_terminal", "domain_rejected", "compiled_harness_invalid",
            "binding_rejected", "cancelled", "timed_out", "backend_failure",
            "model_failure", "tool_failure", "budget_exhausted",
            "terminal_result_invalid", "artifact_finalization_failed",
            "internal_failure"}
Reports == [class : Classes, status : {"completed", "failed", "interrupted"},
            certainty : {"not_applicable", "committed", "unknown"},
            refs : SUBSET ArtifactIds]

TypeOK ==
    /\ pc \in {"receive", "checkpoint", "perform", "constructed", "enter",
               "backend", "intent", "commit", "write_terminal", "post_check",
               "post_write", "finalize", "done"}
    /\ phase \in DOMAIN Phases
    /\ prepared \in BOOLEAN /\ reraise \in BOOLEAN /\ cancelled \in BOOLEAN
    /\ deadline \in Nat /\ sessionDeadline \in Nat /\ now \in Nat
    /\ session \in DOMAIN NonDomain \cup DOMAIN Domain \cup {None}
    /\ todo \in Seq(ArtifactIds)
    /\ pc \in {"finalize", "post_write"} => todo # <<>>
    /\ pending \in Reports \cup {None}
    /\ result \in Reports \cup {None}
    /\ disk \subseteq ArtifactIds
    /\ summary \in Reports \cup {None}
    /\ manifest \in {None} \cup SUBSET ArtifactIds

Returned == result # None
Interrupted == Returned /\ result.class \in {"cancelled", "timed_out"}
ArtifactFailure == Returned /\ result.class = "artifact_finalization_failed"

\* A completed execution is a committed one: its terminal_result.json is on
\* disk, it is the backend's own verdict, and no other result claims the
\* commit, however cancellation, deadline and write failures interleave.
CompletedIsCommitted ==
    Returned =>
        /\ (result.status = "completed") <=> (result.certainty = "committed")
        /\ result.status = "completed" =>
              /\ "terminal_result" \in disk
              /\ session \in DOMAIN Domain /\ result.class = Domain[session]

\* A result that says CANCELLED or TIMED_OUT beside a terminal_result.json
\* says as well that its certainty is unknown.
InterruptionNeverHidesCommit ==
    Interrupted /\ "terminal_result" \in disk => result.certainty = "unknown"

\* That is so as long as no writer of an artifact after the commit reports an
\* interruption itself: neither the token, nor the clock, nor a cancellation
\* of the task, at any moment, nor the writer of terminal_result.json hides a
\* commit.
CommitIsNotHidden ==
    [][~LaterWriteInterrupted]_vars => []InterruptionNeverHidesCommit

\* A cancellation or an expired session deadline that is there before the
\* commit's checkpoint prevents the commit for good, whatever else happens.
PastCommitCheck == pc \in {"write_terminal", "post_check", "post_write", "done"}
Stopped == cancelled \/ sessionDeadline \in 1..now
StopPreventsCommit ==
    [](Stopped /\ ~PastCommitCheck /\ disk = {}
         => []("terminal_result" \notin disk))

\* The summary on disk never contradicts the result that was returned, unless
\* the result itself says that the artifacts could not be finalized; and the
\* evidence of an aborted execution never claims that it completed.
SummaryTellsOutcome ==
    /\ Returned /\ ~ArtifactFailure /\ summary # None => summary = result
    /\ pc = "done" /\ reraise /\ manifest # None /\ summary # None
          /\ state = "interrupted" => summary.class = "cancelled"

\* No path of execute, not even a finalization that is itself interrupted,
\* asks _transition_to for an illegal transition: that MillforgeConfigError
\* would escape from execute.
StateMachine == INSTANCE RuntimeStates
FollowsStateMachine == StateMachine!Spec
=============================================================================
