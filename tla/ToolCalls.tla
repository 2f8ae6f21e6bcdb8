------------------------------ MODULE ToolCalls ------------------------------
(***************************************************************************)
(* The tool boundary with its Pi-compatible bash tool as it is built:      *)
(* bash_implementation hands the call to execute_bash and translates the   *)
(* answer.  The runner is an implementation the boundary does not have to  *)
(* trust: that it answers honestly is checked here, as a refinement of     *)
(* ToolExecution.                                                          *)
(***************************************************************************)
EXTENDS ToolExecution

CONSTANTS
    BashNodes,   \* built-in nodes bound to builtin.pi_compat.bash
    Capacity, MaxChunks, MaxCancels

ASSUME BashAssumption ==
    /\ BashNodes \subseteq {n \in Nodes : Kind[n] = "builtin"}
    /\ Capacity \in Nat \ {0} /\ MaxChunks \in Nat /\ MaxCancels \in Nat

VARIABLES
    served,      \* the call execute_bash works for, 0 before the first
    pc, goal, owed, outcome, effect, timer, grace, cancels, launch, shell, desc,
    exitSeen, waited, tree, direct, pipeClosed, reader, readerSeen, writer,
    queue, chunks, stopAsked, stopQueued, file, keep, cleanup

Runner == INSTANCE ProcessRunner

\* The variables of the runner but for the token, which is the session's.
runnerVars ==
    <<pc, goal, owed, outcome, effect, timer, grace, cancels, launch, shell,
      desc, exitSeen, waited, tree, direct, pipeClosed, reader, readerSeen,
      writer, queue, chunks, stopAsked, stopQueued, file, keep, cleanup>>
vars == <<toolVars, served, runnerVars>>

-----------------------------------------------------------------------------
InBash == phase = "implementation" /\ Node \in BashNodes
Running == InBash /\ served = calls

\* _ERROR_STATUS_AND_CODE, and success for no error.
StatusOf ==
    CASE outcome = "ok" -> "success"
      [] outcome = "invalid" -> "not_executed"
      [] outcome \in {"io_error", "nonzero"} -> "soft_failure"
      [] outcome = "timeout" -> "timed_out"
      [] outcome = "cancelled" -> "cancelled"
      [] outcome = "launch_error" -> "hard_failure"

\* The timeout left for the command may not be positive, and the token is
\* read again before execute_bash is entered.
BashRefuses ==
    /\ InBash /\ ~Running
    /\ Answers("not_executed", "not_attempted", TRUE)
    /\ UNCHANGED <<served, runnerVars>>

BashStarts ==
    /\ InBash /\ ~Running
    /\ ~token
    /\ Runner!Begin
    /\ served' = calls
    /\ UNCHANGED toolVars

\* A step of the runner.  The command's effect begins with the fork and is
\* complete at the exit.
RunnerTakes(step) ==
    /\ Running
    /\ step
    /\ work' = [work EXCEPT ![calls] = IF exitSeen' THEN "complete"
                                       ELSE IF shell' # "none" THEN "begun"
                                       ELSE "none"]
    /\ UNCHANGED <<phase, callVars, worldVars, ctx, owned, result, traceVars,
                   served>>

BashWorks ==
    \/ RunnerTakes(Runner!MainStep) \/ RunnerTakes(Runner!CleanupStep)
    \/ RunnerTakes(Runner!WriterStep) \/ RunnerTakes(Runner!ReaderStep)
    \/ RunnerTakes(Runner!LaunchSteps) \/ RunnerTakes(Runner!ProcessSteps)
    \/ RunnerTakes(Runner!TimerFires) \/ RunnerTakes(Runner!GraceEnds)
    \/ RunnerTakes(Runner!CallerCancels)

\* What is left of a call of execute_bash once it is over.
RunnerIsGone ==
    /\ Runner!Reset
    /\ pc' = "idle" /\ outcome' = "none" /\ effect' = "none"
    /\ launch' = "none" /\ writer' = "none"
    /\ UNCHANGED served

BashReturns ==
    /\ Running /\ pc = "returned"
    /\ IF outcome = "raised"
       THEN CancelledInside
       ELSE Answers(StatusOf, effect, TRUE)
    /\ RunnerIsGone

\* Any other tool is the boundary's own idea of an implementation.
OtherTool ==
    /\ \/ BoundaryStep \/ DeadlinePasses \/ BrokerStep
       \/ ImplementationStep /\ ~InBash
    /\ UNCHANGED <<served, runnerVars>>

TokenFires ==
    /\ TokenIsSet
    /\ Running => Runner!Read
    /\ UNCHANGED <<served, runnerVars>>

Init == ToolInit /\ Runner!Init /\ served = 0

Next ==
    \/ OtherTool \/ TokenFires
    \/ BashRefuses \/ BashStarts \/ BashWorks \/ BashReturns

\* The event loop runs every task that is ready, timers fire, a file
\* operation on its thread ends, and an answer is taken.  Nothing is assumed
\* of the command.
Fairness ==
    /\ WF_vars(RunnerTakes(Runner!MainStep))
    /\ WF_vars(RunnerTakes(Runner!CleanupStep))
    /\ WF_vars(RunnerTakes(Runner!WriterStep))
    /\ WF_vars(RunnerTakes(Runner!TimerFires))
    /\ WF_vars(RunnerTakes(Runner!GraceEnds))
    /\ WF_vars(BashReturns)

Spec == Init /\ [][Next]_vars /\ Fairness

-----------------------------------------------------------------------------
(***************************************************************************)
(* Correctness.                                                            *)
(***************************************************************************)
\* The runner is an honest implementation: every step of the composition is
\* a step of the boundary or none, so a bash answer says of its effect what
\* the operating system saw.
ImplementsBoundary == ToolSpec

\* When a bash call is over, by an answer or by an exception, no shell it
\* forked runs on without having been sent a kill - not even one whose
\* launch was still in flight when the call was interrupted.
NoShellLeftRunning ==
    pc = "returned" => shell # "alive" \/ tree = "sent" \/ direct

\* A bash call comes back to the bridge whatever the command does and
\* however its caller cancels it; the one thing that keeps it for ever is
\* the loss of the writer's stop marker (ProcessRunner!MarkerLost).
CallEnds == Running ~> ~Running \/ Runner!MarkerLost
=============================================================================
