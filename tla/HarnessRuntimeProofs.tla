------------------------ MODULE HarnessRuntimeProofs ------------------------
(***************************************************************************)
(* What an execution's result says of the commit, for every timeout,       *)
(* deadline and clock, and that execute follows the nine-state machine of  *)
(* RuntimeStates.  The argument follows the program counter: up to the     *)
(* write of terminal_result.json nothing is on disk, after it the pending  *)
(* report is the backend's verdict, and a finalization writes a report     *)
(* that never claims the commit.                                           *)
(*                                                                         *)
(* Then the same of an invocation of millforge-base, whose steps are those *)
(* of an execution or leave it alone, and that its facade verifies neither *)
(* more nor less than it should, for every vocabulary of terminal results; *)
(* and that the prompt of every attempt says what it is made of, for every *)
(* length of its sections and every limit.                                 *)
(***************************************************************************)
EXTENDS BaseRunner, SequenceTheorems, NaturalLemmas

\* Artifacts that do not commit.
Evidence == ArtifactIds \ {"terminal_result"}

BeforeBackend == {"receive", "checkpoint", "perform", "constructed", "enter"}
Running == {"backend"}
Verdict == {"intent", "commit", "write_terminal"}
Committed == {"post_check", "post_write"}

\* Where execute stands tells the runtime state.
StateInv ==
    /\ pc \in BeforeBackend \cup Running \cup Verdict \cup Committed
              \cup {"finalize", "done"}
    /\ pc = "receive" => state = "received"
    /\ pc = "checkpoint" => \/ state = "received"
                            \/ state = "verified" /\ Phases[phase] = "construct"
    /\ pc = "perform" => \/ state = "received" /\ Phases[phase] # "construct"
                         \/ state = "verified" /\ Phases[phase] = "construct"
    /\ pc = "constructed" => state = "verified"
    /\ pc = "enter" => state = "backend_session_constructed"
    /\ pc = "backend" => state = "running"
    /\ pc = "intent" => state = "terminal_intent_received"
    /\ pc \in {"commit", "write_terminal"} \cup Committed => state = "finalizing"
    /\ pc = "finalize" => state \notin StateMachine!Terminal

\* Execute waits only once its run directory is prepared.
PreparedInv ==
    /\ prepared \/ phase = 1
    /\ pc \notin {"receive", "checkpoint", "perform", "done"} => prepared

\* What is on disk and what will be reported.
ReportInv ==
    /\ todo \in Seq(Evidence)
    /\ pc \in {"finalize", "post_write"} => todo # <<>>
    /\ pc # "done" => result = None
    /\ reraise => pc \in {"finalize", "done"} /\ result = None
    /\ pc \in BeforeBackend \cup Running \cup Verdict => disk = {}
    /\ pc \in Verdict \cup Committed =>
          /\ session \in DOMAIN Domain /\ pending.class = Domain[session]
          /\ pending.status = "completed" /\ pending.certainty = "committed"
    /\ pc \in Committed => "terminal_result" \in disk
    /\ pc = "finalize" =>
          /\ pending.status \in {"failed", "interrupted"}
          /\ pending.certainty \in {"not_applicable", "unknown"}

\* There is no session deadline before the session is constructed.
DeadlineInv ==
    /\ sessionDeadline \in Nat /\ now \in Nat
    /\ pc \in {"receive", "checkpoint", "perform"} => sessionDeadline = 0

\* What the artifacts and the result say.
Reported == ReportInv /\ CompletedIsCommitted

IInv == StateInv /\ PreparedInv /\ Reported /\ DeadlineInv

-----------------------------------------------------------------------------
(* The artifact lists.                                                     *)

\* A list ends with the manifest, perhaps after a diagnostic.
LEMMA DiagnosedIsEvidence ==
    ASSUME NEW diagnosed \in BOOLEAN
    PROVE  Diagnosed(diagnosed) \in Seq(Evidence) /\ Len(Diagnosed(diagnosed)) > 0
<1>1. "diagnostic" \in Evidence /\ "artifact_manifest" \in Evidence
  BY DEF Evidence, ArtifactIds
<1> DEFINE two == <<"diagnostic", "artifact_manifest">>
           one == <<"artifact_manifest">>
<1>2. two \in Seq(Evidence) /\ Len(two) = 2 /\ one \in Seq(Evidence) /\ Len(one) = 1
  BY <1>1
<1> QED
  BY <1>2 DEF Diagnosed

\* The artifacts written after the commit are evidence only.
LEMMA AfterCommitIsEvidence ==
    ASSUME NEW diagnosed \in BOOLEAN
    PROVE  AfterCommit(diagnosed) \in Seq(Evidence)
<1> DEFINE first == <<"events", "tool_trace", "metrics", "execution_summary">>
<1>1. first \in Seq(Evidence)
  <2>1. /\ "events" \in Evidence /\ "tool_trace" \in Evidence
        /\ "metrics" \in Evidence /\ "execution_summary" \in Evidence
    BY DEF Evidence, ArtifactIds
  <2> QED
    BY <2>1
<1> HIDE DEF first
<1>2. first \o Diagnosed(diagnosed) \in Seq(Evidence)
  BY <1>1, DiagnosedIsEvidence, ConcatProperties
<1> QED
  BY <1>2 DEF AfterCommit, first

\* So are those of a finalization, and the summary is the first of them.
LEMMA NonTerminalIsEvidence ==
    ASSUME NEW fromSession \in BOOLEAN, NEW diagnosed \in BOOLEAN
    PROVE  /\ NonTerminal(fromSession, diagnosed) \in Seq(Evidence)
           /\ NonTerminal(fromSession, diagnosed) # <<>>
           /\ Head(NonTerminal(fromSession, diagnosed)) = "execution_summary"
<1> DEFINE start == <<"execution_summary", "metrics">>
           more == IF fromSession THEN <<"events", "tool_trace">> ELSE <<>>
           last == Diagnosed(diagnosed)
<1>1. start \in Seq(Evidence) /\ Len(start) = 2 /\ start[1] = "execution_summary"
  <2>1. "execution_summary" \in Evidence /\ "metrics" \in Evidence
    BY DEF Evidence, ArtifactIds
  <2> QED
    BY <2>1
<1>2. more \in Seq(Evidence)
  <2>1. "events" \in Evidence /\ "tool_trace" \in Evidence
    BY DEF Evidence, ArtifactIds
  <2>2. <<"events", "tool_trace">> \in Seq(Evidence)
    BY <2>1
  <2> QED
    BY <2>2
<1>3. last \in Seq(Evidence)
  BY DiagnosedIsEvidence
<1> HIDE DEF start, more, last
<1>4. /\ start \o more \in Seq(Evidence)
      /\ Len(start \o more) >= 2 /\ (start \o more)[1] = "execution_summary"
  <2>1. start \in Seq(Evidence) /\ Len(start) = 2 /\ Len(more) \in Nat
    BY <1>1, <1>2
  <2>2. /\ start \o more \in Seq(Evidence)
        /\ Len(start \o more) = Len(start) + Len(more)
        /\ \A i \in 1..(Len(start) + Len(more)) :
              (start \o more)[i] = IF i <= Len(start) THEN start[i]
                                  ELSE more[i - Len(start)]
    BY <1>2, <2>1, ConcatProperties
  <2>3. (start \o more)[1] = start[1]
    BY <2>1, <2>2
  <2> QED
    BY <1>1, <2>1, <2>2, <2>3
<1>5. /\ start \o more \o last \in Seq(Evidence)
      /\ Len(start \o more \o last) >= 2
      /\ (start \o more \o last)[1] = "execution_summary"
  BY <1>3, <1>4, ConcatProperties, LenProperties
<1>6. start \o more \o last # <<>>
  BY <1>5, EmptySeq
<1> QED
  BY <1>5, <1>6 DEF NonTerminal, start, more, last

\* Writing the head of a list leaves a shorter list.
LEMMA HeadAndTail ==
    ASSUME NEW s \in Seq(Evidence), s # <<>>
    PROVE  Head(s) \in Evidence /\ Tail(s) \in Seq(Evidence)
OBVIOUS

-----------------------------------------------------------------------------
(* What a failure does.                                                    *)

\* The step of Fail: a finalization begins, or a failure is returned at once.
Fails(class, certainty) ==
    /\ \/ /\ pc' = "finalize" /\ prepared
          /\ state' = IF state = "running" THEN "finalizing" ELSE state
          /\ todo' \in Seq(Evidence) /\ todo' # <<>>
          /\ Head(todo') = "execution_summary"
          /\ pending'.class = class /\ pending'.certainty = certainty
          /\ pending'.status \in {"failed", "interrupted"}
          /\ result' = result
       \/ /\ pc' = "done" /\ ~prepared /\ state' \in {"failed", "interrupted"}
          /\ todo' = todo /\ pending' = pending
          /\ \/ result' = None
             \/ /\ result'.class = class /\ result'.certainty = certainty
                /\ result'.status \in {"failed", "interrupted"} /\ ~reraise

\* FailWith has that effect.
LEMMA FailWithFails ==
    ASSUME NEW origin, NEW certainty, FailWith(origin, certainty)
    PROVE  Fails(ClassOf(origin), certainty)
<1>1. StatusOf(origin) \in {"failed", "interrupted"}
  BY DEF StatusOf
<1>2. /\ NonTerminal(FALSE, TRUE) \in Seq(Evidence) /\ NonTerminal(FALSE, TRUE) # <<>>
      /\ Head(NonTerminal(FALSE, TRUE)) = "execution_summary"
  BY NonTerminalIsEvidence
<1>3. CASE prepared
  <2>1. Finalize(Report(ClassOf(origin), StatusOf(origin), certainty,
                        Range(NonTerminal(FALSE, TRUE))), NonTerminal(FALSE, TRUE))
    BY <1>3 DEF FailWith
  <2> QED
    BY <2>1, <1>1, <1>2, <1>3 DEF Finalize, Fails, Report
<1>4. CASE ~prepared
  BY <1>1, <1>4 DEF FailWith, ReturnFailure, Fails, Report
<1> QED
  BY <1>3, <1>4

\* And so has Fail, whatever the origin.
LEMMA FailFails ==
    ASSUME NEW origin, Fail(origin)
    PROVE  Fails(ClassOf(origin), "not_applicable")
BY FailWithFails DEF Fail

\* A failed write of an artifact is not an interruption.
LEMMA WriteFailureFails ==
    Fail("artifact_write_failure")
        => Fails("artifact_finalization_failed", "not_applicable")
BY FailFails DEF ClassOf

-----------------------------------------------------------------------------
(* The steps.                                                              *)

\* A step of the runtime state machine, or none.
Moves == [StateMachine!Next]_state

\* The transitions of the state machine, one by one.
LEMMA Transitions ==
    /\ state = "received" /\ state' = "verified" => Moves
    /\ state = "verified" /\ state' = "backend_session_constructed" => Moves
    /\ state = "backend_session_constructed" /\ state' = "running" => Moves
    /\ state = "running" /\ state' = "terminal_intent_received" => Moves
    /\ state = "running" /\ state' = "finalizing" => Moves
    /\ state = "terminal_intent_received" /\ state' = "finalizing" => Moves
    /\ state = "finalizing" /\ state' = "completed" => Moves
    /\ state \notin StateMachine!Terminal /\ state' \in {"failed", "interrupted"}
          => Moves
    /\ state' = state => Moves
<1>1. ASSUME <<state, state'>> \in StateMachine!Forward PROVE Moves
  BY <1>1 DEF Moves, StateMachine!Next, StateMachine!Advance, StateMachine!Forward
<1>2. StateMachine!Break => Moves
  BY DEF Moves, StateMachine!Next
<1> QED
  BY <1>1, <1>2 DEF StateMachine!Forward, StateMachine!Break, Moves

\* A failure in the middle of execute.
LEMMA FailureStep ==
    ASSUME StateInv, pc # "done", NEW class, NEW certainty, Fails(class, certainty)
    PROVE  StateInv' /\ Moves
<1>1. state \notin StateMachine!Terminal
  BY DEF StateInv, StateMachine!Terminal, BeforeBackend, Running, Verdict, Committed
<1> QED
  BY <1>1, Transitions DEF Fails, StateInv, StateMachine!Terminal, BeforeBackend, Running, Verdict,
     Committed

\* Every step keeps StateInv and is a step of the state machine, or none.
LEMMA StateStep ==
    ASSUME StateInv, ReportInv, [Next]_vars
    PROVE  StateInv' /\ Moves
<1> USE DEF StateInv, BeforeBackend, Running, Verdict, Committed
<1>1. CASE Receive
  <2>1. CASE pc' = "checkpoint" /\ UNCHANGED state
    BY <1>1, <2>1, Transitions DEF Receive
  <2> QED
    BY <1>1, <2>1, FailFails, FailureStep DEF Receive
<1>2. CASE CheckPhase
  BY <1>2, FailFails, FailureStep, Transitions DEF CheckPhase, Checkpoint
<1>3. CASE PerformPhase
  BY <1>3, FailFails, FailureStep, Transitions DEF PerformPhase
<1>4. CASE ConstructSession
  BY <1>4, FailFails, FailureStep, Transitions DEF ConstructSession
<1>5. CASE SessionConstructed
  BY <1>5, FailFails, FailureStep, Transitions DEF SessionConstructed, Checkpoint
<1>6. CASE EnterBackend
  BY <1>6, FailFails, FailureStep, Transitions DEF EnterBackend
<1>7. CASE BackendRaises \/ BackendAnswersBadly
  BY <1>7, FailFails, FailureStep DEF BackendRaises, BackendAnswersBadly
<1>8. CASE BackendAnswersNonDomain
  BY <1>8, Transitions DEF BackendAnswersNonDomain, Finalize, StateMachine!Terminal
<1>9. CASE BackendAnswersTerminal
  BY <1>9, Transitions DEF BackendAnswersTerminal
<1>10. CASE BeginFinalizing
  BY <1>10, Transitions DEF BeginFinalizing
<1>11. CASE CheckCommit
  BY <1>11, FailFails, FailureStep, Transitions DEF CheckCommit, Checkpoint
<1>12. CASE WriteTerminal
  BY <1>12, FailFails, FailWithFails, FailureStep, Transitions DEF WriteTerminal
<1>13. CASE CheckAfterCommit
  BY <1>13, Transitions DEF CheckAfterCommit, Complete
<1>14. CASE WriteAfterCommit
  BY <1>14, FailFails, FailureStep, Transitions DEF WriteAfterCommit
<1>15. CASE WriteNonTerminal
  BY <1>15, Transitions
     DEF WriteNonTerminal, GiveUp, ReturnFailure, ReportInv, StateMachine!Terminal
<1>16. CASE TaskCancelled
  <2>1. pc # "done"
    BY <1>16 DEF TaskCancelled, Suspended
  <2> QED
    BY <1>16, <2>1, FailFails, FailureStep, Transitions DEF TaskCancelled
<1>17. CASE CancelToken \/ Tick \/ UNCHANGED vars
  BY <1>17, Transitions DEF CancelToken, Tick, RestUnchanged, vars, progressVars
<1>18. CASE LaterWriteInterrupted
  BY <1>18, FailFails, FailureStep DEF LaterWriteInterrupted
<1> QED
  BY <1>1, <1>2, <1>3, <1>4, <1>5, <1>6, <1>7, <1>8, <1>9, <1>10, <1>11, <1>12,
     <1>13, <1>14, <1>15, <1>16, <1>17, <1>18 DEF Next, ExecuteStep, Done

\* Every step keeps PreparedInv.
LEMMA PreparedStep ==
    ASSUME PreparedInv, [Next]_vars
    PROVE  PreparedInv'
<1> USE DEF PreparedInv
<1>1. Phases[1] = "prepare"
  BY DEF Phases
<1>2. CASE Receive \/ CheckPhase
  BY <1>2, FailFails DEF Receive, CheckPhase, Checkpoint, Fails
<1>3. CASE PerformPhase
  BY <1>3, FailFails DEF PerformPhase, Fails
<1>4. CASE ConstructSession
  BY <1>1, <1>4, FailFails DEF ConstructSession, Fails
<1>5. CASE SessionConstructed \/ EnterBackend \/ BackendRaises
           \/ BackendAnswersBadly \/ BackendAnswersNonDomain
           \/ BackendAnswersTerminal
  BY <1>5, FailFails DEF SessionConstructed, EnterBackend, BackendRaises,
     BackendAnswersBadly, BackendAnswersNonDomain, BackendAnswersTerminal, Fails,
     Finalize, Checkpoint
<1>6. CASE BeginFinalizing \/ CheckCommit \/ WriteTerminal \/ CheckAfterCommit
           \/ WriteAfterCommit \/ LaterWriteInterrupted \/ WriteNonTerminal
  BY <1>6, FailFails, FailWithFails DEF BeginFinalizing, CheckCommit, WriteTerminal,
     CheckAfterCommit, WriteAfterCommit, LaterWriteInterrupted, WriteNonTerminal, Fails,
     Checkpoint
<1>7. CASE TaskCancelled
  BY <1>7, FailFails DEF TaskCancelled, Fails
<1>8. CASE CancelToken \/ Tick \/ UNCHANGED vars
  BY <1>8 DEF CancelToken, Tick, RestUnchanged, vars, progressVars
<1> QED
  BY <1>2, <1>3, <1>4, <1>5, <1>6, <1>7, <1>8 DEF Next, ExecuteStep, Done

\* A failure before anything is on disk.
LEMMA EarlyFailureReported ==
    ASSUME Reported, pc # "done", disk = {}, UNCHANGED <<disk, reraise, session>>,
           NEW class, Fails(class, "not_applicable")
    PROVE  Reported'
BY DEF Reported, ReportInv, CompletedIsCommitted, Returned, Fails, BeforeBackend, Running, Verdict, Committed

\* Steps that write no artifact.
LEMMA QuietStep ==
    ASSUME Reported, StateInv,
           Receive \/ CheckPhase \/ PerformPhase \/ ConstructSession
           \/ SessionConstructed \/ EnterBackend \/ BackendRaises
           \/ BackendAnswersBadly \/ BackendAnswersNonDomain
           \/ BackendAnswersTerminal \/ BeginFinalizing \/ CheckCommit
    PROVE  Reported'
<1> DEFINE Still == UNCHANGED <<todo, pending, result, reraise, disk>>
<1> USE DEF BeforeBackend, Running, Verdict, Committed
<1>1. ASSUME Still, UNCHANGED session, pc # "done",
             \/ pc \in BeforeBackend /\ pc' \in BeforeBackend \cup Running
             \/ pc \in Verdict /\ pc' \in Verdict
      PROVE  Reported'
  BY <1>1 DEF Reported, ReportInv, CompletedIsCommitted, Returned
<1>2. disk = {} /\ pc # "done"
  BY DEF Reported, ReportInv, Receive, CheckPhase, PerformPhase, ConstructSession,
     SessionConstructed, EnterBackend, BackendRaises, BackendAnswersBadly,
     BackendAnswersNonDomain, BackendAnswersTerminal, BeginFinalizing, CheckCommit
<1>3. CASE Receive
  BY <1>1, <1>2, <1>3, FailFails, EarlyFailureReported DEF Receive, diskVars
<1>4. CASE CheckPhase
  BY <1>1, <1>2, <1>4, FailFails, EarlyFailureReported DEF CheckPhase, Checkpoint, diskVars
<1>5. CASE PerformPhase
  BY <1>1, <1>2, <1>5, FailFails, EarlyFailureReported DEF PerformPhase, diskVars
<1>6. CASE ConstructSession
  BY <1>1, <1>2, <1>6, FailFails, EarlyFailureReported DEF ConstructSession, diskVars
<1>7. CASE SessionConstructed
  BY <1>1, <1>2, <1>7, FailFails, EarlyFailureReported
     DEF SessionConstructed, Checkpoint, diskVars
<1>8. CASE EnterBackend
  BY <1>1, <1>2, <1>8, FailFails, EarlyFailureReported DEF EnterBackend, diskVars
<1>9. CASE BackendRaises \/ BackendAnswersBadly
  BY <1>2, <1>9, FailFails, EarlyFailureReported
     DEF BackendRaises, BackendAnswersBadly, diskVars
<1>10. CASE BackendAnswersNonDomain
  <2>1. PICK s \in DOMAIN NonDomain, diagnosed \in BOOLEAN :
          Finalize(Report(NonDomain[s].class, NonDomain[s].status, "not_applicable",
                          Range(NonTerminal(TRUE, diagnosed))),
                   NonTerminal(TRUE, diagnosed))
    BY <1>10 DEF BackendAnswersNonDomain
  <2>2. NonDomain[s].status \in {"failed", "interrupted"}
    BY DEF NonDomain
  <2> QED
    BY <1>2, <1>10, <2>1, <2>2, NonTerminalIsEvidence
    DEF BackendAnswersNonDomain, Finalize, Report, Reported, ReportInv, diskVars,
        CompletedIsCommitted, Returned
<1>11. CASE BackendAnswersTerminal
  <2>1. PICK s \in DOMAIN Domain, diagnosed \in BOOLEAN :
          /\ session' = s
          /\ todo' = AfterCommit(diagnosed)
          /\ pending' = Report(Domain[s], "completed", "committed",
                               {"terminal_result"} \cup Range(todo'))
    BY <1>11 DEF BackendAnswersTerminal
  <2> QED
    BY <1>2, <1>11, <2>1, AfterCommitIsEvidence
    DEF BackendAnswersTerminal, Report, Reported, ReportInv, diskVars,
        CompletedIsCommitted, Returned
<1>12. CASE BeginFinalizing
  BY <1>1, <1>12 DEF BeginFinalizing, reportVars, diskVars
<1>13. CASE CheckCommit
  BY <1>1, <1>2, <1>13, FailFails, EarlyFailureReported
     DEF CheckCommit, Checkpoint, diskVars
<1> QED
  BY <1>3, <1>4, <1>5, <1>6, <1>7, <1>8, <1>9, <1>10, <1>11, <1>12, <1>13

\* Steps that write artifacts, and those of the environment.
LEMMA WritingStep ==
    ASSUME Reported, StateInv, PreparedInv,
           WriteTerminal \/ CheckAfterCommit \/ WriteAfterCommit
           \/ LaterWriteInterrupted \/ WriteNonTerminal \/ TaskCancelled
           \/ CancelToken \/ Tick \/ UNCHANGED vars
    PROVE  Reported'
<1> USE DEF Reported, ReportInv, CompletedIsCommitted, Returned, BeforeBackend, Running,
            Verdict, Committed
<1>1. CASE WriteTerminal
  <2>1. CASE Fail("artifact_write_failure") /\ UNCHANGED disk
    BY <1>1, <2>1, FailFails DEF WriteTerminal, Fails
  <2>2. ASSUME NEW origin \in {"already_cancelled", "expired_deadline"},
               FailWith(origin, InterruptedCertainty)
        PROVE  Reported'
    BY <1>1, <2>2, FailWithFails DEF WriteTerminal, Fails, InterruptedCertainty
  <2>3. CASE disk' = disk \cup {"terminal_result"} /\ pc' = "post_check"
             /\ UNCHANGED <<todo, pending, result>>
    BY <1>1, <2>3 DEF WriteTerminal
  <2> QED
    BY <1>1, <2>1, <2>2, <2>3 DEF WriteTerminal
<1>2. CASE CheckAfterCommit
  BY <1>2 DEF CheckAfterCommit, Complete, diskVars, Domain
<1>3. CASE WriteAfterCommit
  <2>1. CASE Fail("artifact_write_failure") /\ UNCHANGED diskVars
    BY <1>3, <2>1, WriteFailureFails DEF WriteAfterCommit, Fails, diskVars
  <2>2. CASE Written(Head(todo)) /\ todo' = Tail(todo) /\ pc' = "post_check"
             /\ UNCHANGED <<pending, result>>
    BY <1>3, <2>2, HeadAndTail DEF WriteAfterCommit, Written
  <2> QED
    BY <1>3, <2>1, <2>2 DEF WriteAfterCommit
<1>4. CASE WriteNonTerminal
  <2>1. CASE GiveUp(pending.certainty) /\ UNCHANGED diskVars
    BY <1>4, <2>1
       DEF WriteNonTerminal, GiveUp, ReturnFailure, Report, ClassOf, StatusOf, diskVars
  <2>2. CASE /\ Written(Head(todo)) /\ todo' = Tail(todo) /\ UNCHANGED pending
             /\ IF todo' = <<>>
                THEN pc' = "done" /\ result' = IF reraise THEN None ELSE pending
                ELSE UNCHANGED <<pc, result>>
    <3>1. "terminal_result" \in disk' <=> "terminal_result" \in disk
      BY <1>4, <2>2, HeadAndTail DEF WriteNonTerminal, Written, Evidence
    <3>2. todo' \in Seq(Evidence)
      BY <1>4, <2>2, HeadAndTail DEF WriteNonTerminal
    <3>3. CASE todo' = <<>>
      BY <1>4, <2>2, <3>1, <3>2, <3>3 DEF WriteNonTerminal
    <3>4. CASE todo' # <<>>
      BY <1>4, <2>2, <3>1, <3>2, <3>4 DEF WriteNonTerminal
    <3> QED
      BY <3>3, <3>4
  <2> QED
    BY <1>4, <2>1, <2>2 DEF WriteNonTerminal
<1>5. CASE TaskCancelled
  <2>1. CASE reraise
    BY <1>5, <2>1 DEF TaskCancelled, Suspended
  <2>2. CASE ~reraise
    <3>1. prepared /\ pc # "done"
      BY <1>5 DEF TaskCancelled, Suspended, PreparedInv, Phases
    <3>2. Finalize(Report("cancelled", "interrupted", "not_applicable",
                          Range(NonTerminal(FALSE, TRUE))), NonTerminal(FALSE, TRUE))
      BY <1>5, <2>2, <3>1
         DEF TaskCancelled, Fail, FailWith, ClassOf, StatusOf
    <3> QED
      BY <1>5, <2>2, <3>1, <3>2, NonTerminalIsEvidence
         DEF TaskCancelled, Finalize, Report
  <2> QED
    BY <2>1, <2>2
<1>6. CASE CancelToken \/ Tick \/ UNCHANGED vars
  BY <1>6 DEF CancelToken, Tick, RestUnchanged, vars, progressVars, reportVars, diskVars
<1>7. CASE LaterWriteInterrupted
  <2>1. PICK class \in {"cancelled", "timed_out"} : Fails(class, "not_applicable")
    BY <1>7, FailFails DEF LaterWriteInterrupted, ClassOf
  <2> QED
    BY <1>7, <2>1 DEF LaterWriteInterrupted, Fails
<1> QED
  BY <1>1, <1>2, <1>3, <1>4, <1>5, <1>6, <1>7

\* Every step keeps DeadlineInv.
LEMMA DeadlineStep ==
    ASSUME DeadlineInv, [Next]_vars
    PROVE  DeadlineInv'
<1> USE ClockAssumption DEF DeadlineInv
<1>1. CASE ConstructSession
  BY <1>1, FailFails DEF ConstructSession, Fails, envVars
<1>2. CASE Receive \/ CheckPhase \/ PerformPhase
  BY <1>2 DEF Receive, CheckPhase, PerformPhase, deadlineVars, envVars
<1>3. CASE SessionConstructed \/ EnterBackend \/ BackendRaises
           \/ BackendAnswersBadly \/ BackendAnswersNonDomain
           \/ BackendAnswersTerminal
  BY <1>3, FailFails DEF SessionConstructed, EnterBackend, BackendRaises,
     BackendAnswersBadly, BackendAnswersNonDomain, BackendAnswersTerminal, Fails,
     Finalize, Checkpoint, deadlineVars, envVars
<1>4. CASE BeginFinalizing \/ CheckCommit \/ WriteTerminal \/ CheckAfterCommit
  BY <1>4, FailFails, FailWithFails DEF BeginFinalizing, CheckCommit, WriteTerminal,
     CheckAfterCommit, Complete, Fails, Checkpoint, deadlineVars, envVars
<1>5. CASE WriteAfterCommit \/ LaterWriteInterrupted \/ WriteNonTerminal
  BY <1>5, FailFails
     DEF WriteAfterCommit, LaterWriteInterrupted, WriteNonTerminal, GiveUp, ReturnFailure,
         Fails, deadlineVars, envVars
<1>6. CASE TaskCancelled
  BY <1>6, FailFails DEF TaskCancelled, Fails, deadlineVars, envVars
<1>7. CASE CancelToken \/ Tick \/ UNCHANGED vars
  BY <1>7 DEF CancelToken, Tick, RestUnchanged, vars, progressVars, deadlineVars, envVars
<1> QED
  BY <1>1, <1>2, <1>3, <1>4, <1>5, <1>6, <1>7 DEF Next, ExecuteStep, Done

\* Nothing is on disk and nothing is reported at first.
LEMMA InitIInv == Init => IInv
<1> SUFFICES ASSUME Init PROVE IInv
  OBVIOUS
<1>1. Phases[1] = "prepare"
  BY DEF Phases
<1>2. StateInv /\ PreparedInv /\ DeadlineInv
  BY <1>1 DEF Init, StateInv, PreparedInv, DeadlineInv, BeforeBackend, Running, Verdict, Committed
<1>3. Reported
  BY DEF Init, Reported, ReportInv, CompletedIsCommitted, Returned, BeforeBackend, Running, Verdict, Committed
<1> QED
  BY <1>2, <1>3 DEF IInv

\* The parts of the invariant together.
LEMMA NextIInv == IInv /\ [Next]_vars => IInv' /\ Moves
<1> SUFFICES ASSUME IInv, [Next]_vars PROVE IInv' /\ Moves
  OBVIOUS
<1>1. StateInv' /\ Moves
  BY StateStep DEF IInv, Reported
<1>2. PreparedInv' /\ DeadlineInv'
  BY PreparedStep, DeadlineStep DEF IInv
<1>3. Reported'
  BY QuietStep, WritingStep DEF IInv, Next, ExecuteStep, Done
<1> QED
  BY <1>1, <1>2, <1>3 DEF IInv

-----------------------------------------------------------------------------
\* The inductive invariant holds: the program counter tells the runtime
\* state, what is on disk and what will be reported.
THEOREM Invariance == Spec => []IInv
<1>1. IInv /\ [Next]_vars => IInv'
  BY NextIInv
<1> QED
  BY InitIInv, <1>1, PTL DEF Spec

\* A completed result is a committed one, with its file on disk and the
\* backend's verdict as its class.
THEOREM CompletionIsCommitted == Spec => []CompletedIsCommitted
<1>1. IInv => CompletedIsCommitted
  BY DEF IInv, Reported
<1> QED
  BY <1>1, Invariance, PTL

\* While no later writer reports an interruption, a finalization that reports
\* one beside a committed file already says that the commit is uncertain.
HonestInv ==
    /\ pc = "finalize" /\ "terminal_result" \in disk /\ ~reraise
          /\ pending.class \in {"cancelled", "timed_out"}
          => pending.certainty = "unknown"
    /\ InterruptionNeverHidesCommit

LEMMA HonestStep ==
    ASSUME IInv, HonestInv, [Next]_vars, ~LaterWriteInterrupted
    PROVE  HonestInv'
<1> USE DEF HonestInv, InterruptionNeverHidesCommit, Interrupted, Returned
<1>1. ASSUME disk' = {} PROVE HonestInv'
  BY <1>1
<1>2. CASE \/ Receive \/ CheckPhase \/ PerformPhase \/ ConstructSession
           \/ SessionConstructed \/ EnterBackend \/ BackendRaises
           \/ BackendAnswersBadly \/ BackendAnswersNonDomain
           \/ BackendAnswersTerminal \/ BeginFinalizing \/ CheckCommit
  BY <1>1, <1>2
     DEF IInv, Reported, ReportInv, BeforeBackend, Running, Verdict, diskVars, Receive,
         CheckPhase, PerformPhase, ConstructSession, SessionConstructed, EnterBackend,
         BackendRaises, BackendAnswersBadly, BackendAnswersNonDomain,
         BackendAnswersTerminal, BeginFinalizing, CheckCommit
<1>3. CASE WriteTerminal
  <2>1. result = None /\ disk = {} /\ prepared
    BY <1>3 DEF WriteTerminal, IInv, Reported, ReportInv, PreparedInv, Verdict
  <2>2. CASE Fail("artifact_write_failure") /\ UNCHANGED disk
    BY <1>1, <2>1, <2>2
  <2>3. ASSUME NEW origin, FailWith(origin, InterruptedCertainty) PROVE HonestInv'
    BY <2>1, <2>3, FailWithFails DEF Fails, InterruptedCertainty
  <2>4. CASE pc' = "post_check" /\ UNCHANGED result
    BY <2>1, <2>4
  <2> QED
    BY <1>3, <2>2, <2>3, <2>4 DEF WriteTerminal
<1>4. CASE CheckAfterCommit
  <2>1. result = None /\ pending.class \in {"domain_terminal", "domain_rejected"}
    BY <1>4 DEF CheckAfterCommit, IInv, Reported, ReportInv, Committed, Domain
  <2> QED
    BY <1>4, <2>1 DEF CheckAfterCommit, Complete
<1>5. CASE WriteAfterCommit
  <2>1. result = None /\ prepared
    BY <1>5 DEF WriteAfterCommit, IInv, Reported, ReportInv, PreparedInv
  <2> QED
    BY <1>5, <2>1, WriteFailureFails DEF WriteAfterCommit, Fails
<1>6. CASE WriteNonTerminal
  <2>1. result = None /\ pc = "finalize" /\ UNCHANGED reraise
    BY <1>6 DEF WriteNonTerminal, IInv, Reported, ReportInv
  <2>2. CASE GiveUp(pending.certainty)
    BY <2>1, <2>2 DEF GiveUp, ReturnFailure, Report, ClassOf
  <2>3. CASE /\ Written(Head(todo)) /\ UNCHANGED pending
             /\ IF todo' = <<>>
                THEN pc' = "done" /\ result' = IF reraise THEN None ELSE pending
                ELSE UNCHANGED <<pc, result>>
    <3>1. "terminal_result" \in disk' <=> "terminal_result" \in disk
      BY <2>1, <2>3, HeadAndTail DEF Written, Evidence, IInv, Reported, ReportInv
    <3> QED
      BY <2>1, <2>3, <3>1
  <2> QED
    BY <1>6, <2>2, <2>3 DEF WriteNonTerminal
<1>7. CASE TaskCancelled
  <2>1. result = None
    BY <1>7 DEF TaskCancelled, Suspended, IInv, Reported, ReportInv
  <2>2. CASE reraise
    BY <1>7, <2>1, <2>2 DEF TaskCancelled
  <2>3. CASE ~reraise
    <3>1. prepared
      BY <1>7 DEF TaskCancelled, Suspended, IInv, PreparedInv, Phases
    <3> QED
      BY <1>7, <2>1, <2>3, <3>1, FailFails DEF TaskCancelled, Fails
  <2> QED
    BY <2>2, <2>3
<1>8. CASE CancelToken \/ Tick \/ UNCHANGED vars
  BY <1>8 DEF CancelToken, Tick, RestUnchanged, vars, progressVars, reportVars, diskVars
<1> QED
  BY <1>2, <1>3, <1>4, <1>5, <1>6, <1>7, <1>8 DEF Next, ExecuteStep, Done

\* A result that reports a cancellation or a timeout beside a committed file
\* says that the commit is uncertain, unless a writer of a later artifact
\* reported the interruption.
THEOREM InterruptionsAreHonest == Spec => CommitIsNotHidden
<1>1. Init => HonestInv
  BY DEF Init, HonestInv, InterruptionNeverHidesCommit, Interrupted, Returned
<1>2. IInv /\ HonestInv /\ [Next]_vars /\ [~LaterWriteInterrupted]_vars => HonestInv'
  <2>1. CASE UNCHANGED vars
    BY <2>1 DEF vars, progressVars, reportVars, diskVars, HonestInv,
       InterruptionNeverHidesCommit, Interrupted, Returned
  <2> QED
    BY <2>1, HonestStep
<1>3. HonestInv => InterruptionNeverHidesCommit
  BY DEF HonestInv
<1> QED
  BY <1>1, <1>2, <1>3, Invariance, PTL DEF Spec, CommitIsNotHidden

\* execute implements the state machine of RuntimeStates: no path of it asks
\* for an illegal transition.
THEOREM ImplementsRuntimeStates == Spec => FollowsStateMachine
<1>1. Init => StateMachine!Init
  BY DEF Init, StateMachine!Init
<1>2. IInv /\ [Next]_vars => [StateMachine!Next]_state
  BY NextIInv DEF Moves
<1> QED
  BY <1>1, <1>2, Invariance, PTL DEF Spec, FollowsStateMachine, StateMachine!Spec

-----------------------------------------------------------------------------
(* What the summary says.                                                  *)

\* A finalization writes its summary before anything else, so that the one on
\* disk is its own as soon as it has written a file.  A finalization that ends
\* in a propagated cancellation reports that cancellation.
SummaryInv ==
    /\ pc \in BeforeBackend \cup Running \cup Verdict => summary = None
    /\ pc \in Committed => summary \in {None, pending}
    /\ pc = "finalize" =>
          /\ Head(todo) = "execution_summary" \/ summary = pending
          /\ reraise => pending.class = "cancelled"
    /\ SummaryTellsOutcome

\* A failure while the summary is that of no execution, or of one that is given
\* up.
LEMMA SummaryFailure ==
    ASSUME IInv, SummaryInv, pc # "done", NEW class, NEW certainty,
           Fails(class, certainty), prepared \/ UNCHANGED summary,
           reraise' => class = "cancelled"
    PROVE  SummaryInv'
<1> USE DEF BeforeBackend, Running, Verdict, Committed
<1>1. CASE pc' = "finalize" /\ Head(todo') = "execution_summary"
  <2>1. result' = None
    BY <1>1 DEF Fails, IInv, Reported, ReportInv
  <2> QED
    BY <1>1, <2>1 DEF Fails, SummaryInv, SummaryTellsOutcome, Returned
<1>2. CASE pc' = "done" /\ ~prepared
  <2>1. summary' = None
    BY <1>2 DEF IInv, PreparedInv, StateInv, SummaryInv
  <2> QED
    BY <1>2, <2>1 DEF SummaryInv, SummaryTellsOutcome
<1> QED
  BY <1>1, <1>2 DEF Fails

LEMMA SummaryQuietStep ==
    ASSUME IInv, SummaryInv,
           Receive \/ CheckPhase \/ PerformPhase \/ ConstructSession
           \/ SessionConstructed \/ EnterBackend \/ BackendRaises
           \/ BackendAnswersBadly \/ BackendAnswersNonDomain
           \/ BackendAnswersTerminal \/ BeginFinalizing \/ CheckCommit
    PROVE  SummaryInv'
<1> USE DEF BeforeBackend, Running, Verdict, Committed
<1>1. /\ pc # "done" /\ ~reraise /\ result = None /\ summary = None
      /\ UNCHANGED <<summary, reraise>>
  BY DEF IInv, Reported, ReportInv, SummaryInv, Receive, CheckPhase, PerformPhase,
     ConstructSession, SessionConstructed, EnterBackend, BackendRaises,
     BackendAnswersBadly, BackendAnswersNonDomain, BackendAnswersTerminal,
     BeginFinalizing, CheckCommit, diskVars, reportVars
<1>2. ASSUME NEW origin, Fail(origin) PROVE SummaryInv'
  BY <1>1, <1>2, FailFails, SummaryFailure
<1>3. ASSUME pc' \in BeforeBackend \cup Running \cup Verdict, result' = None
      PROVE  SummaryInv'
  BY <1>1, <1>3 DEF SummaryInv, SummaryTellsOutcome, Returned
<1>4. CASE Receive \/ CheckPhase
  BY <1>1, <1>2, <1>3, <1>4 DEF Receive, CheckPhase, Checkpoint
<1>5. CASE PerformPhase \/ ConstructSession
  BY <1>1, <1>2, <1>3, <1>5 DEF PerformPhase, ConstructSession
<1>6. CASE SessionConstructed \/ EnterBackend
  BY <1>1, <1>2, <1>3, <1>6 DEF SessionConstructed, EnterBackend, Checkpoint
<1>7. CASE BackendRaises \/ BackendAnswersBadly
  BY <1>2, <1>7 DEF BackendRaises, BackendAnswersBadly
<1>8. CASE BackendAnswersNonDomain
  <2>1. PICK s \in DOMAIN NonDomain, diagnosed \in BOOLEAN :
          Finalize(Report(NonDomain[s].class, NonDomain[s].status, "not_applicable",
                          Range(NonTerminal(TRUE, diagnosed))),
                   NonTerminal(TRUE, diagnosed))
    BY <1>8 DEF BackendAnswersNonDomain
  <2> QED
    BY <1>1, <2>1, NonTerminalIsEvidence
       DEF Finalize, SummaryInv, SummaryTellsOutcome, Returned
<1>9. CASE BackendAnswersTerminal \/ BeginFinalizing \/ CheckCommit
  BY <1>1, <1>2, <1>3, <1>9
     DEF BackendAnswersTerminal, BeginFinalizing, CheckCommit, Checkpoint, reportVars
<1> QED
  BY <1>4, <1>5, <1>6, <1>7, <1>8, <1>9

LEMMA SummaryWritingStep ==
    ASSUME IInv, SummaryInv,
           WriteTerminal \/ CheckAfterCommit \/ WriteAfterCommit
           \/ LaterWriteInterrupted \/ WriteNonTerminal \/ TaskCancelled
           \/ CancelToken \/ Tick \/ UNCHANGED vars
    PROVE  SummaryInv'
<1> USE DEF BeforeBackend, Running, Verdict, Committed
<1>1. CASE WriteTerminal
  <2>1. pc # "done" /\ ~reraise /\ result = None /\ UNCHANGED <<summary, reraise>>
    BY <1>1 DEF WriteTerminal, IInv, Reported, ReportInv
  <2>2. ASSUME NEW origin, NEW certainty, FailWith(origin, certainty)
        PROVE  SummaryInv'
    BY <2>1, <2>2, FailWithFails, SummaryFailure
  <2>3. CASE pc' = "post_check" /\ UNCHANGED <<pending, result>>
    BY <1>1, <2>1, <2>3 DEF WriteTerminal, SummaryInv, SummaryTellsOutcome, Returned
  <2> QED
    BY <1>1, <2>2, <2>3 DEF WriteTerminal, Fail
<1>2. CASE CheckAfterCommit
  <2>1. ~reraise /\ result = None /\ summary \in {None, pending}
        /\ UNCHANGED <<summary, reraise, pending>>
    BY <1>2 DEF CheckAfterCommit, Complete, diskVars, IInv, Reported, ReportInv, SummaryInv
  <2> QED
    BY <1>2, <2>1
       DEF CheckAfterCommit, Complete, SummaryInv, SummaryTellsOutcome, Returned
<1>3. CASE WriteAfterCommit
  <2>1. ~reraise /\ result = None /\ summary \in {None, pending} /\ UNCHANGED reraise
    BY <1>3 DEF WriteAfterCommit, IInv, Reported, ReportInv, SummaryInv
  <2>2. CASE Fail("artifact_write_failure") /\ UNCHANGED diskVars
    BY <1>3, <2>1, <2>2, FailFails, SummaryFailure DEF WriteAfterCommit, diskVars
  <2>3. CASE Written(Head(todo)) /\ pc' = "post_check" /\ UNCHANGED <<pending, result>>
    BY <2>1, <2>3 DEF Written, SummaryInv, SummaryTellsOutcome, Returned
  <2> QED
    BY <1>3, <2>2, <2>3 DEF WriteAfterCommit
<1>4. CASE WriteNonTerminal
  <2>1. result = None /\ UNCHANGED reraise /\ pc = "finalize"
    BY <1>4 DEF WriteNonTerminal, IInv, Reported, ReportInv
  <2>2. CASE GiveUp(pending.certainty)
    BY <2>1, <2>2
       DEF GiveUp, ReturnFailure, Report, ClassOf, SummaryInv, SummaryTellsOutcome,
           Returned, ArtifactFailure
  <2>3. CASE /\ Written(Head(todo)) /\ UNCHANGED pending
             /\ IF todo' = <<>>
                THEN pc' = "done" /\ result' = IF reraise THEN None ELSE pending
                ELSE UNCHANGED <<pc, result>>
    <3>1. summary' = pending
      BY <2>1, <2>3 DEF Written, SummaryInv
    <3>2. CASE todo' = <<>>
      BY <2>1, <2>3, <3>1, <3>2 DEF SummaryInv, SummaryTellsOutcome, Returned
    <3>3. CASE todo' # <<>>
      BY <2>1, <2>3, <3>1, <3>3 DEF SummaryInv, SummaryTellsOutcome, Returned
    <3> QED
      BY <3>2, <3>3
  <2> QED
    BY <1>4, <2>2, <2>3 DEF WriteNonTerminal
<1>5. CASE TaskCancelled
  <2>1. pc # "done" /\ UNCHANGED summary
    BY <1>5 DEF TaskCancelled, Suspended
  <2>2. CASE reraise
    <3>1. /\ pc = "finalize" /\ state \notin StateMachine!Terminal
          /\ result = None
      BY <1>5, <2>1, <2>2 DEF IInv, StateInv, Reported, ReportInv
    <3> QED
      BY <1>5, <2>1, <2>2, <3>1
         DEF TaskCancelled, SummaryInv, SummaryTellsOutcome, Returned,
             StateMachine!Terminal
  <2>3. CASE ~reraise
    <3>1. Fails("cancelled", "not_applicable")
      BY <1>5, <2>3, FailFails DEF TaskCancelled, ClassOf
    <3> QED
      BY <2>1, <3>1, SummaryFailure
  <2> QED
    BY <2>2, <2>3
<1>6. CASE CancelToken \/ Tick \/ UNCHANGED vars
  BY <1>6 DEF CancelToken, Tick, RestUnchanged, vars, progressVars, reportVars, diskVars,
     SummaryInv, SummaryTellsOutcome, Returned, ArtifactFailure
<1>7. CASE LaterWriteInterrupted
  <2>1. pc # "done" /\ ~reraise /\ prepared /\ UNCHANGED reraise
    BY <1>7 DEF LaterWriteInterrupted, IInv, Reported, ReportInv, PreparedInv
  <2> QED
    BY <1>7, <2>1, FailFails, SummaryFailure DEF LaterWriteInterrupted
<1> QED
  BY <1>1, <1>2, <1>3, <1>4, <1>5, <1>6, <1>7

LEMMA InitSummaryInv == Init => SummaryInv
BY DEF Init, SummaryInv, SummaryTellsOutcome, Returned, Committed

LEMMA NextSummaryInv == IInv /\ SummaryInv /\ [Next]_vars => SummaryInv'
BY SummaryQuietStep, SummaryWritingStep DEF Next, ExecuteStep, Done

\* The summary on disk is that of the result, unless the artifacts could not be
\* finalized; a propagated cancellation leaves no summary of a completion.
THEOREM SummariesTellTheOutcome == Spec => []SummaryTellsOutcome
<1>1. SummaryInv => SummaryTellsOutcome
  BY DEF SummaryInv
<1>2. IInv /\ SummaryInv /\ [Next]_vars => SummaryInv'
  BY NextSummaryInv
<1> QED
  BY InitSummaryInv, <1>1, <1>2, Invariance, PTL DEF Spec

-----------------------------------------------------------------------------
(* Types.                                                                  *)

Origins == {"compiled_harness_invalid", "hash_mismatch", "identity_mismatch",
            "incompatible_stage", "missing_capability", "already_cancelled",
            "expired_deadline", "invalid_terminal", "artifact_write_failure",
            "infrastructure_failure", "backend_failure", "model_failure",
            "tool_failure"}
Certainties == {"not_applicable", "committed", "unknown"}

LEMMA EvidenceIsArtifacts ==
    ASSUME NEW s \in Seq(Evidence)
    PROVE  s \in Seq(ArtifactIds) /\ Range(s) \subseteq ArtifactIds
<1>1. \A i \in 1..Len(s) : s[i] \in ArtifactIds
  BY ElementOfSeq DEF Evidence
<1>2. s \in Seq(ArtifactIds)
  BY <1>1
<1> QED
  BY <1>1, <1>2 DEF Range

LEMMA ReportTyped ==
    ASSUME NEW origin \in Origins, NEW certainty \in Certainties,
           NEW refs \in SUBSET ArtifactIds
    PROVE  Report(ClassOf(origin), StatusOf(origin), certainty, refs) \in Reports
<1>1. ClassOf(origin) \in Classes
  BY DEF Origins, ClassOf, Classes
<1>2. StatusOf(origin) \in {"completed", "failed", "interrupted"}
  BY DEF StatusOf
<1> QED
  BY <1>1, <1>2 DEF Report, Reports, Certainties

\* What a failure sets has its types.
ReportTypes ==
    /\ pc' \in {"finalize", "done"}
    /\ todo' \in Seq(ArtifactIds) /\ (pc' = "finalize" => todo' # <<>>)
    /\ pending' \in Reports \cup {None} /\ result' \in Reports \cup {None}

LEMMA FailureTyped ==
    ASSUME TypeOK, NEW origin \in Origins, NEW certainty \in Certainties,
           FailWith(origin, certainty)
    PROVE  ReportTypes
<1> DEFINE artifacts == NonTerminal(FALSE, TRUE)
<1>1. /\ artifacts \in Seq(ArtifactIds) /\ artifacts # <<>>
      /\ Range(artifacts) \subseteq ArtifactIds
  BY NonTerminalIsEvidence, EvidenceIsArtifacts
<1>2. CASE prepared
  <2>1. Finalize(Report(ClassOf(origin), StatusOf(origin), certainty, Range(artifacts)),
                 artifacts)
    BY <1>2 DEF FailWith
  <2>2. Report(ClassOf(origin), StatusOf(origin), certainty, Range(artifacts)) \in Reports
    BY <1>1, ReportTyped
  <2> HIDE DEF artifacts
  <2> QED
    BY <1>1, <2>1, <2>2 DEF Finalize, TypeOK, ReportTypes
<1>3. CASE ~prepared
  <2>1. Report(ClassOf(origin), StatusOf(origin), certainty, {}) \in Reports
    BY ReportTyped
  <2> QED
    BY <1>3, <2>1 DEF FailWith, ReturnFailure, TypeOK, ReportTypes
<1> QED
  BY <1>2, <1>3

LEMMA FailTyped ==
    ASSUME TypeOK, NEW origin \in Origins, Fail(origin)
    PROVE  ReportTypes
BY FailureTyped DEF Fail, Certainties

LEMMA TypeQuietStep ==
    ASSUME TypeOK,
           Receive \/ CheckPhase \/ PerformPhase \/ ConstructSession
           \/ SessionConstructed \/ EnterBackend \/ BackendRaises
           \/ BackendAnswersBadly \/ BackendAnswersNonDomain
           \/ BackendAnswersTerminal \/ BeginFinalizing \/ CheckCommit
    PROVE  TypeOK'
<1>1. {"infrastructure_failure", "already_cancelled", "expired_deadline",
       "compiled_harness_invalid", "identity_mismatch", "hash_mismatch",
       "incompatible_stage", "missing_capability", "backend_failure",
       "model_failure", "tool_failure", "artifact_write_failure",
       "invalid_terminal"} \subseteq Origins
  BY DEF Origins
<1>2. Timeout \in Nat /\ AbsoluteDeadline \in Nat
  BY ClockAssumption
<1> USE DEF TypeOK, ReportTypes, diskVars, envVars
<1>3. CASE Receive
  BY <1>1, <1>2, <1>3, FailTyped DEF Receive
<1>4. CASE CheckPhase
  BY <1>1, <1>4, FailTyped DEF CheckPhase, Checkpoint, deadlineVars
<1>5. CASE PerformPhase
  <2>1. /\ phase \in 1..9 /\ DOMAIN Phases = 1..9 /\ DOMAIN PhaseOrigins = 1..9
        /\ phase # 9
    BY <1>5 DEF PerformPhase, Phases, PhaseOrigins
  <2>2. \A i \in 1..9 : PhaseOrigins[i] \subseteq Origins
    BY <1>1 DEF PhaseOrigins
  <2>3. phase' \in DOMAIN Phases
    BY <1>5, <2>1 DEF PerformPhase
  <2>4. CASE \E origin \in PhaseOrigins[phase] : Fail(origin) /\ UNCHANGED <<phase, prepared>>
    BY <1>5, <2>1, <2>2, <2>4, FailTyped DEF PerformPhase, deadlineVars
  <2>5. CASE /\ prepared' = TRUE /\ pc' = "checkpoint"
             /\ UNCHANGED <<todo, pending, result>>
    BY <1>5, <2>3, <2>5 DEF PerformPhase, deadlineVars
  <2> QED
    BY <1>5, <2>4, <2>5 DEF PerformPhase
<1>6. CASE ConstructSession
  BY <1>1, <1>2, <1>6, FailTyped DEF ConstructSession
<1>7. CASE SessionConstructed \/ EnterBackend
  BY <1>1, <1>7, FailTyped DEF SessionConstructed, EnterBackend, Checkpoint, deadlineVars
<1>8. CASE BackendRaises \/ BackendAnswersBadly
  BY <1>1, <1>8, FailTyped DEF BackendRaises, BackendAnswersBadly, deadlineVars
<1>9. CASE BackendAnswersNonDomain
  <2>1. PICK s \in DOMAIN NonDomain, diagnosed \in BOOLEAN :
          /\ session' = s
          /\ Finalize(Report(NonDomain[s].class, NonDomain[s].status, "not_applicable",
                             Range(NonTerminal(TRUE, diagnosed))),
                      NonTerminal(TRUE, diagnosed))
    BY <1>9 DEF BackendAnswersNonDomain
  <2> DEFINE artifacts == NonTerminal(TRUE, diagnosed)
  <2>2. /\ artifacts \in Seq(ArtifactIds) /\ artifacts # <<>>
        /\ Range(artifacts) \subseteq ArtifactIds
    BY NonTerminalIsEvidence, EvidenceIsArtifacts
  <2>3. Report(NonDomain[s].class, NonDomain[s].status, "not_applicable", Range(artifacts))
            \in Reports
    <3>1. NonDomain[s].class \in Classes /\ NonDomain[s].status \in {"failed", "interrupted"}
      BY DEF NonDomain, Classes
    <3> QED
      BY <2>2, <3>1 DEF Report, Reports
  <2> HIDE DEF artifacts
  <2> QED
    BY <1>9, <2>1, <2>2, <2>3
       DEF BackendAnswersNonDomain, Finalize, deadlineVars, artifacts
<1>10. CASE BackendAnswersTerminal
  <2>1. PICK s \in DOMAIN Domain, diagnosed \in BOOLEAN :
          /\ session' = s
          /\ todo' = AfterCommit(diagnosed)
          /\ pending' = Report(Domain[s], "completed", "committed",
                               {"terminal_result"} \cup Range(todo'))
    BY <1>10 DEF BackendAnswersTerminal
  <2>2. todo' \in Seq(ArtifactIds) /\ Range(todo') \subseteq ArtifactIds
    BY <2>1, AfterCommitIsEvidence, EvidenceIsArtifacts
  <2>3. pending' \in Reports
    BY <2>1, <2>2 DEF Report, Reports, Domain, Classes, ArtifactIds
  <2> QED
    BY <1>10, <2>1, <2>2, <2>3 DEF BackendAnswersTerminal, deadlineVars
<1>11. CASE BeginFinalizing \/ CheckCommit
  BY <1>1, <1>11, FailTyped
     DEF BeginFinalizing, CheckCommit, Checkpoint, deadlineVars, reportVars
<1> QED
  BY <1>3, <1>4, <1>5, <1>6, <1>7, <1>8, <1>9, <1>10, <1>11

\* What a write changes of the disk.
LEMMA WrittenTyped ==
    ASSUME TypeOK, todo \in Seq(Evidence), todo # <<>>, Written(Head(todo))
    PROVE  /\ disk' \subseteq ArtifactIds /\ summary' \in Reports \cup {None}
           /\ manifest' \in {None} \cup SUBSET ArtifactIds
           /\ Tail(todo) \in Seq(ArtifactIds)
<1>1. Head(todo) \in ArtifactIds /\ Tail(todo) \in Seq(ArtifactIds)
  BY HeadAndTail, EvidenceIsArtifacts DEF Evidence
<1> QED
  BY <1>1 DEF Written, TypeOK

LEMMA TypeWritingStep ==
    ASSUME TypeOK, IInv,
           WriteTerminal \/ CheckAfterCommit \/ WriteAfterCommit
           \/ LaterWriteInterrupted \/ WriteNonTerminal \/ TaskCancelled
           \/ CancelToken \/ Tick \/ UNCHANGED vars
    PROVE  TypeOK'
<1>1. /\ {"already_cancelled", "expired_deadline", "artifact_write_failure"}
              \subseteq Origins
      /\ InterruptedCertainty \in Certainties /\ "terminal_result" \in ArtifactIds
  BY DEF Origins, InterruptedCertainty, Certainties, ArtifactIds
<1>2. todo \in Seq(Evidence)
  BY DEF IInv, Reported, ReportInv
<1> USE DEF TypeOK, ReportTypes, diskVars, envVars, deadlineVars
<1>3. CASE WriteTerminal
  BY <1>1, <1>3, FailTyped, FailureTyped DEF WriteTerminal
<1>4. CASE CheckAfterCommit
  BY <1>4 DEF CheckAfterCommit, Complete
<1>5. CASE WriteAfterCommit
  <2>1. CASE Fail("artifact_write_failure") /\ UNCHANGED diskVars
    BY <1>1, <1>5, <2>1, FailTyped DEF WriteAfterCommit
  <2>2. CASE /\ Written(Head(todo)) /\ todo' = Tail(todo) /\ pc' = "post_check"
             /\ UNCHANGED <<pending, result>>
    BY <1>2, <1>5, <2>2, WrittenTyped DEF WriteAfterCommit
  <2> QED
    BY <1>5, <2>1, <2>2 DEF WriteAfterCommit
<1>6. CASE WriteNonTerminal
  <2>1. CASE GiveUp(pending.certainty) /\ UNCHANGED diskVars
    <3>1. pending.certainty \in Certainties
      BY <1>6 DEF WriteNonTerminal, IInv, Reported, ReportInv, Certainties
    <3>2. Report(ClassOf("artifact_write_failure"), StatusOf("artifact_write_failure"),
                 pending.certainty, {}) \in Reports
      BY <1>1, <3>1, ReportTyped
    <3> QED
      BY <1>6, <2>1, <3>2 DEF WriteNonTerminal, GiveUp, ReturnFailure
  <2>2. CASE /\ Written(Head(todo)) /\ todo' = Tail(todo) /\ UNCHANGED pending
             /\ IF todo' = <<>>
                THEN pc' = "done" /\ result' = IF reraise THEN None ELSE pending
                ELSE UNCHANGED <<pc, result>>
    BY <1>2, <1>6, <2>2, WrittenTyped DEF WriteNonTerminal
  <2> QED
    BY <1>6, <2>1, <2>2 DEF WriteNonTerminal
<1>7. CASE TaskCancelled
  <2>1. CASE reraise
    BY <1>1, <1>7, <2>1 DEF TaskCancelled
  <2>2. CASE ~reraise
    BY <1>1, <1>7, <2>2, FailTyped DEF TaskCancelled
  <2> QED
    BY <2>1, <2>2
<1>8. CASE CancelToken \/ Tick \/ UNCHANGED vars
  <2>1. /\ UNCHANGED <<pc, phase, prepared, deadline, sessionDeadline, session, todo,
                      pending, reraise, result, disk, summary, manifest>>
    BY <1>8 DEF CancelToken, Tick, RestUnchanged, vars, progressVars, reportVars
  <2>2. cancelled' \in BOOLEAN
    <3>1. cancelled' = TRUE \/ cancelled' = cancelled
      BY <1>8 DEF CancelToken, Tick, vars
    <3> QED
      BY <3>1
  <2>3. now' \in Nat
    BY <1>8 DEF CancelToken, Tick, vars
  <2> QED
    BY <2>1, <2>2, <2>3
<1>9. CASE LaterWriteInterrupted
  <2>1. /\ disk' \subseteq ArtifactIds /\ summary' \in Reports \cup {None}
        /\ manifest' \in {None} \cup SUBSET ArtifactIds
    BY <1>2, <1>9, WrittenTyped DEF LaterWriteInterrupted
  <2> QED
    BY <1>1, <1>9, <2>1, FailTyped DEF LaterWriteInterrupted
<1> QED
  BY <1>3, <1>4, <1>5, <1>6, <1>7, <1>8, <1>9

\* Every report and every artifact list keeps its type, and an execution that is
\* about to write always has something to write.
THEOREM TypesOfTheRuntime == Spec => []TypeOK
<1>1. Init => TypeOK
  <2>1. <<>> \in Seq(ArtifactIds) /\ 1 \in DOMAIN Phases
    BY EmptySeq DEF Phases
  <2> SUFFICES ASSUME Init PROVE TypeOK
    OBVIOUS
  <2>2. prepared \in BOOLEAN /\ reraise \in BOOLEAN /\ cancelled \in BOOLEAN
    BY Zenon DEF Init
  <2> QED
    BY <2>1, <2>2 DEF Init, TypeOK
<1>2. IInv /\ TypeOK /\ [Next]_vars => TypeOK'
  BY TypeQuietStep, TypeWritingStep DEF Next, ExecuteStep, Done
<1> QED
  BY <1>1, <1>2, Invariance, PTL DEF Spec

-----------------------------------------------------------------------------
\* From the moment the stop is seen, the write is out of reach.
Prevented ==
    /\ Stopped /\ "terminal_result" \notin disk
    /\ pc \notin {"write_terminal"} \cup Committed

\* A cancellation or an expired session deadline before the commit's
\* checkpoint prevents the commit.
THEOREM StopsPreventCommits == Spec => StopPreventsCommit
<1>1. IInv /\ Stopped /\ ~PastCommitCheck /\ disk = {} => Prevented
  BY DEF Prevented, PastCommitCheck, Committed
<1>2. IInv /\ Prevented /\ [Next]_vars => Prevented'
  <2> SUFFICES ASSUME IInv, Prevented, [Next]_vars PROVE Prevented'
    OBVIOUS
  <2>1. Stopped'
    <3>1. UNCHANGED sessionDeadline \/ sessionDeadline = 0
      BY DEF IInv, DeadlineInv, Next, ExecuteStep, Done, vars, Receive, CheckPhase,
         PerformPhase, ConstructSession, SessionConstructed, EnterBackend,
         BackendRaises, BackendAnswersBadly, BackendAnswersNonDomain,
         BackendAnswersTerminal, BeginFinalizing, CheckCommit, WriteTerminal,
         CheckAfterCommit, WriteAfterCommit, LaterWriteInterrupted, WriteNonTerminal,
         CancelToken, Tick, TaskCancelled, RestUnchanged, deadlineVars
    <3>2. UNCHANGED envVars \/ CancelToken \/ Tick
      BY DEF Next, ExecuteStep, Done, vars, Receive, CheckPhase, PerformPhase,
         ConstructSession, SessionConstructed, EnterBackend, BackendRaises,
         BackendAnswersBadly, BackendAnswersNonDomain, BackendAnswersTerminal,
         BeginFinalizing, CheckCommit, WriteTerminal, CheckAfterCommit,
         WriteAfterCommit, LaterWriteInterrupted, WriteNonTerminal, TaskCancelled
    <3>3. /\ cancelled => cancelled'
          /\ now' \in Nat /\ now' >= now
      BY <3>2 DEF IInv, DeadlineInv, CancelToken, Tick, envVars
    <3> QED
      BY <3>1, <3>3 DEF Prevented, Stopped, IInv, DeadlineInv
  <2> USE DEF Prevented, Committed
  <2>2. CASE CheckCommit
    <3>1. Fails("cancelled", "not_applicable") \/ Fails("timed_out", "not_applicable")
      <4>1. cancelled \/ now >= sessionDeadline
        BY DEF Stopped, IInv, DeadlineInv
      <4> QED
        BY <2>2, <4>1, FailFails DEF CheckCommit, Checkpoint, ClassOf
    <3> QED
      BY <2>1, <2>2, <3>1 DEF CheckCommit, Fails, diskVars
  <2>3. CASE WriteNonTerminal
    <3>1. todo # <<>> /\ todo \in Seq(Evidence)
      BY <2>3 DEF WriteNonTerminal, IInv, Reported, ReportInv
    <3> QED
      BY <2>1, <2>3, <3>1, HeadAndTail
         DEF WriteNonTerminal, Written, GiveUp, ReturnFailure, Evidence, diskVars
  <2>4. CASE \/ Receive \/ CheckPhase \/ PerformPhase \/ ConstructSession
             \/ SessionConstructed \/ EnterBackend
    BY <2>1, <2>4, FailFails
       DEF Receive, CheckPhase, PerformPhase, ConstructSession, SessionConstructed,
           EnterBackend, Checkpoint, Fails, diskVars
  <2>5. CASE \/ BackendRaises \/ BackendAnswersBadly \/ BackendAnswersNonDomain
             \/ BackendAnswersTerminal \/ BeginFinalizing
    BY <2>1, <2>5, FailFails
       DEF BackendRaises, BackendAnswersBadly, BackendAnswersNonDomain, Finalize,
           BackendAnswersTerminal, BeginFinalizing, Fails, diskVars
  <2>6. CASE WriteTerminal \/ CheckAfterCommit \/ WriteAfterCommit
             \/ LaterWriteInterrupted
    BY <2>6 DEF WriteTerminal, CheckAfterCommit, WriteAfterCommit, LaterWriteInterrupted
  <2>7. CASE TaskCancelled
    BY <2>1, <2>7, FailFails DEF TaskCancelled, Fails
  <2>8. CASE CancelToken \/ Tick \/ UNCHANGED vars
    BY <2>1, <2>8
       DEF CancelToken, Tick, RestUnchanged, vars, progressVars, diskVars
  <2> QED
    BY <2>2, <2>3, <2>4, <2>5, <2>6, <2>7, <2>8 DEF Next, ExecuteStep, Done
<1>3. Prevented => "terminal_result" \notin disk
  BY DEF Prevented
<1> QED
  BY <1>1, <1>2, <1>3, Invariance, PTL DEF Spec, StopPreventsCommit

-----------------------------------------------------------------------------
(* The sorted tuple.                                                       *)

\* Sorting keeps the elements of a tuple without duplicates, and sorting again
\* changes nothing.
LEMMA SortedAgain ==
    ASSUME NEW s \in Seq(Nat), IsInjective(s)
    PROVE  /\ DOMAIN Sorted(s) = DOMAIN s /\ Range(Sorted(s)) = Range(s)
           /\ Sorted(Sorted(s)) = Sorted(s)
<1> DEFINE S == Range(s)
           n == Len(s)
<1>1. DOMAIN s = 1..n /\ n \in Nat /\ S \subseteq Nat
  BY DEF Range
<1>2. IsFiniteSet(S) /\ Cardinality(S) = n
  <2>1. IsFiniteSet(1..n) /\ Cardinality(1..n) = n
    BY <1>1, FS_Interval
  <2>2. s \in Surjection(1..n, S) /\ s \in Injection(1..n, S)
    BY <1>1 DEF Surjection, Injection, Range
  <2> QED
    BY <2>1, <2>2, FS_Surjection
<1>3. /\ \A x \in S : Cardinality(Below(S, x)) \in 0..(n - 1)
      /\ \A x, y \in S : Cardinality(Below(S, x)) = Cardinality(Below(S, y)) => x = y
      /\ \A k \in 0..(n - 1) : \E x \in S : Cardinality(Below(S, x)) = k
  BY <1>1, <1>2, Ranks
<1>4. Sorted(s) = [i \in 1..n |-> CHOOSE x \in S : Cardinality(Below(S, x)) = i - 1]
  BY <1>1 DEF Sorted, Below
<1> HIDE DEF S, n
<1>5. ASSUME NEW i \in 1..n
      PROVE  Sorted(s)[i] \in S /\ Cardinality(Below(S, Sorted(s)[i])) = i - 1
  <2>1. i - 1 \in 0..(n - 1)
    BY <1>1
  <2>2. PICK x \in S : Cardinality(Below(S, x)) = i - 1
    BY <1>3, <2>1
  <2> QED
    BY <1>4, <2>2
<1>6. DOMAIN Sorted(s) = 1..n
  BY <1>4
<1>7. ASSUME NEW x \in S PROVE \E i \in 1..n : Sorted(s)[i] = x
  <2>1. Cardinality(Below(S, x)) + 1 \in 1..n
    BY <1>1, <1>3
  <2>2. Cardinality(Below(S, Sorted(s)[Cardinality(Below(S, x)) + 1]))
            = Cardinality(Below(S, x))
    BY <1>1, <1>3, <1>5, <2>1
  <2> QED
    BY <1>3, <1>5, <2>1, <2>2
<1>8. Range(Sorted(s)) = S
  BY <1>5, <1>6, <1>7 DEF Range
<1>9. Sorted(Sorted(s)) = [i \in 1..n |-> CHOOSE x \in S : Cardinality(Below(S, x)) = i - 1]
  <2> DEFINE t == Sorted(s)
  <2>1. DOMAIN t = 1..n /\ Range(t) = S
    BY <1>6, <1>8
  <2> HIDE DEF t
  <2>2. Sorted(t) = [i \in 1..n |-> CHOOSE x \in S : Cardinality(Below(S, x)) = i - 1]
    BY <2>1 DEF Sorted, Below
  <2> QED
    BY <2>2 DEF t
<1> QED
  BY <1>1, <1>4, <1>6, <1>8, <1>9 DEF S, n

-----------------------------------------------------------------------------
(* The facade.                                                             *)

\* The runner's components and its request passed every check.
Admitted ==
    ComponentRefusal(components) = None /\ RequestRefusal(components, request) = None

\* The components are what the factory made of a fit host.
Original ==
    /\ ValidTerminals(host.terminals) /\ ModelNeeds \subseteq host.profile.supports
    /\ composed = Components(host, Canonical(host.terminals))

\* Where the caller stands tells what was verified.
FacadeInv ==
    /\ host \in Hosts
    /\ facade \in {"start", "composed"} => components = None
    /\ facade # "refused" => refusal = None
    /\ facade \notin {"start", "refused"} => Original
    /\ facade \in {"running", "answered"} => Admitted
    /\ FactoryIsAdmitted

\* A report that finds nothing wrong with the plan, nor with its binding but
\* for the input artifacts.
Blameless(report) ==
    /\ report.class # "compiled_harness_invalid"
    /\ report.class = "binding_rejected" => Phases[phase] = "inputs"

\* What a finalization will report is what the invocation is answered with.
BlameInv ==
    /\ phase \in DOMAIN Phases
    /\ pc = "finalize" => Blameless(pending)
    /\ Returned => Blameless(result)

BaseInv == IInv /\ SummaryInv /\ FacadeInv /\ BlameInv

\* What passed the facade, no preflight phase finds fault with.
LEMMA AdmittedIsNotMisbound ==
    ASSUME Admitted, NEW name PROVE ~Misbound(name)
<1>1. Consistent(components)
  BY HostAssumption DEF Admitted, ComponentRefusal
<1>2. /\ request.harness = components.plan.harness
      /\ request.version = components.plan.version
      /\ request.hash = components.plan.hash
      /\ StageMatches(components, request)
      /\ request.profile = components.plan.profile
      /\ request.granted = components.granted
  BY HostAssumption DEF Admitted, RequestRefusal
<1>3. components.granted = components.plan.required
  BY <1>1 DEF Consistent
<1>4. request.stage.plane = "execution" /\ request.stage.kind \in components.plan.stages
  BY <1>2 DEF StageMatches, PinnedStage
<1> QED
  BY <1>2, <1>3, <1>4 DEF Misbound

\* What the factory composes passes, and so does the request bound to it.
LEMMA OriginalIsAdmitted ==
    ASSUME host \in Hosts, Original
    PROVE  /\ ComponentRefusal(composed) = None
           /\ RequestRefusal(composed, Bound(composed)) = None
<1> DEFINE T == Canonical(host.terminals)
           plan == Plan(HostPrompt(host), host.profile.id, T)
<1>1. /\ host.terminals \in Seq(Nat) /\ IsInjective(host.terminals)
      /\ Len(host.terminals) \in 1..64
  BY HostAssumption DEF Original, ProperHost, ValidTerminals
<1>2. DOMAIN T = DOMAIN host.terminals /\ Sorted(T) = T
  BY <1>1, SortedAgain DEF Canonical
<1>3. T # <<>>
  <2>1. 1 \in DOMAIN T
    BY <1>1, <1>2
  <2> QED
    BY <2>1
<1> HIDE DEF T
<1>4. /\ composed.plan = plan /\ composed.metadata = Metadata(host, plan)
      /\ composed.profile = host.profile
      /\ composed.granted = Envelope /\ composed.constrained = FALSE
      /\ composed.catalog = Catalog(T)
      /\ composed.source = SourceTerminals(T) /\ composed.terminals = T
  BY DEF Original, Components, T
<1>5. /\ plan.harness = HarnessId /\ plan.version = 1 /\ plan.sealed = TRUE
      /\ plan.profile = host.profile.id /\ plan.stages = {StageKind}
      /\ plan.required = Required(T) /\ plan.terminals = SourceTerminals(T)
  BY DEF Plan
<1>6. /\ composed.metadata.harness = HarnessId /\ composed.metadata.hash = plan.hash
      /\ composed.metadata.profile = host.profile.id
      /\ composed.metadata.model = host.profile.model
      /\ composed.metadata.pack = PackId
  BY <1>4 DEF Metadata
<1>7. Envelope = Required(T)
  BY <1>3 DEF Envelope, Required
<1>8. SourceTerminals(T) = T
  BY <1>2 DEF SourceTerminals
<1> HIDE DEF plan
<1>9. Consistent(composed)
  BY <1>2, <1>4, <1>5, <1>6, <1>7, <1>8 DEF Consistent
<1>10. Agrees(Descriptor(composed.terminals), composed)
  <2>1. "tool_calls" \in composed.profile.supports
    BY <1>4 DEF Original, ModelNeeds
  <2> QED
    BY <1>2, <1>4, <1>5, <1>6, <1>8, <2>1 DEF Agrees, Descriptor
<1>11. RequestRefusal(composed, Bound(composed)) = None
  <2>1. StageMatches(composed, Bound(composed))
    BY <1>4, <1>5 DEF StageMatches, Bound, PinnedStage
  <2> QED
    BY <1>4, <1>5, <2>1 DEF RequestRefusal, Bound, Evident
<1> QED
  BY <1>9, <1>10, <1>11 DEF ComponentRefusal

-----------------------------------------------------------------------------
(* The facade's steps.                                                     *)

\* Everything the facade does outside the execution leaves it alone, and every
\* step inside it is a step of HarnessRuntime.
LEMMA BaseStep == [BaseNext]_baseVars => [Next]_vars
<1>1. Execution => Next
  BY DEF Execution, Preflight, Construct, RunOn, Write, ExecuteStep, Next
<1>2. Environment \/ Interrupt => Next
  BY DEF Environment, Interrupt, Next
<1>3. Compose \/ CreateRunner \/ Execute \/ CreateLive \/ PartialCloses
        \/ CreatorInterrupted \/ Return \/ Finished => UNCHANGED vars
  BY DEF Compose, CreateRunner, Execute, CreateLive, PartialCloses,
     CreatorInterrupted, Return, Finished, baseVars
<1> QED
  BY <1>1, <1>2, <1>3 DEF BaseNext, baseVars

\* Each step of the caller, and each of the execution.
LEMMA FacadeStep == FacadeInv /\ [BaseNext]_baseVars => FacadeInv'
<1> SUFFICES ASSUME FacadeInv, [BaseNext]_baseVars PROVE FacadeInv'
  OBVIOUS
<1>1. CASE Compose
  <2>1. CASE \E reason : Refuse(reason)
    BY <1>1, <2>1 DEF Compose, Refuse, FacadeInv, FactoryIsAdmitted
  <2>2. CASE facade' = "composed"
    <3>1. Original'
      BY <1>1, <2>2 DEF Compose, Refuse, Original
    <3> QED
      BY <1>1, <2>2, <3>1 DEF Compose, Refuse, FacadeInv, FactoryIsAdmitted
  <2> QED
    BY <1>1, <2>1, <2>2 DEF Compose
<1>2. CASE CreateRunner
  <2>1. Original /\ refusal = None /\ host \in Hosts
    BY <1>2 DEF CreateRunner, FacadeInv
  <2>2. ComponentRefusal(composed) = None
    BY <2>1, OriginalIsAdmitted
  <2>3. UNCHANGED <<host, composed>>
    BY <1>2 DEF CreateRunner
  <2>4. CASE Refuse(ComponentRefusal(components')) /\ ComponentRefusal(components') # None
    BY <2>1, <2>2, <2>3, <2>4 DEF Refuse, FacadeInv, FactoryIsAdmitted
  <2>5. CASE facade' = "ready" /\ UNCHANGED refusal
    BY <2>1, <2>3, <2>5 DEF FacadeInv, FactoryIsAdmitted, Original
  <2> QED
    BY <1>2, <2>4, <2>5 DEF CreateRunner
<1>3. CASE Execute
  <2>1. Original /\ refusal = None /\ host \in Hosts
    BY <1>3 DEF Execute, FacadeInv
  <2>2. /\ ComponentRefusal(composed) = None
        /\ RequestRefusal(composed, Bound(composed)) = None
    BY <2>1, OriginalIsAdmitted
  <2>3. UNCHANGED <<host, composed, components>> /\ request' \in Requests(components)
    BY <1>3 DEF Execute
  <2> DEFINE first == ComponentRefusal(components)
             second == RequestRefusal(components, request')
  <2>4. CASE Refuse(first) /\ first # None
    BY <2>1, <2>2, <2>3, <2>4 DEF Refuse, FacadeInv, FactoryIsAdmitted
  <2>5. CASE Refuse(second) /\ second # None
    BY <2>1, <2>2, <2>3, <2>5 DEF Refuse, FacadeInv, FactoryIsAdmitted
  <2>6. CASE first = None /\ second = None /\ facade' = "running" /\ UNCHANGED refusal
    <3>1. Admitted' /\ Original'
      BY <2>1, <2>3, <2>6 DEF Admitted, Original
    <3> QED
      BY <2>1, <2>3, <2>6, <3>1 DEF FacadeInv, FactoryIsAdmitted
  <2> QED
    BY <1>3, <2>4, <2>5, <2>6 DEF Execute
<1>4. CASE CreateLive \/ PartialCloses \/ CreatorInterrupted \/ Return
  <2>1. /\ Original /\ refusal = None
        /\ UNCHANGED <<host, refusal, composed, request>>
    BY <1>4 DEF CreateLive, PartialCloses, CreatorInterrupted, Return, FacadeInv,
       boundVars
  <2>2. /\ facade' \in {"closing", "ready", "raised", "interrupted", "answered"}
        /\ facade' = "answered" => facade = "running" /\ UNCHANGED components
    BY <1>4 DEF CreateLive, PartialCloses, CreatorInterrupted, Return, boundVars
  <2> QED
    BY <2>1, <2>2 DEF FacadeInv, FactoryIsAdmitted, Original, Admitted
<1>5. CASE Execution \/ Environment \/ Interrupt \/ Finished \/ UNCHANGED baseVars
  <2>1. UNCHANGED <<host, facadeVars, boundVars>>
    BY <1>5 DEF Execution, Preflight, Construct, RunOn, Write, Environment, Interrupt,
       Finished, Outside, baseVars, runnerVars
  <2> QED
    BY <2>1 DEF FacadeInv, FactoryIsAdmitted, Original, Admitted, facadeVars, boundVars
<1> QED
  BY <1>1, <1>2, <1>3, <1>4, <1>5 DEF BaseNext

-----------------------------------------------------------------------------
(* The steps of the execution.                                             *)

\* A failure that blames neither the plan nor the binding, or that finds an
\* input artifact missing.
LEMMA BlamelessFailure ==
    ASSUME BlameInv, NEW class, NEW certainty, Fails(class, certainty),
           phase' = phase, class # "compiled_harness_invalid",
           class = "binding_rejected" => Phases[phase] = "inputs"
    PROVE  BlameInv'
BY DEF Fails, BlameInv, Blameless, Returned

\* The preflight phases: nothing but the file system fails them.
LEMMA PreflightBlame ==
    ASSUME IInv, BlameInv, Admitted, Preflight PROVE BlameInv'
<1>1. /\ PerformPhase /\ pc = "perform" /\ result = None
      /\ phase \in 1..9 /\ Phases[phase] # "construct"
  BY DEF Preflight, PerformPhase, IInv, Reported, ReportInv, BlameInv, Phases
<1>2. ASSUME NEW origin \in PhaseOrigins[phase], Fail(origin), UNCHANGED phase
      PROVE  BlameInv'
  <2>1. Phases[phase] \in {"prepare", "inputs"}
    BY <1>2, AdmittedIsNotMisbound DEF Preflight
  <2>2. phase = 1 \/ phase = 8
    BY <1>1, <2>1 DEF Phases
  <2>3. CASE phase = 1
    <3>1. origin = "infrastructure_failure"
      BY <1>2, <2>3 DEF PhaseOrigins
    <3> QED
      BY <1>2, <3>1, FailFails, BlamelessFailure DEF ClassOf
  <2>4. CASE phase = 8
    <3>1. origin = "missing_capability" /\ Phases[phase] = "inputs"
      BY <1>2, <2>4 DEF PhaseOrigins, Phases
    <3> QED
      BY <1>2, <3>1, FailFails, BlamelessFailure DEF ClassOf
  <2> QED
    BY <2>2, <2>3, <2>4
<1>3. CASE phase' = phase + 1 /\ pc' = "checkpoint" /\ UNCHANGED result
  <2>1. phase # 9
    BY <1>1 DEF Phases
  <2>2. phase' \in DOMAIN Phases
    BY <1>1, <1>3, <2>1 DEF Phases
  <2> QED
    BY <1>1, <1>3, <2>2 DEF BlameInv, Returned
<1> QED
  BY <1>1, <1>2, <1>3 DEF PerformPhase

\* The other steps blame what happened in the session, the token, the clock or
\* the disk.
LEMMA QuietBlame ==
    ASSUME IInv, BlameInv,
           Receive \/ CheckPhase \/ ConstructSession \/ SessionConstructed
           \/ EnterBackend \/ BackendRaises \/ BackendAnswersBadly
           \/ BackendAnswersNonDomain \/ BackendAnswersTerminal
           \/ BeginFinalizing \/ CheckCommit
    PROVE  BlameInv'
<1>1. result = None /\ phase' = phase /\ pc # "finalize"
  BY DEF IInv, Reported, ReportInv, Receive, CheckPhase, ConstructSession,
     SessionConstructed, EnterBackend, BackendRaises, BackendAnswersBadly,
     BackendAnswersNonDomain, BackendAnswersTerminal, BeginFinalizing, CheckCommit
<1>2. ASSUME NEW origin \in {"already_cancelled", "expired_deadline", "backend_failure",
                             "model_failure", "tool_failure", "artifact_write_failure",
                             "infrastructure_failure", "invalid_terminal"},
             Fail(origin)
      PROVE  BlameInv'
  <2>1. ClassOf(origin) \notin {"compiled_harness_invalid", "binding_rejected"}
    BY <1>2 DEF ClassOf
  <2> QED
    BY <1>1, <1>2, <2>1, FailFails, BlamelessFailure
<1>3. ASSUME pc' # "finalize", result' = None PROVE BlameInv'
  BY <1>1, <1>3 DEF BlameInv, Returned
<1>4. CASE Receive \/ CheckPhase \/ ConstructSession
  BY <1>1, <1>2, <1>3, <1>4 DEF Receive, CheckPhase, ConstructSession, Checkpoint
<1>5. CASE SessionConstructed \/ EnterBackend \/ CheckCommit
  BY <1>1, <1>2, <1>3, <1>5 DEF SessionConstructed, EnterBackend, CheckCommit, Checkpoint
<1>6. CASE BackendRaises \/ BackendAnswersBadly
  BY <1>2, <1>6 DEF BackendRaises, BackendAnswersBadly
<1>7. CASE BackendAnswersNonDomain
  <2>1. PICK s \in DOMAIN NonDomain :
          pending'.class = NonDomain[s].class /\ UNCHANGED result
    BY <1>7 DEF BackendAnswersNonDomain, Finalize, Report
  <2>2. NonDomain[s].class \notin {"compiled_harness_invalid", "binding_rejected"}
    BY DEF NonDomain
  <2> QED
    BY <1>1, <2>1, <2>2 DEF BlameInv, Blameless, Returned
<1>8. CASE BackendAnswersTerminal \/ BeginFinalizing
  BY <1>1, <1>3, <1>8 DEF BackendAnswersTerminal, BeginFinalizing, reportVars
<1> QED
  BY <1>4, <1>5, <1>6, <1>7, <1>8

LEMMA WritingBlame ==
    ASSUME IInv, BlameInv,
           WriteTerminal \/ CheckAfterCommit \/ WriteAfterCommit
           \/ LaterWriteInterrupted \/ WriteNonTerminal \/ TaskCancelled
           \/ CancelToken \/ Tick \/ UNCHANGED vars
    PROVE  BlameInv'
<1>1. phase' = phase
  BY DEF WriteTerminal, CheckAfterCommit, WriteAfterCommit, LaterWriteInterrupted,
     WriteNonTerminal, TaskCancelled, CancelToken, Tick, RestUnchanged, vars, progressVars
<1>2. ASSUME NEW origin \in {"already_cancelled", "expired_deadline",
                             "artifact_write_failure"},
             NEW certainty, FailWith(origin, certainty)
      PROVE  BlameInv'
  <2>1. ClassOf(origin) \notin {"compiled_harness_invalid", "binding_rejected"}
    BY <1>2 DEF ClassOf
  <2> QED
    BY <1>1, <1>2, <2>1, FailWithFails, BlamelessFailure
<1>3. ASSUME pc' # "finalize", result' = result PROVE BlameInv'
  BY <1>1, <1>3 DEF BlameInv, Blameless, Returned
<1>4. CASE WriteTerminal \/ WriteAfterCommit \/ LaterWriteInterrupted
  BY <1>2, <1>3, <1>4 DEF WriteTerminal, WriteAfterCommit, LaterWriteInterrupted, Fail
<1>5. CASE CheckAfterCommit
  <2>1. pending.class \in {"domain_terminal", "domain_rejected"}
    BY <1>5 DEF CheckAfterCommit, IInv, Reported, ReportInv, Committed, Domain
  <2> QED
    BY <1>1, <1>3, <1>5, <2>1
       DEF CheckAfterCommit, Complete, BlameInv, Blameless, Returned
<1>6. CASE WriteNonTerminal
  <2>1. Blameless(pending) /\ pc = "finalize"
    BY <1>6 DEF WriteNonTerminal, BlameInv
  <2>2. CASE GiveUp(pending.certainty)
    BY <1>1, <2>2
       DEF GiveUp, ReturnFailure, Report, ClassOf, BlameInv, Blameless, Returned
  <2>3. CASE UNCHANGED pending /\ result' \in {None, pending, result}
    BY <1>1, <2>1, <2>3 DEF BlameInv, Blameless, Returned
  <2> QED
    BY <1>6, <2>2, <2>3 DEF WriteNonTerminal
<1>7. CASE TaskCancelled
  BY <1>2, <1>3, <1>7 DEF TaskCancelled, Fail
<1>8. CASE CancelToken \/ Tick \/ UNCHANGED vars
  BY <1>8 DEF CancelToken, Tick, RestUnchanged, vars, progressVars, reportVars,
     BlameInv, Blameless, Returned
<1> QED
  BY <1>4, <1>5, <1>6, <1>7, <1>8

\* Only the pinned loader and the verified request enter the preflight.
LEMMA BlameStep ==
    IInv /\ FacadeInv /\ BlameInv /\ [BaseNext]_baseVars => BlameInv'
<1> SUFFICES ASSUME IInv, FacadeInv, BlameInv, [BaseNext]_baseVars PROVE BlameInv'
  OBVIOUS
<1>1. CASE Execution /\ pc = "perform"
  <2>1. Preflight \/ ConstructSession
    BY <1>1 DEF Execution, Construct, RunOn, Write, WriteTerminal, WriteAfterCommit,
       LaterWriteInterrupted, WriteNonTerminal
  <2>2. Admitted
    BY <1>1 DEF Execution, FacadeInv
  <2> QED
    BY <2>1, <2>2, PreflightBlame, QuietBlame
<1>2. CASE Execution /\ pc # "perform"
  <2>1. ExecuteStep /\ ~PerformPhase
    BY <1>2 DEF Execution, Preflight, Construct, RunOn, Write, ExecuteStep, PerformPhase
  <2> QED
    BY <2>1, QuietBlame, WritingBlame DEF ExecuteStep
<1>3. CASE Environment \/ Interrupt
  BY <1>3, WritingBlame DEF Environment, Interrupt
<1>4. CASE Compose \/ CreateRunner \/ Execute \/ CreateLive \/ PartialCloses
           \/ CreatorInterrupted \/ Return \/ Finished \/ UNCHANGED baseVars
  <2>1. UNCHANGED vars
    BY <1>4 DEF Compose, CreateRunner, Execute, CreateLive, PartialCloses,
       CreatorInterrupted, Return, Finished, baseVars
  <2> QED
    BY <2>1, WritingBlame
<1> QED
  BY <1>1, <1>2, <1>3, <1>4 DEF BaseNext

-----------------------------------------------------------------------------
\* Every invocation of millforge-base is an execution of HarnessRuntime, whose
\* steps those of the facade leave alone.
THEOREM BaseIsAnExecution == BaseSpec => Init /\ [][Next]_vars
<1>1. BaseInit => Init
  BY DEF BaseInit
<1> QED
  BY <1>1, BaseStep, PTL DEF BaseSpec

\* What the facade verified holds of the execution it started, and what the
\* execution reports is honest.
THEOREM BaseInvariance == BaseSpec => []BaseInv
<1>1. BaseInit => BaseInv
  <2> SUFFICES ASSUME BaseInit PROVE BaseInv
    OBVIOUS
  <2>1. IInv /\ SummaryInv
    BY InitIInv, InitSummaryInv DEF BaseInit
  <2>2. FacadeInv
    BY DEF BaseInit, FacadeInv, FactoryIsAdmitted
  <2>3. BlameInv
    BY DEF BaseInit, Init, BlameInv, Returned, Phases
  <2> QED
    BY <2>1, <2>2, <2>3 DEF BaseInv
<1>2. BaseInv /\ [BaseNext]_baseVars => BaseInv'
  BY BaseStep, NextIInv, NextSummaryInv, FacadeStep, BlameStep DEF BaseInv
<1> QED
  BY <1>1, <1>2, PTL DEF BaseSpec

\* The facade's checks are neither weaker than the runtime's, which finds no
\* fault with what they admit, nor stricter than the factory's compositions.
THEOREM FacadesAreExact == BaseSpec => []FacadeIsExact
<1>1. BaseInv => FacadeIsExact
  BY DEF BaseInv, FacadeInv, BlameInv, Blameless, FacadeIsExact, AdmittedIsBound
<1> QED
  BY <1>1, BaseInvariance, PTL

\* An invocation reports no commit but a real one, and its summary does not
\* contradict its result.
THEOREM InvocationsAreHonest ==
    BaseSpec => [](CompletedIsCommitted /\ SummaryTellsOutcome)
<1>1. BaseInv => CompletedIsCommitted /\ SummaryTellsOutcome
  BY DEF BaseInv, IInv, Reported, SummaryInv
<1> QED
  BY <1>1, BaseInvariance, PTL

-----------------------------------------------------------------------------
(***************************************************************************)
(* The prompt.                                                             *)
(***************************************************************************)
\* Truncation gives the longest beginning that keeps the limit.
LEMMA TruncatedFits ==
    ASSUME NEW text \in Seq(Nat), NEW limit \in Nat
    PROVE  /\ Truncated(text, limit) \in Seq(Nat)
           /\ Bytes(Truncated(text, limit)) \in Nat
           /\ Bytes(Truncated(text, limit)) <= limit
           /\ Len(Truncated(text, limit)) \in 0..Len(text)
           /\ Truncated(text, limit) # text =>
                 /\ Len(Truncated(text, limit)) < Len(text)
                 /\ \E i \in 1..Len(text) : Bytes(Truncated(text, limit)) + text[i] > limit
<1> DEFINE cut(n) == SubSeq(text, 1, n)
           T == {n \in 0..Len(text) : Bytes(cut(n)) <= limit}
           m == Max(T)
<1>1. Len(text) \in Nat /\ \A n \in 1..Len(text) : text[n] \in Nat
  BY LenProperties, ElementOfSeq
<1>2. ASSUME NEW n \in 0..Len(text)
      PROVE  /\ cut(n) \in Seq(Nat) /\ Len(cut(n)) = n
             /\ \A i \in 1..n : cut(n)[i] = text[i]
  <2>1. 1 \in Int /\ n \in Int /\ \A i \in 1..n : text[i] \in Nat
    BY <1>1
  <2>2. /\ SubSeq(text, 1, n) \in Seq(Nat)
        /\ Len(SubSeq(text, 1, n)) = IF 1 <= n THEN n - 1 + 1 ELSE 0
        /\ \A i \in 1..(n - 1 + 1) : SubSeq(text, 1, n)[i] = text[1 + i - 1]
    BY <2>1, SubSeqProperties
  <2> QED
    BY <1>1, <2>2
<1>3. cut(0) = <<>> /\ cut(Len(text)) = text
  <2>1. cut(Len(text)) \in Seq(Nat) /\ Len(cut(Len(text))) = Len(text)
        /\ \A i \in 1..Len(text) : cut(Len(text))[i] = text[i]
    BY <1>1, <1>2
  <2>2. cut(0) \in Seq(Nat) /\ Len(cut(0)) = 0
    BY <1>1, <1>2
  <2> HIDE DEF cut
  <2>3. cut(Len(text)) = text
    BY <2>1, SeqEqual
  <2> QED
    BY <2>2, <2>3, EmptySeq
<1>4. ASSUME NEW n \in 0..(Len(text) - 1) PROVE cut(n + 1) = Append(cut(n), text[n + 1])
  <2> DEFINE more == Append(cut(n), text[n + 1])
  <2>1. /\ n \in 0..Len(text) /\ n + 1 \in 0..Len(text) /\ n + 1 \in 1..Len(text) /\ n \in Nat
    BY <1>1
  <2>2. /\ cut(n) \in Seq(Nat) /\ Len(cut(n)) = n /\ text[n + 1] \in Nat
        /\ \A i \in 1..n : cut(n)[i] = text[i]
        /\ cut(n + 1) \in Seq(Nat) /\ Len(cut(n + 1)) = n + 1
        /\ \A i \in 1..(n + 1) : cut(n + 1)[i] = text[i]
    BY <1>1, <1>2, <2>1
  <2> HIDE DEF cut
  <2>3. /\ more \in Seq(Nat) /\ Len(more) = n + 1
        /\ \A i \in 1..n : more[i] = cut(n)[i]
        /\ more[n + 1] = text[n + 1]
    BY <2>1, <2>2
  <2> HIDE DEF more
  <2>4. \A i \in 1..(n + 1) : cut(n + 1)[i] = more[i]
    <3> TAKE i \in 1..(n + 1)
    <3>1. i \in 1..n \/ i = n + 1
      BY <2>1
    <3>2. CASE i \in 1..n
      <4>1. cut(n + 1)[i] = text[i]
        BY <2>2
      <4>2. more[i] = text[i]
        BY <2>2, <2>3, <3>2
      <4> QED
        BY <4>1, <4>2
    <3>3. CASE i = n + 1
      <4>1. cut(n + 1)[i] = text[i]
        BY <2>2
      <4> QED
        BY <2>3, <3>3, <4>1
    <3> QED
      BY <3>1, <3>2, <3>3
  <2>5. cut(n + 1) = more
    BY <2>2, <2>3, <2>4, SeqEqual
  <2> QED
    BY <2>5 DEF more
<1> HIDE DEF cut
<1>5. m \in T /\ \A n \in T : n <= m
  <2>1. 0 \in T
    BY <1>1, <1>3, BytesGrow
  <2> DEFINE D == {Len(text) - n : n \in T}
  <2>2. D \in SUBSET Nat /\ D # {}
    BY <1>1, <2>1
  <2>3. PICK x \in D : \A y \in D : x <= y
    <3> HIDE DEF D
    <3> QED
      BY <2>2, LeastNatural
  <2>4. PICK n \in T : x = Len(text) - n
    BY <2>3
  <2>5. ASSUME NEW k \in T PROVE k <= n
    <3>1. Len(text) - k \in D /\ k \in Nat /\ n \in Nat
      BY <1>1
    <3>2. Len(text) - n <= Len(text) - k
      BY <2>3, <2>4, <3>1
    <3> QED
      BY <1>1, <3>1, <3>2
  <2> HIDE DEF T
  <2> QED
    BY <2>5 DEF Max
<1> HIDE DEF m
<1>6. Truncated(text, limit) = cut(m)
  BY DEF Truncated, cut, m
<1>7. m \in 0..Len(text) /\ Bytes(cut(m)) <= limit
  BY <1>5
<1>8. cut(m) \in Seq(Nat) /\ Len(cut(m)) = m /\ Bytes(cut(m)) \in Nat
  BY <1>2, <1>7, BytesGrow
<1>9. ASSUME cut(m) # text
      PROVE  m < Len(text) /\ \E i \in 1..Len(text) : Bytes(cut(m)) + text[i] > limit
  <2>1. m # Len(text)
    BY <1>3, <1>9
  <2>2. m \in 0..(Len(text) - 1) /\ m + 1 \in 1..Len(text) /\ m + 1 \in 0..Len(text)
        /\ ~(m + 1 <= m)
    BY <1>1, <1>7, <2>1
  <2>3. Bytes(cut(m + 1)) = Bytes(cut(m)) + text[m + 1] /\ text[m + 1] \in Nat
    BY <1>1, <1>4, <1>8, <2>2, BytesGrow
  <2>4. ~(Bytes(cut(m + 1)) <= limit)
    BY <1>5, <2>2
  <2>5. Bytes(cut(m)) + text[m + 1] > limit
    BY <1>8, <2>3, <2>4
  <2> QED
    BY <1>1, <1>7, <2>1, <2>2, <2>5
<1> QED
  BY <1>1, <1>6, <1>7, <1>8, <1>9

\* Texts, as many as others at most and none longer than its counterpart;
\* and less than those.
Texts == Seq(Nat)

Under(given, texts) ==
    Len(given) <= Len(texts) /\ \A i \in 1..Len(given) : Len(given[i]) <= Len(texts[i])

Less(given, texts) ==
    /\ Under(given, texts)
    /\ \/ Len(given) < Len(texts)
       \/ \E i \in 1..Len(given) : Len(given[i]) < Len(texts[i])

\* The whole of the texts, or less if so marked.
AsMarked(given, truncated, texts) ==
    /\ given \in Seq(Texts) /\ truncated \in BOOLEAN
    /\ IF truncated THEN Less(given, texts) ELSE given = texts

\* The same of the first n of them, while nothing was left out.
MarkedTo(given, truncated, texts, n) ==
    /\ given \in Seq(Texts) /\ truncated \in BOOLEAN
    /\ IF truncated THEN Less(given, texts)
       ELSE Len(given) = n /\ \A i \in 1..n : given[i] = texts[i]

LEMMA MarkedToTheEnd ==
    ASSUME NEW texts \in Seq(Texts), NEW given, NEW truncated,
           MarkedTo(given, truncated, texts, Len(texts))
    PROVE  AsMarked(given, truncated, texts)
<1>1. CASE truncated
  BY <1>1 DEF MarkedTo, AsMarked
<1>2. CASE ~truncated
  <2>1. given \in Seq(Texts) /\ Len(given) = Len(texts)
        /\ \A i \in 1..Len(texts) : given[i] = texts[i]
    BY <1>2 DEF MarkedTo
  <2>2. given = texts
    BY <2>1, SeqEqual
  <2> QED
    BY <1>2, <2>1, <2>2 DEF MarkedTo, AsMarked
<1> QED
  BY <1>1, <1>2

\* One more text is given, perhaps cut.
LEMMA MarkedStep ==
    ASSUME NEW texts \in Seq(Texts), NEW n \in 1..Len(texts), NEW given,
           MarkedTo(given, FALSE, texts, n - 1),
           NEW limit \in Nat, NEW truncated \in BOOLEAN,
           truncated => Truncated(texts[n], limit) # texts[n] \/ n # Len(texts),
           ~truncated => Truncated(texts[n], limit) = texts[n]
    PROVE  MarkedTo(Append(given, Truncated(texts[n], limit)), truncated, texts, n)
<1> DEFINE kept == Truncated(texts[n], limit)
           more == Append(given, kept)
<1>1. Len(texts) \in Nat /\ n \in Nat /\ n <= Len(texts) /\ \A i \in 1..Len(texts) : texts[i] \in Texts
  BY LenProperties, ElementOfSeq
<1>2. texts[n] \in Seq(Nat)
  BY <1>1 DEF Texts
<1>3. /\ kept \in Seq(Nat) /\ Len(kept) \in Nat /\ Len(texts[n]) \in Nat /\ Len(kept) <= Len(texts[n])
      /\ kept # texts[n] => Len(kept) < Len(texts[n])
  <2>1. Len(texts[n]) \in Nat
    BY <1>2, LenProperties
  <2> QED
    BY <1>2, <2>1, TruncatedFits
<1> HIDE DEF kept
<1>4. given \in Seq(Texts) /\ Len(given) = n - 1 /\ \A i \in 1..(n - 1) : given[i] = texts[i]
  BY DEF MarkedTo
<1>5. /\ more \in Seq(Texts) /\ Len(more) = n
      /\ \A i \in 1..(n - 1) : more[i] = texts[i]
      /\ more[n] = kept
  BY <1>1, <1>3, <1>4 DEF Texts
<1> HIDE DEF more
<1>6. \A i \in 1..n : i \in 1..(n - 1) \/ i = n
  BY <1>1
<1>7. \A i \in 1..(n - 1) : Len(texts[i]) \in Nat
  <2> TAKE i \in 1..(n - 1)
  <2>1. texts[i] \in Seq(Nat)
    BY <1>1 DEF Texts
  <2> QED
    BY <2>1, LenProperties
<1>8. Under(more, texts)
  <2>1. ASSUME NEW i \in 1..n PROVE Len(more[i]) <= Len(texts[i])
    <3>1. CASE i \in 1..(n - 1)
      BY <1>5, <1>7, <3>1
    <3>2. CASE i = n
      BY <1>3, <1>5, <3>2
    <3> QED
      BY <1>6, <3>1, <3>2
  <2> QED
    BY <1>1, <1>5, <2>1 DEF Under
<1>9. CASE truncated
  <2>1. Less(more, texts)
    <3>1. CASE kept # texts[n]
      <4>1. n \in 1..Len(more) /\ Len(more[n]) < Len(texts[n])
        BY <1>1, <1>3, <1>5, <3>1
      <4> QED
        BY <1>8, <4>1 DEF Less
    <3>2. CASE n # Len(texts)
      <4>1. Len(more) < Len(texts)
        BY <1>1, <1>5, <3>2
      <4> QED
        BY <1>8, <4>1 DEF Less
    <3> QED
      BY <1>9, <3>1, <3>2 DEF kept
  <2> QED
    BY <1>5, <1>9, <2>1 DEF MarkedTo, more, kept
<1>10. CASE ~truncated
  <2>1. \A i \in 1..n : more[i] = texts[i]
    BY <1>5, <1>6, <1>10 DEF kept
  <2> QED
    BY <1>5, <1>10, <2>1 DEF MarkedTo, more, kept
<1> QED
  BY <1>9, <1>10

\* _allocate_context gives every file whole, or says that it did not.
LEMMA AllocatedIsMarked ==
    ASSUME NEW texts \in Seq(Texts)
    PROVE  AsMarked(Allocated(texts).texts, Allocated(texts).truncated, texts)
<1> DEFINE N == Len(texts)
           Zero == [texts |-> <<>>, room |-> ContextLimit, truncated |-> FALSE]
           Turn(done, n) == Allotted(done, texts[n], n = N)
           Runs(f, m) == f = [n \in 0..m |-> IF n = 0 THEN Zero ELSE Turn(f[n - 1], n)]
           P == {m \in Nat : \E f : Runs(f, m)}
           f == CHOOSE g : Runs(g, N)
<1>1. N \in Nat /\ \A i \in 1..N : texts[i] \in Texts
  BY LenProperties, ElementOfSeq
<1>2. 0 \in P
  <2> HIDE DEF Turn, Zero
  <2>1. Runs([n \in 0..0 |-> Zero], 0)
    OBVIOUS
  <2> QED
    BY <2>1
<1>3. \A m \in 1..N : m - 1 \in P => m \in P
  <2> SUFFICES ASSUME NEW m \in 1..N, m - 1 \in P PROVE m \in P
    OBVIOUS
  <2> HIDE DEF Turn, Zero, N
  <2>1. PICK g : Runs(g, m - 1)
    OBVIOUS
  <2>2. Runs([n \in 0..m |-> IF n = m THEN Turn(g[m - 1], m) ELSE g[n]], m)
    BY <1>1, <2>1
  <2> HIDE DEF Runs
  <2> QED
    BY <1>1, <2>2
<1>4. Runs(f, N)
  <2> HIDE DEF P
  <2>1. 0..N \subseteq P
    BY <1>1, <1>2, <1>3, CountUp
  <2>2. N \in P
    BY <1>1, <2>1
  <2> HIDE DEF Runs
  <2> QED
    BY <2>2 DEF P
<1>5. Allocated(texts) = f[N]
  BY DEF Allocated
<1> HIDE DEF f
<1>6. \A n \in 0..N : f[n] = IF n = 0 THEN Zero ELSE Turn(f[n - 1], n)
  <2> HIDE DEF Turn, Zero
  <2> QED
    BY <1>4
<1> DEFINE Inv(n) == f[n].room \in Nat /\ MarkedTo(f[n].texts, f[n].truncated, texts, n)
           Q == {n \in 0..N : Inv(n)}
<1> HIDE DEF N
<1>7. 0 \in Q
  <2>1. 0 \in 0..N
    BY <1>1
  <2>2. f[0] = Zero
    <3> HIDE DEF Zero, Turn
    <3> QED
      BY <1>6, <2>1
  <2>3. MarkedTo(<<>>, FALSE, texts, 0)
    BY DEF MarkedTo
  <2>4. ContextLimit \in Nat
    BY LimitAssumption
  <2>5. Inv(0)
    <3>1. Zero.room = ContextLimit /\ Zero.texts = <<>> /\ Zero.truncated = FALSE
      OBVIOUS
    <3> HIDE DEF Zero
    <3> QED
      BY <2>2, <2>3, <2>4, <3>1
  <2> QED
    BY <2>1, <2>5
<1>8. ASSUME NEW n \in 1..N, n - 1 \in Q PROVE n \in Q
  <2> DEFINE done == f[n - 1]
             kept == Truncated(texts[n], done.room)
             room == done.room - Bytes(kept)
  <2>1. f[n] = Turn(done, n) /\ n \in 0..N /\ n \in Nat /\ n # 0
    BY <1>1, <1>6
  <2>2. done.room \in Nat /\ MarkedTo(done.texts, done.truncated, texts, n - 1)
    BY <1>8
  <2>3. texts[n] \in Seq(Nat)
    BY <1>1 DEF Texts
  <2>4. room \in Nat
    BY <2>2, <2>3, TruncatedFits
  <2>5. CASE done.truncated
    <3>1. f[n] = done
      BY <2>1, <2>5 DEF Allotted
    <3> QED
      BY <2>1, <2>2, <2>5, <3>1 DEF MarkedTo
  <2>6. CASE ~done.truncated
    <3> DEFINE cut == kept # texts[n] \/ (room = 0 /\ ~(n = N))
    <3>1. f[n] = [texts |-> Append(done.texts, kept), room |-> room, truncated |-> cut]
      BY <2>1, <2>6 DEF Allotted
    <3>2. MarkedTo(done.texts, FALSE, texts, n - 1)
      BY <2>2, <2>6 DEF MarkedTo
    <3> HIDE DEF done
    <3>3. MarkedTo(Append(done.texts, kept), cut, texts, n)
      BY <2>2, <3>2, MarkedStep DEF N
    <3> HIDE DEF kept, room, cut
    <3>4. Inv(n)
      BY <2>4, <3>1, <3>3
    <3> QED
      BY <2>1, <3>4
  <2> QED
    BY <2>5, <2>6
<1>9. N \in Q
  <2> HIDE DEF Q
  <2>1. 0..N \subseteq Q
    BY <1>1, <1>7, <1>8, CountUp
  <2> QED
    BY <1>1, <2>1
<1>10. MarkedTo(f[N].texts, f[N].truncated, texts, Len(texts))
  BY <1>9 DEF N
<1> QED
  BY <1>5, <1>10, MarkedToTheEnd

\* The bytes of the records around some texts.
Records(texts) == [i \in DOMAIN texts |-> RecordFrame + Bytes(texts[i])]

LEMMA RecordsGrow ==
    ASSUME NEW texts \in Seq(Texts), NEW kept \in Texts
    PROVE  /\ Records(texts) \in Seq(Nat)
           /\ Bytes(Records(texts)) \in Nat
           /\ Bytes(Records(Append(texts, kept)))
                 = Bytes(Records(texts)) + RecordFrame + Bytes(kept)
           /\ Bytes(Records(<<>>)) = 0
<1>1. /\ Len(texts) \in Nat /\ DOMAIN texts = 1..Len(texts)
      /\ \A i \in 1..Len(texts) : texts[i] \in Texts
  BY LenProperties, ElementOfSeq
<1>2. RecordFrame \in Nat /\ \A text \in Texts : RecordFrame + Bytes(text) \in Nat
  <2>1. RecordFrame \in Nat
    BY LimitAssumption
  <2>2. \A text \in Texts : Bytes(text) \in Nat
    BY BytesGrow DEF Texts
  <2> QED
    BY <2>1, <2>2
<1>3. Records(texts) \in Seq(Nat) /\ Len(Records(texts)) = Len(texts)
      /\ \A i \in 1..Len(texts) : Records(texts)[i] = RecordFrame + Bytes(texts[i])
  BY <1>1, <1>2 DEF Records
<1> DEFINE more == Append(texts, kept)
           both == Append(Records(texts), RecordFrame + Bytes(kept))
<1>4. /\ more \in Seq(Texts) /\ Len(more) = Len(texts) + 1 /\ DOMAIN more = 1..(Len(texts) + 1)
      /\ \A i \in 1..Len(texts) : more[i] = texts[i]
      /\ more[Len(texts) + 1] = kept
  BY <1>1
<1>5. /\ both \in Seq(Nat) /\ Len(both) = Len(texts) + 1
      /\ \A i \in 1..Len(texts) : both[i] = Records(texts)[i]
      /\ both[Len(texts) + 1] = RecordFrame + Bytes(kept)
  <2> DEFINE r == Records(texts)
             w == RecordFrame + Bytes(kept)
  <2>1. r \in Seq(Nat) /\ w \in Nat /\ Len(r) = Len(texts)
    BY <1>2, <1>3
  <2> HIDE DEF r, w
  <2> QED
    BY <1>1, <2>1 DEF r, w
<1> HIDE DEF more, both
<1>6. \A i \in 1..(Len(texts) + 1) : more[i] \in Texts /\ (i \in 1..Len(texts) \/ i = Len(texts) + 1)
  BY <1>1, <1>4
<1>7. /\ Records(more) \in Seq(Nat) /\ Len(Records(more)) = Len(texts) + 1
      /\ \A i \in 1..(Len(texts) + 1) : Records(more)[i] = RecordFrame + Bytes(more[i])
  BY <1>1, <1>2, <1>4, <1>6 DEF Records
<1>8. Records(more) = both
  <2>1. \A i \in 1..(Len(texts) + 1) : Records(more)[i] = both[i]
    BY <1>3, <1>4, <1>5, <1>6, <1>7, SMTT(60)
  <2> QED
    BY <1>5, <1>7, <2>1, SeqEqual
<1>9. Bytes(both) = Bytes(Records(texts)) + (RecordFrame + Bytes(kept))
  <2> DEFINE w == RecordFrame + Bytes(kept)
  <2>1. w \in Nat
    BY <1>2
  <2> HIDE DEF w
  <2>2. Bytes(Append(Records(texts), w)) = Bytes(Records(texts)) + w
    BY <1>3, <2>1, BytesGrow
  <2> QED
    BY <2>2 DEF w, both
<1>10. Bytes(Records(<<>>)) = 0
  <2>1. Records(<<>>) = <<>>
    BY DEF Records
  <2> QED
    BY <2>1, BytesGrow
<1>11. Bytes(Records(texts)) \in Nat /\ Bytes(kept) \in Nat
  BY <1>3, BytesGrow DEF Texts
<1> QED
  BY <1>2, <1>3, <1>8, <1>9, <1>10, <1>11 DEF more

LEMMA RoomLeft ==
    ASSUME NEW limit \in Nat, NEW used \in Nat, NEW frame \in Nat, NEW suffix \in Nat,
           NEW footer \in Nat, NEW bytes \in Nat, NEW room,
           room = limit - (used + frame + suffix + footer), ~(room < 0)
    PROVE  /\ room \in Nat
           /\ used + frame + bytes + suffix + footer = limit - room + bytes
OBVIOUS

\* The loop over context.files gives every text whole or says that it did
\* not, and keeps the room for what comes after it.
LEMMA RecordingFits ==
    ASSUME NEW texts \in Seq(Texts), NEW start \in Nat, NEW footer \in Nat,
           start + ContextFrame + ContextSuffix + footer <= PromptLimit
    PROVE  LET done == Recording(texts, start, footer)
           IN  /\ AsMarked(done.texts, done.truncated, texts)
               /\ start + ContextFrame + Bytes(Records(done.texts))
                     + ContextSuffix + footer <= PromptLimit
<1> DEFINE N == Len(texts)
           Zero == [texts |-> <<>>, used |-> start + ContextFrame, truncated |-> FALSE]
           Turn(done, n) == Recorded(done, texts[n], footer)
           Runs(f, m) == f = [n \in 0..m |-> IF n = 0 THEN Zero ELSE Turn(f[n - 1], n)]
           P == {m \in Nat : \E f : Runs(f, m)}
           f == CHOOSE g : Runs(g, N)
<1>1. N \in Nat /\ \A i \in 1..N : texts[i] \in Texts
  BY LenProperties, ElementOfSeq
<1>2. 0 \in P
  <2> HIDE DEF Turn, Zero
  <2>1. Runs([n \in 0..0 |-> Zero], 0)
    OBVIOUS
  <2> QED
    BY <2>1
<1>3. \A m \in 1..N : m - 1 \in P => m \in P
  <2> SUFFICES ASSUME NEW m \in 1..N, m - 1 \in P PROVE m \in P
    OBVIOUS
  <2> HIDE DEF Turn, Zero, N
  <2>1. PICK g : Runs(g, m - 1)
    OBVIOUS
  <2>2. Runs([n \in 0..m |-> IF n = m THEN Turn(g[m - 1], m) ELSE g[n]], m)
    BY <1>1, <2>1
  <2> HIDE DEF Runs
  <2> QED
    BY <1>1, <2>2
<1>4. Runs(f, N)
  <2> HIDE DEF P
  <2>1. 0..N \subseteq P
    BY <1>1, <1>2, <1>3, CountUp
  <2>2. N \in P
    BY <1>1, <2>1
  <2> HIDE DEF Runs
  <2> QED
    BY <2>2 DEF P
<1>5. Recording(texts, start, footer) = f[N]
  BY DEF Recording
<1> HIDE DEF f
<1>6. \A n \in 0..N : f[n] = IF n = 0 THEN Zero ELSE Turn(f[n - 1], n)
  <2> HIDE DEF Turn, Zero
  <2> QED
    BY <1>4
<1> DEFINE Kept(done) == /\ done.used = start + ContextFrame + Bytes(Records(done.texts))
                         /\ done.used + ContextSuffix + footer <= PromptLimit
           Inv(n) == Kept(f[n]) /\ MarkedTo(f[n].texts, f[n].truncated, texts, n)
           Q == {n \in 0..N : Inv(n)}
<1> HIDE DEF N
<1>limits. /\ PromptLimit \in Nat /\ ContextFrame \in Nat
           /\ ContextSuffix \in Nat /\ RecordFrame \in Nat
  BY LimitAssumption
<1>7. 0 \in Q
  <2>1. 0 \in 0..N
    BY <1>1
  <2>2. f[0] = Zero
    <3> HIDE DEF Zero, Turn
    <3> QED
      BY <1>6, <2>1
  <2>3. MarkedTo(<<>>, FALSE, texts, 0)
    BY DEF MarkedTo
  <2>4. /\ Zero.used = start + ContextFrame /\ Zero.texts = <<>> /\ Zero.truncated = FALSE
    OBVIOUS
  <2> HIDE DEF Zero
  <2>5. Bytes(Records(<<>>)) = 0
    <3>1. Records(<<>>) = <<>>
      BY DEF Records
    <3> QED
      BY <3>1, BytesGrow
  <2>6. Kept(Zero)
    BY <1>limits, <2>4, <2>5
  <2>7. Inv(0)
    <3> HIDE DEF Kept
    <3> QED
      BY <2>2, <2>3, <2>4, <2>6
  <2> HIDE DEF Inv
  <2> QED
    BY <2>1, <2>7
<1>8. ASSUME NEW n \in 1..N, n - 1 \in Q PROVE n \in Q
  <2> DEFINE done == f[n - 1]
             room == RecordRoom(done.used, footer)
             kept == Truncated(texts[n], room)
             used == done.used + RecordFrame + Bytes(kept)
  <2>1. f[n] = Turn(done, n) /\ n \in 0..N /\ n \in Nat /\ n # 0 /\ n <= N
    <3>1. n \in 0..N /\ n \in Nat /\ n # 0 /\ n <= N
      BY <1>1
    <3> HIDE DEF Zero, Turn
    <3> QED
      BY <1>6, <3>1
  <2>2. Kept(done) /\ MarkedTo(done.texts, done.truncated, texts, n - 1)
    BY <1>8
  <2>3. texts[n] \in Seq(Nat) /\ done.texts \in Seq(Texts)
    BY <1>1, <2>2 DEF Texts, MarkedTo
  <2>4. Bytes(Records(done.texts)) \in Nat /\ done.used \in Nat
    <3>1. <<>> \in Texts
      BY DEF Texts
    <3>2. Bytes(Records(done.texts)) \in Nat
      BY <2>3, <3>1, RecordsGrow
    <3> QED
      BY <1>limits, <2>2, <3>2
  <2>5. CASE done.truncated
    <3>1. f[n] = done
      BY <2>1, <2>5 DEF Recorded
    <3>2. MarkedTo(done.texts, done.truncated, texts, n)
      BY <2>2, <2>5 DEF MarkedTo
    <3> HIDE DEF Kept
    <3> QED
      BY <2>1, <2>2, <3>1, <3>2
  <2>6. CASE ~done.truncated /\ room < 0
    <3> DEFINE cut == [texts |-> done.texts, used |-> done.used, truncated |-> TRUE]
    <3>1. f[n] = cut
      BY <2>1, <2>6 DEF Recorded
    <3>2. f[n] = Turn(done, n)
      BY <2>1
    <3>3. Less(done.texts, texts)
      <4>1. Len(done.texts) = n - 1 /\ \A i \in 1..(n - 1) : done.texts[i] = texts[i]
        BY <2>2, <2>6 DEF MarkedTo
      <4>2. \A i \in 1..(n - 1) : Len(texts[i]) \in Nat
        <5> TAKE i \in 1..(n - 1)
        <5>1. texts[i] \in Seq(Nat)
          BY <1>1 DEF Texts
        <5> QED
          BY <5>1, LenProperties
      <4>3. \A i \in 1..(n - 1) : Len(done.texts[i]) <= Len(texts[i])
        BY <4>1, <4>2
      <4>4. Len(done.texts) < Len(texts) /\ Len(done.texts) <= Len(texts)
        BY <1>1, <2>1, <4>1 DEF N
      <4> HIDE DEF done
      <4> QED
        BY <4>1, <4>3, <4>4 DEF Less, Under
    <3>4. /\ cut.texts = done.texts /\ cut.used = done.used /\ cut.truncated = TRUE
      OBVIOUS
    <3> HIDE DEF cut
    <3>5. MarkedTo(cut.texts, cut.truncated, texts, n)
      BY <2>2, <3>3, <3>4 DEF MarkedTo
    <3>6. Kept(cut)
      BY <2>2, <3>4
    <3> HIDE DEF Kept
    <3> QED
      BY <2>1, <3>1, <3>5, <3>6
  <2>7. CASE ~done.truncated /\ ~(room < 0)
    <3> DEFINE cut == kept # texts[n]
    <3>1. f[n] = [texts |-> Append(done.texts, kept), used |-> used, truncated |-> cut]
      BY <2>1, <2>7 DEF Recorded
    <3>2. MarkedTo(done.texts, FALSE, texts, n - 1)
      BY <2>2, <2>7 DEF MarkedTo
    <3>3. room \in Nat /\ used + ContextSuffix + footer = PromptLimit - room + Bytes(kept)
      <4>1. room = PromptLimit - (done.used + RecordFrame + ContextSuffix + footer)
        BY DEF RecordRoom
      <4> HIDE DEF room
      <4>2. room \in Nat
        <5> HIDE DEF done
        <5> QED
          BY <1>limits, <2>4, <2>7, <4>1, RoomLeft
      <4>3. Bytes(kept) \in Nat
        BY <2>3, <4>2, TruncatedFits
      <4>4. used = done.used + RecordFrame + Bytes(kept)
        OBVIOUS
      <4>5. ~(room < 0)
        BY <2>7
      <4> HIDE DEF kept, used, done
      <4> DEFINE b == Bytes(kept)
                 u == done.used
      <4>6. b \in Nat /\ u \in Nat /\ room = PromptLimit - (u + RecordFrame + ContextSuffix + footer)
            /\ used = u + RecordFrame + b
        BY <2>4, <4>1, <4>3, <4>4
      <4> HIDE DEF b, u
      <4>7. used + ContextSuffix + footer = PromptLimit - room + b
        BY <1>limits, <4>5, <4>6, RoomLeft
      <4> QED
        BY <4>2, <4>7 DEF b
    <3>4. kept \in Seq(Nat) /\ Bytes(kept) \in Nat /\ Bytes(kept) <= room
      BY <2>3, <3>3, TruncatedFits
    <3> HIDE DEF done, room
    <3>5. MarkedTo(Append(done.texts, kept), cut, texts, n)
      BY <3>2, <3>3, MarkedStep DEF N
    <3>6. used = start + ContextFrame + Bytes(Records(Append(done.texts, kept)))
      <4>1. Bytes(Records(Append(done.texts, kept)))
               = Bytes(Records(done.texts)) + RecordFrame + Bytes(kept)
        BY <2>3, <3>4, RecordsGrow DEF Texts
      <4>2. done.used = start + ContextFrame + Bytes(Records(done.texts))
        BY <2>2
      <4> HIDE DEF kept
      <4> QED
        BY <1>limits, <2>4, <3>4, <4>1, <4>2
    <3>7. used + ContextSuffix + footer <= PromptLimit
      BY <1>limits, <3>3, <3>4
    <3> HIDE DEF kept, used, cut
    <3>8. Inv(n)
      BY <3>1, <3>5, <3>6, <3>7
    <3> HIDE DEF Inv
    <3> QED
      BY <2>1, <3>8
  <2> QED
    BY <2>5, <2>6, <2>7
<1>9. N \in Q
  <2> HIDE DEF Q
  <2>1. 0..N \subseteq Q
    BY <1>1, <1>7, <1>8, CountUp
  <2> QED
    BY <1>1, <2>1
<1>10. AsMarked(f[N].texts, f[N].truncated, texts)
  BY <1>9, MarkedToTheEnd DEF N
<1>11. f[N].texts \in Seq(Texts)
  BY <1>10 DEF AsMarked
<1>12. start + ContextFrame + Bytes(Records(f[N].texts)) + ContextSuffix + footer <= PromptLimit
  BY <1>9
<1> QED
  BY <1>5, <1>10, <1>12

LEMMA EmptyTexts ==
    ASSUME NEW texts \in Seq(Texts), texts # <<>>
    PROVE  AsMarked(<<>>, TRUE, texts)
<1>1. Len(texts) \in Nat /\ Len(texts) # 0
  BY LenProperties, EmptySeq
<1>2. Len(<<>>) = 0 /\ <<>> \in Seq(Texts)
  OBVIOUS
<1>3. Less(<<>>, texts)
  BY <1>1, <1>2 DEF Less, Under
<1> QED
  BY <1>2, <1>3 DEF AsMarked

\* The context of a prompt is complete, or the prompt says that it is not.
LEMMA ContextFits ==
    ASSUME NEW body \in Texts, NEW append, append # Absent => append \in Texts,
           NEW texts \in Seq(Texts), NEW footer \in Nat, NEW start,
           start = Bytes(body) + (IF append = Absent THEN 0
                                  ELSE AppendPrefix + Bytes(append)),
           start + footer <= PromptLimit
    PROVE  LET prompt == WithContext(body, append, texts, start, footer)
           IN  /\ ByteCount(prompt, footer) <= PromptLimit
               /\ prompt.body = body /\ prompt.append = append
               /\ AsMarked(prompt.texts, prompt.truncated, texts)
<1> DEFINE prompt == WithContext(body, append, texts, start, footer)
           done == Recording(texts, start, footer)
<1>1. /\ PromptLimit \in Nat /\ ContextFrame \in Nat /\ AppendPrefix \in Nat
      /\ ContextSuffix \in Nat /\ RecordFrame \in Nat
  BY LimitAssumption
<1>2. start \in Nat
  <2>1. Bytes(body) \in Nat
    BY BytesGrow DEF Texts
  <2>2. append # Absent => Bytes(append) \in Nat
    BY BytesGrow DEF Texts
  <2> QED
    BY <1>1, <2>1, <2>2
<1>3. CASE texts = <<>>
  <2> DEFINE bare == Prompt(body, append, FALSE, <<>>, FALSE)
  <2>1. prompt = bare
    BY <1>3 DEF WithContext
  <2>2. /\ bare.body = body /\ bare.append = append /\ bare.framed = FALSE
        /\ bare.texts = <<>> /\ bare.truncated = FALSE
    BY DEF Prompt
  <2> HIDE DEF bare
  <2>3. ByteCount(bare, footer) = start + 0 + footer
    BY <2>2 DEF ByteCount
  <2>4. AsMarked(<<>>, FALSE, texts)
    BY <1>3 DEF AsMarked
  <2>6. start + 0 + footer <= PromptLimit
    BY <1>2
  <2> HIDE DEF prompt
  <2>7. ByteCount(prompt, footer) <= PromptLimit
    BY <2>1, <2>3, <2>6
  <2>8. /\ prompt.body = body /\ prompt.append = append
        /\ AsMarked(prompt.texts, prompt.truncated, texts)
    BY <2>1, <2>2, <2>4
  <2> QED
    BY <2>7, <2>8 DEF prompt
<1>4. CASE texts # <<>> /\ start + ContextFrame + ContextSuffix + footer > PromptLimit
  <2> DEFINE bare == Prompt(body, append, FALSE, <<>>, TRUE)
  <2>1. prompt = bare
    BY <1>4 DEF WithContext
  <2>2. /\ bare.body = body /\ bare.append = append /\ bare.framed = FALSE
        /\ bare.texts = <<>> /\ bare.truncated = TRUE
    BY DEF Prompt
  <2> HIDE DEF bare
  <2>3. ByteCount(bare, footer) = start + 0 + footer
    BY <2>2 DEF ByteCount
  <2>5. AsMarked(<<>>, TRUE, texts)
    BY <1>4, EmptyTexts
  <2>6. start + 0 + footer <= PromptLimit
    BY <1>2
  <2> HIDE DEF prompt
  <2>7. ByteCount(prompt, footer) <= PromptLimit
    BY <2>1, <2>3, <2>6
  <2>8. /\ prompt.body = body /\ prompt.append = append
        /\ AsMarked(prompt.texts, prompt.truncated, texts)
    BY <2>1, <2>2, <2>5
  <2> QED
    BY <2>7, <2>8 DEF prompt
<1>5. CASE texts # <<>> /\ ~(start + ContextFrame + ContextSuffix + footer > PromptLimit)
  <2> DEFINE full == Prompt(body, append, TRUE, done.texts, done.truncated)
  <2>1. prompt = full
    BY <1>5 DEF WithContext
  <2>2. /\ full.body = body /\ full.append = append /\ full.framed = TRUE
        /\ full.texts = done.texts /\ full.truncated = done.truncated
    BY DEF Prompt
  <2>3. start + ContextFrame + ContextSuffix + footer <= PromptLimit
    BY <1>1, <1>2, <1>5, SMTT(30)
  <2>4. /\ AsMarked(done.texts, done.truncated, texts)
        /\ start + ContextFrame + Bytes(Records(done.texts))
              + ContextSuffix + footer <= PromptLimit
    BY <1>2, <2>3, RecordingFits
  <2>5. Bytes(Records(done.texts)) \in Nat
    <3>1. done.texts \in Seq(Texts) /\ <<>> \in Texts
      BY <2>4 DEF AsMarked, Texts
    <3> HIDE DEF done
    <3> QED
      BY <3>1, RecordsGrow
  <2> HIDE DEF full, done
  <2>6. ByteCount(full, footer)
           = start + (ContextFrame + Bytes(Records(full.texts)) + ContextSuffix) + footer
    BY <2>2 DEF ByteCount, Records
  <2>7. start + (ContextFrame + Bytes(Records(full.texts)) + ContextSuffix) + footer
           <= PromptLimit
    BY <1>1, <1>2, <2>2, <2>4, <2>5
  <2>8. ByteCount(full, footer) <= PromptLimit
    BY <2>6, <2>7
  <2>9. /\ full.body = body /\ full.append = append
        /\ AsMarked(full.texts, full.truncated, texts)
    BY <2>2, <2>4
  <2> HIDE DEF prompt
  <2> QED
    BY <2>1, <2>8, <2>9 DEF prompt
<1> QED
  BY <1>3, <1>4, <1>5

\* Nothing was left out of the three parts of a prompt, or one is shorter.
Appended(append) == IF append = Absent THEN <<>> ELSE append

Delivered(prompt, body, append, texts) ==
    /\ prompt.body \in Texts /\ Appended(prompt.append) \in Texts
    /\ prompt.texts \in Seq(Texts) /\ prompt.truncated \in BOOLEAN
    /\ IF prompt.truncated
       THEN /\ Len(prompt.body) <= Len(body)
            /\ Len(Appended(prompt.append)) <= Len(Appended(append))
            /\ Under(prompt.texts, texts)
            /\ \/ Len(prompt.body) < Len(body)
               \/ Len(Appended(prompt.append)) < Len(Appended(append))
               \/ Less(prompt.texts, texts)
       ELSE /\ prompt.body = body /\ Appended(prompt.append) = Appended(append)
            /\ prompt.texts = texts

LEMMA MarkedIsDelivered ==
    ASSUME NEW body \in Texts, NEW append, Appended(append) \in Texts, NEW texts, NEW prompt,
           prompt.body = body, Appended(prompt.append) = Appended(append),
           AsMarked(prompt.texts, prompt.truncated, texts)
    PROVE  Delivered(prompt, body, append, texts)
<1>1. Len(body) \in Nat /\ Len(Appended(append)) \in Nat
  BY LenProperties DEF Texts
<1>2. CASE prompt.truncated
  BY <1>1, <1>2 DEF Delivered, AsMarked, Less
<1>3. CASE ~prompt.truncated
  BY <1>3 DEF Delivered, AsMarked
<1> QED
  BY <1>2, <1>3

\* What is left out before the context, is.
LEMMA CutIsDelivered ==
    ASSUME NEW body \in Texts, NEW append, Appended(append) \in Texts,
           NEW texts \in Seq(Texts), NEW shown \in Texts, NEW appended,
           Appended(appended) \in Texts,
           Len(shown) <= Len(body), Len(Appended(appended)) <= Len(Appended(append)),
           \/ Len(shown) < Len(body)
           \/ Len(Appended(appended)) < Len(Appended(append))
    PROVE  Delivered(Prompt(shown, appended, FALSE, <<>>, TRUE), body, append, texts)
<1> DEFINE prompt == Prompt(shown, appended, FALSE, <<>>, TRUE)
<1>1. /\ prompt.body = shown /\ prompt.append = appended
      /\ prompt.texts = <<>> /\ prompt.truncated = TRUE
  BY DEF Prompt
<1>2. Len(texts) \in Nat /\ Len(<<>>) = 0 /\ <<>> \in Seq(Texts)
  BY LenProperties
<1>3. Under(<<>>, texts)
  BY <1>2 DEF Under
<1> HIDE DEF prompt
<1> QED
  BY <1>1, <1>2, <1>3 DEF Delivered, prompt

\* The prompt keeps its limit, and what is not in it, its flag tells.
LEMMA AssembledFits ==
    ASSUME NEW body \in Texts, NEW append, append # Absent => append \in Texts,
           NEW texts \in Seq(Texts), NEW footer \in Nat, footer <= PromptLimit
    PROVE  LET prompt == Assembled(body, append, texts, footer)
           IN  /\ ByteCount(prompt, footer) <= PromptLimit
               /\ Delivered(prompt, body, append, texts)
<1> DEFINE prompt == Assembled(body, append, texts, footer)
           whole == Truncated(body, PromptLimit - footer)
           room == PromptLimit - (Bytes(body) + AppendPrefix + footer)
           kept == Truncated(append, room)
<1>1. PromptLimit \in Nat /\ AppendPrefix \in Nat /\ PromptLimit - footer \in Nat
  BY LimitAssumption
<1>2. /\ whole \in Seq(Nat) /\ Bytes(whole) \in Nat /\ Bytes(whole) <= PromptLimit - footer
      /\ whole # body => Len(whole) < Len(body)
  BY <1>1, TruncatedFits DEF Texts
<1>3. <<>> \in Texts /\ Appended(Absent) = <<>> /\ Appended(append) \in Texts
  BY DEF Texts, Appended
<1>4. Len(body) \in Nat /\ Len(<<>>) = 0 /\ Len(Appended(append)) \in Nat
  BY <1>3, LenProperties DEF Texts
<1>5. CASE whole # body
  <2> DEFINE cut == Prompt(whole, Absent, FALSE, <<>>, TRUE)
  <2>1. prompt = cut
    BY <1>5 DEF Assembled
  <2>2. /\ cut.body = whole /\ cut.append = Absent /\ cut.framed = FALSE
    BY DEF Prompt
  <2>3. whole \in Texts /\ Len(whole) < Len(body) /\ Len(whole) \in Nat
    BY <1>2, <1>5, LenProperties DEF Texts
  <2> HIDE DEF whole
  <2>4. Delivered(cut, body, append, texts)
    <3>1. /\ Appended(Absent) \in Texts /\ Len(whole) <= Len(body)
          /\ Len(Appended(Absent)) <= Len(Appended(append))
      BY <1>3, <1>4, <2>3
    <3> QED
      BY <1>3, <2>3, <3>1, CutIsDelivered
  <2> HIDE DEF cut, prompt
  <2>5. ByteCount(cut, footer) = Bytes(whole) + 0 + 0 + footer
    BY <2>2 DEF ByteCount
  <2>6. ByteCount(cut, footer) <= PromptLimit
    BY <1>1, <1>2, <2>5
  <2> QED
    BY <2>1, <2>4, <2>6 DEF prompt
<1>6. CASE whole = body
  <2>1. Bytes(body) \in Nat /\ Bytes(body) + footer <= PromptLimit
    <3> HIDE DEF whole
    <3> QED
      BY <1>1, <1>2, <1>6
  <2>2. prompt = WithAppend(body, append, texts, footer)
    BY <1>6 DEF Assembled
  <2>3. CASE append \in {Absent, <<>>}
    <3> DEFINE start == Bytes(body)
    <3>1. prompt = WithContext(body, Absent, texts, start, footer)
      BY <2>2, <2>3 DEF WithAppend
    <3>2. start = Bytes(body) + 0
      BY <2>1
    <3> HIDE DEF start
    <3>3. start = Bytes(body) + (IF Absent = Absent THEN 0 ELSE AppendPrefix + Bytes(Absent))
      BY <3>2
    <3>4. start + footer <= PromptLimit
      BY <2>1 DEF start
    <3> HIDE DEF prompt
    <3>5. /\ ByteCount(prompt, footer) <= PromptLimit
          /\ prompt.body = body /\ prompt.append = Absent
          /\ AsMarked(prompt.texts, prompt.truncated, texts)
      BY <3>1, <3>3, <3>4, ContextFits
    <3>6. Appended(prompt.append) = Appended(append)
      BY <2>3, <3>5 DEF Appended
    <3>7. Delivered(prompt, body, append, texts)
      BY <1>3, <3>5, <3>6, MarkedIsDelivered
    <3> QED
      BY <3>5, <3>7 DEF prompt
  <2>4. ASSUME append \notin {Absent, <<>>}
        PROVE  /\ append \in Texts /\ Appended(append) = append
               /\ Len(append) \in Nat /\ Len(append) > 0
    <3>1. append \in Seq(Nat) /\ append # <<>> /\ append # Absent
      BY <2>4 DEF Texts
    <3>2. Len(append) \in Nat /\ Len(append) # 0
      BY <3>1, LenProperties, EmptySeq
    <3> QED
      BY <3>1, <3>2 DEF Texts, Appended
  <2>5. CASE append \notin {Absent, <<>>} /\ room < 0
    <3> DEFINE cut == Prompt(body, Absent, FALSE, <<>>, TRUE)
    <3>1. prompt = cut
      BY <2>2, <2>5 DEF WithAppend
    <3>2. /\ cut.body = body /\ cut.append = Absent /\ cut.framed = FALSE
      BY DEF Prompt
    <3>3. Delivered(cut, body, append, texts)
      <4>1. /\ Appended(Absent) \in Texts /\ Len(body) <= Len(body)
            /\ Len(Appended(Absent)) <= Len(Appended(append))
            /\ Len(Appended(Absent)) < Len(Appended(append))
        BY <1>3, <1>4, <2>4, <2>5
      <4> QED
        BY <1>3, <4>1, CutIsDelivered
    <3> HIDE DEF cut, prompt
    <3>4. ByteCount(cut, footer) = Bytes(body) + 0 + 0 + footer
      BY <3>2 DEF ByteCount
    <3>5. ByteCount(cut, footer) <= PromptLimit
      BY <1>1, <2>1, <3>4
    <3> QED
      BY <3>1, <3>3, <3>5 DEF prompt
  <2>6. ASSUME append \notin {Absent, <<>>}, ~(room < 0)
        PROVE  /\ room \in Nat /\ kept \in Seq(Nat) /\ Bytes(kept) \in Nat
               /\ Bytes(body) + (AppendPrefix + Bytes(kept)) + footer <= PromptLimit
               /\ kept # append => Len(kept) < Len(append)
    <3>1. room \in Nat
      BY <1>1, <2>1, <2>6
    <3>2. append \in Seq(Nat)
      BY <2>4, <2>6 DEF Texts
    <3>3. /\ kept \in Seq(Nat) /\ Bytes(kept) \in Nat /\ Bytes(kept) <= room
          /\ kept # append => Len(kept) < Len(append)
      <4> HIDE DEF room
      <4> QED
        BY <3>1, <3>2, TruncatedFits
    <3> HIDE DEF kept
    <3> QED
      BY <1>1, <2>1, <3>1, <3>3
  <2>7. CASE append \notin {Absent, <<>>} /\ ~(room < 0) /\ kept # append
    <3> DEFINE cut == Prompt(body, kept, FALSE, <<>>, TRUE)
    <3>1. prompt = cut
      BY <2>2, <2>7 DEF WithAppend
    <3>2. /\ cut.body = body /\ cut.append = kept /\ cut.framed = FALSE
      BY DEF Prompt
    <3>3. /\ kept \in Texts /\ Len(kept) < Len(append) /\ Len(kept) \in Nat
          /\ kept # Absent /\ Appended(kept) = kept
      <4>1. kept \in Seq(Nat) /\ Len(kept) < Len(append)
        BY <2>6, <2>7
      <4>2. Len(kept) \in Nat
        BY <4>1, LenProperties
      <4>3. kept # Absent
        BY <4>1, LimitAssumption
      <4> HIDE DEF kept
      <4> QED
        BY <4>1, <4>2, <4>3 DEF Texts, Appended
    <3>4. Delivered(cut, body, append, texts)
      <4>1. Len(Appended(kept)) < Len(Appended(append)) /\ Len(Appended(kept)) <= Len(Appended(append))
        BY <2>4, <2>7, <3>3
      <4>2. Appended(kept) \in Texts /\ Len(body) <= Len(body)
        BY <1>4, <3>3
      <4> HIDE DEF kept
      <4> QED
        BY <1>3, <3>3, <4>1, <4>2, CutIsDelivered
    <3>5. Bytes(body) + (AppendPrefix + Bytes(kept)) + footer <= PromptLimit
          /\ Bytes(kept) \in Nat
      BY <2>6, <2>7
    <3> HIDE DEF cut, prompt, kept
    <3>6. ByteCount(cut, footer) = Bytes(body) + (AppendPrefix + Bytes(kept)) + 0 + footer
      BY <3>2, <3>3 DEF ByteCount
    <3>7. ByteCount(cut, footer) <= PromptLimit
      BY <1>1, <2>1, <3>5, <3>6
    <3> QED
      BY <3>1, <3>4, <3>7 DEF prompt
  <2>8. CASE append \notin {Absent, <<>>} /\ ~(room < 0) /\ kept = append
    <3> DEFINE start == Bytes(body) + AppendPrefix + Bytes(append)
    <3>1. prompt = WithContext(body, append, texts, start, footer)
      BY <2>2, <2>8 DEF WithAppend
    <3>2. append \in Texts /\ append # Absent
      BY <2>4, <2>8
    <3>3. start + footer <= PromptLimit
          /\ start = Bytes(body) + (IF append = Absent THEN 0 ELSE AppendPrefix + Bytes(append))
      <4>1. Bytes(body) + (AppendPrefix + Bytes(append)) + footer <= PromptLimit
            /\ Bytes(append) \in Nat
        BY <2>6, <2>8
      <4> QED
        BY <1>1, <2>1, <3>2, <4>1
    <3> HIDE DEF start, prompt
    <3>4. /\ ByteCount(prompt, footer) <= PromptLimit
          /\ prompt.body = body /\ prompt.append = append
          /\ AsMarked(prompt.texts, prompt.truncated, texts)
      BY <3>1, <3>2, <3>3, ContextFits
    <3>5. Delivered(prompt, body, append, texts)
      BY <1>3, <3>4, MarkedIsDelivered
    <3> QED
      BY <3>4, <3>5 DEF prompt
  <2> QED
    BY <2>3, <2>5, <2>7, <2>8
<1> QED
  BY <1>5, <1>6

\* The files that can be read.
Legible(content) == {file \in DOMAIN content : content[file] # Unreadable}
Candidates(content) == Seq({Absent} \cup DOMAIN content)

LEMMA FirstIsLegible ==
    ASSUME NEW content, NEW candidates \in Candidates(content),
           FirstReadable(candidates, content) # Absent
    PROVE  FirstReadable(candidates, content) \in Legible(content)
<1> DEFINE readable == {i \in DOMAIN candidates :
                           /\ candidates[i] # Absent
                           /\ content[candidates[i]] # Unreadable}
<1>1. readable # {} /\ FirstReadable(candidates, content) = candidates[Min(readable)]
  BY DEF FirstReadable
<1>2. DOMAIN candidates = 1..Len(candidates) /\ Len(candidates) \in Nat
      /\ \A i \in 1..Len(candidates) : candidates[i] \in {Absent} \cup DOMAIN content
  BY LenProperties, ElementOfSeq DEF Candidates
<1>3. readable \in SUBSET Nat
  BY <1>2
<1>4. Min(readable) \in readable
  <2> HIDE DEF readable
  <2>1. \E i \in readable : \A j \in readable : i <= j
    BY <1>1, <1>3, LeastNatural
  <2> QED
    BY <2>1 DEF Min
<1> QED
  BY <1>1, <1>2, <1>4 DEF Legible

\* No file is in the context twice, and each can be read.
LEMMA ContextIsProper ==
    ASSUME NEW content, NEW tree, tree.native \in Candidates(content),
           tree.fallback \in Candidates(content),
           tree.directories \in Seq(Candidates(content))
    PROVE  /\ ContextFiles(tree, content) \in Seq(Legible(content))
           /\ IsInjective(ContextFiles(tree, content))
<1> DEFINE N == Len(tree.directories)
           native == FirstReadable(tree.native, content)
           global == IF native # Absent THEN native
                     ELSE FirstReadable(tree.fallback, content)
           First == IF global = Absent THEN <<>> ELSE <<global>>
           Turn(found, n) == Added(found, tree.directories[n], content)
           Runs(f, m) == f = [n \in 0..m |-> IF n = 0 THEN First ELSE Turn(f[n - 1], n)]
           P == {m \in Nat : \E f : Runs(f, m)}
           f == CHOOSE g : Runs(g, N)
<1>1. N \in Nat /\ \A i \in 1..N : tree.directories[i] \in Candidates(content)
  BY LenProperties, ElementOfSeq
<1>2. 0 \in P
  <2> HIDE DEF Turn, First
  <2>1. Runs([n \in 0..0 |-> First], 0)
    OBVIOUS
  <2> QED
    BY <2>1
<1>3. \A m \in 1..N : m - 1 \in P => m \in P
  <2> SUFFICES ASSUME NEW m \in 1..N, m - 1 \in P PROVE m \in P
    OBVIOUS
  <2> HIDE DEF Turn, First, N
  <2>1. PICK g : Runs(g, m - 1)
    OBVIOUS
  <2>2. Runs([n \in 0..m |-> IF n = m THEN Turn(g[m - 1], m) ELSE g[n]], m)
    BY <1>1, <2>1
  <2> HIDE DEF Runs
  <2> QED
    BY <1>1, <2>2
<1>4. Runs(f, N)
  <2> HIDE DEF P
  <2>1. 0..N \subseteq P
    BY <1>1, <1>2, <1>3, CountUp
  <2>2. N \in P
    BY <1>1, <2>1
  <2> HIDE DEF Runs
  <2> QED
    BY <2>2 DEF P
<1>5. ContextFiles(tree, content) = f[N]
  BY DEF ContextFiles
<1> HIDE DEF f
<1>6. \A n \in 0..N : f[n] = IF n = 0 THEN First ELSE Turn(f[n - 1], n)
  <2> HIDE DEF Turn, First
  <2> QED
    BY <1>4
<1> DEFINE Proper(found) == found \in Seq(Legible(content)) /\ IsInjective(found)
           Q == {n \in 0..N : Proper(f[n])}
<1> HIDE DEF N
<1>7. 0 \in Q
  <2>1. global # Absent => global \in Legible(content)
    BY FirstIsLegible
  <2> HIDE DEF global
  <2>2. Proper(First)
    BY <2>1 DEF IsInjective
  <2> HIDE DEF First, Turn, Proper
  <2> QED
    BY <1>1, <1>6, <2>2
<1>8. ASSUME NEW n \in 1..N, n - 1 \in Q PROVE n \in Q
  <2> DEFINE found == f[n - 1]
             file == FirstReadable(tree.directories[n], content)
  <2>1. n \in 0..N /\ n # 0
    BY <1>1
  <2>2. f[n] = Turn(found, n)
    <3> HIDE DEF First, Turn
    <3> QED
      BY <1>6, <2>1
  <2>3. Proper(found)
    BY <1>8
  <2>4. CASE file = Absent \/ file \in ToSet(found)
    <3>1. f[n] = found
      BY <2>2, <2>4 DEF Added
    <3> HIDE DEF Proper
    <3> QED
      BY <2>1, <2>3, <3>1
  <2>5. CASE file # Absent /\ file \notin ToSet(found)
    <3> DEFINE more == Append(found, file)
    <3>1. f[n] = more
      BY <2>2, <2>5 DEF Added
    <3>2. file \in Legible(content)
      BY <1>1, <2>5, FirstIsLegible
    <3> HIDE DEF file, found
    <3>3. /\ more \in Seq(Legible(content)) /\ Len(more) = Len(found) + 1 /\ Len(found) \in Nat
          /\ \A i \in 1..Len(found) : more[i] = found[i]
          /\ more[Len(found) + 1] = file
      BY <2>3, <3>2
    <3>4. \A i \in 1..Len(found) : found[i] # file
      BY <2>3, <2>5, <3>3 DEF ToSet
    <3>5. \A i, j \in 1..Len(found) : found[i] = found[j] => i = j
      BY <2>3, <3>3 DEF IsInjective
    <3> HIDE DEF more
    <3>6. DOMAIN more = 1..(Len(found) + 1)
      BY <3>3
    <3>7. \A i \in DOMAIN more : i \in 1..Len(found) \/ i = Len(found) + 1
      BY <3>3, <3>6
    <3>8. IsInjective(more)
      BY <3>3, <3>4, <3>5, <3>7 DEF IsInjective
    <3>9. Proper(more)
      BY <3>3, <3>8
    <3> HIDE DEF Proper
    <3> QED
      BY <2>1, <3>1, <3>9
  <2> QED
    BY <2>4, <2>5
<1>9. N \in Q
  <2> HIDE DEF Q
  <2>1. 0..N \subseteq Q
    BY <1>1, <1>7, <1>8, CountUp
  <2> QED
    BY <1>1, <2>1
<1> QED
  BY <1>5, <1>9

\* What a host brings.
LEMMA HostIsProper ==
    ASSUME NEW h \in Hosts
    PROVE  /\ h.footer \in Nat
           /\ h.system # Absent => h.system \in Texts
           /\ h.append # Absent => h.append \in Texts
           /\ \A file \in Legible(h.content) : h.content[file] \in Seq(0..h.footer)
           /\ h.systemFiles \in Candidates(h.content)
           /\ h.appendFiles \in Candidates(h.content)
           /\ h.tree.native \in Candidates(h.content)
           /\ h.tree.fallback \in Candidates(h.content)
           /\ h.tree.directories \in Seq(Candidates(h.content))
<1>1. ProperHost(h)
  BY HostAssumption
<1> QED
  BY <1>1 DEF ProperHost, Legible, Candidates, Texts

LEMMA NarrowIsText ==
    ASSUME NEW footer \in Nat, NEW text \in Seq(0..footer)
    PROVE  text \in Texts /\ \A i \in 1..Len(text) : text[i] <= footer
<1>1. Len(text) \in Nat /\ \A i \in 1..Len(text) : text[i] \in 0..footer
  BY LenProperties, ElementOfSeq
<1>2. \A i \in 1..Len(text) : text[i] \in Nat /\ text[i] <= footer
  BY <1>1
<1>3. 0..footer \subseteq Nat
  OBVIOUS
<1> HIDE DEF Texts
<1>4. text \in Seq(Nat)
  BY <1>3
<1> QED
  BY <1>2, <1>4 DEF Texts

\* A prompt file that was cut leaves no room for the footer.
Discovered(candidates, content) ==
    LET file == FirstReadable(candidates, content)
    IN  IF file = Absent THEN <<>> ELSE content[file]

LEMMA CutIsNoticed ==
    ASSUME NEW h \in Hosts, NEW candidates \in Candidates(h.content)
    PROVE  LET found == DiscoveredPrompt(candidates, h.content)
               file == Discovered(candidates, h.content)
           IN  /\ found = Absent <=> FirstReadable(candidates, h.content) = Absent
               /\ found # Absent => found \in Texts
               /\ Appended(found) \in Texts /\ file \in Texts
               /\ Len(Appended(found)) <= Len(file)
               /\ Appended(found) # file => Bytes(Appended(found)) + h.footer > PromptLimit
<1> DEFINE found == DiscoveredPrompt(candidates, h.content)
           first == FirstReadable(candidates, h.content)
           file == Discovered(candidates, h.content)
<1>1. CASE first = Absent
  <2>1. found = Absent /\ file = <<>> /\ Appended(found) = <<>>
    BY <1>1 DEF DiscoveredPrompt, Discovered, Appended
  <2>2. <<>> \in Texts /\ Len(<<>>) <= Len(<<>>)
    BY DEF Texts
  <2> HIDE DEF found, file
  <2> QED
    BY <1>1, <2>1, <2>2 DEF found, file
<1>2. CASE first # Absent
  <2> DEFINE text == h.content[first]
             cut == Truncated(text, PromptLimit)
  <2>1. found = cut /\ file = text
    BY <1>2 DEF DiscoveredPrompt, Discovered
  <2>2. h.footer \in Nat /\ PromptLimit \in Nat
    BY HostIsProper, LimitAssumption
  <2>3. first \in Legible(h.content)
    BY <1>2, FirstIsLegible
  <2> HIDE DEF first
  <2>4. text \in Seq(0..h.footer)
    BY <2>3, HostIsProper
  <2>5. text \in Seq(Nat) /\ Len(text) \in Nat
        /\ \A i \in 1..Len(text) : text[i] \in Nat /\ text[i] <= h.footer
    <3> HIDE DEF text
    <3>1. text \in Texts /\ \A i \in 1..Len(text) : text[i] <= h.footer
      BY <2>2, <2>4, NarrowIsText
    <3> QED
      BY <3>1, LenProperties, ElementOfSeq DEF Texts
  <2> HIDE DEF text
  <2>6. /\ cut \in Seq(Nat) /\ Bytes(cut) \in Nat /\ Len(cut) \in 0..Len(text)
        /\ cut # text => \E i \in 1..Len(text) : Bytes(cut) + text[i] > PromptLimit
    BY <2>2, <2>5, TruncatedFits
  <2> HIDE DEF cut
  <2>7. cut # Absent /\ Appended(cut) = cut
    BY <2>6, LimitAssumption DEF Appended
  <2>8. cut # text => Bytes(cut) + h.footer > PromptLimit
    BY <2>2, <2>5, <2>6
  <2>9. cut \in Texts /\ text \in Texts /\ Len(cut) <= Len(text)
    BY <2>5, <2>6 DEF Texts
  <2> HIDE DEF found, file
  <2> QED
    BY <1>2, <2>1, <2>7, <2>8, <2>9 DEF found, file, first
<1> QED
  BY <1>1, <1>2

\* The context of a host, and what it would be without a limit.
Contents(h) ==
    LET files == Context(h.enabled, h.tree, h.content).files
    IN  [i \in DOMAIN files |-> h.content[files[i]]]

LEMMA ContextIsMarked ==
    ASSUME NEW h \in Hosts
    PROVE  LET context == Context(h.enabled, h.tree, h.content)
           IN  /\ IsInjective(context.files)
               /\ Contents(h) \in Seq(Texts)
               /\ AsMarked(context.texts, context.truncated, Contents(h))
<1> DEFINE context == Context(h.enabled, h.tree, h.content)
           files == IF h.enabled THEN ContextFiles(h.tree, h.content) ELSE <<>>
           texts == [i \in DOMAIN files |-> h.content[files[i]]]
<1>1. /\ context.files = files /\ Contents(h) = texts
      /\ context.texts = Allocated(texts).texts
      /\ context.truncated = Allocated(texts).truncated
  BY DEF Context, Contents
<1>2. files \in Seq(Legible(h.content)) /\ IsInjective(files)
  <2>1. /\ ContextFiles(h.tree, h.content) \in Seq(Legible(h.content))
        /\ IsInjective(ContextFiles(h.tree, h.content))
    BY HostIsProper, ContextIsProper
  <2>2. <<>> \in Seq(Legible(h.content)) /\ IsInjective(<<>>)
    BY DEF IsInjective
  <2> QED
    BY <2>1, <2>2
<1> HIDE DEF files
<1>3. texts \in Seq(Texts)
  <2>1. DOMAIN files = 1..Len(files) /\ Len(files) \in Nat
        /\ \A i \in 1..Len(files) : files[i] \in Legible(h.content)
    BY <1>2, LenProperties, ElementOfSeq
  <2>2. \A i \in 1..Len(files) : h.content[files[i]] \in Texts
    <3> TAKE i \in 1..Len(files)
    <3> DEFINE text == h.content[files[i]]
    <3>1. h.footer \in Nat /\ text \in Seq(0..h.footer)
      BY <2>1, HostIsProper
    <3> HIDE DEF text
    <3>2. text \in Texts
      BY <3>1, NarrowIsText
    <3> QED
      BY <3>2 DEF text
  <2> QED
    BY <2>1, <2>2
<1> HIDE DEF texts
<1>4. AsMarked(Allocated(texts).texts, Allocated(texts).truncated, texts)
  BY <1>3, AllocatedIsMarked
<1> QED
  BY <1>1, <1>2, <1>3, <1>4

LEMMA LessIsOther ==
    ASSUME NEW given \in Seq(Texts), NEW texts \in Seq(Texts), NEW all \in Seq(Texts),
           Less(given, texts), texts = all \/ Less(texts, all)
    PROVE  given # all
<1>1. \A s \in Seq(Texts) : Len(s) \in Nat /\ \A i \in 1..Len(s) : Len(s[i]) \in Nat
  <2> TAKE s \in Seq(Texts)
  <2>1. Len(s) \in Nat /\ \A i \in 1..Len(s) : s[i] \in Texts
    BY LenProperties, ElementOfSeq
  <2>2. \A text \in Texts : Len(text) \in Nat
    BY LenProperties DEF Texts
  <2> QED
    BY <2>1, <2>2
<1>2. CASE Len(given) < Len(texts)
  <2>1. Len(texts) <= Len(all)
    BY <1>1 DEF Less, Under
  <2> QED
    BY <1>1, <1>2, <2>1
<1>3. CASE \E i \in 1..Len(given) : Len(given[i]) < Len(texts[i])
  <2>1. PICK i \in 1..Len(given) : Len(given[i]) < Len(texts[i])
    BY <1>3
  <2>2. i \in 1..Len(texts)
    BY <1>1 DEF Less, Under
  <2>3. Len(texts[i]) <= Len(all[i])
    <3>1. CASE texts = all
      BY <1>1, <2>2, <3>1
    <3>2. CASE Less(texts, all)
      BY <2>2, <3>2 DEF Less, Under
    <3> QED
      BY <3>1, <3>2
  <2>4. i \in 1..Len(all)
    <3>1. Len(texts) <= Len(all)
      BY <1>1 DEF Less, Under
    <3> QED
      BY <1>1, <2>2, <3>1
  <2>5. Len(given[i]) \in Nat /\ Len(texts[i]) \in Nat /\ Len(all[i]) \in Nat
    BY <1>1, <2>2, <2>4
  <2>6. Len(given[i]) # Len(all[i])
    BY <2>1, <2>3, <2>5
  <2> QED
    BY <2>6
<1> QED
  BY <1>2, <1>3 DEF Less

\* All that is in a prompt is counted.
LEMMA CountedBytes ==
    ASSUME NEW prompt, NEW footer \in Nat, prompt.body \in Texts,
           Appended(prompt.append) \in Texts, prompt.texts \in Seq(Texts),
           ByteCount(prompt, footer) <= PromptLimit
    PROVE  /\ Bytes(prompt.body) + footer <= PromptLimit
           /\ Bytes(Appended(prompt.append)) + footer <= PromptLimit
<1> DEFINE append == IF prompt.append = Absent THEN 0
                     ELSE AppendPrefix + Bytes(prompt.append)
           context == IF prompt.framed
                      THEN ContextFrame + Bytes(Records(prompt.texts)) + ContextSuffix
                      ELSE 0
<1>1. /\ PromptLimit \in Nat /\ ContextFrame \in Nat
      /\ AppendPrefix \in Nat /\ ContextSuffix \in Nat
  BY LimitAssumption
<1>2. ByteCount(prompt, footer) = Bytes(prompt.body) + append + context + footer
  BY DEF ByteCount, Records
<1>3. Bytes(prompt.body) \in Nat
  BY BytesGrow DEF Texts
<1>4. Bytes(Appended(prompt.append)) \in Nat
  BY BytesGrow DEF Texts
<1>5. append \in Nat /\ Bytes(Appended(prompt.append)) <= append
  <2>1. CASE prompt.append = Absent
    <3>1. Appended(prompt.append) = <<>> /\ append = 0
      BY <2>1 DEF Appended
    <3> QED
      BY <3>1, BytesGrow
  <2>2. CASE prompt.append # Absent
    <3>1. Appended(prompt.append) = prompt.append /\ append = AppendPrefix + Bytes(prompt.append)
      BY <2>2 DEF Appended
    <3> QED
      BY <1>1, <1>4, <3>1
  <2> QED
    BY <2>1, <2>2
<1>6. context \in Nat
  <2>1. <<>> \in Texts
    BY DEF Texts
  <2>2. Bytes(Records(prompt.texts)) \in Nat
    BY <2>1, RecordsGrow
  <2> QED
    BY <1>1, <2>2
<1> HIDE DEF append, context
<1> QED
  BY <1>1, <1>2, <1>3, <1>4, <1>5, <1>6

\* What PromptIsHonest says of a prompt, for the host it was made for.
Honest(h, prompt, context) ==
    /\ ByteCount(prompt, h.footer) <= PromptLimit
    /\ IsInjective(context.files)
    /\ prompt.truncated \/ context.truncated
          <=> <<prompt.body, Appended(prompt.append), prompt.texts>> # Wanted(h)

LEMMA HostIsHonest ==
    ASSUME NEW h \in Hosts, h.footer <= PromptLimit
    PROVE  Honest(h, HostPrompt(h), Context(h.enabled, h.tree, h.content))
<1> DEFINE found == DiscoveredPrompt(h.systemFiles, h.content)
           body == IF h.system # Absent THEN h.system
                   ELSE IF found = Absent THEN DefaultPrompt ELSE found
           append == IF h.append # Absent THEN h.append
                     ELSE DiscoveredPrompt(h.appendFiles, h.content)
           first == IF h.system # Absent THEN h.system
                    ELSE IF FirstReadable(h.systemFiles, h.content) = Absent
                    THEN DefaultPrompt ELSE Discovered(h.systemFiles, h.content)
           second == IF h.append # Absent THEN h.append
                     ELSE Discovered(h.appendFiles, h.content)
           context == Context(h.enabled, h.tree, h.content)
           prompt == HostPrompt(h)
<1>1. /\ h.footer \in Nat /\ DefaultPrompt \in Texts
      /\ h.system # Absent => h.system \in Texts
      /\ h.append # Absent => h.append \in Texts
      /\ h.systemFiles \in Candidates(h.content)
      /\ h.appendFiles \in Candidates(h.content)
  BY HostIsProper, LimitAssumption DEF Texts
<1>2. Wanted(h) = <<first, second, Contents(h)>>
  BY DEF Wanted, Discovered, Contents
<1>3. prompt = Assembled(body, append, context.texts, h.footer)
  BY DEF HostPrompt
<1>4. \A text \in Texts : Len(text) \in Nat
  BY LenProperties DEF Texts
<1>5. /\ body \in Texts /\ first \in Texts /\ Len(body) <= Len(first)
      /\ body # first => Bytes(body) + h.footer > PromptLimit
  <2>1. CASE h.system # Absent
    BY <1>1, <1>4, <2>1
  <2>2. CASE h.system = Absent /\ found = Absent
    <3>1. FirstReadable(h.systemFiles, h.content) = Absent
      BY <1>1, <2>2, CutIsNoticed
    <3> QED
      BY <1>1, <1>4, <2>2, <3>1
  <2>3. CASE h.system = Absent /\ found # Absent
    <3> DEFINE file == Discovered(h.systemFiles, h.content)
    <3>1. /\ FirstReadable(h.systemFiles, h.content) # Absent
          /\ found \in Texts /\ file \in Texts /\ Len(Appended(found)) <= Len(file)
          /\ Appended(found) # file => Bytes(Appended(found)) + h.footer > PromptLimit
      BY <1>1, <2>3, CutIsNoticed
    <3>2. Appended(found) = found
      BY <2>3 DEF Appended
    <3>3. body = found /\ first = file
      BY <2>3, <3>1
    <3> HIDE DEF body, first, file, found
    <3> QED
      BY <3>1, <3>2, <3>3
  <2> QED
    BY <2>1, <2>2, <2>3
<1>6. /\ append # Absent => append \in Texts
      /\ Appended(append) \in Texts /\ second \in Texts
      /\ Len(Appended(append)) <= Len(second)
      /\ Appended(append) # second => Bytes(Appended(append)) + h.footer > PromptLimit
  <2>1. CASE h.append # Absent
    <3>1. append = h.append /\ second = h.append /\ Appended(append) = h.append
      BY <2>1 DEF Appended
    <3> HIDE DEF append, second
    <3> QED
      BY <1>1, <1>4, <2>1, <3>1
  <2>2. CASE h.append = Absent
    <3>1. append = DiscoveredPrompt(h.appendFiles, h.content)
          /\ second = Discovered(h.appendFiles, h.content)
      BY <2>2
    <3> HIDE DEF append, second
    <3> QED
      BY <1>1, <3>1, CutIsNoticed
  <2> QED
    BY <2>1, <2>2
<1> HIDE DEF body, append, first, second, context, prompt
<1>7. /\ IsInjective(context.files) /\ Contents(h) \in Seq(Texts)
      /\ context.texts \in Seq(Texts) /\ context.truncated \in BOOLEAN
      /\ IF context.truncated THEN Less(context.texts, Contents(h))
         ELSE context.texts = Contents(h)
  BY ContextIsMarked DEF context, AsMarked
<1>8. ByteCount(prompt, h.footer) <= PromptLimit
      /\ Delivered(prompt, body, append, context.texts)
  BY <1>1, <1>3, <1>5, <1>6, <1>7, AssembledFits
<1>9. /\ prompt.body \in Texts /\ Appended(prompt.append) \in Texts
      /\ prompt.texts \in Seq(Texts) /\ prompt.truncated \in BOOLEAN
  BY <1>8 DEF Delivered
<1> DEFINE shown == Appended(prompt.append)
           wanted == Appended(append)
<1>10. CASE prompt.truncated
  <2>1. \/ Len(prompt.body) < Len(body) \/ Len(shown) < Len(wanted)
        \/ Less(prompt.texts, context.texts)
    BY <1>8, <1>10 DEF Delivered
  <2>2. /\ Len(prompt.body) \in Nat /\ Len(body) \in Nat /\ Len(first) \in Nat
        /\ Len(shown) \in Nat /\ Len(wanted) \in Nat /\ Len(second) \in Nat
    BY <1>4, <1>5, <1>6, <1>9
  <2>3. Len(prompt.body) < Len(body) => prompt.body # first
    BY <1>5, <2>2
  <2>4. Len(shown) < Len(wanted) => shown # second
    BY <1>6, <2>2
  <2>5. Less(prompt.texts, context.texts) => prompt.texts # Contents(h)
    BY <1>7, <1>9, LessIsOther
  <2>6. <<prompt.body, shown, prompt.texts>> # Wanted(h)
    BY <1>2, <2>1, <2>3, <2>4, <2>5
  <2> QED
    BY <1>7, <1>8, <1>10, <2>6 DEF Honest, context, prompt
<1>11. CASE ~prompt.truncated
  <2>1. prompt.body = body /\ shown = wanted /\ prompt.texts = context.texts
    BY <1>8, <1>11 DEF Delivered
  <2>2. /\ Bytes(prompt.body) + h.footer <= PromptLimit
        /\ Bytes(shown) + h.footer <= PromptLimit
    BY <1>1, <1>8, <1>9, CountedBytes
  <2>3. Bytes(body) \in Nat /\ Bytes(wanted) \in Nat /\ PromptLimit \in Nat
    BY <1>5, <1>6, BytesGrow, LimitAssumption DEF Texts
  <2> HIDE DEF shown, wanted
  <2>4. body = first
    BY <1>1, <1>5, <2>1, <2>2, <2>3
  <2>5. wanted = second
    <3>1. wanted # second => Bytes(wanted) + h.footer > PromptLimit
      BY <1>6 DEF wanted
    <3> QED
      BY <1>1, <2>1, <2>2, <2>3, <3>1
  <2>6. CASE context.truncated
    <3>1. prompt.texts # Contents(h)
      <4>1. Less(context.texts, Contents(h))
        BY <1>7, <2>6
      <4>2. Contents(h) = Contents(h)
        OBVIOUS
      <4> QED
        BY <1>7, <2>1, <4>1, LessIsOther
    <3>2. <<prompt.body, shown, prompt.texts>> # Wanted(h)
      BY <1>2, <3>1
    <3> QED
      BY <1>7, <1>8, <2>6, <3>2 DEF Honest, context, prompt, shown
  <2>7. CASE ~context.truncated
    <3>1. <<prompt.body, shown, prompt.texts>> = Wanted(h)
      BY <1>2, <1>7, <2>1, <2>4, <2>5, <2>7
    <3> QED
      BY <1>7, <1>8, <1>11, <2>7, <3>1 DEF Honest, context, prompt, shown
  <2> QED
    BY <2>6, <2>7
<1> QED
  BY <1>9, <1>10, <1>11

\* Components are composed once, of the host that is there, and only if its
\* footer fits.
ComposedInv ==
    /\ host \in Hosts
    /\ composed # None =>
          /\ composed.prompt = HostPrompt(host)
          /\ composed.context = Context(host.enabled, host.tree, host.content)
          /\ host.footer <= PromptLimit

LEMMA ComposedStep == ComposedInv /\ [BaseNext]_baseVars => ComposedInv'
<1> SUFFICES ASSUME ComposedInv, [BaseNext]_baseVars PROVE ComposedInv'
  OBVIOUS
<1>1. CASE Compose
  <2>1. UNCHANGED host /\ host \in Hosts
    BY <1>1 DEF Compose, ComposedInv
  <2>2. CASE UNCHANGED composed
    BY <2>1, <2>2 DEF ComposedInv
  <2>3. CASE ~(UNCHANGED composed)
    <3> DEFINE made == Components(host, Canonical(host.terminals))
    <3>1. ~(host.footer > PromptLimit) /\ composed' = made
      BY <1>1, <2>3 DEF Compose
    <3>2. host.footer <= PromptLimit
      BY <2>1, <3>1, HostIsProper, LimitAssumption
    <3>3. /\ made.prompt = HostPrompt(host)
          /\ made.context = Context(host.enabled, host.tree, host.content)
      BY DEF Components
    <3> HIDE DEF made
    <3> QED
      BY <2>1, <3>1, <3>2, <3>3 DEF ComposedInv
  <2> QED
    BY <2>2, <2>3
<1>2. CASE ~Compose
  <2>1. UNCHANGED <<host, composed>>
    BY <1>2 DEF BaseNext, CreateRunner, Execute, CreateLive, PartialCloses,
       CreatorInterrupted, Execution, Preflight, Construct, RunOn, Write, Environment,
       Interrupt, Return, Finished, Outside, boundVars, runnerVars, baseVars
  <2> QED
    BY <2>1 DEF ComposedInv
<1> QED
  BY <1>1, <1>2

\* The system prompt keeps its limit and repeats no file, and what it leaves
\* out of what its host brought, its flags tell.
THEOREM PromptsAreHonest == BaseSpec => []PromptIsHonest
<1>1. BaseInit => ComposedInv
  BY DEF BaseInit, ComposedInv
<1>2. ComposedInv => PromptIsHonest
  <2> SUFFICES ASSUME ComposedInv, composed # None PROVE PromptIsHonest
    BY DEF PromptIsHonest
  <2>1. Honest(host, composed.prompt, composed.context)
    BY HostIsHonest DEF ComposedInv
  <2> QED
    BY <2>1 DEF PromptIsHonest, Honest, Appended
<1> QED
  BY <1>1, <1>2, ComposedStep, PTL DEF BaseSpec
=============================================================================
