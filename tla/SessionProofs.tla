--------------------------- MODULE SessionProofs ---------------------------
(***************************************************************************)
(* Proofs about a guarded session, for every plan, every budget and every  *)
(* batch size; and about the external tools it may call, for every set of  *)
(* documents, from their admission to the entry of an implementation.      *)
(***************************************************************************)
EXTENDS GuardedSession, ToolAdmission, NaturalLemmas, SequenceTheorems

(***************************************************************************)
(* A reply of the model is a non-empty sequence of calls.                  *)
(***************************************************************************)
LEMMA BatchesAreSequences ==
    ASSUME NEW s \in Batches
    PROVE  s \in Seq(Calls) /\ Len(s) \in 1..MaxBatch
<1>1. PICK n \in 1..MaxBatch : s \in [1..n -> Calls]
    BY DEF Batches
<1>2. n \in Nat /\ Len(s) = n
    BY <1>1, BudgetAssumption
<1> QED
    BY <1>1, <1>2, BudgetAssumption

\* The call at the current index is one the model can make.
LEMMA CurrentCall ==
    ASSUME TypeOK, idx <= Len(batch)
    PROVE  Call \in Calls /\ Call.node \in Nodes /\ Call.arg \in Args
<1>1. idx \in 1..Len(batch)
    BY BudgetAssumption DEF TypeOK
<1>2. Call \in Calls
    BY <1>1 DEF TypeOK, Call
<1> QED
    BY <1>2, PlanAssumption

\* Every step keeps every variable in its type.
LEMMA TypeStep == TypeOK /\ [Next]_vars => TypeOK'
<1> SUFFICES ASSUME TypeOK, [Next]_vars PROVE TypeOK'
    OBVIOUS
<1> USE DEF Exceptions, budgetVars, historyVars, batchVars, envVars, endVars,
            RestUnchanged
<1>1. CASE Admit
    BY <1>1 DEF TypeOK, Admit, Raise
<1>2. CASE LoadPlan
    BY <1>2 DEF TypeOK, LoadPlan, Raise
<1>3. CASE LoopTop
    BY <1>3 DEF TypeOK, LoopTop, Raise
<1>4. CASE ReplyCalls
    <2>1. batch' \in Seq(Calls) /\ Len(batch') \in 1..MaxBatch
        BY <1>4, BatchesAreSequences DEF ReplyCalls
    <2>2. /\ pc' = "check" /\ idx' = 1 /\ terminalResult' = None
          /\ batchHadError' = FALSE /\ retries' = 0
          /\ iteration' = iteration + attempts + 1 /\ attempts' = attempts + 1
          /\ UNCHANGED <<toolErrors, premature, prereqViolations, historyVars,
                         envVars, endVars, traced>>
        BY <1>4 DEF ReplyCalls, Consumed
    <2>3. idx' \in 1..MaxBatch + 1
        BY <2>2, BudgetAssumption
    <2>4. batch' \in Seq(Calls) /\ Len(batch') <= MaxBatch
        BY <2>1, BudgetAssumption
    <2>5. iteration' \in Nat /\ attempts' \in Nat /\ retries' \in Nat
        BY <2>2 DEF TypeOK
    <2> QED
        BY <2>2, <2>3, <2>4, <2>5, ZenonT(40) DEF TypeOK
<1>5. CASE ReplyUnusable
    BY <1>5 DEF TypeOK, ReplyUnusable, FailedReply, Raise
<1>6. CASE ReplyBadArgs
    BY <1>6 DEF TypeOK, ReplyBadArgs, FailedReply, Raise
<1>7. CASE ModelRaises
    BY <1>7 DEF TypeOK, ModelRaises, Raise
<1>8. CASE CheckBatch
    BY <1>8 DEF TypeOK, CheckBatch, Raise
<1>9. CASE DenyCall
    BY <1>9, BudgetAssumption DEF TypeOK, DenyCall, Soft, InBatch, Raise
<1>10. CASE StopCall
    BY <1>10 DEF TypeOK, StopCall, InBatch, Raise
<1>11. CASE RejectCandidate
    BY <1>11, BudgetAssumption DEF TypeOK, RejectCandidate, Soft, InBatch, Raise
<1>12. CASE EnterExecutor
    BY <1>12 DEF TypeOK, EnterExecutor, InBatch, Raise
<1>13. CASE ToolSucceeds
    <2>1. Call.node \in Nodes /\ Call.arg \in Args /\ idx <= Len(batch)
        BY <1>13, CurrentCall DEF TypeOK, ToolSucceeds
    <2>2. OwnedAfter \in [Nodes -> Args \cup {None}]
        BY <2>1 DEF TypeOK, OwnedAfter
    <2>3. Recorded \in [Nodes -> SUBSET Args]
        BY <2>1 DEF TypeOK, Recorded
    <2>4. /\ executed' \in {executed, Recorded}
          /\ intent' \in {intent} \cup (Terminals \cap {Call.node})
          /\ terminalResult' \in {terminalResult} \cup (Terminals \cap {Call.node})
          /\ artifacts' \subseteq artifacts \cup Artifacts
          /\ owned' = OwnedAfter /\ traced' = TRUE
        BY <1>13 DEF ToolSucceeds, Raise
    <2>5. /\ pc' \in {"raised", "dispatch"}
          /\ batch' = batch /\ batchHadError' = batchHadError
          /\ idx' \in {idx, idx + 1}
          /\ exc' \in {exc, "NonRetryableToolError"}
          /\ UNCHANGED <<iteration, attempts, budgetVars, envVars, status,
                         resultTrace>>
        BY <1>13 DEF ToolSucceeds, Raise
    <2> QED
        BY <2>1, <2>2, <2>3, <2>4, <2>5, BudgetAssumption DEF TypeOK
<1>14. CASE ToolFailsSoftly
    BY <1>14, BudgetAssumption DEF TypeOK, ToolFailsSoftly, Soft, Raise
<1>15. CASE ToolRaises
    BY <1>15, BudgetAssumption DEF TypeOK, ToolRaises, Raise
<1>16. CASE ToolFailsHard
    BY <1>16 DEF TypeOK, ToolFailsHard, Raise
<1>17. CASE EndBatch
    BY <1>17, BudgetAssumption DEF TypeOK, EndBatch, Raise
<1>18. CASE Finish
    <2>1. StatusOf(exc) \in Statuses
        BY DEF StatusOf, Statuses
    <2>2. status' \in {StatusOf(exc), "CANCELLED", "BACKEND_FAILED", "REJECTED",
                      "TERMINAL"}
        BY <1>18 DEF Finish, FinalStatus
    <2>3. status' \in Statuses
        BY <2>1, <2>2 DEF Statuses
    <2>4. resultTrace' \in BOOLEAN
        BY <1>18 DEF TypeOK, Finish, FinalStatus
    <2> QED
        BY <1>18, <2>3, <2>4 DEF TypeOK, Finish, FinalStatus
<1>19. CASE CancelToken
    BY <1>19 DEF TypeOK, CancelToken, Raise
<1>20. CASE WatcherRelays
    BY <1>20 DEF TypeOK, WatcherRelays, Raise
<1>21. CASE DeadlinePasses
    BY <1>21 DEF TypeOK, DeadlinePasses, Raise
<1>22. CASE TaskCancelled
    BY <1>22 DEF TypeOK, TaskCancelled, Statuses, Raise
<1>23. CASE UNCHANGED vars
    BY <1>23 DEF TypeOK, vars
<1> QED
    BY <1>1, <1>2, <1>3, <1>4, <1>5, <1>6, <1>7, <1>8,
       <1>9, <1>10, <1>11, <1>12, <1>13, <1>14, <1>15, <1>16, <1>17, <1>18,
       <1>19, <1>20, <1>21, <1>22, <1>23 DEF Next, SessionStep, Done

(***************************************************************************)
(* TypeOK for every reachable state of the session.                        *)
(***************************************************************************)
THEOREM TypeCorrect == Spec => []TypeOK
<1>1. Init => TypeOK
    <2> SUFFICES ASSUME Init PROVE TypeOK
        OBVIOUS
    <2>1. batch \in Seq(Calls) /\ Len(batch) = 0
        BY DEF Init
    <2>2. idx \in 1..MaxBatch + 1 /\ Len(batch) <= MaxBatch
        BY <2>1, BudgetAssumption DEF Init
    <2>3. executed \in [Nodes -> SUBSET Args] /\ owned \in [Nodes -> Args \cup {None}]
        BY DEF Init
    <2> QED
        BY <2>1, <2>2, <2>3 DEF Init, TypeOK, Statuses
<1> QED
    BY <1>1, TypeStep, PTL DEF Spec

-----------------------------------------------------------------------------
(***************************************************************************)
(* Budgets.  A session goes on only below every budget, and awaits a reply *)
(* only while an iteration is left to charge it to.                        *)
(***************************************************************************)
Budgets == ModelCallsBounded /\ BudgetsRespected

\* No step lets the session go on past a budget.
LEMMA BudgetsStep == TypeOK /\ Budgets /\ [Next]_vars => Budgets'
<1> SUFFICES ASSUME TypeOK, Budgets, [Next]_vars PROVE Budgets'
    OBVIOUS
<1> USE NoneAssumption, BudgetAssumption
        DEF Budgets, ModelCallsBounded, BudgetsRespected, Raise, Exceptions,
            budgetVars, historyVars, batchVars, envVars, endVars, RestUnchanged
<1>1. CASE LoopTop
    <2>1. /\ attempts' = 0 /\ iteration \in Nat
          /\ pc' = "infer" => iteration < MaxIterations
          /\ exc' = None => exc = None
          /\ UNCHANGED <<iteration, budgetVars>>
        BY <1>1 DEF TypeOK, LoopTop
    <2> QED
        BY <2>1
<1>2. CASE ReplyCalls
    <2>1. /\ pc = "infer" /\ pc' = "check" /\ iteration' = iteration + attempts + 1
          /\ retries' = 0
          /\ UNCHANGED <<toolErrors, premature, prereqViolations, exc>>
        BY <1>2 DEF ReplyCalls, Consumed
    <2> QED
        BY <2>1 DEF TypeOK
<1>3. CASE ReplyUnusable
    BY <1>3 DEF TypeOK, ReplyUnusable, FailedReply, AttemptLimit
<1>4. CASE ReplyBadArgs
    BY <1>4 DEF TypeOK, ReplyBadArgs, FailedReply, AttemptLimit
<1>5. CASE CheckBatch
    BY <1>5 DEF TypeOK, CheckBatch
<1>6. CASE EndBatch
    BY <1>6 DEF TypeOK, EndBatch
<1>7. CASE ToolSucceeds
    <2>1. /\ pc' \in {"raised", "dispatch"}
          /\ exc' \in {exc, "NonRetryableToolError"}
          /\ UNCHANGED <<iteration, attempts, budgetVars>>
        BY <1>7 DEF ToolSucceeds
    <2> QED
        BY <2>1
<1>8. CASE Finish
    BY <1>8 DEF Finish, FinalStatus
<1>9. CASE TaskCancelled
    BY <1>9 DEF TaskCancelled
<1>10. CASE Admit \/ LoadPlan \/ ModelRaises
    BY <1>10 DEF Admit, LoadPlan, ModelRaises
<1>11. CASE DenyCall \/ StopCall \/ RejectCandidate \/ EnterExecutor
    BY <1>11 DEF DenyCall, StopCall, RejectCandidate, EnterExecutor, Soft
<1>12. CASE ToolFailsSoftly \/ ToolRaises \/ ToolFailsHard
    BY <1>12 DEF ToolFailsSoftly, ToolRaises, ToolFailsHard, Soft
<1>13. CASE CancelToken \/ WatcherRelays \/ DeadlinePasses \/ UNCHANGED vars
    BY <1>13 DEF CancelToken, WatcherRelays, DeadlinePasses, vars
<1> QED
    BY <1>1, <1>2, <1>3, <1>4, <1>5, <1>6, <1>7, <1>8, <1>9, <1>10, <1>11,
       <1>12, <1>13 DEF Next, SessionStep, Done

\* No sequence of retries, corrections and batches spends more model calls
\* than max_iterations (runner.py, run_inference's max_attempts).
THEOREM CallsNeverExceedBudget == Spec => []ModelCallsBounded
<1>1. Init => Budgets
    BY BudgetAssumption
    DEF Init, Budgets, ModelCallsBounded, BudgetsRespected
<1>2. Budgets => ModelCallsBounded
    BY DEF Budgets
<1> QED
    BY <1>1, <1>2, BudgetsStep, TypeCorrect, TypeStep, PTL DEF Spec

\* Every failure counter stays within its budget while the session goes on
\* (ErrorTracker, StepEnforcer).
THEOREM CountersStayInBudget == Spec => []BudgetsRespected
<1>1. Init => Budgets
    BY BudgetAssumption
    DEF Init, Budgets, ModelCallsBounded, BudgetsRespected
<1>2. Budgets => BudgetsRespected
    BY DEF Budgets
<1> QED
    BY <1>1, <1>2, BudgetsStep, TypeCorrect, TypeStep, PTL DEF Spec

-----------------------------------------------------------------------------
(***************************************************************************)
(* Histories and the terminal result.  The guard of a whole batch is taken *)
(* before its first call and used for its last one: it still holds there   *)
(* because the recorded history only grows (BatchStillAllowed).  The       *)
(* bridge's own check is made for the very call (EntryAllowed).            *)
(***************************************************************************)
Ending ==
    /\ exc = None <=> pc \notin {"raised", "done"}
    /\ status = "running" <=> pc # "done"

BatchStillAllowed ==
    pc \in {"dispatch", "exec"} =>
        \A i \in 1..Len(batch) : /\ EnforcerAllows(batch[i])
                                 /\ batch[i].node \in Terminals => StepsSatisfied

EntryAllowed == pc = "exec" => BridgeAllows(Call)

IntentEarned ==
    intent # None => /\ \A n \in Required : owned[n] # None
                     /\ owned[intent] # None
                     /\ RequiredArtifacts[intent] \subseteq artifacts

ResultIsIntent == terminalResult # None => intent = terminalResult

History ==
    /\ Ending /\ BatchStillAllowed /\ EntryAllowed /\ HistoriesAgree
    /\ IntentEarned /\ ResultIsIntent /\ ReturnedIsIntent

\* A batch that is allowed stays allowed when the recorded history grows.
LEMMA AllowedIsStable ==
    ASSUME TypeOK,
           NEW c \in Calls, EnforcerAllows(c),
           \A n \in Nodes : executed[n] \subseteq executed'[n]
    PROVE  /\ EnforcerAllows(c)'
           /\ StepsSatisfied => StepsSatisfied'
<1>1. c.node \in Nodes /\ \A p \in Prereqs[c.node] : p.node \in Nodes
    BY PlanAssumption
<1>2. EnforcerAllows(c)'
    BY <1>1 DEF EnforcerAllows
<1>3. StepsSatisfied => StepsSatisfied'
    BY PlanAssumption DEF StepsSatisfied, RequiredSteps
<1> QED
    BY <1>2, <1>3

\* A successful tool leaves the history consistent: either the bridge refuses
\* the terminal candidate and the session is over, or both histories and the
\* intent advance together.
LEMMA SuccessStep ==
    ASSUME TypeOK, History, ToolSucceeds
    PROVE  History'
<1>1. /\ pc = "exec" /\ Call.node \in Nodes /\ Call.arg \in Args
      /\ exc = None /\ status = "running" /\ Call.arg # None
    <2>1. pc = "exec" /\ idx <= Len(batch)
        BY DEF ToolSucceeds, TypeOK
    <2>2. exc = None /\ status = "running"
        BY <2>1 DEF History, Ending
    <2> QED
        BY <2>1, <2>2, CurrentCall, NoneAssumption
<1>2. /\ owned' = OwnedAfter /\ artifacts \subseteq artifacts'
      /\ status' = status /\ batch' = batch
    BY DEF ToolSucceeds, Raise, batchVars, endVars
<1>3. /\ \A n \in Nodes : owned'[n] = IF n = Call.node THEN Call.arg ELSE owned[n]
      /\ \A n \in Nodes : owned[n] # None => owned'[n] # None
    BY <1>1, <1>2 DEF OwnedAfter, TypeOK
<1>4. CASE Call.node \in Terminals /\ ~Acceptable(artifacts')
    <2>1. /\ pc' = "raised" /\ exc' = "NonRetryableToolError"
          /\ UNCHANGED <<executed, intent, terminalResult>>
        BY <1>4 DEF ToolSucceeds, Raise, batchVars
    <2>2. IntentEarned'
        BY <1>2, <1>3, <2>1, PlanAssumption DEF History, IntentEarned, TypeOK
    <2> QED
        BY <1>1, <1>2, <2>1, <2>2, NoneAssumption
        DEF History, Ending, BatchStillAllowed, EntryAllowed, HistoriesAgree,
            ResultIsIntent, ReturnedIsIntent, Exceptions
<1>5. CASE ~(Call.node \in Terminals /\ ~Acceptable(artifacts'))
    <2>1. /\ pc' = "dispatch" /\ exc' = exc /\ executed' = Recorded
          /\ intent' = IF Call.node \in Terminals THEN Call.node ELSE intent
          /\ terminalResult' =
                IF Call.node \in Terminals THEN Call.node ELSE terminalResult
        BY <1>5 DEF ToolSucceeds, endVars
    <2>2. \A n \in Nodes : executed'[n] = IF n = Call.node
                              THEN executed[n] \cup {Call.arg} ELSE executed[n]
        BY <1>1, <2>1 DEF Recorded, TypeOK
    <2>3. HistoriesAgree'
        BY <1>1, <1>3, <2>1, <2>2 DEF History, HistoriesAgree
    <2>4. BatchStillAllowed'
        <3> SUFFICES ASSUME NEW i \in 1..Len(batch)
                     PROVE  /\ EnforcerAllows(batch[i])'
                            /\ batch[i].node \in Terminals => StepsSatisfied'
            BY <1>2 DEF BatchStillAllowed, EnforcerAllows
        <3>1. batch[i] \in Calls
            BY DEF TypeOK
        <3>2. /\ EnforcerAllows(batch[i])
              /\ batch[i].node \in Terminals => StepsSatisfied
            BY <1>1 DEF History, BatchStillAllowed
        <3>3. \A n \in Nodes : executed[n] \subseteq executed'[n]
            BY <2>2
        <3> QED
            BY <1>2, <3>1, <3>2, <3>3, AllowedIsStable DEF EnforcerAllows
    <2>5. IntentEarned'
        <3>1. CASE Call.node \in Terminals
            BY <1>1, <1>2, <1>3, <1>5, <2>1, <3>1 DEF IntentEarned, Acceptable
        <3>2. CASE Call.node \notin Terminals
            BY <1>2, <1>3, <2>1, <3>2, PlanAssumption
            DEF History, IntentEarned, TypeOK
        <3> QED
            BY <3>1, <3>2
    <2>6. ResultIsIntent' /\ ReturnedIsIntent'
        BY <1>1, <2>1, NoneAssumption DEF History, ResultIsIntent, ReturnedIsIntent
    <2> QED
        BY <1>1, <1>2, <2>1, <2>3, <2>4, <2>5, <2>6
        DEF History, Ending, EntryAllowed
<1> QED
    BY <1>4, <1>5

\* Every step keeps the two histories, the checked batch and the intent
\* consistent with each other.
LEMMA HistoryStep == TypeOK /\ History /\ [Next]_vars => History'
<1> SUFFICES ASSUME TypeOK, History, [Next]_vars PROVE History'
    OBVIOUS
<1> USE NoneAssumption
        DEF History, Ending, BatchStillAllowed, EntryAllowed, HistoriesAgree,
            IntentEarned, ResultIsIntent, ReturnedIsIntent, Raise, Exceptions,
            EnforcerAllows, BridgeAllows, StepsSatisfied, Call,
            budgetVars, historyVars, batchVars, envVars, endVars, RestUnchanged
<1>1. CASE ToolSucceeds
    BY <1>1, SuccessStep
<1>2. CASE ReplyCalls
    BY <1>2 DEF ReplyCalls
<1>3. CASE CheckBatch
    BY <1>3 DEF CheckBatch, Premature, PrereqMissing
<1>4. CASE EnterExecutor
    BY <1>4 DEF EnterExecutor, InBatch
<1>5. CASE DenyCall \/ RejectCandidate \/ ToolFailsSoftly
    BY <1>5 DEF DenyCall, RejectCandidate, ToolFailsSoftly, InBatch, Soft
<1>6. CASE ToolRaises
    BY <1>6 DEF ToolRaises
<1>7. CASE StopCall \/ ToolFailsHard
    BY <1>7 DEF StopCall, ToolFailsHard, InBatch
<1>8. CASE EndBatch
    BY <1>8 DEF EndBatch
<1>9. CASE Finish
    BY <1>9 DEF Finish, FinalStatus, StatusOf
<1>10. CASE Admit \/ LoadPlan \/ LoopTop \/ ModelRaises
    BY <1>10 DEF Admit, LoadPlan, LoopTop, ModelRaises
<1>11. CASE ReplyUnusable \/ ReplyBadArgs
    BY <1>11 DEF ReplyUnusable, ReplyBadArgs, FailedReply
<1>12. CASE TaskCancelled
    BY <1>12 DEF TaskCancelled
<1>13. CASE CancelToken \/ WatcherRelays \/ DeadlinePasses \/ UNCHANGED vars
    BY <1>13 DEF CancelToken, WatcherRelays, DeadlinePasses, vars
<1> QED
    BY <1>1, <1>2, <1>3, <1>4, <1>5, <1>6, <1>7, <1>8, <1>9, <1>10, <1>11,
       <1>12, <1>13 DEF Next, SessionStep, Done

\* The strengthened invariant holds in every reachable state.
LEMMA HistoryInvariant == Spec => [](TypeOK /\ History)
<1>1. Init => History
    BY NoneAssumption
    DEF Init, History, Ending, BatchStillAllowed, EntryAllowed, HistoriesAgree,
        IntentEarned, ResultIsIntent, ReturnedIsIntent
<1> QED
    BY <1>1, HistoryStep, TypeCorrect, TypeStep, PTL DEF Spec

\* The runner's recorded steps and the bridge's owned successes never diverge
\* while the session goes on.
THEOREM HistoriesNeverDiverge == Spec => []HistoriesAgree
<1>1. History => HistoriesAgree
    BY DEF History
<1> QED
    BY <1>1, HistoryInvariant, PTL

\* Every tool runs after its prerequisites, and every terminal tool after the
\* required steps, for every batch size: the check made for the whole batch
\* is still true at each of its calls.
THEOREM ToolsRunInOrder == Spec => []ExecutionIsOrdered
<1>1. TypeOK /\ History => ExecutionIsOrdered
    <2> SUFFICES ASSUME TypeOK, History, pc = "exec" PROVE ExecutionIsOrdered
        BY DEF ExecutionIsOrdered
    <2>1. idx \in 1..Len(batch)
        BY DEF TypeOK
    <2> QED
        BY <2>1 DEF History, BatchStillAllowed, ExecutionIsOrdered, Call
<1> QED
    BY <1>1, HistoryInvariant, PTL

\* The runner never returns a result the bridge has no intent for: the branch
\* "Workflow completed without terminal intent" of run_session is dead code.
THEOREM RunnerReturnsIntent == Spec => []ReturnedIsIntent
<1>1. History => ReturnedIsIntent
    BY DEF History
<1> QED
    BY <1>1, HistoryInvariant, PTL

-----------------------------------------------------------------------------
(***************************************************************************)
(* The result.                                                             *)
(***************************************************************************)
Committed == status \in {"TERMINAL", "REJECTED"} => intent # None

\* The table of except clauses never yields a terminal status.
LEMMA FailureStatuses ==
    ASSUME NEW e
    PROVE  StatusOf(e) \notin {"TERMINAL", "REJECTED", "running"}
BY DEF StatusOf

\* No step reports a terminal status without an accepted intent.
LEMMA CommittedStep ==
    History /\ Committed /\ [Next]_vars => Committed'
<1> SUFFICES ASSUME History, Committed, [Next]_vars PROVE Committed'
    OBVIOUS
<1> USE DEF Committed, History, Ending, Raise, budgetVars, historyVars,
            batchVars, envVars, endVars, RestUnchanged
<1>1. CASE Finish
    BY <1>1, FailureStatuses DEF Finish, FinalStatus
<1>2. CASE ToolSucceeds
    BY <1>2 DEF ToolSucceeds
<1>3. CASE TaskCancelled
    BY <1>3 DEF TaskCancelled
<1>4. CASE UNCHANGED <<intent, status>>
    BY <1>4
<1>5. Next => Finish \/ ToolSucceeds \/ TaskCancelled \/ UNCHANGED <<intent, status>>
    BY DEF Next, SessionStep, Admit, LoadPlan, LoopTop, ReplyCalls,
       ReplyUnusable, ReplyBadArgs, FailedReply, ModelRaises, CheckBatch,
       DenyCall, StopCall, RejectCandidate, EnterExecutor, ToolFailsSoftly,
       ToolRaises, ToolFailsHard, EndBatch, CancelToken, WatcherRelays,
       DeadlinePasses, Done, Soft, vars
<1> QED
    BY <1>1, <1>2, <1>3, <1>4, <1>5 DEF vars

\* A terminal status always has an accepted intent behind it.
LEMMA CommittedInvariant == Spec => [](TypeOK /\ History /\ Committed)
<1>1. Init => Committed
    BY DEF Init, Committed
<1> QED
    BY <1>1, CommittedStep, HistoryInvariant, PTL DEF Spec

\* A session is reported TERMINAL or REJECTED only with an accepted intent
\* whose required nodes and artifacts the owned history covers.
THEOREM TerminalResultsAreEarned == Spec => []TerminalIsEarned
<1>1. History /\ Committed => TerminalIsEarned
    BY DEF History, Committed, IntentEarned, TerminalIsEarned
<1> QED
    BY <1>1, CommittedInvariant, PTL

\* Once the token is set no executor is entered and no terminal status is
\* reported; once the watcher has relayed it no further inference starts.
THEOREM CancellationAlwaysWins == Spec => CancellationWins
<1>1. ASSUME [Next]_vars
      PROVE  [/\ cancelled => /\ (pc' = "exec" => pc = "exec")
                              /\ (pc' = "done" =>
                                    \/ status' \notin {"TERMINAL", "REJECTED"}
                                    \/ pc = "done")
              /\ cancelEvent /\ pc' = "infer" => pc = "infer"]_vars
    <2> USE DEF Raise, budgetVars, historyVars, batchVars, envVars, endVars,
                RestUnchanged
    <2>1. CASE Finish
        BY <2>1, FailureStatuses DEF Finish, FinalStatus
    <2>2. CASE TaskCancelled
        BY <2>2 DEF TaskCancelled
    <2>3. CASE LoopTop
        BY <2>3 DEF LoopTop
    <2>4. CASE EnterExecutor
        BY <2>4 DEF EnterExecutor
    <2>5. CASE UNCHANGED vars
        BY <2>5
    <2>6. CASE /\ pc' = pc \/ pc' \notin {"exec", "done", "infer"}
        BY <2>6
    <2> QED
        BY <1>1, <2>1, <2>2, <2>3, <2>4, <2>5, <2>6
        DEF Next, SessionStep, Admit, LoadPlan, ReplyCalls, ReplyUnusable,
            ReplyBadArgs, FailedReply, ModelRaises, CheckBatch, DenyCall,
            StopCall, RejectCandidate, ToolSucceeds, ToolFailsSoftly,
            ToolRaises, ToolFailsHard, EndBatch, CancelToken, WatcherRelays,
            DeadlinePasses, Done, Soft
<1> QED
    BY <1>1, PTL DEF Spec, CancellationWins

-----------------------------------------------------------------------------
(***************************************************************************)
(* Refinement.  A successful tool is the contract's Succeed, the final     *)
(* step commits or fails, the caller's cancellation is Stop, and every     *)
(* other step of the loop stutters.                                        *)
(***************************************************************************)
\* Every step of the session is a step of the contract or stutters.
LEMMA RefinementStep ==
    TypeOK /\ History /\ Committed /\ [Next]_vars
        => [Contract!Next]_(Contract!vars)
<1> SUFFICES ASSUME TypeOK, History, Committed, [Next]_vars
             PROVE  [Contract!Next]_(Contract!vars)
    OBVIOUS
<1> USE DEF Contract!Next, Contract!vars, Raise, budgetVars, historyVars,
            batchVars, envVars, endVars, RestUnchanged
<1>1. CASE ToolSucceeds
    <2>1. pc = "exec" /\ status = "running" /\ idx <= Len(batch)
        BY <1>1 DEF ToolSucceeds, TypeOK, History, Ending
    <2>2. Call.node \in Nodes /\ Call.arg # None
        BY <2>1, CurrentCall, NoneAssumption
    <2>3. \A p \in Prereqs[Call.node] :
             p.node \in {n \in Nodes : owned[n] # None}
        BY <2>1, <2>2, PlanAssumption DEF History, EntryAllowed, BridgeAllows
    <2>4. \A n \in Nodes : owned'[n] = IF n = Call.node THEN Call.arg ELSE owned[n]
        BY <1>1, <2>2 DEF ToolSucceeds, OwnedAfter, TypeOK
    <2>5. {n \in Nodes : owned'[n] # None}
            = {n \in Nodes : owned[n] # None} \cup {Call.node}
        BY <2>2, <2>4
    <2>6. status' = "running" /\ cancelled' = cancelled
        BY <1>1, <2>1 DEF ToolSucceeds
    <2>7. \E n \in Nodes : Contract!Succeed(n)
        BY <2>1, <2>2, <2>3, <2>5, <2>6 DEF Contract!Succeed
    <2> QED
        BY <2>7
<1>2. CASE Finish
    <2>1. /\ status = "running"
          /\ UNCHANGED <<owned, intent, cancelled>>
        BY <1>2 DEF Finish, FinalStatus, History, Ending
    <2>2. CASE exc # "Returned" \/ cancelled \/ intent = None
        <3>1. status' \notin {"running", "TERMINAL", "REJECTED"}
            BY <1>2, <2>2, FailureStatuses DEF Finish, FinalStatus
        <3>2. Contract!Fail
            BY <2>1, <3>1 DEF Contract!Fail
        <3> QED
            BY <3>2
    <2>3. CASE exc = "Returned" /\ ~cancelled /\ intent # None
        <3>1. status' = IF intent \in Blocked THEN "REJECTED" ELSE "TERMINAL"
            BY <1>2, <2>3 DEF Finish, FinalStatus
        <3>2. /\ intent \in Terminals /\ intent \in Nodes /\ owned[intent] # None
              /\ \A n \in Required : n \in Nodes /\ owned[n] # None
            BY <2>3, PlanAssumption DEF TypeOK, History, IntentEarned
        <3>3. \E t \in Terminals : Contract!Commit(t)
            BY <2>1, <2>3, <3>1, <3>2 DEF Contract!Commit
        <3> QED
            BY <3>3
    <2> QED
        BY <2>2, <2>3
<1>3. CASE TaskCancelled
    <2>1. status = "running" /\ status' = "aborted"
        BY <1>3 DEF TaskCancelled, History, Ending
    <2>2. Contract!Fail
        BY <1>3, <2>1 DEF TaskCancelled, Contract!Fail
    <2> QED
        BY <2>2
<1>4. CASE CancelToken
    BY <1>4 DEF CancelToken, Contract!Stop
<1>5. CASE UNCHANGED <<owned, intent, status, cancelled>>
    BY <1>5
<1>6. Next => \/ Finish \/ ToolSucceeds \/ TaskCancelled \/ CancelToken
              \/ UNCHANGED <<owned, intent, status, cancelled>>
    BY DEF Next, SessionStep, Admit, LoadPlan, LoopTop, ReplyCalls,
       ReplyUnusable, ReplyBadArgs, FailedReply, ModelRaises, CheckBatch,
       DenyCall, StopCall, RejectCandidate, EnterExecutor, ToolFailsSoftly,
       ToolRaises, ToolFailsHard, EndBatch, WatcherRelays, DeadlinePasses,
       Done, Soft, vars
<1> QED
    BY <1>1, <1>2, <1>3, <1>4, <1>5, <1>6 DEF vars

\* A guarded session implements its contract, for every plan, budget and
\* behaviour of the model, the tools and the caller.
THEOREM SessionImplementsContract == Spec => ImplementsContract
<1>1. Init => Contract!Init
    BY DEF Init, Contract!Init
<1> QED
    BY <1>1, RefinementStep, CommittedInvariant, PTL
    DEF Spec, ImplementsContract, Contract!Spec

-----------------------------------------------------------------------------
(***************************************************************************)
(* The admission of connector tools: what the loop over the selected tools *)
(* finds is what each of them deserves.                                    *)
(***************************************************************************)
ToolOf(a, s) == ToolNamed(a.snapshot, s.tool)

LoweredDescriptor(a, s) ==
  Descriptor(s, AdmittedDescription(s, ToolOf(a, s), a.policy).value,
                AdmittedInput(s, ToolOf(a, s)).value,
                AdmittedOutput(s, ToolOf(a, s)).value)

LoweredSelection(a, s) ==
  [descriptor |-> LoweredDescriptor(a, s),
   record |-> Record(a, s, ToolOf(a, s), LoweredDescriptor(a, s))]

\* One selected tool has none of the faults that are looked for.
Faultless(a, s) ==
  /\ s.tool \in Names(a.snapshot)
  /\ Mismatch(s.rawPin, ToolOf(a, s)) = {}
  /\ AdmittedDescription(s, ToolOf(a, s), a.policy).faults = {}
  /\ AdmittedInput(s, ToolOf(a, s)).faults = {}
  /\ AdmittedOutput(s, ToolOf(a, s)).faults = {}
  /\ CapabilityFaults(s, a.policy) = {} /\ ApprovalFaults(s, a.policy) = {}
  /\ DescriptorValid(LoweredDescriptor(a, s))
  /\ Mismatch(s.descriptorPin, LoweredDescriptor(a, s)) = {}
  /\ Mismatch(s.recordPin, LoweredSelection(a, s).record) = {}

\* A tool that is announced is found under its name.
LEMMA ToolIsFound ==
    ASSUME NEW snapshot, snapshot.tools \in Seq(ToSet(snapshot.tools)),
           NEW n \in Names(snapshot)
    PROVE  /\ ToolNamed(snapshot, n) \in ToSet(snapshot.tools)
           /\ ToolNamed(snapshot, n).name = n
<1> DEFINE at == {i \in DOMAIN snapshot.tools : snapshot.tools[i].name = n}
<1>1. at # {} /\ at \subseteq 1..Len(snapshot.tools) /\ Len(snapshot.tools) \in Nat
  BY DEF Names, ToSet
<1>2. \A i, j \in at : i \in Nat /\ j \in Nat
  BY <1>1
<1>3. Max(at) \in at
  <2>1. IsFiniteSet(at)
    BY <1>1, FS_Interval, FS_Subset
  <2> HIDE DEF at
  <2>2. \E x \in at : \A y \in at : x >= y
    <3> DEFINE T == {Len(snapshot.tools) - i : i \in at}
    <3>1. T \in SUBSET Nat /\ T # {}
      <4>1. \A i \in at : Len(snapshot.tools) - i \in Nat
        BY <1>1
      <4> QED
        BY <1>1, <4>1
    <3>2. PICK t \in T : \A y \in T : t <= y
      BY <3>1, LeastNatural
    <3>3. PICK x \in at : t = Len(snapshot.tools) - x
      BY <3>2
    <3>4. ASSUME NEW y \in at PROVE x >= y
      <4>1. Len(snapshot.tools) - x <= Len(snapshot.tools) - y
        BY <3>2, <3>3
      <4>2. x \in Nat /\ y \in Nat /\ Len(snapshot.tools) \in Nat
        BY <1>1, <1>2
      <4> QED
        BY <4>1, <4>2
    <3> QED
      BY <3>3, <3>4
  <2> QED
    BY <2>2 DEF Max
<1> QED
  BY <1>3 DEF ToolNamed, ToSet

\* No fault, no value missing.
LEMMA PartsAreThere ==
    ASSUME NEW a, AdmissionTyped(a), NEW s \in ToSet(a.manifest.selected),
           ManifestValid(a.manifest), s.tool \in Names(a.snapshot)
    PROVE  LET text == AdmittedDescription(s, ToolOf(a, s), a.policy)
               input == AdmittedInput(s, ToolOf(a, s))
               output == AdmittedOutput(s, ToolOf(a, s))
           IN  /\ text.faults = {} => text.value # Absent
               /\ input.faults = {} => input.value # Absent
               /\ output.faults = {} => output.value # Absent
<1>1. ToolOf(a, s) \in ToSet(a.snapshot.tools) /\ AnnouncedTyped(ToolOf(a, s))
  BY ToolIsFound DEF AdmissionTyped, ToolOf
<1>2. SelectionTyped(s) /\ SelectionValid(s)
  BY DEF AdmissionTyped, ManifestValid
<1>3. \A faults, value : /\ Lowered(faults, value).faults = faults
                         /\ faults = {} => Lowered(faults, value).value = value
  BY DEF Lowered
<1>4. AdmittedDescription(s, ToolOf(a, s), a.policy).faults = {} =>
        AdmittedDescription(s, ToolOf(a, s), a.policy).value # Absent
  <2>1. Tidy(s.description) # Absent
    BY <1>2 DEF SelectionTyped
  <2>2. CASE s.descriptionPolicy = "operator"
    BY <1>3, <2>1, <2>2 DEF AdmittedDescription
  <2>3. CASE s.descriptionPolicy = "rejected"
    BY <1>3, <2>3 DEF AdmittedDescription
  <2>4. CASE s.descriptionPolicy = "sanitized"
    BY <1>2, <1>3, <2>4 DEF AdmittedDescription, When, SelectionTyped
  <2> QED
    BY <1>2, <2>2, <2>3, <2>4 DEF SelectionTyped
<1>5. AdmittedInput(s, ToolOf(a, s)).faults = {} =>
        AdmittedInput(s, ToolOf(a, s)).value # Absent
  BY <1>1, <1>3 DEF AdmittedInput, ExactSchema, AnnouncedTyped, When
<1>6. AdmittedOutput(s, ToolOf(a, s)).faults = {} =>
        AdmittedOutput(s, ToolOf(a, s)).value # Absent
  BY <1>1, <1>2, <1>3 DEF AdmittedOutput, ExactSchema, AnnouncedTyped, SelectionValid
<1> QED
  BY <1>4, <1>5, <1>6

\* One turn of the loop.  Nothing is forgotten: what was wrong before, or is
\* wrong with this tool, stays in the faults.
LEMMA OneSelection ==
    ASSUME NEW a, AdmissionTyped(a), NEW s \in ToSet(a.manifest.selected),
           ManifestValid(a.manifest), NEW sofar
    PROVE  LET then == LowerSelection(a, sofar, s) IN
           /\ then.faults = {} <=> sofar.faults = {} /\ Faultless(a, s)
           /\ then.faults = {} =>
                 then.lowered = Append(sofar.lowered, LoweredSelection(a, s))
<1> DEFINE F == sofar.faults
           W == sofar.lowered
           then  == LowerSelection(a, sofar, s)
           early == F \cup Mismatch(s.rawPin, ToolOf(a, s))
           text  == AdmittedDescription(s, ToolOf(a, s), a.policy)
           input == AdmittedInput(s, ToolOf(a, s))
           output == AdmittedOutput(s, ToolOf(a, s))
           checked == early \cup text.faults \cup input.faults \cup output.faults
                       \cup CapabilityFaults(s, a.policy)
                       \cup ApprovalFaults(s, a.policy)
           D == LoweredDescriptor(a, s)
           R == LoweredSelection(a, s).record
<1> SUFFICES /\ then.faults = {} <=> F = {} /\ Faultless(a, s)
             /\ then.faults = {} =>
                   then.lowered = Append(W, LoweredSelection(a, s))
  OBVIOUS
<1>1. CASE s.tool \notin Names(a.snapshot)
  <2>1. then = [faults |-> F \cup {"missing"}, lowered |-> W]
    BY <1>1 DEF LowerSelection
  <2> HIDE DEF then
  <2> QED
    BY <1>1, <2>1 DEF Faultless
<1>2. CASE s.tool \in Names(a.snapshot) /\ Blocking(early)
  <2>1. then = [faults |-> early, lowered |-> W]
    BY <1>2 DEF LowerSelection, ToolOf
  <2>2. early # {}
    BY <1>2 DEF Blocking
  <2> HIDE DEF then
  <2> QED
    BY <1>2, <2>1, <2>2 DEF Faultless
<1>3. CASE /\ s.tool \in Names(a.snapshot) /\ ~Blocking(early)
           /\ \/ Blocking(checked)
              \/ Absent \in {text.value, input.value, output.value}
  <2>1. then = [faults |-> checked, lowered |-> W]
    BY <1>3 DEF LowerSelection, ToolOf
  <2>2. checked # {}
    <3>1. CASE Blocking(checked)
      BY <3>1 DEF Blocking
    <3>2. CASE Absent \in {text.value, input.value, output.value}
      <4>1. ~(text.faults = {} /\ input.faults = {} /\ output.faults = {})
        BY <1>3, <3>2, PartsAreThere
      <4> HIDE DEF text, input, output, early
      <4> QED
        BY <4>1
    <3> QED
      BY <1>3, <3>1, <3>2
  <2>3. ~(F = {} /\ Faultless(a, s))
    BY <2>2 DEF Faultless
  <2> HIDE DEF then, checked
  <2> QED
    BY <1>3, <2>1, <2>2, <2>3
<1>4. CASE /\ s.tool \in Names(a.snapshot) /\ ~Blocking(early)
           /\ ~Blocking(checked)
           /\ Absent \notin {text.value, input.value, output.value}
           /\ ~DescriptorValid(D)
  <2>1. then = [faults |-> checked \cup {"descriptor"}, lowered |-> W]
    BY <1>4 DEF LowerSelection, ToolOf, LoweredDescriptor
  <2> HIDE DEF then, checked
  <2> QED
    BY <1>4, <2>1 DEF Faultless
<1>5. CASE /\ s.tool \in Names(a.snapshot) /\ ~Blocking(early)
           /\ ~Blocking(checked)
           /\ Absent \notin {text.value, input.value, output.value}
           /\ DescriptorValid(D)
  <2>1. then = [faults |-> checked \cup Mismatch(s.descriptorPin, D)
                                   \cup Mismatch(s.recordPin, R),
                lowered |-> Append(W, [descriptor |-> D, record |-> R])]
    BY <1>5 DEF LowerSelection, ToolOf, LoweredDescriptor, LoweredSelection
  <2>2. checked = {} <=> /\ F = {} /\ Mismatch(s.rawPin, ToolOf(a, s)) = {}
                         /\ text.faults = {} /\ input.faults = {}
                         /\ output.faults = {}
                         /\ CapabilityFaults(s, a.policy) = {}
                         /\ ApprovalFaults(s, a.policy) = {}
    <3> HIDE DEF text, input, output
    <3> QED
      OBVIOUS
  <2>3. [descriptor |-> D, record |-> R] = LoweredSelection(a, s)
    BY DEF LoweredSelection
  <2>4. Faultless(a, s) <=> /\ Mismatch(s.rawPin, ToolOf(a, s)) = {}
                            /\ text.faults = {} /\ input.faults = {}
                            /\ output.faults = {}
                            /\ CapabilityFaults(s, a.policy) = {}
                            /\ ApprovalFaults(s, a.policy) = {}
                            /\ Mismatch(s.descriptorPin, D) = {}
                            /\ Mismatch(s.recordPin, R) = {}
    BY <1>5 DEF Faultless
  <2> HIDE DEF then, checked, D, R, text, input, output
  <2> QED
    BY <2>1, <2>2, <2>3, <2>4
<1> QED
  <2> HIDE DEF early, checked, D, text, input, output
  <2> QED
    BY <1>1, <1>2, <1>3, <1>4, <1>5

\* The selected tools, sorted: each of them once, whatever order they came in.
LEMMA OrderIsComplete ==
    ASSUME NEW a, AdmissionTyped(a), ManifestValid(a.manifest)
    PROVE  /\ InOrder(a.manifest.selected) \in Seq(ToSet(a.manifest.selected))
           /\ Len(InOrder(a.manifest.selected)) = Len(a.manifest.selected)
           /\ ToSet(InOrder(a.manifest.selected)) = ToSet(a.manifest.selected)
<1> DEFINE Q == a.manifest.selected
           S == ToSet(Q)
           T == {s.tool : s \in S}
           n == Len(Q)
           Rank(s) == Cardinality({t \in S : t.tool < s.tool})
<1>1. Q \in Seq(S) /\ n \in Nat /\ DOMAIN Q = 1..n
  BY DEF AdmissionTyped
<1>2. T \subseteq Nat
  BY DEF AdmissionTyped, SelectionTyped
<1>3. \A i, j \in 1..n : Q[i].tool = Q[j].tool => i = j
  BY <1>1 DEF ManifestValid, Distinct
<1>4. S = {Q[i] : i \in 1..n}
  BY <1>1 DEF ToSet
<1>5. \A s, t \in S : s.tool = t.tool => s = t
  BY <1>3, <1>4
<1>6. IsFiniteSet(S) /\ IsFiniteSet(T) /\ Cardinality(T) = n
  <2> DEFINE f == [i \in 1..n |-> Q[i].tool]
  <2>1. ExistsBijection(1..n, T)
    <3>1. f \in [1..n -> T]
      BY <1>4
    <3>2. \A t \in T : \E i \in 1..n : f[i] = t
      BY <1>4
    <3>3. \A i, j \in 1..n : f[i] = f[j] => i = j
      BY <1>3
    <3>4. f \in Bijection(1..n, T)
      BY <3>1, <3>2, <3>3 DEF Bijection, Injection, Surjection, IsInjective
    <3> QED
      BY <3>4 DEF ExistsBijection
  <2>2. IsFiniteSet(1..n) /\ Cardinality(1..n) = n
    <3>1. 1 \in Int /\ n \in Int /\ (1 > n => n = 0) /\ n - 1 + 1 = n
      BY <1>1
    <3> HIDE DEF n
    <3> QED
      BY <3>1, FS_Interval
  <2>3. Q \in Surjection(1..n, S)
    BY <1>1, <1>4, SMTT(30) DEF Surjection
  <2> HIDE DEF T, S, n
  <2> QED
    BY <2>1, <2>2, <2>3, FS_Bijection, FS_Surjection
<1>7. ASSUME NEW s \in S PROVE Rank(s) = Cardinality(Below(T, s.tool))
  <2> DEFINE B == {t \in S : t.tool < s.tool}
             g == [t \in B |-> t.tool]
  <2>1. g \in Bijection(B, Below(T, s.tool))
    <3>1. g \in [B -> Below(T, s.tool)]
      BY DEF Below
    <3>2. \A x \in Below(T, s.tool) : \E t \in B : g[t] = x
      BY DEF Below
    <3>3. \A x, y \in B : g[x] = g[y] => x = y
      BY <1>5
    <3> QED
      BY <3>1, <3>2, <3>3 DEF Bijection, Injection, Surjection, IsInjective
  <2>2. IsFiniteSet(B)
    <3>1. B \subseteq S
      OBVIOUS
    <3> QED
      BY <1>6, <3>1, FS_Subset
  <2>3. ExistsBijection(B, Below(T, s.tool))
    BY <2>1 DEF ExistsBijection
  <2> HIDE DEF g, B
  <2>4. Cardinality(B) = Cardinality(Below(T, s.tool))
    BY <2>2, <2>3, FS_Bijection
  <2> QED
    BY <2>4 DEF B
<1>8. /\ \A s \in S : Rank(s) \in 0..(n - 1)
      /\ \A s, t \in S : Rank(s) = Rank(t) => s = t
      /\ \A k \in 0..(n - 1) : \E s \in S : Rank(s) = k
  <2>1. /\ \A x \in T : Cardinality(Below(T, x)) \in 0..(n - 1)
        /\ \A x, y \in T : Cardinality(Below(T, x)) = Cardinality(Below(T, y)) => x = y
        /\ \A k \in 0..(n - 1) : \E x \in T : Cardinality(Below(T, x)) = k
    <3> HIDE DEF T, S, n
    <3> QED
      BY <1>2, <1>6, Ranks
  <2>2. \A s \in S : s.tool \in T
    OBVIOUS
  <2>3. \A x \in T : \E s \in S : s.tool = x
    OBVIOUS
  <2> HIDE DEF T, S, n, Rank
  <2>4. \A s \in S : Rank(s) \in 0..(n - 1)
    BY <1>7, <2>1, <2>2
  <2>5. \A s, t \in S : Rank(s) = Rank(t) => s = t
    BY <1>5, <1>7, <2>1, <2>2
  <2>6. \A k \in 0..(n - 1) : \E s \in S : Rank(s) = k
    BY <1>7, <2>1, <2>3
  <2> QED
    BY <2>4, <2>5, <2>6
<1> DEFINE O == InOrder(Q)
<1>9. O = [i \in 1..n |-> CHOOSE s \in S : Rank(s) = i - 1]
  BY <1>1 DEF InOrder
<1>10. ASSUME NEW i \in 1..n PROVE O[i] \in S /\ Rank(O[i]) = i - 1
  <2> HIDE DEF O, S, n, Rank
  <2>1. i - 1 \in 0..(n - 1)
    BY <1>1
  <2>2. PICK s \in S : Rank(s) = i - 1
    BY <1>8, <2>1
  <2> QED
    BY <1>9, <2>2
<1>11. O \in Seq(S) /\ Len(O) = n
  <2> HIDE DEF S, n, Rank
  <2>1. DOMAIN O = 1..n
    BY <1>9
  <2> HIDE DEF O
  <2>2. O = [i \in 1..n |-> O[i]]
    BY <1>9
  <2> QED
    BY <1>1, <1>10, <2>1, <2>2
<1>12. ASSUME NEW s \in S PROVE s \in ToSet(O)
  <2> HIDE DEF O, S, n, Rank
  <2>1. Rank(s) + 1 \in 1..n /\ Rank(s) \in Nat
    BY <1>1, <1>8
  <2>2. Rank(O[Rank(s) + 1]) = Rank(s) /\ O[Rank(s) + 1] \in S
    BY <1>10, <2>1
  <2>3. O[Rank(s) + 1] = s
    BY <1>8, <2>2
  <2> QED
    BY <1>11, <2>1, <2>3 DEF ToSet
<1> QED
  <2> HIDE DEF O, S, n, Rank
  <2>1. ToSet(O) \subseteq S
    BY <1>11 DEF ToSet
  <2> QED
    BY <1>11, <1>12, <2>1 DEF O, S, n

\* The loop's definition is one.
LEMMA LoweringRuns ==
    ASSUME NEW a, AdmissionTyped(a), ManifestValid(a.manifest)
    PROVE  \A i \in 0..Len(a.manifest.selected) :
              Lowering(a)[i] =
                IF i = 0 THEN [faults |-> FirstFaults(a), lowered |-> <<>>]
                ELSE LowerSelection(a, Lowering(a)[i - 1],
                                    InOrder(a.manifest.selected)[i])
<1> DEFINE O == InOrder(a.manifest.selected)
           n == Len(O)
           Runs(f, m) ==
             f = [i \in 0..m |->
                    IF i = 0 THEN [faults |-> FirstFaults(a), lowered |-> <<>>]
                    ELSE LowerSelection(a, f[i - 1], O[i])]
           Stuck == {m \in Nat : ~\E f : Runs(f, m)}
<1>1. n \in Nat /\ n = Len(a.manifest.selected)
  BY OrderIsComplete, LenProperties
<1>2. Runs([i \in 0..0 |-> [faults |-> FirstFaults(a), lowered |-> <<>>]], 0)
  OBVIOUS
<1>3. ASSUME NEW m \in Nat, NEW f, Runs(f, m)
      PROVE  Runs([i \in 0..(m + 1) |->
                     IF i = m + 1 THEN LowerSelection(a, f[m], O[m + 1])
                     ELSE f[i]], m + 1)
  <2> HIDE DEF O
  <2> QED
    BY <1>3
<1>4. Stuck = {}
  <2> HIDE DEF Runs, O
  <2> SUFFICES ASSUME Stuck # {} PROVE FALSE
    OBVIOUS
  <2>1. PICK m \in Stuck : \A k \in Stuck : m <= k
    BY LeastNatural
  <2>2. m # 0
    BY <1>2
  <2>3. m - 1 \in Nat /\ m - 1 \notin Stuck /\ (m - 1) + 1 = m
    BY <2>1, <2>2
  <2>4. PICK f : Runs(f, m - 1)
    BY <2>3
  <2>5. \E g : Runs(g, (m - 1) + 1)
    BY <1>3, <2>3, <2>4
  <2> QED
    BY <2>1, <2>3, <2>5
<1>5. Lowering(a) = CHOOSE f : Runs(f, n)
  BY DEF Lowering
<1>6. Runs(Lowering(a), n)
  <2> HIDE DEF Runs
  <2> QED
    BY <1>1, <1>4, <1>5
<1> HIDE DEF n, O
<1> QED
  BY <1>1, <1>6 DEF O

\* After i turns: what was wrong with the documents or with one of the tools so
\* far is on record, and if nothing was they are all lowered.
LEMMA LoweringFinds ==
    ASSUME NEW a, AdmissionTyped(a), ManifestValid(a.manifest)
    PROVE  LET O == InOrder(a.manifest.selected) IN
           \A i \in 0..Len(a.manifest.selected) :
              /\ Lowering(a)[i].faults = {} <=>
                    /\ FirstFaults(a) = {}
                    /\ \A j \in 1..i : Faultless(a, O[j])
              /\ Lowering(a)[i].faults = {} =>
                    Lowering(a)[i].lowered =
                      [j \in 1..i |-> LoweredSelection(a, O[j])]
<1> DEFINE O == InOrder(a.manifest.selected)
           n == Len(a.manifest.selected)
           Sofar(i) ==
             /\ Lowering(a)[i].faults = {} <=>
                   /\ FirstFaults(a) = {}
                   /\ \A j \in 1..i : Faultless(a, O[j])
             /\ Lowering(a)[i].faults = {} =>
                   Lowering(a)[i].lowered =
                     [j \in 1..i |-> LoweredSelection(a, O[j])]
           Wrong == {i \in 0..n : ~Sofar(i)}
<1>1. n \in Nat /\ O \in Seq(ToSet(a.manifest.selected)) /\ Len(O) = n
  BY OrderIsComplete, LenProperties
<1>2. Sofar(0)
  <2>1. Lowering(a)[0] = [faults |-> FirstFaults(a), lowered |-> <<>>]
    BY <1>1, LoweringRuns
  <2>2. [j \in 1..0 |-> LoweredSelection(a, O[j])] = <<>>
    OBVIOUS
  <2> QED
    BY <2>1, <2>2
<1>3. ASSUME NEW i \in 1..n, Sofar(i - 1) PROVE Sofar(i)
  <2> DEFINE before == Lowering(a)[i - 1]
             after == Lowering(a)[i]
  <2>1. /\ i - 1 \in Nat /\ i \in Nat /\ i # 0 /\ i \in 0..n
        /\ O[i] \in ToSet(a.manifest.selected)
    BY <1>1
  <2>2. after = LowerSelection(a, before, O[i])
    BY <2>1, LoweringRuns
  <2>3. /\ after.faults = {} <=> before.faults = {} /\ Faultless(a, O[i])
        /\ after.faults = {} =>
              after.lowered = Append(before.lowered, LoweredSelection(a, O[i]))
    <3> HIDE DEF before, after
    <3> QED
      BY <2>1, <2>2, OneSelection
  <2>4. after.faults = {} <=> /\ FirstFaults(a) = {}
                              /\ \A j \in 1..i : Faultless(a, O[j])
    <3>1. 1..i = (1..(i - 1)) \cup {i}
      BY <2>1
    <3> QED
      BY <1>3, <2>3, <3>1
  <2>5. ASSUME after.faults = {}
        PROVE  after.lowered = [j \in 1..i |-> LoweredSelection(a, O[j])]
    <3>1. after.lowered = Append([j \in 1..(i - 1) |-> LoweredSelection(a, O[j])],
                                 LoweredSelection(a, O[i]))
      BY <1>3, <2>3, <2>5
    <3> HIDE DEF after
    <3> DEFINE L(j) == LoweredSelection(a, O[j])
    <3> HIDE DEF L
    <3>2. Append([j \in 1..(i - 1) |-> L(j)], L(i)) = [j \in 1..i |-> L(j)]
      BY <2>1
    <3> QED
      BY <3>1, <3>2 DEF L
  <2> QED
    BY <2>3, <2>4, <2>5
<1>4. Wrong = {}
  <2> HIDE DEF Sofar
  <2> SUFFICES ASSUME Wrong # {} PROVE FALSE
    OBVIOUS
  <2>1. PICK i \in Wrong : \A k \in Wrong : i <= k
    <3>1. Wrong \in SUBSET Nat
      BY <1>1
    <3> HIDE DEF Wrong
    <3> QED
      BY <3>1, LeastNatural
  <2>2. i # 0
    BY <1>2
  <2>3. i \in 1..n /\ i - 1 \in 0..n /\ ~(i <= i - 1)
    BY <1>1, <2>2
  <2>4. Sofar(i - 1)
    BY <2>1, <2>3
  <2> QED
    BY <1>3, <2>3, <2>4
<1> QED
  BY <1>4

\* The names announced are as many as the tools exactly when no two share one.
LEMMA NamesAreDistinct ==
    ASSUME NEW a, AdmissionTyped(a)
    PROVE  /\ Duplicates(a.snapshot) = {} <=>
                Len(a.snapshot.tools) = Cardinality(Names(a.snapshot))
           /\ Duplicates(a.snapshot) = {} =>
                \A t, u \in ToSet(a.snapshot.tools) : t.name = u.name => t = u
<1> DEFINE Q == a.snapshot.tools
           n == Len(Q)
           N == Names(a.snapshot)
           f == [i \in 1..n |-> Q[i].name]
<1>1. n \in Nat /\ DOMAIN Q = 1..n /\ ToSet(Q) = {Q[i] : i \in 1..n}
  BY LenProperties DEF AdmissionTyped, ToSet
<1>2. f \in Surjection(1..n, N)
  <2>1. N = {f[i] : i \in 1..n}
    BY <1>1 DEF Names
  <2>2. f \in [1..n -> N]
    BY <2>1
  <2> QED
    BY <2>1, <2>2 DEF Surjection
<1>3. f \in Injection(1..n, N) <=> \A i, j \in 1..n : Q[i].name = Q[j].name => i = j
  BY <1>2 DEF Injection, Surjection, IsInjective
<1>4. Duplicates(a.snapshot) = {} <=>
        \A i, j \in 1..n : Q[i].name = Q[j].name => i = j
  BY <1>1 DEF Duplicates, Names
<1>5. IsFiniteSet(1..n) /\ Cardinality(1..n) = n
  <2>1. 1 \in Int /\ n \in Int /\ (1 > n => n = 0) /\ n - 1 + 1 = n
    BY <1>1
  <2> HIDE DEF n
  <2> QED
    BY <2>1, FS_Interval
<1>6. Cardinality(N) = n <=> f \in Injection(1..n, N)
  <2> HIDE DEF f, n, N
  <2> QED
    BY <1>2, <1>5, FS_Surjection
<1> QED
  BY <1>1, <1>3, <1>4, <1>6

\* The documents as a whole have no fault, clause by clause.
LEMMA DocumentsAgree ==
    ASSUME NEW a, AdmissionTyped(a)
    PROVE  FirstFaults(a) = {} <=>
             /\ a.manifest.connector = a.snapshot.identity.connector
             /\ IdentityMatches(a.manifest.expected, a.snapshot.identity)
             /\ Pinned(a.manifest.identityPin, a.snapshot.identity)
             /\ Pinned(a.manifest.snapshotPin, a.snapshot)
             /\ a.snapshot.identity.protocol \in a.policy.protocols
             /\ a.snapshot.identity.transport \in a.policy.transports
             /\ Len(a.snapshot.tools) = Cardinality(Names(a.snapshot))
             /\ \A t \in ToSet(a.snapshot.tools) : t.description # "secret"
             /\ \A d \in ToSet(a.manifest.denied) :
                   d.approval = "forbidden" /\ d.tool \in Names(a.snapshot)
<1>1. \A condition \in BOOLEAN : \A fault : When(condition, fault) = {} <=> ~condition
  BY DEF When
<1>2. \A pin, actual : Mismatch(pin, actual) = {} <=> Pinned(pin, actual)
  BY DEF Mismatch, When, Pinned
<1> DEFINE identity == a.snapshot.identity
           A == When(a.manifest.connector # identity.connector, "connector")
           B == When(~ IdentityMatches(a.manifest.expected, identity), "identity")
           C == Mismatch(a.manifest.identityPin, identity)
           D == When(identity.protocol \notin a.policy.protocols, "protocol")
           E == When(identity.transport \notin a.policy.transports, "transport")
           F == When(Duplicates(a.snapshot) # {}, "duplicate")
           G == IF \A t \in ToSet(a.snapshot.tools) : Hashable(t)
                THEN Mismatch(a.manifest.snapshotPin, a.snapshot)
                ELSE {"secret"}
<1>3. GlobalFaults(a) = {} <=> A = {} /\ B = {} /\ C = {} /\ D = {} /\ E = {}
                               /\ F = {} /\ G = {}
  <2>1. GlobalFaults(a) = UNION {A, B, C, D, E, F, G}
    BY DEF GlobalFaults
  <2> HIDE DEF A, B, C, D, E, F, G
  <2> QED
    BY <2>1
<1>4. /\ A = {} <=> a.manifest.connector = identity.connector
      /\ B = {} <=> IdentityMatches(a.manifest.expected, identity)
      /\ C = {} <=> Pinned(a.manifest.identityPin, identity)
      /\ D = {} <=> identity.protocol \in a.policy.protocols
      /\ E = {} <=> identity.transport \in a.policy.transports
      /\ F = {} <=> Duplicates(a.snapshot) = {}
  BY <1>2 DEF When
<1>5. G = {} <=> /\ \A t \in ToSet(a.snapshot.tools) : t.description # "secret"
                 /\ Pinned(a.manifest.snapshotPin, a.snapshot)
  BY <1>2 DEF Hashable
<1>6. DenialFaults(a) = {} <=>
        \A d \in ToSet(a.manifest.denied) :
           d.approval = "forbidden" /\ d.tool \in Names(a.snapshot)
  BY DEF DenialFaults, When
<1>7. FirstFaults(a) = {} <=> GlobalFaults(a) = {} /\ DenialFaults(a) = {}
  BY DEF FirstFaults
<1> HIDE DEF A, B, C, D, E, F, G
<1> QED
  BY <1>3, <1>4, <1>5, <1>6, <1>7, NamesAreDistinct

\* What is looked for in one tool is all there is to look for.
LEMMA FaultlessIffSound ==
    ASSUME NEW a, AdmissionTyped(a), ManifestValid(a.manifest),
           FirstFaults(a) = {}, NEW s \in ToSet(a.manifest.selected)
    PROVE  /\ Faultless(a, s) <=> SelectionSound(a, s)
           /\ Faultless(a, s) =>
                LoweredDescriptor(a, s) = Expected(s, ToolOf(a, s), a.policy)
<1> DEFINE tool == ToolOf(a, s)
           text == AdmittedDescription(s, tool, a.policy)
           input == AdmittedInput(s, tool)
           output == AdmittedOutput(s, tool)
           rtext == ReviewedText(s, tool, a.policy)
           rinput == ReviewedInput(s, tool)
           routput == ReviewedOutput(s, tool)
<1>1. SelectionTyped(s) /\ SelectionValid(s) /\ a.policy.roomy \in BOOLEAN
  BY DEF AdmissionTyped, ManifestValid
<1>2. \A other \in ToSet(a.manifest.denied) : other.tool # s.tool
  BY DEF ManifestValid
<1>3. /\ \A t, u \in ToSet(a.snapshot.tools) : t.name = u.name => t = u
      /\ \A t \in ToSet(a.snapshot.tools) : t.description # "secret"
  BY DocumentsAgree, NamesAreDistinct
<1>4. \A pin, actual : Mismatch(pin, actual) = {} <=> Pinned(pin, actual)
  BY DEF Mismatch, When, Pinned
<1>5. \A faults, value : /\ Lowered(faults, value).faults = faults
                         /\ faults = {} => Lowered(faults, value).value = value
  BY DEF Lowered
<1>6. CASE s.tool \notin Names(a.snapshot)
  <2>1. ~Faultless(a, s)
    BY <1>6 DEF Faultless
  <2>2. ~SelectionSound(a, s)
    BY <1>6 DEF SelectionSound, Names
  <2> QED
    BY <2>1, <2>2
<1>7. CASE s.tool \in Names(a.snapshot)
  <2>1. /\ tool \in ToSet(a.snapshot.tools) /\ tool.name = s.tool
        /\ AnnouncedTyped(tool)
    BY <1>7, ToolIsFound DEF AdmissionTyped, ToolOf
  <2>2. \A t \in ToSet(a.snapshot.tools) : t.name = s.tool <=> t = tool
    BY <1>3, <2>1
  <2>3. tool.description # "secret"
    BY <1>3, <2>1
  <2>4. /\ (text.faults = {} /\ text.value # "blank") <=>
             /\ rtext \notin {Absent, "blank"}
             /\ rtext = "long" => a.policy.roomy
        /\ text.faults = {} => text.value = rtext
    <3> HIDE DEF tool
    <3>1. CASE s.descriptionPolicy = "operator"
      BY <1>1, <1>5, <3>1 DEF AdmittedDescription, ReviewedText, SelectionTyped,
                            TooLong, When
    <3>2. CASE s.descriptionPolicy = "rejected"
      BY <1>1, <1>5, <3>2 DEF AdmittedDescription, ReviewedText
    <3>3. CASE s.descriptionPolicy = "sanitized"
      BY <1>1, <1>5, <2>3, <3>3 DEF AdmittedDescription, ReviewedText, Tidy, When,
                                  SelectionTyped, NeedsOperatorText
    <3> QED
      BY <1>1, <3>1, <3>2, <3>3 DEF SelectionTyped
  <2>5. /\ input.faults = {} <=> rinput \notin {Absent, "unsupported"}
        /\ input.faults = {} => input.value = rinput
    BY <1>1, <1>4, <1>5, <2>1
    DEF AdmittedInput, ReviewedInput, ExactSchema, SelectionValid, AnnouncedTyped,
        When, Pinned
  <2>6. /\ output.faults = {} <=> routput \notin {Absent, "unsupported"}
        /\ output.faults = {} => output.value = routput
    BY <1>1, <1>4, <1>5, <2>1
    DEF AdmittedOutput, ReviewedOutput, ExactSchema, SelectionValid, AnnouncedTyped,
        When, Pinned
  <2> DEFINE d == LoweredDescriptor(a, s)
             e == Expected(s, tool, a.policy)
             clear == text.faults = {} /\ input.faults = {} /\ output.faults = {}
  <2>7. d = Descriptor(s, text.value, input.value, output.value)
    BY DEF LoweredDescriptor
  <2>8. DescriptorValid(d) <=> text.value # "blank"
    BY <2>7 DEF DescriptorValid, Descriptor
  <2>9. clear => e = d
    <3> HIDE DEF text, input, output, rtext, rinput, routput, tool
    <3>1. e = Descriptor(s, rtext, rinput, routput)
      BY DEF Expected, rtext, rinput, routput
    <3> HIDE DEF e, d
    <3> QED
      BY <2>4, <2>5, <2>6, <2>7, <3>1
  <2>10. clear /\ DescriptorValid(d) <=> Answerable(s, tool, a.policy)
    <3> HIDE DEF text, input, output, rtext, rinput, routput, tool, d
    <3>1. Answerable(s, tool, a.policy) <=>
            /\ Absent \notin {rtext, rinput, routput}
            /\ rtext # "blank" /\ "unsupported" \notin {rinput, routput}
            /\ rtext = "long" => a.policy.roomy
      BY DEF Answerable, rtext, rinput, routput
    <3> QED
      BY <2>4, <2>5, <2>6, <2>8, <3>1
  <2>11. SelectionSound(a, s) <=>
           /\ Answerable(s, tool, a.policy)
           /\ s.capabilities # {} /\ s.capabilities \subseteq a.policy.capabilities
           /\ s.effect \in DOMAIN a.policy.matrix
           /\ s.approval \in a.policy.matrix[s.effect]
           /\ Pinned(s.rawPin, tool)
           /\ Pinned(s.descriptorPin, e)
           /\ Pinned(s.recordPin, Record(a, s, tool, e))
    <3>1. /\ s.approval # "forbidden"
          /\ s.approval = "none" => s.effect = "read_only"
      BY <1>1 DEF SelectionValid, SideEffect, Approved
    <3> HIDE DEF tool
    <3> QED
      BY <1>2, <2>1, <2>2, <3>1 DEF SelectionSound
  <2>12. Faultless(a, s) <=>
           /\ clear /\ DescriptorValid(d)
           /\ s.capabilities # {} /\ s.capabilities \subseteq a.policy.capabilities
           /\ s.effect \in DOMAIN a.policy.matrix
           /\ s.approval \in a.policy.matrix[s.effect]
           /\ Pinned(s.rawPin, tool)
           /\ Pinned(s.descriptorPin, d)
           /\ Pinned(s.recordPin, Record(a, s, tool, d))
    <3>1. CapabilityFaults(s, a.policy) = {} <=>
            s.capabilities # {} /\ s.capabilities \subseteq a.policy.capabilities
      BY DEF CapabilityFaults, When
    <3>2. ApprovalFaults(s, a.policy) = {} <=>
            /\ s.effect \in DOMAIN a.policy.matrix
            /\ s.approval \in a.policy.matrix[s.effect]
      BY DEF ApprovalFaults, When
    <3>3. LoweredSelection(a, s).record = Record(a, s, tool, d)
      BY DEF LoweredSelection
    <3> HIDE DEF d
    <3> QED
      BY <1>4, <1>7, <3>1, <3>2, <3>3 DEF Faultless, d
  <2> HIDE DEF d, e, clear
  <2>13. Faultless(a, s) => d = e
    BY <2>9, <2>12
  <2> QED
    BY <2>9, <2>10, <2>11, <2>12, <2>13 DEF d, e
<1> QED
  BY <1>6, <1>7

\* The result of an admission, whatever the documents.
LEMMA AdmissionIsExact ==
    ASSUME NEW a, AdmissionTyped(a)
    PROVE  LET result == AdmissionResult(a) IN
           /\ result.accepted <=> Sound(a)
           /\ result.accepted =>
                /\ ToSet(result.descriptors) =
                     {Expected(s, ToolNamed(a.snapshot, s.tool), a.policy)
                        : s \in ToSet(a.manifest.selected)}
                /\ [i \in DOMAIN result.records |->
                      result.records[i].descriptor] = result.descriptors
                /\ \A record \in ToSet(result.records) :
                      \E s \in ToSet(a.manifest.selected) :
                         LET tool == ToolNamed(a.snapshot, s.tool) IN
                         record = Record(a, s, tool, Expected(s, tool, a.policy))
           /\ ~ result.accepted => result = Rejected
<1> DEFINE result == AdmissionResult(a)
           n == Len(a.manifest.selected)
           O == InOrder(a.manifest.selected)
           last == Lowering(a)[n]
           L == [j \in 1..n |-> LoweredSelection(a, O[j])]
<1>1. CASE ~ManifestValid(a.manifest) \/ ~PolicyValid(a.policy)
  <2>1. result = Rejected
    BY <1>1 DEF AdmissionResult
  <2>2. ~Sound(a)
    BY <1>1 DEF Sound
  <2> QED
    BY <2>1, <2>2 DEF Rejected
<1>2. CASE ManifestValid(a.manifest) /\ PolicyValid(a.policy)
  <2>1. /\ n \in Nat /\ n \in 0..n /\ Len(O) = n
        /\ O \in Seq(ToSet(a.manifest.selected))
        /\ ToSet(O) = ToSet(a.manifest.selected)
    BY <1>2, OrderIsComplete, LenProperties
  <2>2. ToSet(O) = {O[j] : j \in 1..n}
    BY <2>1 DEF ToSet
  <2>3. /\ last.faults = {} <=> /\ FirstFaults(a) = {}
                                /\ \A j \in 1..n : Faultless(a, O[j])
        /\ last.faults = {} => last.lowered = L
    BY <1>2, <2>1, LoweringFinds
  <2>4. last.faults = {} <=> Sound(a)
    <3>1. FirstFaults(a) = {} /\ (\A s \in ToSet(O) : Faultless(a, s)) <=> Sound(a)
      <4>1. CASE FirstFaults(a) = {}
        <5>1. \A s \in ToSet(a.manifest.selected) :
                 Faultless(a, s) <=> SelectionSound(a, s)
          BY <1>2, <4>1, FaultlessIffSound
        <5> HIDE DEF O
        <5> QED
          BY <1>2, <2>1, <4>1, <5>1, DocumentsAgree DEF Sound
      <4>2. CASE FirstFaults(a) # {}
        BY <4>2, DocumentsAgree DEF Sound
      <4> QED
        BY <4>1, <4>2
    <3> HIDE DEF last, O
    <3> QED
      BY <2>2, <2>3, <3>1
  <2>5. result = IF Sound(a) THEN Accepted(L) ELSE Rejected
    <3>1. result = IF Blocking(FirstFaults(a)) \/ last.faults # {}
                   THEN Rejected ELSE Accepted(last.lowered)
      BY <1>2 DEF AdmissionResult
    <3>2. FirstFaults(a) = {} => ~Blocking(FirstFaults(a))
      BY DEF Blocking
    <3> HIDE DEF last, L, O
    <3> QED
      BY <2>3, <2>4, <3>1, <3>2
  <2>6. CASE ~Sound(a)
    <3>1. result = Rejected
      BY <2>5, <2>6
    <3> QED
      BY <2>6, <3>1 DEF Rejected
  <2>7. CASE Sound(a)
    <3> DEFINE D(s) == LoweredDescriptor(a, s)
               R(s) == Record(a, s, ToolOf(a, s), D(s))
    <3>1. /\ result.accepted
          /\ result.descriptors = [j \in 1..n |-> D(O[j])]
          /\ result.records = [j \in 1..n |-> R(O[j])]
      <4>1. result = Accepted(L)
        BY <2>5, <2>7
      <4>2. \A j \in 1..n : /\ L[j].descriptor = D(O[j])
                            /\ L[j].record = R(O[j])
        BY DEF LoweredSelection
      <4>3. DOMAIN L = 1..n
        OBVIOUS
      <4> HIDE DEF L, D, R, O, n
      <4> QED
        BY <4>1, <4>2, <4>3 DEF Accepted
    <3>2. \A s \in ToSet(a.manifest.selected) :
             D(s) = Expected(s, ToolOf(a, s), a.policy)
      <4>1. FirstFaults(a) = {} /\ \A s \in ToSet(a.manifest.selected) : SelectionSound(a, s)
        BY <2>7, DocumentsAgree DEF Sound
      <4> QED
        BY <1>2, <4>1, FaultlessIffSound
    <3>3. \A s : R(s).descriptor = D(s)
      BY DEF Record
    <3> HIDE DEF result, O, n, D
    <3>4. ToSet(result.descriptors) = {D(O[j]) : j \in 1..n}
      BY <3>1 DEF ToSet
    <3>5. ToSet(result.records) = {R(O[j]) : j \in 1..n}
      <4> HIDE DEF R
      <4> QED
        BY <3>1 DEF ToSet
    <3>6. ToSet(result.descriptors) =
            {Expected(s, ToolOf(a, s), a.policy) : s \in ToSet(a.manifest.selected)}
      BY <2>1, <2>2, <3>2, <3>4
    <3>7. [i \in DOMAIN result.records |-> result.records[i].descriptor]
            = result.descriptors
      <4> HIDE DEF R
      <4> QED
        BY <3>1, <3>3
    <3>8. ASSUME NEW record \in ToSet(result.records)
          PROVE  \E s \in ToSet(a.manifest.selected) :
                    record = Record(a, s, ToolOf(a, s),
                                    Expected(s, ToolOf(a, s), a.policy))
      <4>1. PICK j \in 1..n : record = R(O[j])
        BY <3>5
      <4>2. O[j] \in ToSet(a.manifest.selected)
            /\ D(O[j]) = Expected(O[j], ToolOf(a, O[j]), a.policy)
        BY <2>1, <2>2, <3>2
      <4> QED
        BY <4>1, <4>2
    <3> QED
      BY <2>7, <3>1, <3>6, <3>7, <3>8 DEF ToolOf, result
  <2> QED
    BY <2>6, <2>7
<1> QED
  BY <1>1, <1>2

-----------------------------------------------------------------------------
(***************************************************************************)
(* The compilation of custom tools, in the same way.                       *)
(***************************************************************************)
LEMMA CompilingRuns ==
    ASSUME NEW c, SourceTyped(c)
    PROVE  \A i \in 0..Len(c.source.tools) :
              Compiling(c.source, c.policy)[i] =
                IF i = 0
                THEN [faults |-> SourceFaults(c.source, c.policy), lowered |-> <<>>]
                ELSE LowerDeclaration(c.source, c.policy,
                                      Compiling(c.source, c.policy)[i - 1],
                                      c.source.tools[i])
<1> DEFINE n == Len(c.source.tools)
           Turn(sofar, i) == LowerDeclaration(c.source, c.policy, sofar, c.source.tools[i])
           Zero == [faults |-> SourceFaults(c.source, c.policy), lowered |-> <<>>]
           Runs(f, m) ==
             f = [i \in 0..m |-> IF i = 0 THEN Zero ELSE Turn(f[i - 1], i)]
           Stuck == {m \in Nat : ~\E f : Runs(f, m)}
<1>1. n \in Nat
  BY LenProperties DEF SourceTyped
<1>2. Runs([i \in 0..0 |-> Zero], 0)
  <2> HIDE DEF Turn, Zero
  <2> QED
    OBVIOUS
<1>3. ASSUME NEW m \in Nat, NEW f, Runs(f, m)
      PROVE  Runs([i \in 0..(m + 1) |-> IF i = m + 1 THEN Turn(f[m], m + 1)
                                        ELSE f[i]], m + 1)
  <2> HIDE DEF Turn, Zero
  <2> QED
    BY <1>3
<1>4. Stuck = {}
  <2> HIDE DEF Runs
  <2> SUFFICES ASSUME Stuck # {} PROVE FALSE
    OBVIOUS
  <2>1. PICK m \in Stuck : \A k \in Stuck : m <= k
    BY LeastNatural
  <2>2. m # 0
    BY <1>2
  <2>3. m - 1 \in Nat /\ m - 1 \notin Stuck /\ (m - 1) + 1 = m
    BY <2>1, <2>2
  <2>4. PICK f : Runs(f, m - 1)
    BY <2>3
  <2>5. \E g : Runs(g, (m - 1) + 1)
    BY <1>3, <2>3, <2>4
  <2> QED
    BY <2>1, <2>3, <2>5
<1>5. Compiling(c.source, c.policy) = CHOOSE f : Runs(f, n)
  BY DEF Compiling
<1>6. Runs(Compiling(c.source, c.policy), n)
  <2> HIDE DEF Runs
  <2> QED
    BY <1>1, <1>4, <1>5
<1> HIDE DEF n, Turn, Zero
<1>7. \A i \in 0..n : Compiling(c.source, c.policy)[i] =
         IF i = 0 THEN Zero ELSE Turn(Compiling(c.source, c.policy)[i - 1], i)
  BY <1>6
<1> QED
  BY <1>7 DEF n, Turn, Zero

\* After i turns, as in LoweringFinds.
LEMMA CompilingFinds ==
    ASSUME NEW c, SourceTyped(c)
    PROVE  LET T == c.source.tools
               sofar == Compiling(c.source, c.policy)
           IN  \A i \in 0..Len(T) :
                  /\ sofar[i].faults = {} <=>
                        /\ SourceFaults(c.source, c.policy) = {}
                        /\ \A j \in 1..i :
                              DeclarationFaults(c.source, c.policy, T[j]) = {}
                  /\ sofar[i].faults = {} =>
                        sofar[i].lowered =
                          [j \in 1..i |->
                             [descriptor |-> DeclaredDescriptor(T[j]),
                              record |-> CompilationRecord(c.source, T[j])]]
<1> DEFINE n == Len(c.source.tools)
           C == Compiling(c.source, c.policy)
           First == SourceFaults(c.source, c.policy)
           Bad(j) == DeclarationFaults(c.source, c.policy, c.source.tools[j])
           L(j) == [descriptor |-> DeclaredDescriptor(c.source.tools[j]),
                    record |-> CompilationRecord(c.source, c.source.tools[j])]
           Sofar(i) ==
             /\ C[i].faults = {} <=> First = {} /\ \A j \in 1..i : Bad(j) = {}
             /\ C[i].faults = {} => C[i].lowered = [j \in 1..i |-> L(j)]
           Wrong == {i \in 0..n : ~Sofar(i)}
<1>1. n \in Nat
  BY LenProperties DEF SourceTyped
<1>2. C[0] = [faults |-> First, lowered |-> <<>>]
  BY <1>1, CompilingRuns
<1>3. \A i \in 1..n :
         /\ C[i].faults = C[i - 1].faults \cup Bad(i)
         /\ C[i].faults = {} => C[i].lowered = Append(C[i - 1].lowered, L(i))
  <2> TAKE i \in 1..n
  <2>1. i \in 0..n /\ i # 0
    BY <1>1
  <2>2. C[i] = LowerDeclaration(c.source, c.policy, C[i - 1], c.source.tools[i])
    BY <2>1, CompilingRuns
  <2> HIDE DEF C, n
  <2> QED
    BY <2>2 DEF LowerDeclaration
<1> HIDE DEF C, First, Bad, L
<1>4. Sofar(0)
  <2>1. [j \in 1..0 |-> L(j)] = <<>>
    OBVIOUS
  <2> QED
    BY <1>2, <2>1
<1>5. ASSUME NEW i \in 1..n, Sofar(i - 1) PROVE Sofar(i)
  <2>1. i \in Nat /\ i - 1 \in Nat /\ 1..i = (1..(i - 1)) \cup {i}
    BY <1>1
  <2>2. C[i].faults = {} <=> First = {} /\ \A j \in 1..i : Bad(j) = {}
    <3>1. C[i].faults = {} <=> C[i - 1].faults = {} /\ Bad(i) = {}
      BY <1>3
    <3> QED
      BY <1>5, <2>1, <3>1
  <2>3. ASSUME C[i].faults = {} PROVE C[i].lowered = [j \in 1..i |-> L(j)]
    <3>1. C[i - 1].faults = {} /\ Bad(i) = {}
      BY <1>3, <2>3
    <3>2. C[i].lowered = Append([j \in 1..(i - 1) |-> L(j)], L(i))
      BY <1>3, <1>5, <3>1
    <3>3. Append([j \in 1..(i - 1) |-> L(j)], L(i)) = [j \in 1..i |-> L(j)]
      BY <2>1
    <3> QED
      BY <3>2, <3>3
  <2> QED
    BY <2>2, <2>3
<1>6. Wrong = {}
  <2> HIDE DEF Sofar
  <2> SUFFICES ASSUME Wrong # {} PROVE FALSE
    OBVIOUS
  <2>1. PICK i \in Wrong : \A k \in Wrong : i <= k
    <3>1. Wrong \in SUBSET Nat
      BY <1>1
    <3> HIDE DEF Wrong
    <3> QED
      BY <3>1, LeastNatural
  <2>2. i # 0
    BY <1>4
  <2>3. i \in 1..n /\ i - 1 \in 0..n /\ ~(i <= i - 1)
    BY <1>1, <2>2
  <2>4. Sofar(i - 1)
    BY <2>1, <2>3
  <2> QED
    BY <1>5, <2>3, <2>4
<1>7. \A i \in 0..n : Sofar(i)
  BY <1>6
<1> QED
  BY <1>7 DEF n, C, First, Bad, L

\* The result of a compilation, whatever the documents.
LEMMA CompilationIsExact ==
    ASSUME NEW c, SourceTyped(c)
    PROVE  LET result == CompilationResult(c.source, c.policy) IN
           /\ result.accepted <=> SourceSound(c.source, c.policy)
           /\ ToSet(result.descriptors) =
                IF result.accepted
                  THEN {DeclaredDescriptor(t) : t \in ToSet(c.source.tools)}
                  ELSE {}
<1> DEFINE result == CompilationResult(c.source, c.policy)
           source == c.source
           policy == c.policy
           T == source.tools
           n == Len(T)
           last == Compiling(source, policy)[n]
           L == [j \in 1..n |-> [descriptor |-> DeclaredDescriptor(T[j]),
                                 record |-> CompilationRecord(source, T[j])]]
           Judgeable == ~ Hazardous(source) /\ SourceValid(source) /\ PolicyValid(policy)
<1>1. /\ n \in Nat /\ n \in 0..n /\ DOMAIN T = 1..n
      /\ ToSet(T) = {T[j] : j \in 1..n}
  BY LenProperties DEF SourceTyped, ToSet
<1>2. /\ last.faults = {} <=>
           /\ SourceFaults(source, policy) = {}
           /\ \A j \in 1..n : DeclarationFaults(source, policy, T[j]) = {}
      /\ last.faults = {} => last.lowered = L
  BY <1>1, CompilingFinds
<1>3. \A pin, actual : actual # Absent =>
         (PinFaults(pin, actual, policy) = {} <=>
            IF policy.pinned THEN pin = actual ELSE Pinned(pin, actual))
  BY DEF PinFaults, Mismatch, When, Pinned, SourceTyped
<1>4. SourceFaults(source, policy) = {} <=>
         /\ n <= policy.limit
         /\ IF policy.pinned THEN source.sourcePin = SourceDigest(source)
            ELSE Pinned(source.sourcePin, SourceDigest(source))
         /\ \A i, j \in 1..n : i # j => T[i].artifacts \cap T[j].artifacts = {}
  <2> DEFINE A == When(n > policy.limit, "limit")
             B == PinFaults(source.sourcePin, SourceDigest(source), policy)
             D == When(\E i, j \in DOMAIN T :
                          i # j /\ T[i].artifacts \cap T[j].artifacts # {}, "artifact")
  <2>1. A = {} <=> n <= policy.limit
    BY <1>1 DEF When, SourceTyped
  <2>2. B = {} <=> IF policy.pinned THEN source.sourcePin = SourceDigest(source)
                   ELSE Pinned(source.sourcePin, SourceDigest(source))
    BY <1>3 DEF SourceTyped
  <2>3. D = {} <=> \A i, j \in 1..n : i # j => T[i].artifacts \cap T[j].artifacts = {}
    BY <1>1 DEF When
  <2>4. SourceFaults(source, policy) = UNION {A, B, D}
    BY DEF SourceFaults
  <2> HIDE DEF A, B, D
  <2>5. SourceFaults(source, policy) = {} <=> A = {} /\ B = {} /\ D = {}
    BY <2>4
  <2> QED
    BY <2>1, <2>2, <2>3, <2>5
<1> DEFINE Right(t) ==
             /\ IF policy.pinned THEN t.declarationPin = Unpinned(t)
                ELSE Pinned(t.declarationPin, Unpinned(t))
             /\ IF policy.pinned THEN t.descriptorPin = DeclaredDescriptor(t)
                ELSE Pinned(t.descriptorPin, DeclaredDescriptor(t))
             /\ IF policy.pinned THEN t.recordPin = CompilationRecord(source, t)
                ELSE Pinned(t.recordPin, CompilationRecord(source, t))
             /\ t.capabilities \subseteq policy.capabilities
             /\ t.effect \in DOMAIN policy.matrix
             /\ t.approval \in policy.matrix[t.effect]
             /\ t.artifacts = {} \/ t.approval # "none"
             /\ policy.roomy \/ "big" \notin {t.input, t.output}
             /\ policy.roomy \/ t.description # "long"
<1>5. ASSUME NEW t \in ToSet(T)
      PROVE  DeclarationFaults(source, policy, t) = {} <=> Right(t)
  <2> DEFINE A == When(TooLong(t.description, policy), "limit")
             B == When("big" \in {t.input, t.output} /\ ~ policy.roomy, "schema")
             C == When(~ t.capabilities \subseteq policy.capabilities, "capability")
             D == ApprovalFaults(t, policy)
             E == When(t.artifacts # {} /\ t.approval = "none", "approval")
             F == PinFaults(t.declarationPin, Unpinned(t), policy)
             G == PinFaults(t.descriptorPin, DeclaredDescriptor(t), policy)
             H == PinFaults(t.recordPin, CompilationRecord(source, t), policy)
  <2>1. DeclarationFaults(source, policy, t) = UNION {A, B, C, D, E, F, G, H}
    BY DEF DeclarationFaults
  <2>2. /\ A = {} <=> policy.roomy \/ t.description # "long"
        /\ B = {} <=> policy.roomy \/ "big" \notin {t.input, t.output}
        /\ C = {} <=> t.capabilities \subseteq policy.capabilities
        /\ E = {} <=> t.artifacts = {} \/ t.approval # "none"
    BY DEF When, TooLong
  <2>3. D = {} <=> t.effect \in DOMAIN policy.matrix
                   /\ t.approval \in policy.matrix[t.effect]
    BY DEF ApprovalFaults, When
  <2>4. Absent \notin {Unpinned(t), DeclaredDescriptor(t), CompilationRecord(source, t)}
    BY DEF SourceTyped
  <2>5. /\ F = {} <=> IF policy.pinned THEN t.declarationPin = Unpinned(t)
                      ELSE Pinned(t.declarationPin, Unpinned(t))
        /\ G = {} <=> IF policy.pinned THEN t.descriptorPin = DeclaredDescriptor(t)
                      ELSE Pinned(t.descriptorPin, DeclaredDescriptor(t))
        /\ H = {} <=> IF policy.pinned THEN t.recordPin = CompilationRecord(source, t)
                      ELSE Pinned(t.recordPin, CompilationRecord(source, t))
    BY <1>3, <2>4
  <2> HIDE DEF A, B, C, D, E, F, G, H
  <2>6. DeclarationFaults(source, policy, t) = {} <=>
          A = {} /\ B = {} /\ C = {} /\ D = {} /\ E = {} /\ F = {} /\ G = {} /\ H = {}
    BY <2>1
  <2> QED
    BY <2>2, <2>3, <2>5, <2>6
<1>6. SourceSound(source, policy) <=>
        /\ Judgeable
        /\ n <= policy.limit
        /\ \A i, j \in 1..n : i # j => T[i].artifacts \cap T[j].artifacts = {}
        /\ IF policy.pinned THEN source.sourcePin = SourceDigest(source)
           ELSE Pinned(source.sourcePin, SourceDigest(source))
        /\ \A t \in ToSet(T) : Right(t)
  <2> DEFINE Held(t) ==
        LET pins == <<t.declarationPin, t.descriptorPin, t.recordPin,
                      source.sourcePin>>
            actual == <<Unpinned(t), DeclaredDescriptor(t),
                        CompilationRecord(source, t), SourceDigest(source)>>
        IN  /\ \A i \in 1 .. 4 : IF policy.pinned THEN pins[i] = actual[i]
                                  ELSE Pinned(pins[i], actual[i])
            /\ t.capabilities \subseteq policy.capabilities
            /\ t.effect \in DOMAIN policy.matrix
            /\ t.approval \in policy.matrix[t.effect]
            /\ t.approval = "none" => t.effect = "read_only" /\ t.artifacts = {}
            /\ policy.roomy \/ "big" \notin {t.input, t.output}
            /\ policy.roomy \/ t.description # "long"
  <2>1. SourceSound(source, policy) <=>
          /\ Judgeable
          /\ n <= policy.limit
          /\ \A i, j \in 1..n : i # j => T[i].artifacts \cap T[j].artifacts = {}
          /\ \A t \in ToSet(T) : Held(t)
    <3> HIDE DEF Held
    <3>1. DOMAIN source.tools = 1..n
      BY <1>1
    <3> QED
      BY <3>1 DEF SourceSound, Held
  <2>2. ASSUME Judgeable, NEW t \in ToSet(T)
        PROVE  Held(t) <=> /\ Right(t)
                           /\ IF policy.pinned THEN source.sourcePin = SourceDigest(source)
                              ELSE Pinned(source.sourcePin, SourceDigest(source))
    <3>1. t.approval = "none" => t.effect = "read_only"
      BY <2>2 DEF SourceValid, DeclarationValid, SideEffect, Approved
    <3>2. 1..4 = {1, 2, 3, 4}
      OBVIOUS
    <3> QED
      BY <3>1, <3>2
  <2>3. ASSUME Judgeable PROVE \E t \in ToSet(T) : TRUE
    <3>1. T # <<>>
      BY <2>3 DEF SourceValid
    <3>2. n # 0
      BY <1>1, <3>1, EmptySeq DEF SourceTyped
    <3>3. 1 \in 1..n
      BY <1>1, <3>2
    <3> QED
      BY <1>1, <3>3
  <2> HIDE DEF Held, Right
  <2> QED
    BY <2>1, <2>2, <2>3
<1>7. Judgeable /\ last.faults = {} <=> SourceSound(source, policy)
  <2> HIDE DEF Right, Judgeable, last, T, n, L
  <2> QED
    BY <1>1, <1>2, <1>4, <1>5, <1>6
<1>8. result = IF SourceSound(source, policy) THEN Accepted(L) ELSE Rejected
  <2>1. result = IF ~Judgeable \/ last.faults # {} THEN Rejected
                 ELSE Accepted(last.lowered)
    BY DEF CompilationResult
  <2> HIDE DEF last, L, Judgeable
  <2> QED
    BY <1>2, <1>7, <2>1
<1>9. CASE ~SourceSound(source, policy)
  <2>1. result = Rejected
    BY <1>8, <1>9
  <2>2. ToSet(<<>>) = {}
    BY DEF ToSet
  <2> QED
    BY <1>9, <2>1, <2>2 DEF Rejected
<1>10. CASE SourceSound(source, policy)
  <2>1. result.accepted
        /\ result.descriptors = [j \in 1..n |-> DeclaredDescriptor(T[j])]
    <3>1. result = Accepted(L)
      BY <1>8, <1>10
    <3>2. DOMAIN L = 1..n /\ \A j \in 1..n : L[j].descriptor = DeclaredDescriptor(T[j])
      OBVIOUS
    <3> HIDE DEF L, result
    <3> QED
      BY <3>1, <3>2 DEF Accepted
  <2> HIDE DEF result, n, T
  <2>2. ToSet(result.descriptors) = {DeclaredDescriptor(T[j]) : j \in 1..n}
    BY <2>1 DEF ToSet
  <2>3. ToSet(result.descriptors) = {DeclaredDescriptor(t) : t \in ToSet(T)}
    BY <1>1, <2>2
  <2> QED
    BY <1>10, <2>1, <2>3 DEF result, T
<1> QED
  BY <1>9, <1>10

-----------------------------------------------------------------------------
(***************************************************************************)
(* From the documents to a call.                                           *)
(***************************************************************************)
\* Whatever was judged is a document of this behaviour, judged as it stands.
JudgedAsWritten ==
  /\ \A r \in admitted : \E a \in scenario.admissions :
        r = [input |-> a, result |-> AdmissionResult(a)]
  /\ \A r \in compiled : \E c \in scenario.sources :
        r = [input |-> c, result |-> CompilationResult(c.source, c.policy)]

\* A node an executor does not refuse is registered in its process, and its
\* records are of some admission.
ExecutorIsBacked ==
  executor # Absent =>
    /\ executor.nodes \ executor.defective \subseteq registry.entries
    /\ executor.records \subseteq Records

\* The session is the last one started.
SessionIsLatest == session # Absent => session.run = run

AdmissionInv ==
  /\ scenario \in Scenarios
  /\ JudgedAsWritten /\ ExecutorIsBacked /\ SessionIsLatest
  /\ EntryIsLicensed

\* What was judged, was judged right.
LEMMA JudgedRight ==
    ASSUME scenario \in Scenarios, JudgedAsWritten
    PROVE  AdmissionExact
<1>1. ASSUME NEW r \in admitted
      PROVE  LET a == r.input IN
             /\ r.result.accepted <=> Sound(a)
             /\ r.result.accepted =>
                  /\ ToSet(r.result.descriptors) =
                       {Expected(s, ToolNamed(a.snapshot, s.tool), a.policy)
                          : s \in ToSet(a.manifest.selected)}
                  /\ [i \in DOMAIN r.result.records |->
                        r.result.records[i].descriptor] = r.result.descriptors
                  /\ \A record \in ToSet(r.result.records) :
                        \E s \in ToSet(a.manifest.selected) :
                           LET tool == ToolNamed(a.snapshot, s.tool) IN
                           record = Record(a, s, tool, Expected(s, tool, a.policy))
             /\ ~ r.result.accepted => r.result = Rejected
  <2>1. PICK a \in scenario.admissions : r = [input |-> a, result |-> AdmissionResult(a)]
    BY <1>1 DEF JudgedAsWritten
  <2>2. r.input = a /\ r.result = AdmissionResult(a) /\ AdmissionTyped(a)
    BY <2>1, DocumentAssumption
  <2> QED
    BY <2>2, AdmissionIsExact
<1>2. ASSUME NEW r \in compiled
      PROVE  LET source == r.input.source IN
             /\ r.result.accepted <=> SourceSound(source, r.input.policy)
             /\ ToSet(r.result.descriptors) =
                  IF r.result.accepted
                    THEN {DeclaredDescriptor(t) : t \in ToSet(source.tools)}
                    ELSE {}
  <2>1. PICK c \in scenario.sources :
           r = [input |-> c, result |-> CompilationResult(c.source, c.policy)]
    BY <1>2 DEF JudgedAsWritten
  <2>2. /\ r.input = c /\ r.result = CompilationResult(c.source, c.policy)
        /\ SourceTyped(c)
    BY <2>1, DocumentAssumption
  <2> QED
    BY <2>2, CompilationIsExact
<1> QED
  BY <1>1, <1>2 DEF AdmissionExact

\* Where a record comes from: a selection of an accepted manifest, which is
\* valid.
LEMMA RecordsAreSelected ==
    ASSUME scenario \in Scenarios, JudgedAsWritten, NEW record \in Records
    PROVE  \E r \in admitted : \E s \in ToSet(r.input.manifest.selected) :
             LET tool == ToolNamed(r.input.snapshot, s.tool) IN
             /\ record \in ToSet(r.result.records)
             /\ record.descriptor \in ToSet(r.result.descriptors)
             /\ record = Record(r.input, s, tool, Expected(s, tool, r.input.policy))
             /\ SelectionValid(s)
<1>1. PICK r \in admitted : record \in ToSet(r.result.records)
  BY DEF Records
<1>2. PICK a \in scenario.admissions : r = [input |-> a, result |-> AdmissionResult(a)]
  BY DEF JudgedAsWritten
<1>3. r.input = a /\ r.result = AdmissionResult(a) /\ AdmissionTyped(a)
  BY <1>2, DocumentAssumption
<1>4. r.result.accepted
  <2>1. ToSet(Rejected.records) = {}
    BY DEF Rejected, ToSet
  <2> QED
    BY <1>1, <1>3, <2>1, AdmissionIsExact
<1>5. Sound(a) /\ ManifestValid(a.manifest)
  BY <1>3, <1>4, AdmissionIsExact DEF Sound
<1>6. PICK s \in ToSet(a.manifest.selected) :
         LET tool == ToolNamed(a.snapshot, s.tool) IN
         record = Record(a, s, tool, Expected(s, tool, a.policy))
  <2>1. \A q \in ToSet(AdmissionResult(a).records) :
           \E s \in ToSet(a.manifest.selected) :
              LET tool == ToolNamed(a.snapshot, s.tool) IN
              q = Record(a, s, tool, Expected(s, tool, a.policy))
    BY <1>3, <1>4, AdmissionIsExact, ZenonT(40)
  <2> QED
    BY <1>1, <1>3, <2>1
<1>7. record.descriptor \in ToSet(r.result.descriptors)
  <2>1. PICK i \in DOMAIN r.result.records : record = r.result.records[i]
    BY <1>1 DEF ToSet
  <2>2. [j \in DOMAIN r.result.records |-> r.result.records[j].descriptor]
          = r.result.descriptors
    BY <1>3, <1>4, AdmissionIsExact
  <2>3. i \in DOMAIN r.result.descriptors
        /\ r.result.descriptors[i] = record.descriptor
    BY <2>1, <2>2
  <2> QED
    BY <2>3 DEF ToSet
<1>8. SelectionValid(s)
  BY <1>5 DEF ManifestValid
<1> QED
  BY <1>1, <1>3, <1>6, <1>7, <1>8

LEMMA AdmissionInvInit == AdmissionInit => AdmissionInv
<1> SUFFICES ASSUME AdmissionInit PROVE AdmissionInv
  OBVIOUS
<1> QED
  BY DEF AdmissionInit, AdmissionInv, JudgedAsWritten, ExecutorIsBacked,
         SessionIsLatest, EntryIsLicensed, EntryIsAdmitted, ApprovalIsInForce

\* An entry is the work of the step that makes it.
LEMMA CallIsLicensed ==
    ASSUME AdmissionInv, executor # Absent, NEW node \in executor.nodes,
           CallConnector(node) \/ CallLocal(node)
    PROVE  AdmissionInv'
<1>1. /\ MayCall(node)
      /\ UNCHANGED <<scenario, live, admitted, compiled, registry, plan, executor,
                     session, run, now>>
  BY DEF CallConnector, CallLocal
<1>2. /\ scenario' \in Scenarios /\ JudgedAsWritten' /\ ExecutorIsBacked'
      /\ SessionIsLatest'
  BY <1>1 DEF AdmissionInv, JudgedAsWritten, ExecutorIsBacked, SessionIsLatest, Records
<1>3. /\ node \in registry.entries
      /\ node.capabilities \subseteq session.capabilities
      /\ session # Absent /\ session.run = run
  BY <1>1 DEF AdmissionInv, ExecutorIsBacked, SessionIsLatest, MayCall
<1>4. CASE CallLocal(node)
  <2>1. entry' = [node |-> node, record |-> Absent]
    BY <1>4 DEF CallLocal
  <2>2. EntryIsLicensed'
    BY <1>1, <1>3, <2>1 DEF EntryIsLicensed, EntryIsAdmitted, ApprovalIsInForce
  <2> QED
    BY <1>2, <2>2 DEF AdmissionInv
<1>5. CASE CallConnector(node)
  <2>1. PICK record \in executor.records :
           /\ record.descriptor = node
           /\ ApprovalGiven(record, node)
           /\ Undrifted(record)
           /\ entry' = [node |-> node, record |-> record]
    BY <1>5 DEF CallConnector
  <2>2. record \in Records
    BY DEF AdmissionInv, ExecutorIsBacked
  <2> DEFINE From(r, s) ==
           LET tool == ToolNamed(r.input.snapshot, s.tool) IN
           /\ record \in ToSet(r.result.records)
           /\ record.descriptor \in ToSet(r.result.descriptors)
           /\ record = Record(r.input, s, tool, Expected(s, tool, r.input.policy))
           /\ SelectionValid(s)
  <2>3. PICK r \in admitted : \E s \in ToSet(r.input.manifest.selected) : From(r, s)
    BY <2>2, RecordsAreSelected DEF AdmissionInv
  <2>4. PICK s \in ToSet(r.input.manifest.selected) : From(r, s)
    BY <2>3
  <2> DEFINE tool == ToolNamed(r.input.snapshot, s.tool)
             d == Expected(s, tool, r.input.policy)
  <2>5. /\ record.tool = s.tool /\ record.identity = r.input.snapshot.identity
        /\ record.raw = tool /\ record.approval = s.approval
        /\ record.descriptor = d
    BY <2>4 DEF Record
  <2>6. d.id = s.id /\ d.effect = s.effect
    BY DEF Expected, Descriptor
  <2> HIDE DEF tool, d
  <2>7. entry'.node = node /\ entry'.record = record
    BY <2>1
  <2>8. EntryIsAdmitted'
    <3>1. /\ live.identity = r.input.snapshot.identity
          /\ ToolNamed(live, s.tool) = ToolNamed(r.input.snapshot, s.tool)
      BY <2>1, <2>5 DEF Undrifted, tool
    <3>2. s.id = node.id
      BY <2>1, <2>5, <2>6
    <3> QED
      BY <1>1, <1>3, <2>1, <2>4, <2>7, <3>1, <3>2 DEF EntryIsAdmitted
  <2>9. ApprovalIsInForce'
    <3>1. CASE record.approval = "none"
      <4>1. s.approval = "none" /\ node.effect = "read_only"
        BY <2>1, <2>4, <2>5, <2>6, <3>1 DEF SelectionValid, SideEffect, Approved
      <4>2. s.id = node.id
        BY <2>1, <2>5, <2>6
      <4> QED
        BY <1>1, <2>7, <4>1, <4>2 DEF ApprovalIsInForce
    <3>2. CASE \E grant \in session.grants : GrantCovers(grant, record, node)
      <4>1. PICK grant \in session.grants : GrantCovers(grant, record, node)
        BY <3>2
      <4>2. /\ grant.descriptor = node /\ grant.run = run
            /\ grant.stage = session.stage /\ now < grant.expires
        BY <1>3, <4>1 DEF GrantCovers, CallTime
      <4> QED
        BY <1>1, <2>7, <4>2 DEF ApprovalIsInForce
    <3> QED
      BY <2>1, <3>1, <3>2 DEF ApprovalGiven
  <2> QED
    BY <1>2, <2>8, <2>9 DEF AdmissionInv, EntryIsLicensed
<1> QED
  BY <1>4, <1>5

LEMMA AdmissionInvNext == AdmissionInv /\ [AdmissionNext]_admissionVars => AdmissionInv'
<1> SUFFICES ASSUME AdmissionInv, [AdmissionNext]_admissionVars PROVE AdmissionInv'
  OBVIOUS
<1> USE DEF AdmissionInv
<1>1. entry' = Absent => EntryIsLicensed'
  BY DEF EntryIsLicensed, EntryIsAdmitted, ApprovalIsInForce
<1>2. CASE Judge
  <2>1. JudgedAsWritten'
    BY <1>2 DEF Judge, JudgedAsWritten
  <2>2. Records = {}
    BY <1>2 DEF Judge, Records
  <2>3. ExecutorIsBacked' /\ SessionIsLatest' /\ scenario' \in Scenarios
    BY <1>2, <2>2 DEF Judge, ExecutorIsBacked, SessionIsLatest
  <2>4. EntryIsLicensed'
    BY <1>2 DEF Judge, EntryIsLicensed, EntryIsAdmitted, ApprovalIsInForce
  <2> QED
    BY <2>1, <2>3, <2>4
<1>3. ASSUME NEW d \in Descriptors, Register(d) PROVE AdmissionInv'
  BY <1>1, <1>3 DEF Register, JudgedAsWritten, ExecutorIsBacked, SessionIsLatest, Records
<1>4. CASE Freeze
  BY <1>1, <1>4 DEF Freeze, JudgedAsWritten, ExecutorIsBacked, SessionIsLatest, Records
<1>5. CASE CompilePlan
  BY <1>1, <1>5 DEF CompilePlan, JudgedAsWritten, ExecutorIsBacked, SessionIsLatest, Records
<1>6. CASE BuildExecutor
  <2>1. ExecutorIsBacked'
    <3>1. PICK records \in SUBSET Records, configured \in scenario.snapshots,
               implementations \in
                 {{}, {d.implementation : d \in registry.entries}} :
             executor' =
               [nodes |-> plan, records |-> records, configured |-> configured,
                defective |-> {n \in plan : Defective(n, implementations)}]
      BY <1>6 DEF BuildExecutor
    <3>2. \A n \in plan : ~Defective(n, implementations) => n \in registry.entries
      BY DEF Defective
    <3>3. registry' = registry /\ admitted' = admitted
      BY <1>6 DEF BuildExecutor
    <3> QED
      BY <3>1, <3>2, <3>3 DEF ExecutorIsBacked, Records
  <2> QED
    BY <1>1, <1>6, <2>1 DEF BuildExecutor, JudgedAsWritten, SessionIsLatest
<1>7. CASE Restart
  BY <1>1, <1>7 DEF Restart, JudgedAsWritten, ExecutorIsBacked, SessionIsLatest, Records
<1>8. CASE Drift
  BY <1>1, <1>8 DEF Drift, JudgedAsWritten, ExecutorIsBacked, SessionIsLatest, Records
<1>9. CASE Tick
  BY <1>1, <1>9 DEF Tick, JudgedAsWritten, ExecutorIsBacked, SessionIsLatest, Records
<1>10. CASE StartSession
  <2>1. SessionIsLatest'
    BY <1>10 DEF StartSession, SessionIsLatest
  <2> QED
    BY <1>1, <1>10, <2>1 DEF StartSession, JudgedAsWritten, ExecutorIsBacked, Records
<1>11. CASE EndSession
  BY <1>1, <1>11 DEF EndSession, JudgedAsWritten, ExecutorIsBacked, SessionIsLatest, Records
<1>12. CASE \E node \in IF executor = Absent THEN {} ELSE executor.nodes :
               CallConnector(node) \/ CallLocal(node)
  <2>1. PICK node \in IF executor = Absent THEN {} ELSE executor.nodes :
           CallConnector(node) \/ CallLocal(node)
    BY <1>12
  <2>2. executor # Absent /\ node \in executor.nodes
    BY <2>1
  <2> QED
    BY <2>1, <2>2, CallIsLicensed
<1>13. CASE UNCHANGED admissionVars
  BY <1>13 DEF admissionVars, JudgedAsWritten, ExecutorIsBacked, SessionIsLatest, Records,
               EntryIsLicensed, EntryIsAdmitted, ApprovalIsInForce
<1> QED
  BY <1>2, <1>3, <1>4, <1>5, <1>6, <1>7, <1>8, <1>9, <1>10, <1>11, <1>12, <1>13
  DEF AdmissionNext

\* The inductive invariant of the way from the documents to a call.
THEOREM AdmissionInductive == AdmissionSpec => []AdmissionInv
  BY AdmissionInvInit, AdmissionInvNext, PTL DEF AdmissionSpec

\* Whatever the documents are, they are accepted exactly when nothing is wrong
\* with them, and what is made of every tool is what its reviewer expects: the
\* order of the checks, and the ones a fault makes the loops skip, never show.
THEOREM JudgementIsExact == AdmissionSpec => []AdmissionExact
<1>1. AdmissionInv => AdmissionExact
  BY JudgedRight DEF AdmissionInv
<1> QED
  BY AdmissionInductive, <1>1, PTL

\* Nothing enters an implementation on a licence that was only once valid,
\* however documents, processes, plans, provider and clock move in between.
THEOREM EntriesAreLicensed == AdmissionSpec => []EntryIsLicensed
<1>1. AdmissionInv => EntryIsLicensed
  BY DEF AdmissionInv
<1> QED
  BY AdmissionInductive, <1>1, PTL

=============================================================================
