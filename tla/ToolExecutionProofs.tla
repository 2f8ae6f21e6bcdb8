------------------------- MODULE ToolExecutionProofs -------------------------
(***************************************************************************)
(* The traces of the tool boundary can be believed, for every plan and any *)
(* number of calls; execute_bash is an implementation that the boundary    *)
(* can believe; the built-in tools change what they may and no more; and   *)
(* who reads a file page by page sees all of it.                           *)
(*                                                                         *)
(* The inductive invariant follows one call: until its implementation is   *)
(* entered nothing has happened to the world, while it is inside nothing   *)
(* is recorded, and once the executor has a result this result is honest   *)
(* of an effect that can no longer move.  What is over stays as it is.     *)
(***************************************************************************)
EXTENDS ToolCalls, BuiltinTools, FileTools, NaturalLemmas, SequenceTheorems

\* What a record r of the call i must be, given its effect so far.
Safe(i, r) ==
    r.retryable =>
        /\ work[i] = "none" \/ Idempotency[nodeOf[i]] # "non_idempotent"
        /\ r.certainty = "confirmed_complete" =>
              Idempotency[nodeOf[i]] = "with_key" /\ nodeOf[i] \in CallIdKey

Sound(i, r) == r \in Results /\ Honest(r.certainty, work[i]) /\ Safe(i, r)

Started == phase \notin {"idle"} => calls >= 1

Future == \A i \in Ids : i > calls =>
    work[i] = "none" /\ bridgeTrace[i] = None /\ executorTrace[i] = None

Past == \A i \in Ids : Over(i) =>
    /\ Sound(i, bridgeTrace[i])
    /\ executorTrace[i] # None =>
          bridgeTrace[i] \in {executorTrace[i], Defect}

Known == \A i \in Ids : i <= calls => nodeOf[i] \in Nodes

Unrecorded ==
    phase \notin {"idle", "ended"} => bridgeTrace[calls] = None

Untouched == phase \in {"context", "executor"} =>
    work[calls] = "none" /\ executorTrace[calls] = None

Entered == phase \in {"implementation", "broker", "raising", "cancelled"} =>
    executorTrace[calls] = None

Answered == phase \in {"returning", "answered"} =>
    Sound(calls, result) /\ executorTrace[calls] = result

IInv ==
    /\ ToolTypeOK
    /\ Started /\ Future /\ Past /\ Known
    /\ Unrecorded /\ Untouched /\ Entered /\ Answered

-----------------------------------------------------------------------------
(***************************************************************************)
(* Lemmas about the records.                                               *)
(***************************************************************************)
LEMMA ResultType ==
    ASSUME NEW s \in Statuses, NEW c \in Certainties, NEW r \in BOOLEAN
    PROVE  /\ Result(s, c, r) \in Results
           /\ Result(s, c, r).certainty = c /\ Result(s, c, r).retryable = r
           /\ Result(s, c, r).status = s
BY DEF Result, Results

LEMMA NoneIsNoResult == None \notin Results /\ None \notin Nodes
BY ToolAssumption

\* A denial is sound of an effect that never began.
LEMMA DenialSound ==
    ASSUME NEW i, NEW s \in Statuses, work[i] = "none"
    PROVE  Sound(i, Denial(s))
<1>1. "not_attempted" \in Certainties /\ FALSE \in BOOLEAN
  BY DEF Certainties
<1>2. /\ Denial(s) \in Results
      /\ Denial(s).certainty = "not_attempted" /\ Denial(s).retryable = FALSE
  BY <1>1, ResultType DEF Denial
<1> QED
  BY <1>2 DEF Sound, Honest, Safe

\* To know nothing is always sound.
LEMMA DefectSound == ASSUME NEW i PROVE Sound(i, Defect)
<1>1. "hard_failure" \in Statuses /\ "completion_unknown" \in Certainties
  BY DEF Statuses, Certainties
<1>2. /\ Defect \in Results
      /\ Defect.certainty = "completion_unknown" /\ Defect.retryable = FALSE
  BY <1>1, ResultType DEF Defect
<1> QED
  BY <1>2 DEF Sound, Honest, Safe

\* The soundness of a record depends on the effect and the node of its call.
LEMMA SoundStays ==
    ASSUME NEW i, NEW r, Sound(i, r), work'[i] = work[i], nodeOf'[i] = nodeOf[i]
    PROVE  Sound(i, r)'
BY DEF Sound, Safe

-----------------------------------------------------------------------------
(***************************************************************************)
(* The invariant is inductive.                                             *)
(***************************************************************************)
LEMMA Initially == ToolInit => IInv
<1> SUFFICES ASSUME ToolInit PROVE IInv
  OBVIOUS
<1>1. ToolTypeOK
  <2>1. ctx \in [token : BOOLEAN, expired : BOOLEAN, granted : BOOLEAN]
    BY Zenon DEF ToolInit
  <2>2. token \in BOOLEAN /\ expired \in BOOLEAN
    BY Zenon DEF ToolInit
  <2>3. calls \in 0..MaxCalls
    BY ToolAssumption DEF ToolInit
  <2> QED
    BY <2>1, <2>2, <2>3 DEF ToolInit, ToolTypeOK
<1>2. \A i \in Ids : ~Over(i)
  BY ToolAssumption DEF ToolInit, Over, Ids
<1> QED
  BY <1>1, <1>2, ToolAssumption DEF ToolInit, IInv, Started, Future, Past,
     Known, Unrecorded, Untouched, Entered, Answered, Ids

\* While nothing is recorded and no call begins or ends, the past stays.
LEMMA PastStays ==
    ASSUME IInv, UNCHANGED <<calls, nodeOf, bridgeTrace>>,
           \A i \in Ids : Over(i)' => Over(i),
           \A i \in Ids : Over(i) =>
               work'[i] = work[i] /\ executorTrace'[i] = executorTrace[i]
    PROVE  Past' /\ Known'
<1>1. Known'
  BY DEF IInv, Known
<1>2. ASSUME NEW i \in Ids, Over(i)'
      PROVE  /\ Sound(i, bridgeTrace[i])'
             /\ executorTrace'[i] # None =>
                   bridgeTrace'[i] \in {executorTrace'[i], Defect}
  <2>1. Over(i)
    BY <1>2
  <2> QED
    BY <2>1, SoundStays DEF IInv, Past
<1> QED
  BY <1>1, <1>2 DEF Past, Defect, Result

\* The bridge records a sound answer to the current call, which is then over.
LEMMA BridgeRecordsSoundly ==
    ASSUME IInv, calls \in Ids, NEW r, Sound(calls, r), NEW next \in {"idle", "ended"},
           phase # "idle", phase # "ended",
           UNCHANGED <<callVars, work, executorTrace, worldVars, ctx>>,
           executorTrace[calls] # None => r \in {executorTrace[calls], Defect},
           BridgeRecords(r, next), result' \in Results \cup {None},
           owned' \subseteq Nodes
    PROVE  IInv'
<1> USE DEF IInv, BridgeRecords, callVars, worldVars
<1>1. ToolTypeOK'
  BY ToolAssumption DEF ToolTypeOK, Sound
<1>2. Past'
  <2> SUFFICES ASSUME NEW i \in Ids, Over(i)'
               PROVE  /\ Sound(i, bridgeTrace[i])'
                      /\ executorTrace'[i] # None =>
                            bridgeTrace'[i] \in {executorTrace'[i], Defect}
    BY DEF Past, Defect, Result
  <2>1. CASE i = calls
    BY <2>1, SoundStays DEF ToolTypeOK
  <2>2. CASE i # calls
    <3>1. Over(i) /\ bridgeTrace'[i] = bridgeTrace[i]
      BY <2>2 DEF Over, ToolTypeOK
    <3> QED
      BY <3>1, SoundStays DEF Past
  <2> QED
    BY <2>1, <2>2
<1>3. Future' /\ Known' /\ Started'
  BY ToolAssumption DEF Future, Known, Started, ToolTypeOK, Ids
<1> QED
  BY <1>1, <1>2, <1>3 DEF Unrecorded, Untouched, Entered, Answered

\* The executor records a sound answer and hands it to the bridge.
LEMMA ExecutorReturnsSoundly ==
    ASSUME IInv, NEW r, Sound(calls, r), NEW next \in {"returning", "answered"},
           phase \in {"executor", "implementation", "broker"},
           ExecutorRecords(r, next), UNCHANGED work
    PROVE  IInv'
<1> USE DEF IInv, ExecutorRecords, callVars, worldVars
<1>0. calls \in Ids
  BY DEF Started, ToolTypeOK, Ids
<1>1. ToolTypeOK'
  BY DEF ToolTypeOK, Sound
<1>2. \A i \in Ids : Over(i)' => Over(i) /\ i # calls
  BY DEF Over, ToolTypeOK, Ids
<1>3. \A i \in Ids : Over(i) => i # calls
  BY DEF Over, ToolTypeOK, Ids
<1>4. \A i \in Ids : i # calls => executorTrace'[i] = executorTrace[i]
  BY DEF ToolTypeOK
<1>5. Past' /\ Known'
  BY <1>2, <1>3, <1>4, PastStays
<1>6. Future' /\ Started'
  BY <1>0 DEF Future, Started, ToolTypeOK, Ids
<1>7. Answered'
  BY <1>0, SoundStays DEF Answered, ToolTypeOK
<1> QED
  BY <1>1, <1>5, <1>6, <1>7 DEF Unrecorded, Untouched, Entered

\* The call goes on, or its task is gone, and nothing is recorded.
LEMMA MovesOn ==
    ASSUME IInv,
           phase \in {"context", "executor", "implementation", "broker"},
           \/ phase = "context" /\ phase' = "executor"
           \/ /\ phase # "context"
              /\ phase' \in {"implementation", "broker", "raising", "cancelled"},
           UNCHANGED <<callVars, worldVars, owned, result, work, traceVars>>,
           ctx' \in [token : BOOLEAN, expired : BOOLEAN, granted : BOOLEAN]
    PROVE  IInv'
<1> USE DEF IInv, callVars, worldVars, traceVars
<1>1. ToolTypeOK'
  <2>1. token' \in BOOLEAN /\ expired' \in BOOLEAN
    BY Zenon DEF ToolTypeOK
  <2> QED
    BY <2>1 DEF ToolTypeOK
<1>2. Past' /\ Known'
  <2>1. \A i \in Ids : Over(i)' => Over(i)
    BY DEF Over
  <2> QED
    BY <2>1, PastStays
<1>3. Future' /\ Started'
  BY DEF Future, Started
<1>4. Entered' /\ Untouched'
  BY DEF Entered, Untouched
<1> QED
  BY <1>1, <1>2, <1>3, <1>4 DEF Unrecorded, Answered

\* A call begins, or is answered by the bridge at once.
LEMMA InvokeStep ==
    ASSUME IInv, NEW n \in Nodes, Invoke(n)
    PROVE  IInv'
<1> USE DEF IInv, Invoke, worldVars
<1>1. /\ calls' = calls + 1 /\ calls' \in Ids /\ calls \in Nat
      /\ calls \in 0..MaxCalls
  BY ToolAssumption DEF ToolTypeOK, Ids
<1> PICK id \in Ids : id = calls'
  BY <1>1
<1>2. /\ work[calls'] = "none" /\ bridgeTrace[calls'] = None
      /\ executorTrace[calls'] = None
  BY <1>1 DEF Future, ToolTypeOK
<1>3. nodeOf'[calls'] = n /\ nodeOf' \in [Ids -> Nodes \cup {None}]
  BY <1>1 DEF ToolTypeOK
<1>4. \A i \in Ids : i # calls' => nodeOf'[i] = nodeOf[i]
  BY <1>1 DEF ToolTypeOK
<1>5. \A i \in Ids : i < calls' => Over(i)
  BY <1>1 DEF Over, Ids
<1>6. CASE phase' = "context" /\ UNCHANGED bridgeTrace
  <2>1. ToolTypeOK'
    <3>1. token' \in BOOLEAN /\ expired' \in BOOLEAN
      BY Zenon DEF ToolTypeOK
    <3> QED
      BY <1>1, <1>3, <1>6, <3>1 DEF ToolTypeOK, Ids
  <2>2. Past'
    <3> SUFFICES ASSUME NEW i \in Ids, Over(i)'
                 PROVE  /\ Sound(i, bridgeTrace[i])'
                        /\ executorTrace'[i] # None =>
                              bridgeTrace'[i] \in {executorTrace'[i], Defect}
      BY DEF Past, Defect, Result
    <3>1. i < calls' /\ Over(i) /\ i # calls'
      BY <1>1, <1>5, <1>6 DEF Over, Ids
    <3> QED
      BY <1>4, <1>6, <3>1, SoundStays DEF Past
  <2>3. Future' /\ Known' /\ Started'
    BY <1>1, <1>3, <1>4, <1>6 DEF Future, Known, Started, Ids
  <2> QED
    BY <1>2, <1>6, <2>1, <2>2, <2>3
       DEF Unrecorded, Untouched, Entered, Answered
<1>7. ASSUME NEW r, NEW next \in {"idle", "ended"}, BridgeRecords(r, next),
             Sound(id, r)'
      PROVE  IInv'
  <2> USE DEF BridgeRecords
  <2>1. ToolTypeOK'
    <3>1. token' \in BOOLEAN /\ expired' \in BOOLEAN
      BY Zenon DEF ToolTypeOK
    <3>2. bridgeTrace' \in [Ids -> Results \cup {None}]
      BY <1>7 DEF ToolTypeOK, Sound
    <3> QED
      BY <1>1, <1>3, <1>7, <3>1, <3>2 DEF ToolTypeOK, Ids
  <2>2. Past'
    <3> SUFFICES ASSUME NEW i \in Ids, Over(i)'
                 PROVE  /\ Sound(i, bridgeTrace[i])'
                        /\ executorTrace'[i] # None =>
                              bridgeTrace'[i] \in {executorTrace'[i], Defect}
      BY DEF Past, Defect, Result
    <3>1. CASE i = calls'
      BY <1>1, <1>2, <1>7, <3>1 DEF ToolTypeOK
    <3>2. CASE i # calls'
      <4>1. i < calls' /\ Over(i)
        BY <1>1, <1>5, <3>2 DEF Over, Ids
      <4>2. bridgeTrace'[i] = bridgeTrace[i]
        BY <1>7, <3>2 DEF ToolTypeOK
      <4> QED
        BY <1>4, <3>2, <4>1, <4>2, SoundStays DEF Past
    <3> QED
      BY <3>1, <3>2
  <2>3. Future' /\ Known' /\ Started'
    BY <1>1, <1>3, <1>4, <1>7 DEF Future, Known, Started, ToolTypeOK, Ids
  <2> QED
    BY <1>7, <2>1, <2>2, <2>3 DEF Unrecorded, Untouched, Entered, Answered
<1>8. \A s \in Statuses : Sound(id, Denial(s))'
  <2>1. work'[id] = "none"
    BY <1>2
  <2> QED
    BY <2>1, ResultType DEF Denial, Sound, Honest, Safe, Certainties
<1>9. Sound(id, Result("not_executed", "not_attempted", TRUE))'
  <2>1. work'[id] = "none"
    BY <1>2
  <2>2. "not_executed" \in Statuses /\ "not_attempted" \in Certainties
    BY DEF Statuses, Certainties
  <2>3. LET r == Result("not_executed", "not_attempted", TRUE)
        IN  r \in Results /\ r.certainty = "not_attempted"
    BY <2>2, ResultType
  <2> QED
    BY <2>1, <2>3 DEF Sound, Honest, Safe
<1> QED
  BY <1>6, <1>7, <1>8, <1>9 DEF Statuses

\* The effect moves while nothing is recorded of its call.
LEMMA WorkStep ==
    ASSUME IInv, NEW from, NEW to \in {"begun", "complete"}, Work(from, to)
    PROVE  IInv'
<1> USE DEF IInv, Work, Inside, callVars, worldVars, traceVars
<1>0. calls \in Ids
  BY DEF Started, ToolTypeOK, Ids
<1>1. ToolTypeOK'
  <2>1. token' \in BOOLEAN /\ expired' \in BOOLEAN
    BY Zenon DEF ToolTypeOK
  <2> QED
    BY <2>1 DEF ToolTypeOK
<1>2. \A i \in Ids : i # calls => work'[i] = work[i]
  BY DEF ToolTypeOK
<1>3. \A i \in Ids : Over(i)' => Over(i)
  BY DEF Over
<1>4. \A i \in Ids : Over(i) => i # calls
  BY DEF Over, ToolTypeOK, Ids
<1>5. Past' /\ Known'
  BY <1>2, <1>3, <1>4, PastStays
<1>6. Future' /\ Started'
  BY <1>0, <1>2 DEF Future, Started, ToolTypeOK, Ids
<1> QED
  BY <1>1, <1>5, <1>6 DEF Unrecorded, Untouched, Entered, Answered

\* The token and the deadline are read into the context and nowhere else.
LEMMA WorldStep ==
    ASSUME IInv, DeadlinePasses \/ TokenIsSet
    PROVE  IInv'
<1> USE DEF IInv, DeadlinePasses, TokenIsSet, callVars, traceVars
<1>1. ToolTypeOK'
  <2>1. token' \in BOOLEAN /\ expired' \in BOOLEAN
    BY Zenon DEF ToolTypeOK
  <2> QED
    BY <2>1 DEF ToolTypeOK
<1>2. Past' /\ Known'
  <2>1. \A i \in Ids : Over(i)' => Over(i)
    BY DEF Over
  <2> QED
    BY <2>1, PastStays
<1>3. Answered'
  BY SoundStays DEF Answered
<1> QED
  BY <1>1, <1>2, <1>3 DEF Future, Started, Unrecorded, Untouched, Entered

\* What an honest answer becomes is sound; a connector's retry is only let
\* through where the admission allows it.
LEMMA AnswerSound ==
    ASSUME NEW i, NEW s \in Statuses, NEW c \in Certainties, NEW v \in BOOLEAN,
           Honest(c, work[i])
    PROVE  Sound(i, Validated(Result(s, c, FALSE), v))
<1>1. "hard_failure" \in Statuses
  BY DEF Statuses
<1>2. \A t \in Statuses : Sound(i, Result(t, c, FALSE))
  BY ResultType DEF Sound, Safe
<1>3. Result(s, c, FALSE).certainty = c
  BY ResultType
<1> QED
  BY <1>1, <1>2, <1>3 DEF Validated

LEMMA BrokerAnswerSound ==
    ASSUME NEW i, NEW s \in Statuses, NEW c \in Certainties,
           NEW q \in BOOLEAN, NEW v \in BOOLEAN, Honest(c, work[i])
    PROVE  Sound(i, Validated(Result(s, c, Retryable(s, c, nodeOf[i], q)), v))
<1> DEFINE retry == Retryable(s, c, nodeOf[i], q)
<1>1. retry \in BOOLEAN
  BY Zenon DEF Retryable
<1>2. retry => /\ Idempotency[nodeOf[i]] # "non_idempotent"
               /\ c = "confirmed_complete" =>
                     Idempotency[nodeOf[i]] = "with_key" /\ nodeOf[i] \in CallIdKey
  BY DEF Retryable
<1> HIDE DEF retry
<1>3. CASE v
  <2>1. LET r == Result(s, c, retry)
        IN  r \in Results /\ r.certainty = c /\ r.retryable = retry
    BY <1>1, ResultType
  <2>2. Sound(i, Result(s, c, retry))
    BY <1>2, <2>1 DEF Sound, Safe
  <2> QED
    BY <1>3, <2>2 DEF Validated, retry
<1>4. CASE ~v
  <2>1. Result(s, c, retry).certainty = c
    BY DEF Result
  <2>2. Sound(i, Result("hard_failure", c, FALSE))
    <3>1. "hard_failure" \in Statuses
      BY DEF Statuses
    <3>2. LET r == Result("hard_failure", c, FALSE)
          IN  r \in Results /\ r.certainty = c /\ r.retryable = FALSE
      BY <3>1, ResultType, ZenonT(40)
    <3> QED
      BY <3>2 DEF Sound, Safe
  <2> QED
    BY <1>4, <2>1, <2>2 DEF Validated, retry
<1> QED
  BY <1>3, <1>4

\* The steps of whatever is inside the call.
LEMMA InsideStep ==
    ASSUME IInv,
           \/ WorkBegins \/ WorkCompletes
           \/ ImplementationRaises \/ ResultRaises \/ CancelledInside
    PROVE  IInv'
<1>1. CASE WorkBegins \/ WorkCompletes
  BY <1>1, WorkStep DEF WorkBegins, WorkCompletes
<1>2. CASE ImplementationRaises
  BY <1>2, DefectSound, ExecutorReturnsSoundly
     DEF ImplementationRaises, ExecutorReturns, Inside
<1>3. CASE ResultRaises \/ CancelledInside
  <2>1. ctx' \in [token : BOOLEAN, expired : BOOLEAN, granted : BOOLEAN]
    BY <1>3 DEF IInv, ToolTypeOK, ResultRaises, CancelledInside
  <2>2. UNCHANGED <<callVars, worldVars, owned, result, work, traceVars>>
    BY <1>3 DEF ResultRaises, CancelledInside
  <2> QED
    BY <1>3, <2>1, <2>2, MovesOn DEF ResultRaises, CancelledInside, Inside
<1> QED
  BY <1>1, <1>2, <1>3

\* The steps of the executor before anything is entered.
LEMMA ExecutorStep ==
    ASSUME IInv,
           \/ ReadContext \/ Preflight \/ ConnectorDenies
           \/ EnterBroker \/ EnterImplementation
    PROVE  IInv'
<1>1. CASE ReadContext
  <2>1. ctx' \in [token : BOOLEAN, expired : BOOLEAN, granted : BOOLEAN]
    <3>1. token \in BOOLEAN /\ expired \in BOOLEAN
      BY Zenon DEF IInv, ToolTypeOK
    <3>2. \A t, e, g : t \in BOOLEAN /\ e \in BOOLEAN /\ g \in BOOLEAN =>
             [token |-> t, expired |-> e, granted |-> g] \in
                [token : BOOLEAN, expired : BOOLEAN, granted : BOOLEAN]
      OBVIOUS
    <3>3. PICK g \in {FALSE, Approval[Node] = "explicit"} :
             ctx' = [token |-> token, expired |-> expired, granted |-> g]
      BY <1>1 DEF ReadContext
    <3>4. g \in BOOLEAN
      BY Zenon, <3>3
    <3> QED
      BY Zenon, <3>1, <3>2, <3>3, <3>4
  <2>2. UNCHANGED <<callVars, worldVars, owned, result, work, traceVars>>
    BY <1>1 DEF ReadContext
  <2> QED
    BY <1>1, <2>1, <2>2, MovesOn DEF ReadContext
<1>2. CASE Preflight \/ ConnectorDenies
  <2>1. work[calls] = "none" /\ phase = "executor"
    BY <1>2 DEF IInv, Untouched, Preflight, ConnectorDenies
  <2>2. \A st \in {"not_executed", "hard_failure"} : Sound(calls, Denial(st))
    BY <2>1, DenialSound DEF Statuses
  <2>3. PICK st \in {"not_executed", "hard_failure"} :
           ExecutorRecords(Denial(st), "returning") /\ UNCHANGED work
    BY <1>2 DEF Preflight, ConnectorDenies, ExecutorReturns
  <2> QED
    BY <2>1, <2>2, <2>3, ExecutorReturnsSoundly
<1>3. CASE EnterBroker \/ EnterImplementation
  <2>1. ctx' \in [token : BOOLEAN, expired : BOOLEAN, granted : BOOLEAN]
    BY <1>3 DEF IInv, ToolTypeOK, EnterBroker, EnterImplementation, Enter
  <2>2. UNCHANGED <<callVars, worldVars, owned, result, work, traceVars>>
    BY <1>3 DEF EnterBroker, EnterImplementation, Enter
  <2> QED
    BY <1>3, <2>1, <2>2, MovesOn DEF EnterBroker, EnterImplementation, Enter
<1> QED
  BY <1>1, <1>2, <1>3

\* The steps by which the bridge ends a call that was executed.
LEMMA BridgeStep ==
    ASSUME IInv, BridgeCatches \/ BoundaryDefect \/ BridgeReturns
    PROVE  IInv'
<1>1. phase \in {"raising", "returning", "answered"} /\ calls \in Ids
  BY DEF IInv, Started, ToolTypeOK, Ids, BridgeCatches, BoundaryDefect, BridgeReturns
<1>2. owned \subseteq Nodes /\ Node \in Nodes
  BY <1>1 DEF IInv, ToolTypeOK, Known, Node, Ids
<1>3. CASE BridgeCatches
  <2>1. executorTrace[calls] = None /\ result' \in Results \cup {None}
    BY <1>3 DEF BridgeCatches, IInv, Entered, ToolTypeOK
  <2> QED
    BY <1>1, <1>2, <1>3, <2>1, DefectSound, BridgeRecordsSoundly DEF BridgeCatches
<1>4. CASE BoundaryDefect
  BY <1>1, <1>2, <1>4, DefectSound, BridgeRecordsSoundly DEF BoundaryDefect
<1>5. CASE BridgeReturns
  <2>1. Sound(calls, result) /\ executorTrace[calls] = result
    BY <1>5 DEF BridgeReturns, IInv, Answered
  <2>2. PICK next \in {"idle", "ended"} : BridgeRecords(result, next)
    BY <1>5 DEF BridgeReturns
  <2>3. owned' \subseteq Nodes
    BY <1>2, <1>5 DEF BridgeReturns
  <2> QED
    BY <1>1, <1>5, <2>1, <2>2, <2>3, BridgeRecordsSoundly DEF BridgeReturns
<1> QED
  BY <1>3, <1>4, <1>5

\* Every step keeps the invariant.
LEMMA Inductive == IInv /\ [ToolNext]_toolVars => IInv'
<1> SUFFICES ASSUME IInv, [ToolNext]_toolVars PROVE IInv'
  OBVIOUS
<1>1. CASE UNCHANGED toolVars
  <2> USE <1>1 DEF toolVars, callVars, worldVars, traceVars
  <2>1. ToolTypeOK'
    <3>1. token' \in BOOLEAN /\ expired' \in BOOLEAN
      BY Zenon DEF IInv, ToolTypeOK
    <3> QED
      BY <3>1 DEF IInv, ToolTypeOK
  <2>2. Past' /\ Known'
    <3>1. \A i \in Ids : Over(i)' => Over(i)
      BY DEF Over
    <3> QED
      BY <3>1, PastStays
  <2>3. Answered'
    BY SoundStays DEF IInv, Answered
  <2> QED
    BY <2>1, <2>2, <2>3
       DEF IInv, Future, Started, Unrecorded, Untouched, Entered
<1>2. ASSUME NEW n \in Nodes, Invoke(n) PROVE IInv'
  BY <1>2, InvokeStep
<1>3. CASE \/ ReadContext \/ Preflight \/ ConnectorDenies
           \/ EnterBroker \/ EnterImplementation
  BY <1>3, ExecutorStep
<1>4. CASE BridgeCatches \/ BoundaryDefect \/ BridgeReturns
  BY <1>4, BridgeStep
<1>5. CASE \/ WorkBegins \/ WorkCompletes
           \/ ImplementationRaises \/ ResultRaises \/ CancelledInside
  BY <1>5, InsideStep
<1>6. ASSUME NEW st \in Statuses, NEW c \in Certainties,
             NEW q \in BOOLEAN, NEW v \in BOOLEAN, BrokerReturns(st, c, q, v)
      PROVE  IInv'
  <2> DEFINE r == Validated(Result(st, c, Retryable(st, c, Node, q)), v)
  <2>1. Sound(calls, r)
    BY <1>6, BrokerAnswerSound DEF BrokerReturns, Node
  <2>2. /\ phase = "broker" /\ UNCHANGED work
        /\ ExecutorRecords(r, "returning")
    BY <1>6 DEF BrokerReturns, ExecutorReturns
  <2> HIDE DEF r
  <2> QED
    BY <2>1, <2>2, ExecutorReturnsSoundly
<1>7. ASSUME NEW st \in Statuses, NEW c \in Certainties, NEW v \in BOOLEAN,
             ImplementationReturns(st, c, v)
      PROVE  IInv'
  <2> DEFINE r == Validated(Result(st, c, FALSE), v)
  <2>1. Sound(calls, r)
    BY <1>7, AnswerSound DEF ImplementationReturns
  <2>2. /\ phase = "implementation" /\ UNCHANGED work
        /\ \E next \in {"returning", "answered"} : ExecutorRecords(r, next)
    BY <1>7 DEF ImplementationReturns, Answers
  <2> HIDE DEF r
  <2> QED
    BY <2>1, <2>2, ExecutorReturnsSoundly
<1>8. CASE DeadlinePasses \/ TokenIsSet
  BY <1>8, WorldStep
<1> QED
  BY <1>1, <1>2, <1>3, <1>4, <1>5, <1>6, <1>7, <1>8
     DEF ToolNext, BoundaryStep, BrokerStep, ImplementationStep

\* Only a call that is over has a record of the bridge.
LEMMA RecordedIsOver ==
    ASSUME IInv, NEW i \in Ids, bridgeTrace[i] # None
    PROVE  Over(i)
BY DEF IInv, Future, Unrecorded, Over, ToolTypeOK, Ids

\* The invariant holds throughout.
THEOREM Invariance == ToolSpec => []IInv
BY Initially, Inductive, PTL DEF ToolSpec

-----------------------------------------------------------------------------
\* The invariant implies the type invariant.
THEOREM ToolTypeCorrect == ToolSpec => []ToolTypeOK
<1>1. IInv => ToolTypeOK
  BY DEF IInv
<1> QED
  BY <1>1, Invariance, PTL

\* Every call that is over has a record of the bridge, and no record lies
\* about the effect, whatever the implementations do.
THEOREM TracesAreHonest == ToolSpec => []TraceAccountsForEffects
<1>1. IInv => TraceAccountsForEffects
  BY NoneIsNoResult DEF IInv, Past, Sound, TraceAccountsForEffects
<1> QED
  BY <1>1, Invariance, PTL

\* The bridge repeats the executor or admits that it knows nothing.
THEOREM NeverUpgraded == ToolSpec => []BridgeNeverMoreCertain
<1>1. IInv => BridgeNeverMoreCertain
  BY RecordedIsOver DEF IInv, Past, BridgeNeverMoreCertain
<1> QED
  BY <1>1, Invariance, PTL

\* A retry is offered only of a call that may be repeated.
THEOREM RetriesAreSafe == ToolSpec => []RetryIsSafe
<1>1. IInv => RetryIsSafe
  BY RecordedIsOver DEF IInv, Past, Sound, Safe, RetryIsSafe
<1> QED
  BY <1>1, Invariance, PTL

-----------------------------------------------------------------------------
(***************************************************************************)
(* The boundary with execute_bash behind it (ToolCalls).  The invariant    *)
(* follows the processes, the cleanup task and the call: wherever the call *)
(* waits it is known whether the shell has exited or the cleanup will see  *)
(* to it, so that the answer it leaves with is honest and leaves no shell. *)
(***************************************************************************)
\* No shell of the call runs on without having been sent a kill.
NoneRuns == shell # "alive" \/ tree = "sent" \/ direct

\* Nor can one be forked any more.
Ended == Runner!LaunchOver /\ NoneRuns

\* What an answer says of the command, when it says anything.
Told ==
    \/ outcome = "raised"
    \/ /\ outcome \in {"invalid", "cancelled", "timeout", "launch_error",
                       "io_error", "ok", "nonzero"}
       /\ effect \in {"not_attempted", "confirmed_complete", "completion_unknown"}
       /\ effect = "not_attempted" => shell = "none"
       /\ effect = "confirmed_complete" => exitSeen

\* The processes: who has forked, who has exited.
ProcessInv ==
    /\ launch \in {"none", "pending", "forked", "ready", "failed", "cancelled"}
    /\ launch \in {"none", "pending", "failed"} => shell = "none"
    /\ launch = "cancelled" => shell # "alive"
    /\ exitSeen => shell = "dead" /\ launch = "ready"
    /\ reader # "none" => launch = "ready"

\* The cleanup task: it runs only while the call waits for it, and is not
\* done before the shell is.
CleanupInv ==
    /\ cleanup \notin {"none", "done"} => pc = "cleaning"
    /\ cleanup \in {"killing", "reaping", "direct", "draining"} => launch = "ready"
    /\ cleanup \in {"direct", "draining"} => NoneRuns
    /\ cleanup = "done" => Ended

\* The call itself: what is known where it waits, and what it will say.
WaitInv ==
    /\ pc = "cleaning" =>
          cleanup # "none" /\ goal \in {"raise", "io_error", "cancelled", "timeout"}
    /\ pc = "running" => launch = "ready"
    /\ pc \in {"draining", "settling", "afterExit"} => exitSeen
    /\ pc \in {"finishing", "stopping", "joining"} =>
          \/ goal = "answer" /\ exitSeen
          \/ goal \in {"cancelled", "timeout"} /\ cleanup = "done"
          \/ goal = "close" /\ Ended /\ Told
    /\ pc \in {"leaving", "unlinking"} => Ended /\ Told
    /\ pc = "returned" => NoneRuns /\ Told

RunnerInv == ProcessInv /\ CleanupInv /\ WaitInv

\* What the operating system sees of the command never goes back, and the
\* fork and the exit are two steps.
Forward ==
    /\ exitSeen => exitSeen'
    /\ shell # "none" => shell' # "none"
    /\ exitSeen' /\ ~exitSeen => shell # "none"

RunnerStep ==
    \/ Runner!MainStep \/ Runner!CleanupStep \/ Runner!WriterStep
    \/ Runner!ReaderStep \/ Runner!LaunchSteps \/ Runner!ProcessSteps
    \/ Runner!TimerFires \/ Runner!GraceEnds \/ Runner!CallerCancels

\* Before the first call there is no process and no cleanup.
LEMMA RunnerInitially == Runner!Init => RunnerInv
BY DEF Runner!Init, RunnerInv, ProcessInv, CleanupInv, WaitInv

USE DEF Runner!answerVars, Runner!mainVars, Runner!signalVars, Runner!processVars,
    Runner!readerVars, Runner!writerVars, Runner!stopVars

\* The call up to the exit of the shell, or to the end of what replaces it.
LEMMA FirstWaits ==
    ASSUME RunnerInv,
           \/ Runner!Interrupted \/ Runner!LaunchFailed \/ Runner!ProcessHandedOver
           \/ Runner!ReaderObserved \/ Runner!CaptureFailed \/ Runner!ExitObserved
           \/ Runner!OutputDrained \/ Runner!WaitSettled \/ Runner!AfterExitSettled
    PROVE  RunnerInv' /\ Forward
<1> USE DEF RunnerInv, ProcessInv, CleanupInv, WaitInv, Ended, NoneRuns, Told,
        Runner!LaunchOver, Forward, Runner!Interrupt, Runner!StartCleanup,
        Runner!Answer, Runner!HandleFailure, Runner!StopReader, Runner!ReaderActive
<1>1. CASE Runner!Interrupted
  BY <1>1 DEF Runner!Interrupted
<1>2. CASE Runner!LaunchFailed
  BY <1>2 DEF Runner!LaunchFailed
<1>3. CASE Runner!ProcessHandedOver
  BY <1>3 DEF Runner!ProcessHandedOver
<1>4. CASE Runner!ReaderObserved
  BY <1>4 DEF Runner!ReaderObserved
<1>5. CASE Runner!CaptureFailed
  BY <1>5 DEF Runner!CaptureFailed
<1>6. CASE Runner!ExitObserved
  BY <1>6 DEF Runner!ExitObserved
<1>7. CASE Runner!OutputDrained
  BY <1>7 DEF Runner!OutputDrained
<1>8. CASE Runner!WaitSettled
  BY <1>8 DEF Runner!WaitSettled
<1>9. CASE Runner!AfterExitSettled
  BY <1>9 DEF Runner!AfterExitSettled
<1> QED BY <1>1, <1>2, <1>3, <1>4, <1>5, <1>6, <1>7, <1>8, <1>9

\* The call from there on: the writer, the cleanup, the return.
LEMMA LastWaits ==
    ASSUME RunnerInv,
           \/ Runner!FinishWriter \/ Runner!StopPut \/ Runner!WriterJoined
           \/ Runner!CleanupJoined \/ Runner!Leave \/ Runner!Unlinked
    PROVE  RunnerInv' /\ Forward
<1> USE DEF RunnerInv, ProcessInv, CleanupInv, WaitInv, Ended, NoneRuns, Told,
        Runner!LaunchOver, Forward, Runner!Interrupt, Runner!StartCleanup,
        Runner!Answer, Runner!HandleFailure, Runner!StopReader, Runner!ReaderActive,
        Runner!FinishRaises, Runner!FinishCancelled, Runner!FinishReturns,
        Runner!WriterJoin
<1>1. CASE Runner!FinishWriter
  BY <1>1, ZenonT(40) DEF Runner!FinishWriter
<1>2. CASE Runner!StopPut
  BY <1>2 DEF Runner!StopPut
<1>3. CASE Runner!WriterJoined
  BY <1>3, ZenonT(40) DEF Runner!WriterJoined
<1>4. CASE Runner!CleanupJoined
  BY <1>4 DEF Runner!CleanupJoined
<1>5. CASE Runner!Leave
  BY <1>5 DEF Runner!Leave
<1>6. CASE Runner!Unlinked
  BY <1>6 DEF Runner!Unlinked
<1> QED BY <1>1, <1>2, <1>3, <1>4, <1>5, <1>6

\* The cleanup task.
LEMMA CleanupKeeps ==
    ASSUME RunnerInv, Runner!CleanupStep
    PROVE  RunnerInv' /\ Forward
<1> USE DEF RunnerInv, ProcessInv, CleanupInv, WaitInv, Ended, NoneRuns, Told,
        Runner!LaunchOver, Forward, Runner!StopReader, Runner!ReaderActive
<1>1. CASE Runner!LaunchSettled
  BY <1>1 DEF Runner!LaunchSettled
<1>2. CASE Runner!KillTree
  BY <1>2 DEF Runner!KillTree
<1>3. CASE Runner!ClosePipe
  BY <1>3 DEF Runner!ClosePipe
<1>4. CASE Runner!TreeReaped
  BY <1>4 DEF Runner!TreeReaped, Runner!TreeKilled
<1>5. CASE Runner!KillDirectChild
  BY <1>5 DEF Runner!KillDirectChild
<1>6. CASE Runner!DirectChildSettled
  BY <1>6 DEF Runner!DirectChildSettled
<1>7. CASE Runner!CleanupDrained
  BY <1>7 DEF Runner!CleanupDrained
<1> QED BY <1>1, <1>2, <1>3, <1>4, <1>5, <1>6, <1>7 DEF Runner!CleanupStep

\* The operating system, the clock, the caller, the reader and the writer.
LEMMA WorldKeeps ==
    ASSUME RunnerInv,
           \/ Runner!LaunchSteps \/ Runner!ProcessSteps \/ Runner!CallerCancels
           \/ Runner!WriterStep \/ Runner!ReaderStep
           \/ Runner!TimerFires \/ Runner!GraceEnds
    PROVE  RunnerInv' /\ Forward
<1> USE DEF RunnerInv, ProcessInv, CleanupInv, WaitInv, Ended, NoneRuns, Told,
        Runner!LaunchOver, Forward, Runner!Interrupt, Runner!StartCleanup,
        Runner!Answer, Runner!StopReader, Runner!ReaderActive, Runner!Calling
<1>1. CASE Runner!LaunchSteps
  BY <1>1 DEF Runner!LaunchSteps
<1>2. CASE Runner!ProcessSteps
  BY <1>2 DEF Runner!ProcessSteps
<1>3. CASE Runner!CallerCancels
  BY <1>3, ZenonT(40) DEF Runner!CallerCancels, Runner!CancelPlainWait, Runner!CancelDrain,
     Runner!CancelStop, Runner!CancelShielded, Runner!CancelHandler,
     Runner!CancelFinally, Runner!FinishCancelled
<1>4. CASE Runner!WriterStep
  BY <1>4 DEF Runner!WriterStep, Runner!OpenRawOutput, Runner!WriteChunk,
     Runner!WriterStops
<1>5. CASE Runner!ReaderStep
  BY <1>5 DEF Runner!ReaderStep, Runner!ReadChunk, Runner!PutChunk, Runner!ReadEnd
<1>6. CASE Runner!TimerFires \/ Runner!GraceEnds
  BY <1>6 DEF Runner!TimerFires, Runner!GraceEnds
<1> QED BY <1>1, <1>2, <1>3, <1>4, <1>5, <1>6

\* Every step of execute_bash.
LEMMA RunnerKeeps == ASSUME RunnerInv, RunnerStep PROVE RunnerInv' /\ Forward
BY FirstWaits, LastWaits, CleanupKeeps, WorldKeeps DEF RunnerStep, Runner!MainStep

-----------------------------------------------------------------------------
\* What the operating system has seen of the command.
SeenWork == IF exitSeen THEN "complete" ELSE IF shell # "none" THEN "begun" ELSE "none"

BashInv ==
    /\ served \in Nat /\ served <= calls
    /\ phase \in {"context", "executor"} => served # calls
    /\ InBash /\ ~Running => work[calls] = "none"
    /\ Running => work[calls] = SeenWork

CallsInv == IInv /\ RunnerInv /\ BashInv

\* The composition starts with no call.
LEMMA CallsInitially == Init => CallsInv
<1> SUFFICES ASSUME Init PROVE CallsInv
  OBVIOUS
<1>1. IInv
  BY Initially DEF Init
<1>2. RunnerInv
  BY RunnerInitially DEF Init
<1>3. BashInv
  BY DEF Init, ToolInit, BashInv, InBash, Running
<1> QED BY <1>1, <1>2, <1>3 DEF CallsInv

\* Every call with something under way has an id.
LEMMA CurrentId ==
    ASSUME IInv, phase # "idle"
    PROVE  calls \in Ids /\ work \in [Ids -> {"none", "begun", "complete"}]
BY ToolAssumption DEF IInv, ToolTypeOK, Started, Ids

\* A bash call begins with nothing left of the one before.
LEMMA BeginKeeps ==
    ASSUME CallsInv, BashStarts
    PROVE  RunnerInv' /\ BashInv' /\ UNCHANGED toolVars
<1>1. UNCHANGED toolVars /\ served' = calls /\ InBash /\ work[calls] = "none"
  BY DEF BashStarts, CallsInv, BashInv
<1>2. /\ shell' = "none" /\ exitSeen' = FALSE /\ reader' = "none" /\ cleanup' = "none"
      /\ \/ pc' = "returned" /\ launch' = "none" /\ effect' = "not_attempted"
            /\ outcome' \in {"invalid", "cancelled"}
         \/ pc' = "launching" /\ launch' = "pending"
  BY DEF BashStarts, Runner!Begin, Runner!Reset, Runner!Refuse
<1>3. RunnerInv'
  BY <1>2 DEF RunnerInv, ProcessInv, CleanupInv, WaitInv, NoneRuns, Told
<1>4. calls \in Nat
  BY DEF CallsInv, IInv, ToolTypeOK
<1>5. BashInv'
  BY <1>1, <1>2, <1>4 DEF BashInv, SeenWork, InBash, Running, toolVars, callVars, Node
<1> QED BY <1>1, <1>3, <1>5

\* A step of the runner is a step of an implementation, or none.
LEMMA RunnerMoves ==
    ASSUME CallsInv, BashWorks
    PROVE  RunnerInv' /\ BashInv' /\ [ToolNext]_toolVars
<1>1. /\ Running /\ RunnerInv' /\ Forward
      /\ work' = [work EXCEPT ![calls] = SeenWork']
      /\ UNCHANGED <<phase, callVars, worldVars, ctx, owned, result, traceVars, served>>
  BY RunnerKeeps DEF BashWorks, RunnerTakes, CallsInv, RunnerStep, SeenWork
<1>2. /\ calls \in Ids /\ work \in [Ids -> {"none", "begun", "complete"}]
      /\ phase = "implementation" /\ work[calls] = SeenWork
  BY <1>1, CurrentId DEF Running, InBash, CallsInv, BashInv
<1>3. work'[calls] = SeenWork' /\ Running' /\ calls' = calls
  BY <1>1, <1>2 DEF Running, InBash, Node, callVars
<1>4. BashInv'
  BY <1>1, <1>2, <1>3 DEF BashInv, CallsInv
<1>5. CASE SeenWork' = SeenWork
  <2>1. work' = work
    BY <1>1, <1>2, <1>5
  <2> QED BY <1>1, <1>4, <2>1 DEF toolVars, callVars, worldVars, traceVars
<1>6. CASE SeenWork = "none" /\ SeenWork' = "begun"
  BY <1>1, <1>2, <1>4, <1>6 DEF ToolNext, ImplementationStep, WorkBegins, Work, Inside
<1>7. CASE SeenWork = "begun" /\ SeenWork' = "complete"
  BY <1>1, <1>2, <1>4, <1>7 DEF ToolNext, ImplementationStep, WorkCompletes, Work, Inside
<1>8. \/ SeenWork' = SeenWork
      \/ SeenWork = "none" /\ SeenWork' = "begun"
      \/ SeenWork = "begun" /\ SeenWork' = "complete"
  BY <1>1 DEF SeenWork, Forward
<1> QED BY <1>1, <1>4, <1>5, <1>6, <1>7, <1>8

\* The answer of a bash call never lies about the command.
LEMMA BashIsHonest ==
    ASSUME CallsInv, Running, pc = "returned", outcome # "raised"
    PROVE  /\ StatusOf \in Statuses /\ effect \in Certainties
           /\ Honest(effect, work[calls])
<1>1. Told /\ work[calls] = SeenWork /\ ProcessInv
  BY DEF CallsInv, RunnerInv, WaitInv, BashInv
<1>2. StatusOf \in Statuses
  BY <1>1 DEF Told, StatusOf, Statuses
<1>3. effect \in Certainties
  BY <1>1 DEF Told, Certainties
<1>4. Honest(effect, work[calls])
  BY <1>1 DEF Told, Honest, SeenWork, ProcessInv
<1> QED BY <1>2, <1>3, <1>4

\* What the runner returns is what an implementation may answer.
LEMMA ReturnKeeps ==
    ASSUME CallsInv, BashReturns
    PROVE  RunnerInv' /\ BashInv' /\ ToolNext
<1>1. /\ phase = "implementation" /\ Running /\ pc = "returned" /\ RunnerIsGone
  BY DEF BashReturns, Running, InBash
<1>2. ToolNext /\ phase' \in {"cancelled", "answered"} /\ calls' = calls
  <2>1. CASE outcome = "raised"
    BY <1>1, <2>1 DEF BashReturns, CancelledInside, ToolNext, ImplementationStep, callVars
  <2>2. CASE outcome # "raised"
    <3>1. Answers(StatusOf, effect, TRUE)
      BY <2>2 DEF BashReturns
    <3>2. ImplementationReturns(StatusOf, effect, TRUE)
      BY <1>1, <2>2, <3>1, BashIsHonest DEF ImplementationReturns
    <3>3. ToolNext
      BY <1>1, <2>2, <3>2, BashIsHonest DEF ToolNext, ImplementationStep
    <3> QED BY <3>1, <3>3 DEF Answers, ExecutorRecords, callVars
  <2> QED BY <2>1, <2>2
<1>3. RunnerInv'
  BY <1>1 DEF RunnerIsGone, Runner!Reset, RunnerInv, ProcessInv, CleanupInv, WaitInv
<1>4. BashInv'
  BY <1>1, <1>2 DEF CallsInv, BashInv, InBash, Running, RunnerIsGone
<1> QED BY <1>2, <1>3, <1>4

\* A bash call that is refused before the runner has done nothing.
LEMMA RefusalIsHonest ==
    ASSUME CallsInv, BashRefuses
    PROVE  RunnerInv' /\ BashInv' /\ ToolNext
<1>1. /\ phase = "implementation" /\ work[calls] = "none"
      /\ Answers("not_executed", "not_attempted", TRUE)
      /\ UNCHANGED <<served, runnerVars>>
  BY DEF BashRefuses, InBash, CallsInv, BashInv
<1>2. ImplementationReturns("not_executed", "not_attempted", TRUE)
  BY <1>1 DEF ImplementationReturns, Honest
<1>3. "not_executed" \in Statuses /\ "not_attempted" \in Certainties
  BY DEF Statuses, Certainties
<1>4. ToolNext
  BY <1>1, <1>2, <1>3 DEF ToolNext, ImplementationStep
<1>5. phase' = "answered" /\ calls' = calls
  BY <1>1 DEF Answers, ExecutorRecords, callVars
<1>6. BashInv'
  BY <1>1, <1>5 DEF CallsInv, BashInv, InBash, Running
<1>7. RunnerInv'
  BY <1>1 DEF CallsInv, runnerVars, RunnerInv, ProcessInv, CleanupInv, WaitInv,
     Ended, NoneRuns, Told, Runner!LaunchOver
<1> QED BY <1>4, <1>6, <1>7

\* A step of the boundary that is not of a bash call.
LEMMA OtherKeeps ==
    ASSUME CallsInv, OtherTool \/ TokenFires
    PROVE  RunnerInv' /\ BashInv' /\ ToolNext
<1>1. ToolNext /\ UNCHANGED <<served, runnerVars>>
  BY DEF OtherTool, TokenFires, ToolNext
<1>2. RunnerInv'
  BY <1>1 DEF CallsInv, runnerVars, RunnerInv, ProcessInv, CleanupInv, WaitInv,
     Ended, NoneRuns, Told, Runner!LaunchOver
<1>3. /\ calls \in Nat /\ served \in Nat /\ served <= calls
      /\ phase \in {"context", "executor"} => served # calls
      /\ phase = "executor" => work[calls] = "none"
  BY DEF CallsInv, IInv, BashInv, ToolTypeOK, Untouched
<1>4. CASE TokenFires
  <2>1. UNCHANGED <<phase, calls, nodeOf, work, served, exitSeen, shell>>
    BY <1>4 DEF TokenFires, TokenIsSet, callVars, runnerVars
  <2> QED BY <1>1, <1>2, <2>1 DEF CallsInv, BashInv, InBash, Running, Node, SeenWork
<1>5. ASSUME phase' # "implementation", calls' \in {calls, calls + 1}, served' = served,
             phase' = "context" => calls' = calls + 1,
             phase' = "executor" => calls' = calls /\ phase = "context"
      PROVE  BashInv'
  BY <1>3, <1>5 DEF BashInv, InBash, Running
<1>6. CASE OtherTool /\ BoundaryStep
  BY <1>1, <1>2, <1>3, <1>5, <1>6 DEF BoundaryStep, Invoke, ReadContext, Preflight,
     ConnectorDenies, EnterBroker, Enter, BridgeCatches, BoundaryDefect,
     BridgeReturns, BridgeRecords, ExecutorReturns, ExecutorRecords, callVars
<1>7. CASE OtherTool /\ BrokerStep
  BY <1>1, <1>2, <1>3, <1>5, <1>7 DEF BrokerStep, WorkBegins, WorkCompletes, Work,
     ImplementationRaises, ResultRaises, CancelledInside, BrokerReturns,
     ExecutorReturns, ExecutorRecords, callVars
<1>8. CASE OtherTool /\ DeadlinePasses
  <2>1. phase # "implementation" /\ UNCHANGED <<phase, calls>>
    BY <1>8 DEF DeadlinePasses, Inside, callVars
  <2> QED BY <1>1, <1>2, <1>3, <2>1 DEF BashInv, InBash, Running
<1>9. CASE EnterImplementation
  <2>1. /\ phase = "executor" /\ phase' = "implementation" /\ calls' = calls
        /\ work' = work
    BY <1>9 DEF EnterImplementation, Enter, callVars
  <2> QED BY <1>1, <1>2, <1>3, <2>1 DEF BashInv, InBash, Running
<1>10. CASE ImplementationStep /\ ~InBash /\ phase = "implementation"
  <2>1. /\ calls' = calls /\ nodeOf' = nodeOf
        /\ phase' \in {"implementation", "answered", "returning", "raising", "cancelled"}
    BY <1>10 DEF ImplementationStep, EnterImplementation, Enter, WorkBegins,
       WorkCompletes, Work, ImplementationRaises, ResultRaises, CancelledInside,
       ImplementationReturns, Answers, ExecutorReturns, ExecutorRecords, callVars
  <2>2. ~InBash'
    BY <1>10, <2>1 DEF InBash, Node
  <2> QED BY <1>1, <1>2, <1>3, <2>1, <2>2 DEF BashInv, Running
<1>11. \/ TokenFires
       \/ OtherTool /\ (BoundaryStep \/ BrokerStep \/ DeadlinePasses)
       \/ EnterImplementation
       \/ ImplementationStep /\ ~InBash /\ phase = "implementation"
  BY DEF OtherTool, ImplementationStep
<1> QED BY <1>1, <1>2, <1>4, <1>6, <1>7, <1>8, <1>9, <1>10, <1>11

\* The invariant is inductive, and every step is one of the boundary.
LEMMA CallsInductive ==
    ASSUME CallsInv, [Next]_vars
    PROVE  CallsInv' /\ [ToolNext]_toolVars
<1>1. RunnerInv' /\ BashInv' /\ [ToolNext]_toolVars
  <2>1. CASE Next
    BY <2>1, OtherKeeps, RefusalIsHonest, BeginKeeps, RunnerMoves, ReturnKeeps
       DEF Next
  <2>2. CASE UNCHANGED vars
    BY <2>2 DEF vars, toolVars, runnerVars, callVars, CallsInv, BashInv, InBash,
       Running, Node, SeenWork, RunnerInv, ProcessInv, CleanupInv, WaitInv, Ended,
       NoneRuns, Told, Runner!LaunchOver
  <2> QED BY <2>1, <2>2
<1>2. IInv'
  BY <1>1, Inductive DEF CallsInv
<1> QED BY <1>1, <1>2 DEF CallsInv

\* The invariant of the composition holds throughout.
THEOREM CallsInvariance == Spec => []CallsInv
BY CallsInitially, CallsInductive, PTL DEF Spec

\* No bash call, however its caller cancels it and whatever the command
\* does, leaves a shell that was not sent a kill (execute_bash).
THEOREM ShellsAreKilled == Spec => []NoShellLeftRunning
<1>1. CallsInv => NoShellLeftRunning
  BY DEF CallsInv, RunnerInv, WaitInv, NoneRuns, NoShellLeftRunning
<1> QED BY <1>1, CallsInvariance, PTL

\* Every behaviour of the boundary with execute_bash behind it is one of
\* the boundary with an implementation that never lies.
THEOREM BashIsAnImplementation == Spec => ImplementsBoundary
<1>1. Init => ToolInit
  BY DEF Init
<1>2. CallsInv /\ [Next]_vars => [ToolNext]_toolVars
  BY CallsInductive
<1> QED BY <1>1, <1>2, CallsInvariance, PTL DEF Spec, ToolSpec, ImplementsBoundary

\* And so the traces of bash calls can be believed too.
THEOREM BashTracesAreHonest == Spec => []TraceAccountsForEffects
BY BashIsAnImplementation, TracesAreHonest, PTL DEF ImplementsBoundary

-----------------------------------------------------------------------------
(***************************************************************************)
(* The built-in tools on a workspace that others change (BuiltinTools).    *)
(* What an implementation has made sure of itself is enough: nothing of    *)
(* the policy's look at the files is needed.                               *)
(***************************************************************************)
\* What the implementation has made sure of once it has looked: the places
\* the call is about to change are ones it may change.
Admitted ==
    /\ call.tool \in {"write", "patch", "store", "store_diff"}
    /\ call.tool = "write" => Target(call.name) \in Workspace
    /\ call.tool = "patch" =>
          /\ call.names # {}
          /\ \A n \in call.names : Leads[n].place \in Workspace
    /\ call.tool \in {"store", "store_diff"} => ArtifactAllowed(call)

\* A target that is not what the write expects was changed after it looked.
StillExpected ==
    call.tool = "write" /\ call.expected # Unset =>
       \A p \in Locations :
          p = Where => files[p] \in {call.expected, Absent} \/ p \in others

Writing == {"checked", "filling", "filled"}

WorkspaceInv ==
    /\ call \in Calls /\ files = [p \in Locations |-> files[p]]
    /\ stage \in Writing \cup {"gate", "entered", "killed"} =>
          mine = {} /\ returned = Unset
    /\ stage \in Writing => Admitted /\ StillExpected
    /\ stage \in {"filling", "filled"} =>
          call.tool # "patch" /\ temp = [place |-> Where, full |-> temp.full]
    /\ stage = "applied" =>
          call.tool = "patch" /\ mine = Licensed /\ returned = Unset
    /\ stage = "running" =>
          call.tool = "shell" /\ mine \subseteq Workspace /\ returned = Unset
    /\ EffectsAreLicensed

-----------------------------------------------------------------------------
(***************************************************************************)
(* Lemmas about the rules.                                                 *)
(***************************************************************************)
\* Whatever the files are, a name that can be written leads into the
\* workspace.
LEMMA WritableIsInside ==
    ASSUME NEW n \in DOMAIN Leads, Writable(n)
    PROVE  Leads[n].place \in Workspace
BY BuiltinAssumption DEF Writable

\* A write is of the one place it is licensed to change.
LEMMA LicensedIsWhere ==
    ASSUME call \in Calls, Admitted, call.tool # "patch"
    PROVE  Licensed = {Where}
<1>1. CASE call.tool = "write"
  BY <1>1 DEF Admitted, Licensed, Where, Target
<1>2. CASE call.tool \in {"store", "store_diff"}
  <2>1. /\ call.artifact \in DOMAIN Store
        /\ call.artifact \in call.produced /\ call.artifact \in call.policy.declared
    BY <1>2, BuiltinAssumption DEF Admitted, ArtifactAllowed
  <2>2. Licensed = {Store[a] : a \in DOMAIN Store \cap call.produced
                                       \cap call.policy.declared
                                       \cap {call.artifact}}
    BY <1>2 DEF Licensed
  <2>3. DOMAIN Store \cap call.produced \cap call.policy.declared
           \cap {call.artifact} = {call.artifact}
    BY <2>1
  <2>4. Where = Store[call.artifact]
    BY <1>2 DEF Where
  <2> QED BY <2>2, <2>3, <2>4
<1> QED BY <1>1, <1>2 DEF Admitted

\* What the effects need to be once a call is over.
LEMMA NothingDone ==
    ASSUME call' = call, mine' = {}, returned'.status # "success"
    PROVE  EffectsAreLicensed'
BY DEF EffectsAreLicensed, Licensed

\* A call starts with nothing changed.
LEMMA WorkspaceInitially == BuiltinInit => WorkspaceInv
BY DEF BuiltinInit, WorkspaceInv, Writing, EffectsAreLicensed

\* A refusal, and the answer of a tool that looks, when nothing was done.
LEMMA RefusalKeeps ==
    ASSUME WorkspaceInv, mine = {}, NEW code, Refuses(code)
    PROVE  WorkspaceInv'
BY NothingDone DEF Refuses, Returns, Refusal, Outcome, WorkspaceInv, Writing, Admitted,
   StillExpected

LEMMA ShowKeeps ==
    ASSUME WorkspaceInv, mine = {}, NEW data, Shows(data), 
           call.tool \notin {"write", "patch", "store", "store_diff", "shell"},
           call.tool = "terminal" => TerminalBacked(call) /\ data = TerminalRefs(call)
    PROVE  WorkspaceInv'
<1>1. /\ returned'.status = "success" /\ returned'.data = data
      /\ returned'.effect = "confirmed_complete" /\ stage' = "over"
      /\ UNCHANGED <<call, files, mine>>
  BY DEF Shows, Returns, Success, Outcome
<1>2. Licensed' = {}
  BY <1>1 DEF Licensed
<1>3. EffectsAreLicensed'
  BY <1>1, <1>2 DEF EffectsAreLicensed, TerminalBacked
<1> QED BY <1>1, <1>3 DEF WorkspaceInv, Writing

\* An implementation that has looked, and was satisfied.
LEMMA LookKeeps ==
    ASSUME WorkspaceInv, stage = "entered", NEW content, Looked(content), Admitted,
           call.tool = "write" => ~Mismatch(call)
    PROVE  WorkspaceInv'
<1>1. /\ stage' = "checked" /\ others' = {}
      /\ UNCHANGED <<call, files, mine, returned>>
  BY DEF Looked
<1>2. mine = {} /\ returned = Unset
  BY DEF WorkspaceInv
<1>3. Admitted'
  BY <1>1 DEF Admitted, Target, ArtifactAllowed
<1>4. StillExpected'
  BY <1>1 DEF StillExpected, Where, Mismatch
<1>5. EffectsAreLicensed'
  BY <1>1, <1>2 DEF EffectsAreLicensed
<1> QED BY <1>1, <1>2, <1>3, <1>4, <1>5 DEF WorkspaceInv, Writing

\* The invariant is inductive.
LEMMA WorkspaceStep == WorkspaceInv /\ [BuiltinNext]_builtinVars => WorkspaceInv'
<1> SUFFICES ASSUME WorkspaceInv, [BuiltinNext]_builtinVars PROVE WorkspaceInv'
  OBVIOUS
<1> USE DEF Writing
<1>1. ASSUME Gate PROVE WorkspaceInv'
  <2>1. mine = {} /\ returned = Unset
    BY <1>1 DEF Gate, WorkspaceInv
  <2>2. CASE stage' = "entered"
    BY <1>1, <2>1, <2>2 DEF Gate, Returns, WorkspaceInv, EffectsAreLicensed
  <2>3. CASE stage' = "over"
    <3>1. returned'.status = "not_executed" /\ UNCHANGED <<call, mine, files>>
      BY <1>1, <2>3 DEF Gate, Returns, Refusal, Outcome
    <3>2. EffectsAreLicensed'
      BY <3>1, <2>1, NothingDone
    <3> QED BY <3>1, <3>2, <2>3 DEF WorkspaceInv
  <2> QED BY <1>1, <2>2, <2>3 DEF Gate, Returns
<1>2. ASSUME ReadFails PROVE WorkspaceInv'
  <2>1. /\ returned'.status = "not_executed" /\ stage' = "over"
        /\ UNCHANGED <<call, mine, files>> /\ mine = {}
    BY <1>2 DEF ReadFails, Returns, Refusal, Outcome, WorkspaceInv
  <2> QED BY <2>1, NothingDone DEF WorkspaceInv
<1>3. ASSUME ListOrSearch \/ ReadFile \/ ReadDiff \/ FetchArtifact
      PROVE  WorkspaceInv'
  <2>1. /\ mine = {} /\ call.tool \in {"list", "search", "read", "diff", "fetch"}
        /\ \E x : Refuses(x) \/ Shows(x)
    BY <1>3 DEF ListOrSearch, ReadFile, ReadDiff, FetchArtifact, WorkspaceInv
  <2> QED BY <2>1, RefusalKeeps, ShowKeeps
<1>4. ASSUME Inspect \/ Terminal PROVE WorkspaceInv'
  <2>1. mine = {}
    BY <1>4 DEF Inspect, Terminal, WorkspaceInv
  <2> QED BY <1>4, <2>1, RefusalKeeps, ShowKeeps DEF Inspect, Terminal
<1>5. ASSUME Compare PROVE WorkspaceInv'
  <2>1. mine = {} /\ call.name \in DOMAIN Leads
    BY <1>5, BuiltinAssumption DEF Compare, WorkspaceInv
  <2>2. CASE Writable(call.name) /\ ~Mismatch(call)
    <3>1. Admitted
      BY <1>5, <2>1, <2>2, WritableIsInside DEF Compare, Admitted, Target
    <3> QED BY <1>5, <2>2, <3>1, LookKeeps DEF Compare
  <2>3. CASE ~(Writable(call.name) /\ ~Mismatch(call))
    BY <1>5, <2>1, <2>3, RefusalKeeps DEF Compare
  <2> QED BY <2>2, <2>3
<1>6. ASSUME AdmitArtifact PROVE WorkspaceInv'
  <2>1. mine = {}
    BY <1>6 DEF AdmitArtifact, WorkspaceInv
  <2>2. CASE ArtifactAllowed(call)
    BY <1>6, <2>2, LookKeeps DEF AdmitArtifact, Admitted
  <2> QED BY <1>6, <2>1, <2>2, RefusalKeeps DEF AdmitArtifact
<1>7. ASSUME PatchBase PROVE WorkspaceInv'
  <2>1. mine = {} /\ call.names \subseteq DOMAIN Leads
    BY <1>7, BuiltinAssumption DEF PatchBase, WorkspaceInv
  <2>2. CASE Looked(call.content) /\ call.names # {}
             /\ \A n \in call.names : Writable(n)
    <3>1. Admitted
      BY <1>7, <2>1, <2>2, WritableIsInside DEF PatchBase, Admitted
    <3> QED BY <1>7, <2>2, <3>1, LookKeeps DEF PatchBase
  <2> QED BY <1>7, <2>1, <2>2, RefusalKeeps DEF PatchBase
<1>8. ASSUME MakeTemp PROVE WorkspaceInv'
  <2>1. mine = {} /\ returned = Unset
    BY <1>8 DEF MakeTemp, WorkspaceInv
  <2>2. CASE stage' = "filling"
    <3>1. /\ temp' = [place |-> Where, full |-> FALSE] /\ Where' = Where
          /\ UNCHANGED <<call, files, others, mine, returned>>
      BY <1>8, <2>2 DEF MakeTemp, Refuses, Returns, Where
    <3>2. Admitted' /\ StillExpected'
      BY <1>8, <3>1 DEF MakeTemp, WorkspaceInv, Admitted, StillExpected, Target, ArtifactAllowed
    <3> QED BY <1>8, <2>1, <2>2, <3>1, <3>2 DEF MakeTemp, WorkspaceInv, EffectsAreLicensed
  <2>3. CASE Refuses("policy_denied")
    BY <2>1, <2>3, RefusalKeeps
  <2> QED BY <1>8, <2>2, <2>3 DEF MakeTemp
<1>9. ASSUME FillTemp PROVE WorkspaceInv'
  <2>1. /\ UNCHANGED <<call, files, others, mine, returned, Where>>
        /\ stage' = "filled" /\ mine = {} /\ returned = Unset
        /\ temp' = [place |-> Where, full |-> TRUE]
    <3>1. PICK f : temp = [place |-> Where, full |-> f]
      BY <1>9 DEF FillTemp, WorkspaceInv
    <3>2. temp' = [place |-> Where, full |-> TRUE]
      BY <1>9, <3>1 DEF FillTemp
    <3> QED BY <1>9, <3>2 DEF FillTemp, WorkspaceInv, Where
  <2>2. Admitted' /\ StillExpected'
    BY <1>9, <2>1 DEF FillTemp, WorkspaceInv, Admitted, StillExpected, Target, ArtifactAllowed
  <2> QED BY <1>9, <2>1, <2>2 DEF FillTemp, WorkspaceInv, EffectsAreLicensed
<1>10. ASSUME Replace PROVE WorkspaceInv'
  <2>1. /\ mine = {} /\ Admitted /\ call \in Calls /\ call.tool # "patch"
        /\ temp.place = Where
    BY <1>10 DEF Replace, WorkspaceInv
  <2>2. /\ mine' = {Where} /\ call' = call /\ stage' = "over"
        /\ returned'.effect = "confirmed_complete"
    BY <1>10, <2>1 DEF Replace, Returns, Success, Outcome
  <2>3. mine' = Licensed'
    BY <2>1, <2>2, LicensedIsWhere DEF Licensed
  <2>4. call.policy # Unset \/ call.tool = "write"
    BY <2>1 DEF Admitted, ArtifactAllowed
  <2>5. EffectsAreLicensed'
    BY <2>1, <2>2, <2>3, <2>4 DEF EffectsAreLicensed, Admitted
  <2>6. files' = [p \in Locations |-> files'[p]]
    BY <1>10 DEF Replace, WorkspaceInv
  <2> QED BY <2>1, <2>2, <2>5, <2>6 DEF WorkspaceInv
<1>11. ASSUME WriteFails PROVE WorkspaceInv'
  <2>1. /\ returned'.status = "not_executed" /\ stage' = "over"
        /\ UNCHANGED <<call, mine, files>> /\ mine = {}
    BY <1>11 DEF WriteFails, Returns, Refusal, Outcome, WorkspaceInv
  <2> QED BY <2>1, NothingDone DEF WorkspaceInv
<1>12. ASSUME GitApply PROVE WorkspaceInv'
  <2>1. mine = {} /\ Admitted /\ call \in Calls /\ call.tool = "patch"
    BY <1>12 DEF GitApply, WorkspaceInv
  <2>2. ASSUME NEW done \in SUBSET call.touched,
               files' = [p \in Locations |-> IF p \in done THEN text ELSE files[p]],
               mine' = done,
               IF done = call.touched
               THEN stage' = "applied" /\ UNCHANGED <<call, returned, changes>>
               ELSE Returns(Refusal("conflict", "io"))
        PROVE  WorkspaceInv'
    <3>1. call' = call /\ Licensed' = call.touched
      BY <2>1, <2>2 DEF Returns, Licensed
    <3>2. returned' = Unset \/ (returned'.status # "success" /\ returned'.by = "io")
      <4>1. stage = "checked" /\ returned = Unset
        BY <1>12 DEF GitApply, WorkspaceInv
      <4>2. returned' = returned \/ Returns(Refusal("conflict", "io"))
        BY <2>2
      <4>3. CASE Returns(Refusal("conflict", "io"))
        BY <4>3 DEF Returns, Refusal, Outcome
      <4> QED BY <4>1, <4>2, <4>3
    <3>3. EffectsAreLicensed'
      BY <2>1, <2>2, <3>1, <3>2 DEF EffectsAreLicensed, Admitted
    <3> QED BY <1>12, <2>1, <2>2, <3>1, <3>3 DEF WorkspaceInv, Returns, GitApply
  <2> QED BY <1>12, <2>1, <2>2, RefusalKeeps DEF GitApply
<1>13. ASSUME PatchReturns PROVE WorkspaceInv'
  <2>1. /\ call.tool = "patch" /\ mine = Licensed /\ UNCHANGED <<call, files, mine>>
        /\ stage' = "over" /\ Licensed' = Licensed
        /\ returned'.effect = "confirmed_complete" \/ returned'.by = "io"
    <3>1. /\ call.tool = "patch" /\ mine = Licensed /\ stage' = "over"
          /\ UNCHANGED <<call, files, mine>>
      BY <1>13 DEF PatchReturns, Returns, WorkspaceInv
    <3>2. returned'.effect = "confirmed_complete" \/ returned'.by = "io"
      BY <1>13 DEF PatchReturns, Returns, Refusal, Success, Outcome
    <3> QED BY <3>1, <3>2 DEF Licensed
  <2>2. EffectsAreLicensed'
    BY <1>13, <2>1 DEF WorkspaceInv, EffectsAreLicensed
  <2> QED BY <2>1, <2>2 DEF WorkspaceInv
<1>14. ASSUME Start PROVE WorkspaceInv'
  <2>1. mine = {} /\ returned = Unset
    BY <1>14 DEF Start, WorkspaceInv
  <2>2. CASE stage' = "running" /\ UNCHANGED <<call, files, mine, returned>>
    BY <1>14, <2>1, <2>2 DEF Start, WorkspaceInv, EffectsAreLicensed
  <2>3. CASE /\ Returns(Outcome("hard_failure", "implementation_error",
                              "not_attempted", {}, "io"))
             /\ UNCHANGED <<files, text, temp, others, mine>>
    BY <2>1, <2>3, NothingDone DEF WorkspaceInv, Returns, Outcome
  <2> QED BY <1>14, <2>1, <2>2, <2>3, RefusalKeeps DEF Start
<1>15. ASSUME Works PROVE WorkspaceInv'
  <2>1. /\ call.tool = "shell" /\ returned = Unset /\ UNCHANGED <<call, stage, returned>>
        /\ mine' \subseteq Workspace /\ files' = [p \in Locations |-> files'[p]]
    BY <1>15 DEF Works, WorkspaceInv
  <2> QED BY <1>15, <2>1 DEF Works, WorkspaceInv, EffectsAreLicensed, Licensed
<1>16. ASSUME Exits PROVE WorkspaceInv'
  <2>1. /\ call.tool = "shell" /\ UNCHANGED <<call, files, mine>> /\ stage' = "over"
        /\ mine \subseteq Workspace
        /\ returned'.effect \in {"confirmed_complete", "completion_unknown"}
    BY <1>16 DEF Exits, Returns, Success, Outcome, WorkspaceInv
  <2> QED BY <2>1 DEF WorkspaceInv, EffectsAreLicensed, Licensed
<1>17. ASSUME OthersChange PROVE WorkspaceInv'
  <2>1. PICK p \in Locations, to \in {"theirs", Absent} :
           files' = [files EXCEPT ![p] = to] /\ others' = others \cup {p}
    BY <1>17 DEF OthersChange
  <2>2. UNCHANGED <<call, stage, temp, mine, returned, Where, Licensed>>
    BY <1>17 DEF OthersChange, Where, Licensed
  <2>3. files' = [q \in Locations |-> files'[q]]
    BY <2>1 DEF WorkspaceInv
  <2>4. ASSUME stage \in Writing PROVE Admitted' /\ StillExpected'
    BY <2>1, <2>2, <2>4 DEF WorkspaceInv, Admitted, StillExpected, Target, ArtifactAllowed
  <2>5. EffectsAreLicensed'
    BY <2>2 DEF WorkspaceInv, EffectsAreLicensed
  <2> QED BY <2>2, <2>3, <2>4, <2>5 DEF WorkspaceInv
<1>18. ASSUME Killed PROVE WorkspaceInv'
  BY <1>18 DEF Killed, WorkspaceInv, EffectsAreLicensed, Licensed
<1>19. ASSUME UNCHANGED builtinVars PROVE WorkspaceInv'
  BY <1>19 DEF builtinVars, WorkspaceInv, Admitted, StillExpected, Where, Target,
     ArtifactAllowed, EffectsAreLicensed, Licensed
<1> QED
  BY <1>1, <1>2, <1>3, <1>4, <1>5, <1>6, <1>7, <1>8, <1>9, <1>10, <1>11, <1>12,
     <1>13, <1>14, <1>15, <1>16, <1>17, <1>18, <1>19 DEF BuiltinNext

\* A built-in tool changes what it may change and nothing else, and its
\* answer says so, whatever others do to the files and whenever.
THEOREM EffectsStayLicensed == BuiltinSpec => []EffectsAreLicensed
<1>1. BuiltinInit => WorkspaceInv
  BY WorkspaceInitially
<1>2. WorkspaceInv /\ [BuiltinNext]_builtinVars => WorkspaceInv'
  BY WorkspaceStep
<1>3. WorkspaceInv => EffectsAreLicensed
  BY DEF WorkspaceInv
<1> QED BY <1>1, <1>2, <1>3, PTL DEF BuiltinSpec

\* NoLostChange says it of the steps.
KeepsOthersChanges ==
    \A p \in Locations :
       /\ call.tool = "write" /\ stage = "filled" /\ stage' = "over"
       /\ files'[p] # files[p] /\ call.expected # Unset
       => files[p] \in {call.expected, Absent} \/ p \in others

\* The one step that replaces a file replaces what the write expected.
LEMMA StepKeepsChanges ==
    ASSUME WorkspaceInv, [BuiltinNext]_builtinVars
    PROVE  [KeepsOthersChanges]_builtinVars
<1> SUFFICES ASSUME NEW p \in Locations, BuiltinNext,
                    call.tool = "write", stage = "filled", stage' = "over",
                    files'[p] # files[p], call.expected # Unset
             PROVE  files[p] \in {call.expected, Absent} \/ p \in others
  BY DEF KeepsOthersChanges
<1>1. Replace \/ WriteFails
  BY DEF BuiltinNext, Gate, ReadFails, ListOrSearch, ReadFile, ReadDiff,
     FetchArtifact, Inspect, Terminal, Compare, AdmitArtifact, MakeTemp, FillTemp,
     PatchBase, GitApply, PatchReturns, Start, Works, Exits, OthersChange, Killed
<1>2. Replace
  BY <1>1 DEF WriteFails
<1>3. p = Where
  BY <1>2 DEF Replace, WorkspaceInv
<1> QED BY <1>3 DEF WorkspaceInv, Writing, StillExpected

\* A write that names the content it expects never replaces another one
\* that was there when it looked.
THEOREM ChangesAreNotLost == BuiltinSpec => NoLostChange
<1>1. BuiltinInit => WorkspaceInv
  BY WorkspaceInitially
<1>2. WorkspaceInv /\ [BuiltinNext]_builtinVars => WorkspaceInv'
  BY WorkspaceStep
<1>3. WorkspaceInv /\ [BuiltinNext]_builtinVars => [KeepsOthersChanges]_builtinVars
  BY StepKeepsChanges
<1>4. (BuiltinSpec => [][KeepsOthersChanges]_builtinVars)
  BY <1>1, <1>2, <1>3, PTL DEF BuiltinSpec
<1> QED BY <1>4 DEF NoLostChange, KeepsOthersChanges

-----------------------------------------------------------------------------
(***************************************************************************)
(* The file tools: what a model is shown of a file, or of an output that   *)
(* is too long, is whole lines, each once and in order, and as many as     *)
(* the limits allow.                                                       *)
(***************************************************************************)
Lines == Seq(Seq(Nat))
\* The sizes of the lines of a text.
Widths(lines) == [i \in DOMAIN lines |-> Bytes(lines[i])]

\* A part of a sequence that lies within it.
LEMMA PartOf ==
    ASSUME NEW S, NEW s \in Seq(S), NEW m \in 1..(Len(s) + 1), NEW n \in (m - 1)..Len(s)
    PROVE  /\ SubSeq(s, m, n) \in Seq(S) /\ Len(SubSeq(s, m, n)) = n - m + 1
           /\ \A i \in 1..(n - m + 1) : SubSeq(s, m, n)[i] = s[m + i - 1]
<1>1. Len(s) \in Nat /\ m \in Int /\ n \in Int /\ m - 1 <= n /\ m..n \subseteq 1..Len(s)
  BY LenProperties
<1>2. \A i \in m..n : s[i] \in S
  BY <1>1, ElementOfSeq
<1>3. /\ SubSeq(s, m, n) \in Seq(S)
      /\ Len(SubSeq(s, m, n)) = IF m <= n THEN n - m + 1 ELSE 0
      /\ \A i \in 1..(n - m + 1) : SubSeq(s, m, n)[i] = s[m + i - 1]
  BY <1>1, <1>2, SubSeqProperties
<1>4. (IF m <= n THEN n - m + 1 ELSE 0) = n - m + 1
  BY <1>1
<1> QED
  BY <1>3, <1>4

\* The size of a text, and what a line at its end adds.
LEMMA JoinedGrows ==
    /\ Joined(<<>>) = 0
    /\ \A lines \in Lines : Joined(lines) \in Nat
    /\ \A lines \in Lines, l \in Seq(Nat) :
          /\ Append(lines, l) \in Lines
          /\ Joined(Append(lines, l)) =
                Joined(lines) + Bytes(l) + IF lines = <<>> THEN 0 ELSE 1
<1>1. ASSUME NEW lines \in Lines
      PROVE  /\ Widths(lines) \in Seq(Nat) /\ Len(Widths(lines)) = Len(lines)
             /\ \A i \in 1..Len(lines) : Widths(lines)[i] = Bytes(lines[i])
             /\ Joined(lines) = Bytes(Widths(lines))
                                + IF lines = <<>> THEN 0 ELSE Len(lines) - 1
  <2>1. /\ Len(lines) \in Nat /\ DOMAIN lines = 1..Len(lines)
        /\ \A i \in 1..Len(lines) : Bytes(lines[i]) \in Nat
    BY LenProperties, ElementOfSeq, BytesGrow DEF Lines
  <2>2. Widths(lines) = [i \in 1..Len(lines) |-> Bytes(lines[i])]
    BY <2>1 DEF Widths
  <2>3. Widths(lines) \in Seq(Nat) /\ Len(Widths(lines)) = Len(lines)
    BY <2>1, <2>2
  <2> QED
    BY <2>1, <2>2, <2>3 DEF Joined, Bytes, Widths
<1>2. ASSUME NEW lines \in Lines, NEW l \in Seq(Nat)
      PROVE  /\ Append(lines, l) \in Lines /\ Append(lines, l) # <<>>
             /\ Len(Append(lines, l)) = Len(lines) + 1
             /\ Widths(Append(lines, l)) = Append(Widths(lines), Bytes(l))
  <2>1. /\ Append(lines, l) \in Lines /\ Len(lines) \in Nat
        /\ Append(lines, l) # <<>>
        /\ Len(Append(lines, l)) = Len(lines) + 1
        /\ \A i \in 1..Len(lines) : Append(lines, l)[i] = lines[i]
        /\ Append(lines, l)[Len(lines) + 1] = l
    BY AppendProperties, LenProperties DEF Lines
  <2>2. /\ Widths(lines) \in Seq(Nat) /\ Bytes(l) \in Nat
        /\ Len(Widths(lines)) = Len(lines)
        /\ \A i \in 1..Len(lines) : Widths(lines)[i] = Bytes(lines[i])
        /\ Widths(Append(lines, l)) \in Seq(Nat)
        /\ Len(Widths(Append(lines, l))) = Len(lines) + 1
        /\ \A i \in 1..(Len(lines) + 1) :
              Widths(Append(lines, l))[i] = Bytes(Append(lines, l)[i])
    BY <1>1, <2>1, BytesGrow
  <2>3. /\ Append(Widths(lines), Bytes(l)) \in Seq(Nat)
        /\ Len(Append(Widths(lines), Bytes(l))) = Len(lines) + 1
        /\ \A i \in 1..Len(lines) : Append(Widths(lines), Bytes(l))[i] = Widths(lines)[i]
        /\ Append(Widths(lines), Bytes(l))[Len(lines) + 1] = Bytes(l)
    BY <2>2, AppendProperties
  <2>4. \A i \in 1..(Len(lines) + 1) :
           Widths(Append(lines, l))[i] = Append(Widths(lines), Bytes(l))[i]
    <3>1. \A n \in Nat : \A i \in 1..(n + 1) : i \in 1..n \/ i = n + 1
      OBVIOUS
    <3> QED
      BY <2>1, <2>2, <2>3, <3>1
  <2> QED
    BY <2>1, <2>2, <2>3, <2>4, SeqEqual
<1>3. Joined(<<>>) = 0
  <2>1. PICK none \in Lines : none = <<>> /\ Len(none) = 0
    BY EmptySeq DEF Lines
  <2>2. Widths(none) \in Seq(Nat) /\ Len(Widths(none)) = 0
        /\ Joined(none) = Bytes(Widths(none)) + 0
    BY <1>1, <2>1
  <2>3. Widths(none) = <<>>
    BY <2>2, EmptySeq
  <2> QED
    BY <2>1, <2>2, <2>3, BytesGrow
<1>4. ASSUME NEW lines \in Lines PROVE Joined(lines) \in Nat
  <2>1. Len(lines) \in Nat /\ (lines # <<>> => Len(lines) - 1 \in Nat)
    <3>1. lines # <<>> => Len(lines) \in Nat \ {0}
      BY EmptySeq DEF Lines
    <3> QED
      BY <3>1, LenProperties DEF Lines
  <2>2. Bytes(Widths(lines)) \in Nat
    BY <1>1, BytesGrow
  <2> QED
    BY <1>1, <2>1, <2>2
<1>5. ASSUME NEW lines \in Lines, NEW l \in Seq(Nat)
      PROVE  Joined(Append(lines, l)) =
                Joined(lines) + Bytes(l) + IF lines = <<>> THEN 0 ELSE 1
  <2>1. /\ Joined(Append(lines, l)) =
              Bytes(Append(Widths(lines), Bytes(l))) + (Len(lines) + 1 - 1)
        /\ Joined(lines) = Bytes(Widths(lines)) + IF lines = <<>> THEN 0 ELSE Len(lines) - 1
    <3>1. Joined(lines) = Bytes(Widths(lines)) + IF lines = <<>> THEN 0 ELSE Len(lines) - 1
      BY <1>1
    <3>2. PICK more \in Lines :
             /\ more = Append(lines, l) /\ more # <<>> /\ Len(more) = Len(lines) + 1
             /\ Widths(more) = Append(Widths(lines), Bytes(l))
      BY <1>2
    <3>3. Joined(more) = Bytes(Widths(more)) + (Len(more) - 1)
      BY <1>1, <3>2
    <3> QED
      BY <3>1, <3>2, <3>3
  <2>2. /\ Bytes(Append(Widths(lines), Bytes(l))) = Bytes(Widths(lines)) + Bytes(l)
        /\ Bytes(Widths(lines)) \in Nat /\ Bytes(l) \in Nat
    BY <1>1, BytesGrow
  <2>3. Len(lines) \in Nat /\ (lines = <<>> => Len(lines) = 0)
    BY LenProperties DEF Lines
  <2> QED
    BY <2>1, <2>2, <2>3
<1> QED
  BY <1>2, <1>3, <1>4, <1>5

\* The beginning of k lines, which fits less the longer it is.
LEMMA BeginningsGrow ==
    ASSUME NEW lines \in Lines
    PROVE  /\ Joined(SubSeq(lines, 1, 0)) = 0 /\ SubSeq(lines, 1, 0) = <<>>
           /\ \A k \in 0..Len(lines) :
                /\ SubSeq(lines, 1, k) \in Lines /\ Len(SubSeq(lines, 1, k)) = k
                /\ Joined(SubSeq(lines, 1, k)) \in Nat
                /\ k < Len(lines) =>
                      Joined(SubSeq(lines, 1, k + 1)) =
                        Joined(SubSeq(lines, 1, k)) + Bytes(lines[k + 1])
                            + IF k = 0 THEN 0 ELSE 1
           /\ \A k, m \in 0..Len(lines) :
                k <= m => Joined(SubSeq(lines, 1, k)) <= Joined(SubSeq(lines, 1, m))
<1> DEFINE size(k) == Joined(SubSeq(lines, 1, k))
<1>1. Len(lines) \in Nat
  BY LenProperties DEF Lines
<1>2. ASSUME NEW k \in 0..Len(lines)
      PROVE  /\ SubSeq(lines, 1, k) \in Lines /\ Len(SubSeq(lines, 1, k)) = k
             /\ Joined(SubSeq(lines, 1, k)) \in Nat
  <2>1. 1 \in 1..(Len(lines) + 1) /\ k \in (1 - 1)..Len(lines) /\ k - 1 + 1 = k
    BY <1>1
  <2>2. /\ SubSeq(lines, 1, k) \in Lines /\ Len(SubSeq(lines, 1, k)) = k
    BY <2>1, PartOf DEF Lines
  <2> QED
    BY <2>2, JoinedGrows
<1>3. ASSUME NEW k \in 0..Len(lines), k < Len(lines)
      PROVE  size(k + 1) = size(k) + Bytes(lines[k + 1]) + IF k = 0 THEN 0 ELSE 1
  <2>1. k + 1 \in 1..Len(lines) /\ k + 1 \in 1..(k + 1) /\ (k + 1) - 1 = k
    BY <1>1, <1>3
  <2>2. lines[k + 1] \in Seq(Nat)
    BY <2>1, ElementOfSeq DEF Lines
  <2>3. SubSeq(lines, 1, k + 1) = Append(SubSeq(lines, 1, k), lines[k + 1])
    <3>1. 1 \in 1..Len(lines) /\ k + 1 \in 1..Len(lines)
      BY <1>1, <2>1
    <3>2. SubSeq(lines, 1, k + 1) = SubSeq(lines, 1, k) \o <<lines[k + 1]>>
      BY <3>1, <2>1, SubSeqRecursiveSecond DEF Lines
    <3> QED
      BY <1>2, <2>2, <3>2, AppendIsConcat DEF Lines
  <2>4. SubSeq(lines, 1, k) = <<>> <=> k = 0
    BY <1>1, <1>2, EmptySeq DEF Lines
  <2>5. SubSeq(lines, 1, k) \in Lines
    BY <1>2
  <2>6. Joined(Append(SubSeq(lines, 1, k), lines[k + 1])) =
           Joined(SubSeq(lines, 1, k)) + Bytes(lines[k + 1])
             + IF SubSeq(lines, 1, k) = <<>> THEN 0 ELSE 1
    BY <2>2, <2>5, JoinedGrows
  <2> QED
    BY <2>3, <2>4, <2>6
<1>4. SubSeq(lines, 1, 0) = <<>> /\ size(0) = 0
  <2>1. SubSeq(lines, 1, 0) \in Lines /\ Len(SubSeq(lines, 1, 0)) = 0
    BY <1>1, <1>2
  <2>2. SubSeq(lines, 1, 0) = <<>>
    BY <2>1, EmptySeq DEF Lines
  <2> QED
    BY <2>2, JoinedGrows
<1>5. ASSUME NEW k \in 0..Len(lines) PROVE \A m \in k..Len(lines) : size(k) <= size(m)
  <2> DEFINE P == {j \in Nat : k + j <= Len(lines) => size(k) <= size(k + j)}
  <2> HIDE DEF size
  <2>1. 0 \in P
    BY <1>2 DEF size
  <2>2. ASSUME NEW j \in 1..Len(lines), j - 1 \in P PROVE j \in P
    <3> SUFFICES ASSUME k + j <= Len(lines) PROVE size(k) <= size(k + j)
      BY <2>2
    <3>1. k + (j - 1) \in 0..Len(lines) /\ k + (j - 1) < Len(lines)
          /\ (k + (j - 1)) + 1 = k + j
      BY <1>1, <2>2
    <3>2. size(k + j) = size(k + (j - 1)) + Bytes(lines[k + j])
                        + IF k + (j - 1) = 0 THEN 0 ELSE 1
      BY <1>3, <3>1
    <3>3. Bytes(lines[k + j]) \in Nat
      <4>1. k + j \in 1..Len(lines)
        BY <1>1, <2>2
      <4>2. lines[k + j] \in Seq(Nat)
        BY <4>1, ElementOfSeq DEF Lines
      <4> QED
        BY <4>2, BytesGrow
    <3>4. size(k) \in Nat /\ size(k + (j - 1)) \in Nat /\ size(k) <= size(k + (j - 1))
      BY <1>1, <1>2, <2>2, <3>1 DEF size
    <3> QED
      BY <3>2, <3>3, <3>4
  <2>3. 0..Len(lines) \subseteq P
    <3> HIDE DEF P
    <3> QED
      BY <1>1, <2>1, <2>2, CountUp
  <2>4. TAKE m \in k..Len(lines)
  <2>5. m - k \in 0..Len(lines) /\ k + (m - k) = m
    BY <1>1
  <2>6. m - k \in P
    BY <2>3, <2>5
  <2> QED
    BY <2>5, <2>6
<1> QED
  BY <1>1, <1>2, <1>3, <1>4, <1>5

Limits == [lines : Nat, bytes : Nat]
Fitting(lines, k, limit) ==
    k <= limit.lines /\ Joined(SubSeq(lines, 1, k)) <= limit.bytes

\* What the loop of truncate_head has kept when it breaks is as much as fits.
LEMMA KeptIsMost ==
    ASSUME NEW lines \in Lines, NEW limit \in Limits
    PROVE  /\ KeepFirst(lines, limit) \in 0..Len(lines)
           /\ Fitting(lines, KeepFirst(lines, limit), limit)
           /\ \/ KeepFirst(lines, limit) = Len(lines)
              \/ ~Fitting(lines, KeepFirst(lines, limit) + 1, limit)
<1> DEFINE T == {n \in 0..Len(lines) :
                    \/ n \in {Len(lines), limit.lines}
                    \/ Joined(SubSeq(lines, 1, n + 1)) > limit.bytes}
           k == KeepFirst(lines, limit)
<1>1. /\ Len(lines) \in Nat /\ limit.lines \in Nat /\ limit.bytes \in Nat
      /\ T \in SUBSET Nat /\ Len(lines) \in T
  BY LenProperties DEF Lines, Limits
<1>2. k \in T /\ \A n \in T : k <= n
  <2>1. \E n \in T : \A m \in T : n <= m
    <3> HIDE DEF T
    <3> QED
      BY <1>1, LeastNatural
  <2>2. k = Min(T)
    BY DEF KeepFirst
  <2> HIDE DEF T, k
  <2> QED
    BY <2>1, <2>2 DEF Min
<1>3. k \in 0..Len(lines) /\ (k \in {Len(lines), limit.lines}
                               \/ Joined(SubSeq(lines, 1, k + 1)) > limit.bytes)
  <2> HIDE DEF k
  <2> QED
    BY <1>2
<1>4. k <= limit.lines
  <2>1. limit.lines <= Len(lines) => limit.lines \in T
    BY <1>1
  <2> HIDE DEF T, k
  <2> QED
    BY <1>1, <1>2, <1>3, <2>1
<1>5. Joined(SubSeq(lines, 1, k)) <= limit.bytes
  <2>1. CASE k = 0
    BY <1>1, <2>1, BeginningsGrow
  <2>2. CASE k # 0
    <3>1. k - 1 \in 0..Len(lines) /\ ~(k <= k - 1) /\ (k - 1) + 1 = k
      <4> HIDE DEF k
      <4> QED
        BY <1>1, <1>3, <2>2
    <3>2. k - 1 \notin T
      <4> HIDE DEF T, k
      <4> QED
        BY <1>2, <3>1
    <3>3. ~(Joined(SubSeq(lines, 1, k)) > limit.bytes)
      <4> HIDE DEF k
      <4> QED
        BY <3>1, <3>2
    <3>4. Joined(SubSeq(lines, 1, k)) \in Nat
      <4> HIDE DEF k
      <4> QED
        BY <1>3, BeginningsGrow
    <3> QED
      BY <1>1, <3>3, <3>4
  <2> QED
    BY <2>1, <2>2
<1>6. k = Len(lines) \/ ~Fitting(lines, k + 1, limit)
  <2>1. SUFFICES ASSUME k # Len(lines) PROVE ~Fitting(lines, k + 1, limit)
    OBVIOUS
  <2>2. k + 1 \in 0..Len(lines)
    BY <1>1, <1>3, <2>1
  <2>3. Joined(SubSeq(lines, 1, k + 1)) \in Nat
    BY <2>2, BeginningsGrow
  <2> HIDE DEF k
  <2>4. k = limit.lines \/ Joined(SubSeq(lines, 1, k + 1)) > limit.bytes
    BY <1>3, <2>1
  <2> QED
    BY <1>1, <1>3, <2>3, <2>4 DEF Fitting
<1> QED
  BY <1>3, <1>4, <1>5, <1>6 DEF Fitting

\* There is one length of which that can be said.
LEMMA MostIsUnique ==
    ASSUME NEW lines \in Lines, NEW limit \in Limits,
           NEW k \in 0..Len(lines), Fitting(lines, k, limit),
           k = Len(lines) \/ ~Fitting(lines, k + 1, limit),
           NEW m \in 0..Len(lines), Fitting(lines, m, limit),
           m = Len(lines) \/ ~Fitting(lines, m + 1, limit)
    PROVE  k = m
<1>1. Len(lines) \in Nat /\ limit.lines \in Nat /\ limit.bytes \in Nat
  BY LenProperties DEF Lines, Limits
<1>2. ASSUME NEW i \in 0..Len(lines), NEW j \in 0..Len(lines), i <= j,
             Fitting(lines, j, limit)
      PROVE  Fitting(lines, i, limit)
  <2>1. /\ Joined(SubSeq(lines, 1, i)) \in Nat /\ Joined(SubSeq(lines, 1, j)) \in Nat
        /\ Joined(SubSeq(lines, 1, i)) <= Joined(SubSeq(lines, 1, j))
    BY <1>2, BeginningsGrow
  <2> QED
    BY <1>1, <1>2, <2>1 DEF Fitting
<1>3. ASSUME k < m PROVE FALSE
  <2>1. k + 1 \in 0..Len(lines) /\ k + 1 <= m /\ k # Len(lines)
    BY <1>1, <1>3
  <2> QED
    BY <1>2, <2>1
<1>4. ASSUME m < k PROVE FALSE
  <2>1. m + 1 \in 0..Len(lines) /\ m + 1 <= k /\ m # Len(lines)
    BY <1>1, <1>4
  <2> QED
    BY <1>2, <2>1
<1> QED
  BY <1>1, <1>3, <1>4

\* _split_lines_for_counting drops at most one empty line at the end.
LEMMA CountedLines ==
    ASSUME NEW lines \in Lines
    PROVE  /\ Counted(lines) \in Lines
           /\ Len(Counted(lines)) \in 0..Len(lines)
           /\ Counted(lines) = SubSeq(lines, 1, Len(Counted(lines)))
           /\ Len(Counted(lines)) = Len(lines) => Counted(lines) = lines
           /\ Counted(lines) = <<>> => Joined(lines) = 0
<1>1. Len(lines) \in Nat
  BY LenProperties DEF Lines
<1>2. CASE lines = <<>>
  BY <1>2, JoinedGrows, EmptySeq, BeginningsGrow DEF Counted, Lines
<1>3. CASE lines = << <<>> >>
  <2>1. /\ <<>> \in Lines /\ <<>> \in Seq(Nat) /\ Append(<<>>, <<>>) = lines
        /\ Len(<<>>) = 0 /\ Len(lines) = 1
    BY <1>3, EmptySeq DEF Lines
  <2>2. PICK none \in Lines, empty \in Seq(Nat) : none = <<>> /\ empty = <<>>
    BY <2>1
  <2>3. Joined(lines) = 0
    <3>1. Joined(Append(none, empty)) = Joined(none) + Bytes(empty) + 0
      BY <2>2, JoinedGrows
    <3> QED
      <4>1. Joined(none) = 0
        BY <2>2, JoinedGrows
      <4>2. Bytes(empty) = 0
        BY <2>2, BytesGrow
      <4>3. Append(none, empty) = lines
        BY <2>1, <2>2
      <4>4. Joined(lines) = 0 + 0 + 0
        BY <3>1, <4>1, <4>2, <4>3
      <4> QED
        BY <4>4
  <2>4. Counted(lines) = <<>>
    BY <1>3 DEF Counted
  <2> QED
    BY <2>1, <2>3, <2>4, BeginningsGrow
<1>4. CASE lines \notin {<<>>, << <<>> >>} /\ Last(lines) # <<>>
  <2>1. Counted(lines) = lines /\ lines # <<>>
    BY <1>4 DEF Counted
  <2> QED
    BY <1>1, <2>1, SubSeqFull DEF Lines
<1>5. CASE lines \notin {<<>>, << <<>> >>} /\ Last(lines) = <<>>
  <2>1. Counted(lines) = SubSeq(lines, 1, Len(lines) - 1)
    BY <1>5 DEF Counted, Front
  <2>2. Len(lines) \in Nat \ {0}
    BY <1>5, EmptySeq DEF Lines
  <2>3. Len(lines) - 1 \in 0..Len(lines) /\ Len(lines) - 1 # Len(lines)
    BY <2>2
  <2>4. Counted(lines) \in Lines /\ Len(Counted(lines)) = Len(lines) - 1
    <3>1. PICK k \in 0..Len(lines) : k = Len(lines) - 1
      BY <2>3
    <3>2. SubSeq(lines, 1, k) \in Lines /\ Len(SubSeq(lines, 1, k)) = k
      BY BeginningsGrow
    <3> QED
      BY <2>1, <3>1, <3>2
  <2>5. Counted(lines) # <<>>
    <3> SUFFICES ASSUME Counted(lines) = <<>> PROVE FALSE
      OBVIOUS
    <3>1. Len(lines) = 1
      BY <2>2, <2>4
    <3>2. lines[1] = <<>>
      BY <1>5, <3>1 DEF Last
    <3>3. lines = << <<>> >>
      <4>1. << <<>> >> \in Lines /\ Len(<< <<>> >>) = 1
        BY DEF Lines
      <4>2. \A i \in 1..Len(lines) : lines[i] = << <<>> >>[i]
        BY <3>1, <3>2
      <4> QED
        BY <3>1, <4>1, <4>2, SeqEqual DEF Lines
    <3> QED
      BY <1>5, <3>3
  <2> QED
    BY <2>1, <2>3, <2>4, <2>5
<1> QED
  BY <1>2, <1>3, <1>4, <1>5

\* The text of one line.
LEMMA OneLine ==
    ASSUME NEW l \in Seq(Nat)
    PROVE  <<l>> \in Lines /\ Joined(<<l>>) = Bytes(l)
<1>1. PICK none \in Lines : none = <<>>
  BY EmptySeq DEF Lines
<1>2. Append(none, l) = <<l>> /\ <<l>> \in Lines
  BY <1>1 DEF Lines
<1>3. Joined(Append(none, l)) = Joined(none) + Bytes(l) + 0
  BY <1>1, JoinedGrows
<1>4. Joined(none) = 0 /\ Bytes(l) \in Nat
  BY <1>1, JoinedGrows, BytesGrow
<1> QED
  BY <1>2, <1>3, <1>4

\* Texts one after the other.
LEMMA LinesAssociate == \A a, b, c \in Lines : (a \o b) \o c = a \o (b \o c)
BY ConcatAssociative DEF Lines

\* A line before the others adds what it would add after them.
LEMMA JoinedCons ==
    ASSUME NEW l \in Seq(Nat), NEW lines \in Lines
    PROVE  Joined(<<l>> \o lines) = Joined(lines) + Bytes(l) + IF lines = <<>> THEN 0 ELSE 1
<1> DEFINE part(k) == SubSeq(lines, 1, k)
           P == {k \in Nat : k <= Len(lines) =>
                    Joined(<<l>> \o part(k)) =
                        Joined(part(k)) + Bytes(l) + IF k = 0 THEN 0 ELSE 1}
<1>1. /\ Len(lines) \in Nat /\ Bytes(l) \in Nat /\ <<l>> \in Lines
      /\ part(0) = <<>> /\ Joined(part(0)) = 0
  BY LenProperties, BytesGrow, BeginningsGrow, OneLine DEF Lines
<1>2. 0 \in P
  <2>1. <<l>> \o part(0) = <<l>>
    BY <1>1, ConcatEmptySeq DEF Lines
  <2>2. Joined(<<l>> \o part(0)) = Bytes(l) /\ Joined(part(0)) = 0
    BY <1>1, <2>1, OneLine
  <2> HIDE DEF part
  <2> QED
    BY <1>1, <2>2
<1>3. ASSUME NEW k \in 1..Len(lines), k - 1 \in P PROVE k \in P
  <2>1. /\ part(k - 1) \in Lines /\ part(k) \in Lines /\ Joined(part(k - 1)) \in Nat
        /\ Len(part(k - 1)) = k - 1 /\ lines[k] \in Seq(Nat) /\ Bytes(lines[k]) \in Nat
    <3>1. k - 1 \in 0..Len(lines) /\ k \in 0..Len(lines)
      BY <1>1
    <3>2. lines[k] \in Seq(Nat)
      BY ElementOfSeq DEF Lines
    <3> QED
      BY <3>1, <3>2, BeginningsGrow, BytesGrow
  <2>2. part(k) = Append(part(k - 1), lines[k])
    <3>1. 1 \in 1..Len(lines) /\ k \in 1..Len(lines)
      BY <1>1
    <3>2. SubSeq(lines, 1, k) = SubSeq(lines, 1, k - 1) \o <<lines[k]>>
      BY <3>1, SubSeqRecursiveSecond DEF Lines
    <3> QED
      BY <2>1, <3>2, AppendIsConcat DEF Lines
  <2>3. Joined(part(k)) = Joined(part(k - 1)) + Bytes(lines[k]) + IF k - 1 = 0 THEN 0 ELSE 1
    <3>1. PICK m \in 0..Len(lines) : m = k - 1 /\ m < Len(lines) /\ m + 1 = k
      BY <1>1
    <3>2. Joined(SubSeq(lines, 1, m + 1)) =
             Joined(SubSeq(lines, 1, m)) + Bytes(lines[m + 1]) + IF m = 0 THEN 0 ELSE 1
      BY <3>1, BeginningsGrow
    <3> QED
      BY <3>1, <3>2
  <2>4. /\ <<l>> \o part(k) = Append(<<l>> \o part(k - 1), lines[k])
        /\ <<l>> \o part(k - 1) \in Lines /\ <<l>> \o part(k - 1) # <<>>
    <3> HIDE DEF part
    <3>1. <<l>> \o part(k - 1) \in Lines /\ Len(<<l>> \o part(k - 1)) = 1 + (k - 1)
      BY <1>1, <2>1, ConcatProperties DEF Lines
    <3>2. <<l>> \o (part(k - 1) \o <<lines[k]>>) = (<<l>> \o part(k - 1)) \o <<lines[k]>>
      <4>1. PICK one \in Lines, last \in Lines : one = <<l>> /\ last = <<lines[k]>>
        BY <2>1, OneLine
      <4>2. PICK middle \in Lines : middle = part(k - 1)
        BY <2>1
      <4>3. (one \o middle) \o last = one \o (middle \o last)
        BY LinesAssociate
      <4> QED
        BY <4>1, <4>2, <4>3
    <3>3. /\ part(k - 1) \o <<lines[k]>> = part(k)
          /\ (<<l>> \o part(k - 1)) \o <<lines[k]>> = Append(<<l>> \o part(k - 1), lines[k])
      BY <2>1, <2>2, <3>1, AppendIsConcat DEF Lines
    <3>4. <<l>> \o part(k - 1) # <<>>
      <4>1. Len(<<l>> \o part(k - 1)) # 0
        BY <3>1
      <4> QED
        BY <4>1, EmptySeq
    <3> QED
      BY <3>1, <3>2, <3>3, <3>4
  <2> HIDE DEF part
  <2>5. Joined(<<l>> \o part(k)) = Joined(<<l>> \o part(k - 1)) + Bytes(lines[k]) + 1
    <3>1. PICK more \in Lines : more = <<l>> \o part(k - 1) /\ more # <<>>
      BY <2>4
    <3>2. Joined(Append(more, lines[k])) = Joined(more) + Bytes(lines[k]) + 1
      BY <2>1, <3>1, JoinedGrows
    <3> QED
      BY <2>4, <3>1, <3>2
  <2>6. Joined(<<l>> \o part(k - 1)) =
           Joined(part(k - 1)) + Bytes(l) + IF k - 1 = 0 THEN 0 ELSE 1
    BY <1>1, <1>3
  <2> QED
    BY <1>1, <2>1, <2>3, <2>5, <2>6
<1>4. Len(lines) \in P
  <2> HIDE DEF P
  <2>1. 0..Len(lines) \subseteq P
    BY <1>1, <1>2, <1>3, CountUp
  <2> QED
    BY <1>1, <2>1
<1>5. part(Len(lines)) = lines /\ (Len(lines) = 0 <=> lines = <<>>)
  BY <1>1, SubSeqFull, EmptySeq DEF Lines
<1>6. Joined(<<l>> \o part(Len(lines))) =
         Joined(part(Len(lines))) + Bytes(l) + IF Len(lines) = 0 THEN 0 ELSE 1
  BY <1>1, <1>4
<1> QED
  BY <1>5, <1>6

\* The last k lines, from the back: of the same size.
LEMMA EndsReversed ==
    ASSUME NEW lines \in Lines
    PROVE  /\ Reverse(lines) \in Lines /\ Len(Reverse(lines)) = Len(lines)
           /\ \A k \in 0..Len(lines) :
                Joined(SubSeq(Reverse(lines), 1, k)) =
                    Joined(SubSeq(lines, Len(lines) - k + 1, Len(lines)))
<1> DEFINE n == Len(lines)
           end(k) == SubSeq(lines, n - k + 1, n)
           back(k) == SubSeq(Reverse(lines), 1, k)
           P == {k \in Nat : k <= n => Joined(back(k)) = Joined(end(k))}
<1>1. n \in Nat
  BY LenProperties DEF Lines
<1>2. /\ Reverse(lines) \in Lines /\ Len(Reverse(lines)) = n
      /\ \A k \in 1..n : Reverse(lines)[k] = lines[n - k + 1]
  <2>1. \A i \in 1..n : (n - i) + 1 \in 1..n /\ lines[(n - i) + 1] \in Seq(Nat)
    <3>1. \A i \in 1..n : (n - i) + 1 \in 1..n
      BY <1>1
    <3> QED
      BY <3>1, ElementOfSeq DEF Lines
  <2>2. Reverse(lines) = [i \in 1..n |-> lines[(n - i) + 1]]
    BY DEF Reverse
  <2> HIDE DEF n
  <2> QED
    BY <1>1, <2>1, <2>2 DEF Lines
<1>3. 0 \in P
  <2>1. end(0) = <<>>
    BY <1>1, SubSeqEmpty
  <2>2. back(0) = <<>>
    BY <1>2, BeginningsGrow
  <2> QED
    BY <2>1, <2>2
<1>4. ASSUME NEW k \in 1..n, k - 1 \in P PROVE k \in P
  <2>1. /\ n - k + 1 \in 1..n /\ n \in (n - k + 1)..n /\ (n - k + 1) + 1 = n - (k - 1) + 1
        /\ n - (k - 1) + 1 \in 1..(n + 1) /\ n \in (n - (k - 1) + 1 - 1)..n
        /\ n - (n - (k - 1) + 1) + 1 = k - 1
    BY <1>1
  <2>2. end(k) = <<lines[n - k + 1]>> \o end(k - 1)
    <3>1. SubSeq(lines, n - k + 1, n) =
             <<lines[n - k + 1]>> \o SubSeq(lines, (n - k + 1) + 1, n)
      BY <2>1, SubSeqRecursiveFirst DEF Lines
    <3> QED
      BY <2>1, <3>1
  <2>3. end(k - 1) \in Lines /\ Len(end(k - 1)) = k - 1
    BY <2>1, PartOf DEF Lines
  <2>4. lines[n - k + 1] \in Seq(Nat)
    BY <2>1, ElementOfSeq DEF Lines
  <2>5. end(k - 1) = <<>> <=> k - 1 = 0
    <3> HIDE DEF end
    <3> QED
      BY <1>1, <2>3, EmptySeq DEF Lines
  <2>6. Joined(end(k)) = Joined(end(k - 1)) + Bytes(lines[n - k + 1])
                         + IF k - 1 = 0 THEN 0 ELSE 1
    <3> HIDE DEF end
    <3> QED
      BY <2>2, <2>3, <2>4, <2>5, JoinedCons
  <2>7. Joined(back(k)) = Joined(back(k - 1)) + Bytes(lines[n - k + 1])
                          + IF k - 1 = 0 THEN 0 ELSE 1
    <3>1. PICK m \in 0..Len(Reverse(lines)) : m = k - 1 /\ m < Len(Reverse(lines)) /\ m + 1 = k
      BY <1>1, <1>2
    <3>2. Joined(SubSeq(Reverse(lines), 1, m + 1)) =
             Joined(SubSeq(Reverse(lines), 1, m)) + Bytes(Reverse(lines)[m + 1])
                + IF m = 0 THEN 0 ELSE 1
      BY <1>2, <3>1, BeginningsGrow
    <3> QED
      BY <1>2, <3>1, <3>2
  <2>8. Joined(back(k - 1)) = Joined(end(k - 1))
    BY <1>1, <1>4
  <2> HIDE DEF end, back
  <2> QED
    BY <2>6, <2>7, <2>8
<1>5. 0..n \subseteq P
  <2> HIDE DEF P, n
  <2> QED
    BY <1>1, <1>3, <1>4, CountUp
<1>6. ASSUME NEW k \in 0..n PROVE Joined(back(k)) = Joined(end(k))
  <2>1. k \in P /\ k <= n
    <3> HIDE DEF P
    <3> QED
      BY <1>1, <1>5
  <2> HIDE DEF back, end
  <2> QED
    BY <2>1
<1> QED
  BY <1>2, <1>6

\* The limits of what read and the other tools show.
Shown == Limit(MaxLines, MaxBytes)

\* They are limits.
LEMMA ShownIsLimit ==
    Shown \in Limits /\ Shown.lines = MaxLines /\ Shown.bytes = MaxBytes
BY WindowAssumption DEF Shown, Limit, Limits

\* What the beginning of a text that was not cut, or cut to `kept` lines, shows.
Cuts(window, lines, all, kept) ==
    /\ ~window.truncated => window.lines = lines /\ window.by = "none"
    /\ window.truncated =>
          /\ window.by \in {"first_line", "bytes", "lines"}
          /\ window.lines = SubSeq(all, 1, kept)
          /\ kept \in 0..Len(all) /\ kept < Len(lines)
          /\ all # <<>>
    /\ window.truncated \in BOOLEAN

\* What a window that is not cut off at the end of the text has, and why it was cut.
LEMMA HeadWindow ==
    ASSUME NEW lines \in Lines, NEW limit \in Limits
    PROVE  Cuts(TruncateHead(lines, limit), lines, Counted(lines),
                KeepFirst(Counted(lines), limit))
<1> DEFINE all == Counted(lines)
           window == TruncateHead(lines, limit)
           kept == KeepFirst(all, limit)
<1>1. Len(lines) \in Nat /\ limit.lines \in Nat /\ limit.bytes \in Nat
      /\ all \in Lines /\ Len(all) \in 0..Len(lines) /\ Joined(lines) \in Nat
  BY LenProperties, CountedLines, JoinedGrows DEF Lines, Limits
<1>2. CASE Len(all) <= limit.lines /\ Joined(lines) <= limit.bytes
  <2>1. window = Window(lines, FALSE, "none")
    BY <1>2 DEF TruncateHead
  <2>2. Cuts(window, lines, all, kept)
    <3> HIDE DEF window
    <3> QED
      BY <2>1 DEF Window, Cuts
  <2> QED
    BY <2>2
<1>3. CASE ~(Len(all) <= limit.lines /\ Joined(lines) <= limit.bytes)
  <2>1. window = Window(SubSeq(all, 1, kept), TRUE,
                        IF Bytes(all[1]) > limit.bytes THEN "first_line"
                        ELSE IF kept < Len(all) /\ kept < limit.lines
                             THEN "bytes" ELSE "lines")
    BY <1>3 DEF TruncateHead
  <2>2. /\ window.lines = SubSeq(all, 1, kept) /\ window.truncated = TRUE
        /\ window.by \in {"first_line", "bytes", "lines"}
    <3> HIDE DEF window, kept, all
    <3> QED
      BY <2>1 DEF Window
  <2>3. kept \in 0..Len(all) /\ Fitting(all, kept, limit)
    BY <1>1, KeptIsMost
  <2>4. kept < Len(lines)
    <3> SUFFICES ASSUME kept = Len(lines) PROVE FALSE
      BY <1>1, <2>3
    <3>1. kept = Len(all) /\ Len(all) = Len(lines)
      BY <1>1, <2>3
    <3>2. all = lines /\ SubSeq(lines, 1, Len(lines)) = lines
      BY <3>1, CountedLines, SubSeqFull DEF Lines
    <3>3. Len(all) <= limit.lines /\ Joined(lines) <= limit.bytes
      BY <2>3, <3>1, <3>2 DEF Fitting
    <3> QED
      BY <1>3, <3>3
  <2>5. all # <<>>
    <3> SUFFICES ASSUME all = <<>> PROVE FALSE
      OBVIOUS
    <3>1. Joined(lines) = 0 /\ Len(all) = 0
      BY CountedLines, EmptySeq
    <3> QED
      BY <1>1, <1>3, <3>1
  <2>6. Cuts(window, lines, all, kept)
    <3> HIDE DEF window, kept, all
    <3> QED
      BY <2>2, <2>3, <2>4, <2>5 DEF Cuts
  <2> QED
    BY <2>6
<1> QED
  BY <1>2, <1>3

\* A window of a text's beginning is whole lines, and as many as fit.
LEMMA HeadIsWhole ==
    ASSUME task.tool = "head", task.lines \in Lines,
           answer = TruncateHead(task.lines, Shown)
    PROVE  WindowsAreWhole
<1> DEFINE all == Counted(task.lines)
           n == Len(all)
           kept == KeepFirst(all, Shown)
           Part(k) == IF task.tool = "head" THEN SubSeq(all, 1, k)
                      ELSE SubSeq(all, n - k + 1, n)
           longest == CHOOSE k \in 0..n : /\ Fits(Part(k))
                                          /\ k = n \/ ~Fits(Part(k + 1))
<1>1. all \in Lines /\ n \in Nat
  BY CountedLines, LenProperties DEF Lines
<1>2. ASSUME NEW k \in 0..n PROVE Fits(Part(k)) <=> Fitting(all, k, Shown)
  <2>1. Part(k) = SubSeq(all, 1, k) /\ Len(SubSeq(all, 1, k)) = k
    BY <1>1, BeginningsGrow
  <2> HIDE DEF Part, all
  <2> QED
    BY <2>1, ShownIsLimit DEF Fits, Fitting
<1>3. longest = kept
  <2>1. kept \in 0..n /\ Fitting(all, kept, Shown)
        /\ (kept = n \/ ~Fitting(all, kept + 1, Shown))
    BY <1>1, ShownIsLimit, KeptIsMost
  <2>2. \A k \in 0..n : k # n => k + 1 \in 0..n
    BY <1>1
  <2>3. Fits(Part(kept)) /\ (kept = n \/ ~Fits(Part(kept + 1)))
    <3> HIDE DEF Part, kept, all, n
    <3> QED
      BY <1>2, <2>1, <2>2
  <2>4. longest \in 0..n /\ Fits(Part(longest))
        /\ (longest = n \/ ~Fits(Part(longest + 1)))
    <3> HIDE DEF Part, kept, all, n
    <3> QED
      BY <2>1, <2>3
  <2>5. Fitting(all, longest, Shown) /\ (longest = n \/ ~Fitting(all, longest + 1, Shown))
    <3> HIDE DEF Part, kept, all, n, longest
    <3> QED
      BY <1>2, <2>2, <2>4
  <2> HIDE DEF longest, kept, all, Part
  <2> QED
    BY <1>1, <2>1, <2>4, <2>5, ShownIsLimit, MostIsUnique
<1>4. /\ ~answer.truncated => answer.lines = task.lines
      /\ answer.truncated => answer.lines = SubSeq(all, 1, kept)
  BY ShownIsLimit, HeadWindow DEF Cuts
<1>5. Part(longest) = SubSeq(all, 1, longest)
  OBVIOUS
<1>6. IF ~answer.truncated THEN answer.lines = task.lines
      ELSE answer.lines = Part(longest)
  <2> HIDE DEF longest, kept, all, Part
  <2> QED
    BY <1>3, <1>4, <1>5
<1> QED
  BY <1>6 DEF WindowsAreWhole

\* The last whole characters of a line that is too long.
LEMMA LastBytesFit ==
    ASSUME NEW l \in Seq(Nat), NEW bytes \in Nat, Bytes(l) > bytes
    PROVE  /\ LastBytes(l, bytes) \in Seq(Nat) /\ Bytes(LastBytes(l, bytes)) <= bytes
           /\ LastBytes(l, bytes) # l /\ IsSuffix(LastBytes(l, bytes), l)
<1> DEFINE From(k) == SubSeq(l, k + 1, Len(l))
           T == {k \in 0..Len(l) : Bytes(From(k)) <= bytes}
           first == Min(T)
<1>1. Len(l) \in Nat /\ Bytes(l) \in Nat
  BY LenProperties, BytesGrow
<1>2. first \in T
  <2>1. From(Len(l)) = <<>>
    BY <1>1, SubSeqEmpty
  <2>2. Len(l) \in T /\ T \in SUBSET Nat
    <3>1. Bytes(From(Len(l))) = 0 /\ Len(l) \in 0..Len(l)
      <4> HIDE DEF From
      <4> QED
        BY <1>1, <2>1, BytesGrow
    <3> HIDE DEF From
    <3> QED
      BY <1>1, <3>1
  <2> HIDE DEF T
  <2>3. \E n \in T : \A m \in T : n <= m
    BY <2>2, LeastNatural
  <2> QED
    BY <2>3 DEF Min
<1>3. LastBytes(l, bytes) = From(first)
  BY DEF LastBytes
<1>4. first \in 0..Len(l) /\ Bytes(From(first)) <= bytes
  <2> HIDE DEF first
  <2> QED
    BY <1>2
<1> HIDE DEF first
<1>5. /\ From(first) \in Seq(Nat) /\ Len(From(first)) = Len(l) - first
      /\ \A i \in 1..(Len(l) - first) : From(first)[i] = l[first + i]
  <2>1. first + 1 \in 1..(Len(l) + 1) /\ Len(l) \in ((first + 1) - 1)..Len(l)
        /\ Len(l) - (first + 1) + 1 = Len(l) - first
        /\ \A i \in 1..(Len(l) - first) : (first + 1) + i - 1 = first + i
    BY <1>1, <1>4
  <2>2. /\ SubSeq(l, first + 1, Len(l)) \in Seq(Nat)
        /\ Len(SubSeq(l, first + 1, Len(l))) = Len(l) - (first + 1) + 1
        /\ \A i \in 1..(Len(l) - (first + 1) + 1) :
              SubSeq(l, first + 1, Len(l))[i] = l[(first + 1) + i - 1]
    <3>1. PICK at \in 1..(Len(l) + 1) : at = first + 1
      BY <2>1
    <3>2. PICK last \in (at - 1)..Len(l) : last = Len(l)
      BY <2>1, <3>1
    <3>3. /\ SubSeq(l, at, last) \in Seq(Nat) /\ Len(SubSeq(l, at, last)) = last - at + 1
          /\ \A i \in 1..(last - at + 1) : SubSeq(l, at, last)[i] = l[at + i - 1]
      BY <1>1, PartOf, SMTT(30)
    <3> QED
      BY <3>1, <3>2, <3>3
  <2> QED
    BY <2>1, <2>2
<1>6. From(first) # l
  <2> HIDE DEF From
  <2> QED
    BY <1>1, <1>4
<1>7. IsSuffix(From(first), l)
  <2> DEFINE m == Len(l) - first
             back == Reverse(From(first))
             all == Reverse(l)
  <2>1. m \in Nat /\ m <= Len(l) /\ first \in Nat /\ Len(l) = first + m
    BY <1>1, <1>4
  <2>2. /\ back \in Seq(Nat) /\ Len(back) = m
        /\ \A i \in 1..m : back[i] = From(first)[(m - i) + 1]
    <3>1. back = [i \in 1..m |-> From(first)[(m - i) + 1]]
      BY <1>5 DEF Reverse
    <3>2. \A i \in 1..m : (m - i) + 1 \in 1..m
      BY <2>1
    <3>3. \A i \in 1..m : From(first)[(m - i) + 1] \in Nat
      BY <1>5, <3>2, ElementOfSeq
    <3> HIDE DEF back, m, From
    <3> QED
      BY <2>1, <3>1, <3>3
  <2>3. /\ all \in Seq(Nat) /\ Len(all) = Len(l)
        /\ \A i \in 1..Len(l) : all[i] = l[(Len(l) - i) + 1]
    <3>1. all = [i \in 1..Len(l) |-> l[(Len(l) - i) + 1]]
      BY DEF Reverse
    <3>2. \A i \in 1..Len(l) : (Len(l) - i) + 1 \in 1..Len(l)
      BY <1>1
    <3>3. \A i \in 1..Len(l) : l[(Len(l) - i) + 1] \in Nat
      BY <3>2, ElementOfSeq
    <3> HIDE DEF all
    <3> QED
      BY <1>1, <3>1, <3>3
  <2>4. \A i \in 1..m : back[i] = all[i]
    <3> SUFFICES ASSUME NEW i \in 1..m PROVE back[i] = all[i]
      OBVIOUS
    <3>1. /\ (m - i) + 1 \in 1..m /\ first + ((m - i) + 1) = (Len(l) - i) + 1
          /\ i \in 1..Len(l)
      BY <2>1
    <3>2. From(first)[(m - i) + 1] = l[first + ((m - i) + 1)]
      BY <1>5, <3>1
    <3> HIDE DEF back, all, m, From
    <3> QED
      BY <2>2, <2>3, <3>1, <3>2
  <2>5. SubSeq(back, 1, m) = SubSeq(all, 1, m)
    <3>1. 1 \in 1..(Len(back) + 1) /\ 1 \in 1..(Len(all) + 1)
          /\ m \in (1 - 1)..Len(back) /\ m \in (1 - 1)..Len(all) /\ m - 1 + 1 = m
          /\ \A i \in 1..m : 1 + i - 1 = i
      BY <2>1, <2>2, <2>3
    <3> HIDE DEF back, all, m
    <3>2. /\ SubSeq(back, 1, m) \in Seq(Nat) /\ Len(SubSeq(back, 1, m)) = m
          /\ \A i \in 1..m : SubSeq(back, 1, m)[i] = back[i]
      BY <2>2, <3>1, PartOf
    <3>3. /\ SubSeq(all, 1, m) \in Seq(Nat) /\ Len(SubSeq(all, 1, m)) = m
          /\ \A i \in 1..m : SubSeq(all, 1, m)[i] = all[i]
      BY <2>1, <2>3, <3>1, PartOf, SMTT(30)
    <3> QED
      BY <2>4, <3>2, <3>3, SeqEqual
  <2>6. Len(back) <= Len(all) /\ SubSeq(back, 1, Len(back)) = SubSeq(all, 1, Len(back))
    BY <2>1, <2>2, <2>3, <2>5
  <2> QED
    BY <2>6 DEF IsSuffix, IsPrefix
<1> QED
  BY <1>3, <1>4, <1>5, <1>6, <1>7

\* A window of a text's end is whole lines, and as many as fit; when not one
\* does, it is the last characters of the last line.
LEMMA TailIsWhole ==
    ASSUME task.tool = "tail", task.lines \in Lines,
           answer = TruncateTail(task.lines, Shown)
    PROVE  WindowsAreWhole
<1> DEFINE all == Counted(task.lines)
           n == Len(all)
           back == Reverse(all)
           kept == KeepFirst(back, Shown)
           Part(k) == IF task.tool = "head" THEN SubSeq(all, 1, k)
                      ELSE SubSeq(all, n - k + 1, n)
           longest == CHOOSE k \in 0..n : /\ Fits(Part(k))
                                          /\ k = n \/ ~Fits(Part(k + 1))
           cut == LastBytes(Last(all), MaxBytes)
           rows == IF kept = 0 THEN <<cut>> ELSE SubSeq(all, n - kept + 1, n)
<1>1. /\ all \in Lines /\ n \in Nat /\ back \in Lines /\ Len(back) = n
      /\ task.tool # "head" /\ Joined(task.lines) \in Nat
      /\ Shown \in Limits /\ Shown.lines = MaxLines /\ Shown.bytes = MaxBytes
      /\ MaxLines \in Nat /\ MaxBytes \in Nat /\ MaxLines # 0
  BY CountedLines, LenProperties, EndsReversed, ShownIsLimit, JoinedGrows, WindowAssumption DEF Lines
<1>2. ASSUME NEW k \in 0..n PROVE Fits(Part(k)) <=> Fitting(back, k, Shown)
  <2>1. Part(k) = SubSeq(all, n - k + 1, n) /\ Len(SubSeq(all, n - k + 1, n)) = k
    <3>1. n - k + 1 \in 1..(n + 1) /\ n \in (n - k + 1 - 1)..n /\ n - (n - k + 1) + 1 = k
      BY <1>1
    <3> QED
      BY <1>1, <3>1, PartOf DEF Lines
  <2>2. Joined(SubSeq(back, 1, k)) = Joined(SubSeq(all, n - k + 1, n))
    BY <1>1, EndsReversed
  <2> HIDE DEF Part, all, back, n
  <2> QED
    BY <1>1, <2>1, <2>2 DEF Fits, Fitting
<1>3. kept \in 0..n /\ Fitting(back, kept, Shown)
      /\ (kept = n \/ ~Fitting(back, kept + 1, Shown))
  <2> HIDE DEF back, all, n
  <2> QED
    BY <1>1, KeptIsMost
<1>4. longest = kept
  <2>2. \A k \in 0..n : k # n => k + 1 \in 0..n
    BY <1>1
  <2>3. Fits(Part(kept)) /\ (kept = n \/ ~Fits(Part(kept + 1)))
    <3> HIDE DEF Part, kept, all, n, back
    <3> QED
      BY <1>2, <1>3, <2>2
  <2>4. longest \in 0..n /\ Fits(Part(longest))
        /\ (longest = n \/ ~Fits(Part(longest + 1)))
    <3> HIDE DEF Part, kept, all, n, back
    <3> QED
      BY <1>3, <2>3
  <2>5. Fitting(back, longest, Shown) /\ (longest = n \/ ~Fitting(back, longest + 1, Shown))
    <3> HIDE DEF Part, kept, all, n, longest, back
    <3> QED
      BY <1>2, <2>2, <2>4
  <2> HIDE DEF longest, kept, all, Part, back, n
  <2> QED
    BY <1>1, <1>3, <2>4, <2>5, MostIsUnique
<1>5. CASE Len(all) <= MaxLines /\ Joined(task.lines) <= MaxBytes
  <2>1. answer = Window(task.lines, FALSE, "none")
    BY <1>1, <1>5 DEF TruncateTail
  <2>2. ~answer.truncated /\ answer.lines = task.lines
    BY <2>1 DEF Window
  <2> QED
    BY <1>1, <2>2 DEF WindowsAreWhole
<1>6. CASE ~(Len(all) <= MaxLines /\ Joined(task.lines) <= MaxBytes)
  <2>1. answer.truncated = TRUE /\ answer.lines = rows
    <3>1. answer = Window(rows, TRUE, IF kept < n /\ kept < MaxLines THEN "bytes" ELSE "lines")
      BY <1>1, <1>6 DEF TruncateTail
    <3> HIDE DEF rows, kept, n
    <3> QED
      BY <3>1 DEF Window
  <2>2. ASSUME kept = 0
        PROVE  /\ Len(rows) = 1 /\ Fits(rows) /\ rows[1] # all[n] /\ IsSuffix(rows[1], all[n])
    <3>1. all # <<>>
      <4> SUFFICES ASSUME all = <<>> PROVE FALSE
        OBVIOUS
      <4>1. Joined(task.lines) = 0 /\ Len(all) = 0
        BY CountedLines, EmptySeq
      <4> QED
        BY <1>1, <1>6, <4>1
    <3>2. n \in Nat \ {0} /\ n \in 1..n
      BY <1>1, <3>1, EmptySeq DEF Lines
    <3>3. all[n] \in Seq(Nat) /\ Bytes(all[n]) \in Nat
      BY <1>1, <3>2, ElementOfSeq, BytesGrow DEF Lines
    <3>4. Bytes(all[n]) > MaxBytes
      <4>1. 0 # n /\ 1 \in 0..n /\ ~Fitting(back, 1, Shown)
        <5> HIDE DEF back, kept, n
        <5> QED
          BY <1>3, <2>2, <3>2
      <4>2. ~Fits(Part(1))
        <5> HIDE DEF Part, back, n
        <5> QED
          BY <1>2, <4>1
      <4>3. Part(1) = <<all[n]>>
        <5>1. /\ n - 1 + 1 = n /\ n \in 1..(n + 1) /\ n \in (n - 1)..n /\ n - n + 1 = 1
              /\ n + 1 - 1 = n
          BY <3>2
        <5>2. SubSeq(all, n, n) \in Lines /\ Len(SubSeq(all, n, n)) = 1
              /\ SubSeq(all, n, n)[1] = all[n]
          <6>1. SubSeq(all, n, n) \in Lines /\ Len(SubSeq(all, n, n)) = n - n + 1
                /\ \A i \in 1..(n - n + 1) : SubSeq(all, n, n)[i] = all[n + i - 1]
            <7> HIDE DEF all, n
            <7> QED
              BY <1>1, <5>1, PartOf DEF Lines, n
          <6>2. 1 \in 1..(n - n + 1)
            BY <5>1
          <6> HIDE DEF all, n
          <6> QED
            BY <5>1, <6>1, <6>2
        <5>3. Part(1) = SubSeq(all, n, n)
          BY <1>1, <5>1
        <5>4. Part(1) \in Lines /\ Len(Part(1)) = 1 /\ Part(1)[1] = all[n]
          <6> HIDE DEF all, Part, n
          <6> QED
            BY <5>2, <5>3
        <5>5. PICK one \in Lines : one = <<all[n]>> /\ Len(one) = 1 /\ one[1] = all[n]
          BY <3>3, OneLine
        <5>6. Part(1) = one
          <6> HIDE DEF Part, all, n
          <6> QED
            BY <5>4, <5>5, SeqEqual DEF Lines
        <5> QED
          BY <5>5, <5>6
      <4>4. Joined(<<all[n]>>) = Bytes(all[n]) /\ Len(<<all[n]>>) = 1
        BY <3>3, OneLine
      <4> HIDE DEF Part, all, n
      <4>5. ~Fits(<<all[n]>>)
        BY <4>2, <4>3
      <4>6. ~(1 <= MaxLines /\ Bytes(all[n]) <= MaxBytes)
        BY <4>4, <4>5 DEF Fits
      <4> QED
        BY <1>1, <3>3, <4>6
    <3>5. /\ cut \in Seq(Nat) /\ Bytes(cut) <= MaxBytes /\ cut # all[n] /\ IsSuffix(cut, all[n])
      <4>1. Last(all) = all[n]
        BY DEF Last
      <4> HIDE DEF all, n
      <4> QED
        BY <1>1, <3>3, <3>4, <4>1, LastBytesFit
    <3>6. rows = <<cut>>
      BY <2>2
    <3>7. Joined(<<cut>>) = Bytes(cut) /\ Len(<<cut>>) = 1 /\ <<cut>>[1] = cut
      <4> HIDE DEF cut
      <4> QED
        BY <3>5, OneLine
    <3>8. Bytes(cut) \in Nat
      BY <3>5, BytesGrow
    <3> HIDE DEF rows, cut, all, n
    <3> QED
      BY <1>1, <3>5, <3>6, <3>7, <3>8 DEF Fits
  <2>3. ASSUME kept # 0 PROVE rows = Part(kept)
    BY <1>1, <2>3
  <2>4. IF longest = 0
        THEN /\ Len(answer.lines) = 1 /\ Fits(answer.lines)
             /\ answer.lines[1] # all[n] /\ IsSuffix(answer.lines[1], all[n])
        ELSE answer.lines = Part(longest)
    <3> HIDE DEF longest, kept, all, Part, back, n, rows
    <3> QED
      BY <1>4, <2>1, <2>2, <2>3
  <2>5. IF ~answer.truncated THEN answer.lines = task.lines
        ELSE IF task.tool = "tail" /\ longest = 0
        THEN /\ Len(answer.lines) = 1 /\ Fits(answer.lines)
             /\ answer.lines[1] # all[n] /\ IsSuffix(answer.lines[1], all[n])
        ELSE answer.lines = Part(longest)
    <3> HIDE DEF longest, kept, all, Part, back, n, rows
    <3> QED
      BY <2>1, <2>4
  <2> QED
    BY <2>5 DEF WindowsAreWhole
<1> QED
  BY <1>5, <1>6

\* A page that begins after the line `start`.
PageFrom(page, lines, start) ==
    /\ page.kind \in {"too_long", "truncated", "limited", "last"}
    /\ page.from = start
    /\ Len(page.lines) \in 0..(Len(lines) - start)
    /\ page.lines = SubSeq(lines, start + 1, start + Len(page.lines))
    /\ DOMAIN page.lines = 1..Len(page.lines)
    /\ page.next \in Nat \cup {NotGiven}
    /\ page.next # NotGiven =>
          page.next = start + Len(page.lines) + 1 /\ start + Len(page.lines) < Len(lines)
    /\ page.next = NotGiven /\ page.kind # "too_long" => start + Len(page.lines) = Len(lines)
    /\ page.kind = "too_long" => Len(page.lines) = 0

\* Some lines of a text, from line m on.
Excerpt(part, lines, m, k) ==
    /\ part \in Lines /\ Len(part) = k
    /\ \A i \in 1..k : part[i] = lines[m + i - 1]

LEMMA PartOfLines ==
    ASSUME NEW lines \in Lines, NEW m \in 1..(Len(lines) + 1),
           NEW n \in (m - 1)..Len(lines)
    PROVE  Excerpt(SubSeq(lines, m, n), lines, m, n - m + 1)
BY PartOf DEF Lines, Excerpt

\* The first k lines of the lines start + 1 to end.
LEMMA PartOfPart ==
    ASSUME NEW lines \in Lines, NEW start \in 0..Len(lines), NEW end \in start..Len(lines),
           NEW k \in 0..(end - start)
    PROVE  /\ SubSeq(SubSeq(lines, start + 1, end), 1, k) = SubSeq(lines, start + 1, start + k)
           /\ SubSeq(lines, start + 1, start + k) \in Lines
           /\ Len(SubSeq(lines, start + 1, start + k)) = k
           /\ SubSeq(lines, start + 1, end) \in Lines
           /\ Len(SubSeq(lines, start + 1, end)) = end - start
<1> DEFINE some == SubSeq(lines, start + 1, end)
           less == SubSeq(some, 1, k)
           part == SubSeq(lines, start + 1, start + k)
<1>1. /\ Len(lines) \in Nat /\ start \in Nat /\ end \in Nat /\ k \in Nat
      /\ start + 1 \in 1..(Len(lines) + 1) /\ end \in (start + 1 - 1)..Len(lines)
      /\ end - (start + 1) + 1 = end - start
      /\ start + k \in (start + 1 - 1)..Len(lines) /\ start + k - (start + 1) + 1 = k
      /\ 1 \in 1..(end - start + 1) /\ k \in (1 - 1)..(end - start) /\ k - 1 + 1 = k
  BY LenProperties DEF Lines
<1>2. Excerpt(some, lines, start + 1, end - start)
  <2>1. Excerpt(some, lines, start + 1, end - (start + 1) + 1)
    BY <1>1, PartOfLines
  <2> HIDE DEF some
  <2> QED
    BY <1>1, <2>1
<1>3. Excerpt(part, lines, start + 1, k)
  <2>1. Excerpt(part, lines, start + 1, start + k - (start + 1) + 1)
    BY <1>1, PartOfLines
  <2> HIDE DEF part
  <2> QED
    BY <1>1, <2>1
<1>4. Excerpt(less, some, 1, k)
  <2> HIDE DEF some
  <2>1. some \in Lines /\ 1 \in 1..(Len(some) + 1) /\ k \in (1 - 1)..Len(some)
    BY <1>1, <1>2 DEF Excerpt
  <2>2. Excerpt(less, some, 1, k - 1 + 1)
    BY <2>1, PartOfLines
  <2> HIDE DEF less
  <2> QED
    BY <1>1, <2>2
<1>5. \A i \in 1..k : less[i] = part[i]
  <2>1. \A i \in 1..k : 1 + i - 1 = i /\ i \in 1..(end - start)
    BY <1>1
  <2> HIDE DEF some, less, part
  <2> QED
    BY <1>2, <1>3, <1>4, <2>1 DEF Excerpt
<1>6. less = part
  <2> HIDE DEF some, less, part
  <2> QED
    BY <1>3, <1>4, <1>5, SeqEqual DEF Lines, Excerpt
<1> QED
  <2> HIDE DEF some, less, part
  <2>1. /\ less = part /\ part \in Lines /\ Len(part) = k
        /\ some \in Lines /\ Len(some) = end - start
    BY <1>2, <1>3, <1>6 DEF Excerpt
  <2> QED
    BY <2>1 DEF some, less, part

\* What the read tool answers from a line that is there.
LEMMA ReadGivesPage ==
    ASSUME NEW lines \in Lines, NEW start \in 0..Len(lines), start < Len(lines),
           NEW offset, StartLine(offset) = start, NEW limit \in PageLimits
    PROVE  PageFrom(Read(lines, offset, limit), lines, start)
<1> DEFINE n == Len(lines)
           end == IF limit = NotGiven THEN n ELSE MinOf(start + limit, n)
           selected == SubSeq(lines, start + 1, SliceIndex(end, n))
           window == TruncateHead(selected, Limit(MaxLines, MaxBytes))
           page == Read(lines, offset, limit)
<1>1. n \in Nat /\ start \in Nat /\ end \in (start + 1)..n /\ SliceIndex(end, n) = end
      /\ end \in start..n /\ end - start \in 0..(end - start)
  BY LenProperties, TaskAssumption DEF Lines, MinOf, SliceIndex
<1>2. /\ selected = SubSeq(lines, start + 1, end)
      /\ selected \in Lines /\ Len(selected) = end - start
  <2> HIDE DEF end
  <2> QED
    BY <1>1, PartOfPart
<1>3. /\ Cuts(window, selected, Counted(selected), KeepFirst(Counted(selected), Shown))
  <2> HIDE DEF selected
  <2> QED
    BY <1>2, ShownIsLimit, HeadWindow DEF Shown
<1>4. page = CASE start >= n -> Page("refused", start, <<>>, NotGiven)
               [] start < n /\ window.by = "first_line" ->
                     Page("too_long", start, <<>>, NotGiven)
               [] start < n /\ window.by \in {"lines", "bytes"} ->
                     Page("truncated", start, window.lines,
                          NextAfter(start, Len(window.lines)))
               [] start < n /\ ~window.truncated /\ end < n ->
                     Page("limited", start, window.lines, NextAfter(start, end - start))
               [] start < n /\ ~window.truncated /\ end = n ->
                     Page("last", start, window.lines, NotGiven)
  BY DEF Read
<1>7. page = Read(lines, offset, limit)
  OBVIOUS
<1> HIDE DEF window, page, selected, end, n
<1> SUFFICES PageFrom(page, lines, start)
  BY <1>7
<1>8. Len(lines) = n
  BY DEF n
<1>9. start < n /\ ~(start >= n) /\ start \in Nat /\ n \in Nat
  BY <1>1, <1>8
<1>5. CASE window.truncated
  <2> DEFINE kept == KeepFirst(Counted(selected), Shown)
             rows == SubSeq(lines, start + 1, start + kept)
  <2>1. /\ window.lines = SubSeq(Counted(selected), 1, kept)
        /\ kept \in 0..Len(Counted(selected)) /\ kept < end - start
        /\ window.by \in {"first_line", "bytes", "lines"}
    BY <1>2, <1>3, <1>5 DEF Cuts
  <2>2. kept \in 0..(end - start) /\ start + kept < n /\ start + kept \in Nat
    <3>1. Counted(selected) \in Lines
      BY <1>2, CountedLines
    <3>2. Len(Counted(selected)) \in Nat
      BY <3>1, LenProperties DEF Lines
    <3> HIDE DEF kept, end, selected
    <3> QED
      BY <1>1, <2>1, <3>2
  <2>3. window.lines = rows
    <3>1. /\ Counted(selected) = SubSeq(selected, 1, Len(Counted(selected)))
          /\ Len(Counted(selected)) \in 0..Len(selected)
      BY <1>2, CountedLines
    <3>2. SubSeq(Counted(selected), 1, kept) = SubSeq(selected, 1, kept)
      <4>1. PICK m \in 0..Len(selected) : m = Len(Counted(selected))
        BY <3>1
      <4>2. /\ 0 \in 0..Len(selected) /\ m \in 0..Len(selected) /\ kept \in 0..(m - 0)
            /\ SubSeq(selected, 1, m) = Counted(selected)
        <5> HIDE DEF kept, selected
        <5>1. Len(selected) \in Nat /\ kept \in 0..m
          BY <1>1, <1>2, <2>1, <4>1
        <5> QED
          BY <3>1, <4>1, <5>1
      <4>3. SubSeq(SubSeq(selected, 0 + 1, m), 1, kept) = SubSeq(selected, 0 + 1, 0 + kept)
        <5> HIDE DEF kept, selected
        <5> QED
          BY <1>2, <4>2, PartOfPart
      <4>4. 0 + 1 = 1 /\ 0 + kept = kept
        BY <2>2
      <4> HIDE DEF kept, selected
      <4> QED
        BY <4>2, <4>3, <4>4
    <3>3. SubSeq(selected, 1, kept) = rows
      <4> HIDE DEF kept, end
      <4> QED
        BY <1>1, <1>2, <2>2, PartOfPart
    <3> HIDE DEF kept, selected, rows
    <3> QED
      BY <2>1, <3>2, <3>3
  <2>4. rows \in Lines /\ Len(rows) = kept /\ DOMAIN rows = 1..kept
    <3>1. rows \in Lines /\ Len(rows) = kept
      <4> HIDE DEF kept, end
      <4> QED
        BY <1>1, <1>8, <2>2, PartOfPart
    <3> HIDE DEF rows, kept
    <3> QED
      BY <3>1, LenProperties DEF Lines
  <2>5. CASE window.by = "first_line"
    <3>1. page = Page("too_long", start, <<>>, NotGiven)
      BY <1>4, <1>5, <1>9, <2>5
    <3>2. SubSeq(lines, start + 1, start + 0) = <<>>
      BY <1>1, SubSeqEmpty
    <3>3. page.kind = "too_long" /\ page.from = start /\ page.lines = <<>> /\ page.next = NotGiven
      BY <3>1 DEF Page
    <3>4. Len(<<>>) = 0 /\ DOMAIN <<>> = 1..0
      BY EmptySeq
    <3> QED
      BY <1>1, <1>8, <3>2, <3>3, <3>4 DEF PageFrom
  <2>6. CASE window.by \in {"lines", "bytes"}
    <3>1. page = Page("truncated", start, window.lines, NextAfter(start, Len(window.lines)))
      BY <1>4, <1>5, <1>9, <2>6
    <3> HIDE DEF rows, kept
    <3>2. /\ page.kind = "truncated" /\ page.from = start /\ page.lines = rows
          /\ page.next = start + kept + 1
      BY <2>3, <2>4, <3>1 DEF Page, NextAfter
    <3>3. page.next \in Nat /\ page.next # NotGiven /\ kept \in 0..(n - start)
      BY <1>1, <2>2, <3>2, TaskAssumption
    <3> QED
      BY <1>1, <1>8, <2>2, <2>4, <3>2, <3>3 DEF PageFrom, rows
  <2> QED
    BY <2>1, <2>5, <2>6
<1>6. CASE ~window.truncated
  <2>1. /\ window.lines = selected /\ window.by = "none"
        /\ selected = SubSeq(lines, start + 1, start + (end - start))
        /\ start + (end - start) = end /\ end - start \in 0..(n - start)
    BY <1>1, <1>2, <1>3, <1>6 DEF Cuts
  <2>2. DOMAIN selected = 1..Len(selected)
    <3> HIDE DEF selected
    <3> QED
      BY <1>2, LenProperties DEF Lines
  <2>3. CASE end < n
    <3>1. page = Page("limited", start, window.lines, NextAfter(start, end - start))
      BY <1>1, <1>4, <1>6, <2>1, <2>3
    <3> HIDE DEF selected, end
    <3>2. /\ page.kind = "limited" /\ page.from = start /\ page.lines = selected
          /\ page.next = start + (end - start) + 1
      BY <2>1, <3>1 DEF Page, NextAfter
    <3>3. page.next \in Nat /\ page.next # NotGiven
      BY <1>1, <2>1, <3>2, TaskAssumption
    <3> QED
      BY <1>1, <1>2, <1>8, <2>1, <2>2, <2>3, <3>2, <3>3 DEF PageFrom
  <2>4. CASE end = n
    <3>1. page = Page("last", start, window.lines, NotGiven)
      BY <1>1, <1>4, <1>6, <2>1, <2>4
    <3> HIDE DEF selected, end
    <3>2. /\ page.kind = "last" /\ page.from = start /\ page.lines = selected
          /\ page.next = NotGiven
      BY <2>1, <3>1 DEF Page
    <3> QED
      BY <1>1, <1>2, <1>8, <2>1, <2>2, <2>4, <3>2 DEF PageFrom
  <2> QED
    BY <1>1, <2>3, <2>4
<1> QED
  BY <1>5, <1>6

\* The lines seen when m were, each once and in order.
Upto(m) == [i \in 1..m |-> i]

\* Pages that are shown next to one another are the lines up to the last.
LEMMA UptoGrows ==
    ASSUME NEW m \in Nat, NEW k \in Nat
    PROVE  /\ Upto(m) \in Seq(Nat) /\ Len(Upto(m)) = m
           /\ Upto(m) \o [i \in 1..k |-> m + i] = Upto(m + k)
           /\ Append(Upto(m), m + 1) = Upto(m + 1)
<1> DEFINE more == [i \in 1..k |-> m + i]
<1>1. ASSUME NEW a \in Nat
      PROVE  /\ Upto(a) \in Seq(Nat) /\ Len(Upto(a)) = a
             /\ \A i \in 1..a : Upto(a)[i] = i
  BY DEF Upto
<1>2. more \in Seq(Nat) /\ Len(more) = k /\ \A i \in 1..k : more[i] = m + i
  OBVIOUS
<1>3. Upto(m) \o more = Upto(m + k)
  <2> HIDE DEF more
  <2>1. m + k \in Nat
    OBVIOUS
  <2>2. /\ Upto(m) \in Seq(Nat) /\ Len(Upto(m)) = m
        /\ \A i \in 1..m : Upto(m)[i] = i
    BY <1>1
  <2>3. /\ Upto(m + k) \in Seq(Nat) /\ Len(Upto(m + k)) = m + k
        /\ \A i \in 1..(m + k) : Upto(m + k)[i] = i
    BY <1>1, <2>1
  <2>4. /\ Upto(m) \o more \in Seq(Nat) /\ Len(Upto(m) \o more) = m + k
        /\ \A i \in 1..(m + k) : (Upto(m) \o more)[i] =
              IF i <= m THEN Upto(m)[i] ELSE more[i - m]
    <3>1. /\ Upto(m) \o more \in Seq(Nat)
          /\ Len(Upto(m) \o more) = Len(Upto(m)) + Len(more)
          /\ \A i \in 1..Len(Upto(m)) + Len(more) : (Upto(m) \o more)[i] =
                IF i <= Len(Upto(m)) THEN Upto(m)[i] ELSE more[i - Len(Upto(m))]
      BY <1>2, <2>2, ConcatProperties
    <3> QED
      BY <1>2, <2>2, <3>1
  <2>5. \A i \in 1..(m + k) : (Upto(m) \o more)[i] = Upto(m + k)[i]
    <3> SUFFICES ASSUME NEW i \in 1..(m + k)
                 PROVE  (Upto(m) \o more)[i] = Upto(m + k)[i]
      OBVIOUS
    <3>1. CASE i <= m
      BY <2>2, <2>3, <2>4, <3>1
    <3>2. CASE ~(i <= m)
      <4>1. i - m \in 1..k /\ m + (i - m) = i
        BY <3>2
      <4> QED
        BY <1>2, <2>3, <2>4, <3>2, <4>1
    <3> QED
      BY <3>1, <3>2
  <2> QED
    BY <2>3, <2>4, <2>5, SeqEqual
<1>4. Append(Upto(m), m + 1) = Upto(m + 1)
  <2>1. /\ Upto(m) \in Seq(Nat) /\ Len(Upto(m)) = m
        /\ \A i \in 1..m : Upto(m)[i] = i
    BY <1>1
  <2>2. /\ m + 1 \in Nat /\ Upto(m + 1) \in Seq(Nat) /\ Len(Upto(m + 1)) = m + 1
        /\ \A i \in 1..(m + 1) : Upto(m + 1)[i] = i
    BY <1>1
  <2>3. /\ Append(Upto(m), m + 1) \in Seq(Nat) /\ Len(Append(Upto(m), m + 1)) = m + 1
        /\ \A i \in 1..m : Append(Upto(m), m + 1)[i] = Upto(m)[i]
        /\ Append(Upto(m), m + 1)[m + 1] = m + 1
    BY <2>1, <2>2, AppendProperties
  <2>4. \A i \in 1..(m + 1) : Append(Upto(m), m + 1)[i] = Upto(m + 1)[i]
    <3>1. \A i \in 1..(m + 1) : i = m + 1 \/ i \in 1..m
      OBVIOUS
    <3> QED
      BY <2>1, <2>2, <2>3, <3>1
  <2> QED
    BY <2>2, <2>3, <2>4, SeqEqual
<1> QED
  BY <1>1, <1>3, <1>4

\* What `m` lines seen say of the last page.
Seen(page, lines, shown, m) ==
    /\ m \in 0..Len(lines) /\ shown = Upto(m)
    /\ page.kind \in {"too_long", "truncated", "limited", "last", "skipped"}
    /\ page.lines = SubSeq(lines, page.from + 1, page.from + Len(page.lines))
    /\ page.next \in Nat \cup {NotGiven}
    /\ page.next # NotGiven => page.next = m + 1 /\ m < Len(lines)
    /\ page.next = NotGiven /\ page.kind # "too_long" => m = Len(lines)
    /\ page.kind = "too_long" => page.from = m

\* Pages follow one another, and a window is that of the text.
ReadingInv ==
    /\ task \in Tasks
    /\ task.tool = "read" /\ answer = Pending => seen = <<>>
    /\ task.tool = "read" /\ answer # Pending =>
          \E m \in Nat : Seen(answer, task.lines, seen, m)
    /\ task.tool = "head" /\ answer # Pending => answer = TruncateHead(task.lines, Shown)
    /\ task.tool = "tail" /\ answer # Pending => answer = TruncateTail(task.lines, Shown)

\* A text that is read or cut has a line.
LEMMA TextsHaveLines ==
    ASSUME NEW t \in Tasks, t.tool \in {"read", "head", "tail"}
    PROVE  t.lines \in Lines /\ Len(t.lines) \in Nat /\ 0 < Len(t.lines)
<1>1. t.lines \in Lines /\ t.lines # <<>>
  BY TaskAssumption DEF Lines
<1> QED
  BY <1>1, EmptySeq, LenProperties DEF Lines

\* A page that begins after the lines seen.
LEMMA PageIsSeen ==
    ASSUME task \in Tasks, task.tool = "read",
           NEW m \in Nat, m < Len(task.lines), seen = Upto(m),
           NEW offset, StartLine(offset) = m, NEW limit \in PageLimits,
           answer' = Read(task.lines, offset, limit),
           seen' = seen \o [i \in DOMAIN answer'.lines |-> answer'.from + i]
    PROVE  answer' # Pending /\ \E k \in Nat : Seen(answer', task.lines, seen', k)
<1> DEFINE page == answer'
           lines == task.lines
           k == Len(page.lines)
<1>1. lines \in Lines /\ Len(lines) \in Nat /\ m \in 0..Len(lines)
  BY TextsHaveLines
<1>2. PageFrom(page, lines, m)
  <2> HIDE DEF lines
  <2>1. page = Read(lines, offset, limit) /\ m < Len(lines)
    BY DEF lines
  <2> QED
    BY <1>1, <2>1, ReadGivesPage
<1>3. /\ page.kind \in {"too_long", "truncated", "limited", "last"}
      /\ page.from = m
      /\ k \in 0..(Len(lines) - m)
      /\ page.lines = SubSeq(lines, m + 1, m + k)
      /\ DOMAIN page.lines = 1..k
      /\ page.next \in Nat \cup {NotGiven}
      /\ page.next # NotGiven => page.next = m + k + 1 /\ m + k < Len(lines)
      /\ page.next = NotGiven /\ page.kind # "too_long" => m + k = Len(lines)
      /\ page.kind = "too_long" => k = 0
  BY <1>2 DEF PageFrom
<1>4. seen' = Upto(m) \o [i \in 1..k |-> m + i]
  BY <1>3
<1>5. k \in Nat /\ m + k \in 0..Len(lines) /\ m + k \in Nat /\ m + 0 = m
  <2> HIDE DEF k, lines
  <2> QED
    BY <1>1, <1>3
<1>6. seen' = Upto(m + k)
  <2> HIDE DEF k
  <2> QED
    BY <1>4, <1>5, UptoGrows
<1>7. Seen(page, lines, seen', m + k)
  <2> HIDE DEF lines
  <2>1. page.lines = SubSeq(lines, page.from + 1, page.from + Len(page.lines))
    BY <1>3
  <2>2. page.kind = "too_long" => page.from = m + k
    BY <1>3, <1>5
  <2> HIDE DEF k, page
  <2> QED
    BY <1>3, <1>5, <1>6, <2>1, <2>2 DEF Seen
<1>8. page # Pending
  BY <1>3 DEF Pending
<1> QED
  BY <1>5, <1>7, <1>8

\* A page begins where the last one ended.
LEMMA ReadPagePreserves ==
    ASSUME ReadingInv, NEW limit \in PageLimits, ReadPage(limit)
    PROVE  ReadingInv'
<1>1. task.tool = "read" /\ task' = task /\ task \in Tasks
  BY DEF ReadPage, ReadingInv
<1>2. PICK offset \in IF answer = Pending THEN {NotGiven, 0, 1}
                      ELSE {answer.next} \ {NotGiven} :
        answer' = Read(task.lines, offset, limit)
  BY DEF ReadPage
<1>3. seen' = seen \o [i \in DOMAIN answer'.lines |-> answer'.from + i]
  BY DEF ReadPage
<1>4. PICK m \in Nat : m < Len(task.lines) /\ seen = Upto(m) /\ StartLine(offset) = m
  <2>1. CASE answer = Pending
    <3>1. seen = <<>> /\ offset \in {NotGiven, 0, 1}
      BY <1>1, <1>2, <2>1 DEF ReadingInv
    <3>2. Upto(0) = <<>>
      <4>1. Upto(0) \in Seq(Nat) /\ Len(Upto(0)) = 0
        BY UptoGrows
      <4> QED
        BY <4>1, EmptySeq
    <3>3. StartLine(offset) = 0
      BY <3>1, TaskAssumption DEF StartLine, MaxOf
    <3> QED
      BY <1>1, <3>1, <3>2, <3>3, TextsHaveLines
  <2>2. CASE answer # Pending
    <3>1. PICK m \in Nat : Seen(answer, task.lines, seen, m)
      BY <1>1, <2>2 DEF ReadingInv
    <3>2. offset = m + 1 /\ m < Len(task.lines) /\ seen = Upto(m)
      BY <1>2, <2>2, <3>1 DEF Seen
    <3>3. StartLine(offset) = m
      BY <3>2, TaskAssumption DEF StartLine, MaxOf
    <3> QED
      BY <3>2, <3>3
  <2> QED
    BY <2>1, <2>2
<1>5. answer' # Pending /\ \E k \in Nat : Seen(answer', task.lines, seen', k)
  BY <1>1, <1>2, <1>3, <1>4, PageIsSeen
<1> QED
  BY <1>1, <1>5 DEF ReadingInv, Pending

\* A line skipped is one line.
LEMMA SkipLinePreserves ==
    ASSUME ReadingInv, SkipLine
    PROVE  ReadingInv'
<1>1. /\ task.tool = "read" /\ task' = task /\ task \in Tasks
      /\ answer.kind = "too_long" /\ answer.from + 1 < Len(task.lines)
      /\ seen' = Append(seen, answer.from + 1)
      /\ answer' = Page("skipped", answer.from, <<>>, answer.from + 2)
  BY DEF SkipLine, ReadingInv
<1>2. PICK m \in Nat : Seen(answer, task.lines, seen, m)
  <2>1. answer # Pending
    BY <1>1 DEF Pending
  <2> QED
    BY <1>1, <2>1 DEF ReadingInv
<1>3. answer.from = m /\ seen = Upto(m) /\ m + 1 < Len(task.lines)
  BY <1>1, <1>2 DEF Seen
<1>4. seen' = Upto(m + 1)
  BY <1>1, <1>3, UptoGrows
<1>5. task.lines \in Lines /\ Len(task.lines) \in Nat
  BY <1>1, TextsHaveLines
<1>6. SubSeq(task.lines, m + 1, m + 0) = <<>> /\ Len(<<>>) = 0
  BY <1>5, SubSeqEmpty, EmptySeq
<1>7. /\ answer'.kind = "skipped" /\ answer'.from = m /\ answer'.lines = <<>>
      /\ answer'.next = m + 2
  BY <1>1, <1>3 DEF Page
<1>8. answer'.lines = SubSeq(task.lines, answer'.from + 1, answer'.from + Len(answer'.lines))
  BY <1>6, <1>7
<1>9. /\ m + 1 \in Nat /\ m + 1 \in 0..Len(task.lines) /\ m + 2 \in Nat
      /\ m + 2 = (m + 1) + 1 /\ m + 2 # NotGiven
  BY <1>3, <1>5, TaskAssumption
<1>10. Seen(answer', task.lines, seen', m + 1)
  BY <1>3, <1>4, <1>7, <1>8, <1>9 DEF Seen
<1>11. answer' # Pending
  BY <1>7 DEF Pending
<1> QED
  BY <1>1, <1>9, <1>10, <1>11 DEF ReadingInv, Pending

\* Every step keeps the invariant.
LEMMA ReadingKept ==
    ASSUME ReadingInv, [FileNext]_fileVars
    PROVE  ReadingInv'
<1>1. ASSUME NEW limit \in PageLimits, ReadPage(limit) PROVE ReadingInv'
  BY <1>1, ReadPagePreserves
<1>2. CASE SkipLine
  BY <1>2, SkipLinePreserves
<1>3. CASE EditFile
  <2>1. task.tool = "edit" /\ task' = task /\ task \in Tasks
    BY <1>3 DEF EditFile, ReadingInv
  <2> QED
    BY <2>1 DEF ReadingInv
<1>4. CASE WriteFile
  <2>1. task.tool = "write" /\ task' = task /\ task \in Tasks
    BY <1>4 DEF WriteFile, ReadingInv
  <2> QED
    BY <2>1 DEF ReadingInv
<1>5. CASE Search
  <2>1. task.tool \in {"grep", "find", "ls"} /\ task' = task /\ task \in Tasks
    BY <1>5 DEF Search, Answer, ReadingInv
  <2> QED
    BY <2>1 DEF ReadingInv
<1>6. CASE Cut
  <2>1. /\ task' = task /\ task \in Tasks
        /\ \/ task.tool = "head" /\ answer' = TruncateHead(task.lines, Shown)
           \/ task.tool = "tail" /\ answer' = TruncateTail(task.lines, Shown)
    BY <1>6 DEF Cut, Answer, ReadingInv, Shown
  <2> QED
    BY <2>1 DEF ReadingInv
<1>7. CASE UNCHANGED fileVars
  BY <1>7 DEF fileVars, ReadingInv, Seen, Pending
<1> QED
  BY <1>1, <1>2, <1>3, <1>4, <1>5, <1>6, <1>7 DEF FileNext

\* The invariant says what the property does.
LEMMA ReadingInvIsExact ==
    ASSUME ReadingInv
    PROVE  ReadingIsExact
<1>1. PagesAreContiguous
  <2> SUFFICES ASSUME task.tool = "read", answer # Pending
               PROVE  PagesAreContiguous
    BY DEF PagesAreContiguous
  <2>1. PICK m \in Nat : Seen(answer, task.lines, seen, m)
    BY DEF ReadingInv
  <2>2. seen = Upto(m) /\ Len(seen) = m
    BY <2>1, UptoGrows DEF Seen
  <2>3. seen = [i \in 1..Len(seen) |-> i]
    BY <2>2 DEF Upto
  <2> QED
    BY <2>1, <2>2, <2>3 DEF Seen, PagesAreContiguous
<1>2. WindowsAreWhole
  <2> SUFFICES ASSUME task.tool \in {"head", "tail"}, answer # Pending
               PROVE  WindowsAreWhole
    BY DEF WindowsAreWhole
  <2>1. task.lines \in Lines
    BY TextsHaveLines DEF ReadingInv
  <2>2. CASE task.tool = "head"
    <3>1. answer = TruncateHead(task.lines, Shown)
      BY <2>2 DEF ReadingInv
    <3> QED
      BY <2>1, <2>2, <3>1, HeadIsWhole
  <2>3. CASE task.tool = "tail"
    <3>1. answer = TruncateTail(task.lines, Shown)
      BY <2>3 DEF ReadingInv
    <3> QED
      BY <2>1, <2>3, <3>1, TailIsWhole
  <2> QED
    BY <2>2, <2>3
<1> QED
  BY <1>1, <1>2 DEF ReadingIsExact

\* A file that is read by the notices is seen line by line, each once and in
\* order, and a window has as many whole lines as fit (operations.py,
\* truncation.py), for every text and every limit.
THEOREM ReadingIsAlwaysExact == FileSpec => []ReadingIsExact
<1>1. FileInit => ReadingInv
  BY DEF FileInit, ReadingInv
<1>2. ReadingInv /\ [FileNext]_fileVars => ReadingInv'
  BY ReadingKept
<1>3. ReadingInv => ReadingIsExact
  BY ReadingInvIsExact
<1> QED
  BY <1>1, <1>2, <1>3, PTL DEF FileSpec
=============================================================================
