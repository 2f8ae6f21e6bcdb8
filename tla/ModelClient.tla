----------------------------- MODULE ModelClient -----------------------------
(***************************************************************************)
(* DefaultModelClient.complete and the close of the live runner that owns  *)
(* the client.  A call owns two asyncio tasks, the transport's send and the *)
(* wait on a cancellation token; the token, the call's deadline, the       *)
(* caller's own cancellation and a close of the runner may each come       *)
(* between any two steps of the event loop.                                *)
(*                                                                         *)
(* An action is what runs between two suspensions.  A cancellation of the  *)
(* caller is thrown at the next resumption; a gather that is cancelled     *)
(* passes the cancellation on and still waits for its tasks.               *)
(***************************************************************************)
EXTENDS Naturals

CONSTANTS
    Calls,           \* executions of the live runner, one model call each
    Closers,         \* callers of the runner's aclose
    MaxInterrupts,   \* bound on the cancellations of one caller
    None             \* "no value"

Outcomes == {"refused", "response", "provider_error", "cancelled", "timeout",
             "interrupted"}

ASSUME ModelClientAssumption == MaxInterrupts \in Nat /\ None \notin Outcomes

VARIABLES
    pc,           \* where each call is suspended
    transport,    \* its transport task
    waiter,       \* its cancellation task
    watched,      \* it has a cancellation token
    cancelled,    \* its token is cancelled
    expired,      \* its deadline has passed
    interrupted,  \* a cancellation of its caller is not delivered yet
    interrupts,   \* cancellations of its caller so far
    outcome,      \* how it ends, once that is decided
    closed,       \* MillforgeBaseLiveRunner._closed
    clientClosed, \* the _closed of the client and of its transport
    closeTask,    \* MillforgeBaseLiveRunner._close_task
    closes,       \* times the HTTP client was closed
    closer        \* where each caller of aclose stands

taskVars == <<transport, waiter>>
worldVars == <<watched, cancelled, expired, interrupted, interrupts>>
closeVars == <<closed, clientClosed, closeTask, closes, closer>>
vars == <<pc, taskVars, worldVars, outcome, closeVars>>

-----------------------------------------------------------------------------
\* A task that is cancelled before it first runs ("doomed") never starts; one
\* that runs is told at its next step, and may take its time ("cancelling").
Ended == {"none", "answered", "failed", "cancelled", "woke"}
TransportStates == {"none", "created", "doomed", "sending", "cancelling",
                    "answered", "failed", "cancelled"}
WaiterStates == {"none", "created", "doomed", "waiting", "cancelling",
                 "woke", "cancelled"}

TransportDone(c) == transport[c] \in Ended
WaiterDone(c) == waiter[c] \in Ended
OwnedDone(c) == TransportDone(c) /\ WaiterDone(c)

\* task.cancel() of a task in this state
CancelTask(state) ==
    CASE state = "created" -> "doomed"
      [] state \in {"sending", "waiting"} -> "cancelling"
      [] OTHER -> state

Init ==
    /\ pc = [c \in Calls |-> "idle"]
    /\ transport = [c \in Calls |-> "none"]
    /\ waiter = [c \in Calls |-> "none"]
    /\ watched \in [Calls -> BOOLEAN]
    /\ cancelled = [c \in Calls |-> FALSE]
    /\ expired = [c \in Calls |-> FALSE]
    /\ interrupted = [c \in Calls |-> FALSE]
    /\ interrupts = [c \in Calls |-> 0]
    /\ outcome = [c \in Calls |-> None]
    /\ closed = FALSE /\ clientClosed = FALSE
    /\ closeTask = "none" /\ closes = 0
    /\ closer = [k \in Closers |-> "idle"]

Goto(c, label) == pc' = [pc EXCEPT ![c] = label]
Decide(c, o) == outcome' = [outcome EXCEPT ![c] = o]

\* _cancel_and_await of both tasks, up to its gather.
\* Mutant: the tasks are awaited and not cancelled.
AwaitOwned(c) == UNCHANGED taskVars
CancelOwned(c) ==
    /\ transport' = [transport EXCEPT ![c] = CancelTask(@)]
    /\ waiter' = [waiter EXCEPT ![c] = CancelTask(@)]

\* The finally clause of _send_with_cancellation, with how it was reached.
\* Mutant: it cancels the tasks and does not wait for them.
LeaveAtOnce(c, o) == Decide(c, o) /\ Goto(c, "ended") /\ CancelOwned(c)
EnterCleanup(c, o) == Decide(c, o) /\ Goto(c, "cleanup") /\ CancelOwned(c)

-----------------------------------------------------------------------------
(* The call.                                                               *)

\* _require_open, then the runner's own work up to the model request.
Execute(c) ==
    /\ pc[c] = "idle"
    /\ \/ closed /\ Goto(c, "ended") /\ Decide(c, "refused")
       \/ ~closed /\ Goto(c, "executing") /\ UNCHANGED outcome
    /\ UNCHANGED <<taskVars, worldVars, closeVars>>

\* What complete() does before its first suspension.  The profile, the
\* capabilities and the secrets may refuse the request before or after the
\* token and the deadline are looked at.
Complete(c) ==
    /\ pc[c] = "executing"
    /\ \/ /\ Goto(c, "ended")
          /\ \/ Decide(c, "refused")
             \/ ~clientClosed /\ cancelled[c] /\ Decide(c, "cancelled")
             \/ ~clientClosed /\ ~cancelled[c] /\ expired[c] /\ Decide(c, "timeout")
          /\ UNCHANGED taskVars
       \/ /\ ~clientClosed /\ ~cancelled[c] /\ ~expired[c]
          /\ Goto(c, "first_wait")
          /\ transport' = [transport EXCEPT ![c] = "created"]
          /\ waiter' = [waiter EXCEPT ![c] =
                IF watched[c] THEN "created" ELSE "none"]
          /\ UNCHANGED outcome
    /\ UNCHANGED <<worldVars, closeVars>>

\* The CancelledError clause.
OnCancel(c) ==
    /\ interrupted[c]
    /\ interrupted' = [interrupted EXCEPT ![c] = FALSE]
    /\ Decide(c, "interrupted") /\ Goto(c, "on_cancel") /\ CancelOwned(c)

\* _check_cancelled and the comparison with call_deadline
Cancels(c) == cancelled[c] /\ EnterCleanup(c, "cancelled")
Expires(c) == ~cancelled[c] /\ expired[c] /\ EnterCleanup(c, "timeout")
Current(c) == ~cancelled[c] /\ ~expired[c]

\* transport_task.result()
TakeResult(c) ==
    EnterCleanup(c, IF transport[c] = "answered" THEN "response"
                    ELSE "provider_error")

\* The transport has finished: the waiter is cancelled and awaited first.
HandOff(c) ==
    \/ /\ watched[c]
       /\ waiter' = [waiter EXCEPT ![c] = CancelTask(@)]
       /\ Goto(c, "handoff")
       /\ UNCHANGED <<transport, outcome>>
    \/ ~watched[c] /\ TakeResult(c)

\* asyncio.wait computes its done set when the call resumes.  A waiter that
\* returns while its token is not cancelled is waited out.
FirstWait(c) ==
    /\ pc[c] = "first_wait"
    /\ interrupted[c] \/ TransportDone(c) \/ expired[c]
       \/ (watched[c] /\ WaiterDone(c))
    /\ \/ OnCancel(c)
       \/ /\ ~interrupted[c] /\ UNCHANGED interrupted
          /\ \/ Cancels(c)
             \/ Expires(c)
             \/ Current(c) /\ TransportDone(c) /\ HandOff(c)
             \/ /\ Current(c) /\ ~TransportDone(c)
                /\ Goto(c, "second_wait")
                /\ UNCHANGED <<taskVars, outcome>>
    /\ UNCHANGED <<watched, cancelled, expired, interrupts, closeVars>>

SecondWait(c) ==
    /\ pc[c] = "second_wait"
    /\ interrupted[c] \/ TransportDone(c) \/ expired[c]
    /\ \/ OnCancel(c)
       \/ /\ ~interrupted[c] /\ UNCHANGED interrupted
          /\ Cancels(c) \/ Expires(c) \/ (Current(c) /\ HandOff(c))
    /\ UNCHANGED <<watched, cancelled, expired, interrupts, closeVars>>

Settle(c) ==
    /\ pc[c] = "handoff" /\ WaiterDone(c)
    /\ \/ OnCancel(c)
       \/ /\ ~interrupted[c] /\ UNCHANGED interrupted
          /\ Cancels(c) \/ Expires(c) \/ (Current(c) /\ TakeResult(c))
    /\ UNCHANGED <<watched, cancelled, expired, interrupts, closeVars>>

\* Both clean-ups wait for every task; another cancellation only replaces
\* what is raised.
LeaveOnCancel(c) ==
    /\ pc[c] = "on_cancel" /\ OwnedDone(c)
    /\ EnterCleanup(c, "interrupted")
    /\ interrupted' = [interrupted EXCEPT ![c] = FALSE]
    /\ UNCHANGED <<watched, cancelled, expired, interrupts, closeVars>>

\* The answer is normalized after the clean-up and may still be malformed.
Finish(c) ==
    /\ pc[c] = "cleanup" /\ OwnedDone(c)
    /\ Goto(c, "ended")
    /\ interrupted' = [interrupted EXCEPT ![c] = FALSE]
    /\ IF interrupted[c] THEN Decide(c, "interrupted")
       ELSE \/ UNCHANGED outcome
            \/ outcome[c] = "response" /\ Decide(c, "provider_error")
    /\ UNCHANGED <<taskVars, watched, cancelled, expired, interrupts, closeVars>>

-----------------------------------------------------------------------------
(* The tasks of a call.                                                    *)

TransportBecomes(c, s) == transport' = [transport EXCEPT ![c] = s]
WaiterBecomes(c, s) == waiter' = [waiter EXCEPT ![c] = s]

\* send() posts unless its transport is closed by the time it first runs.
SendStarts(c) ==
    /\ \/ transport[c] = "created" /\ ~clientClosed /\ TransportBecomes(c, "sending")
       \/ transport[c] = "created" /\ clientClosed /\ TransportBecomes(c, "failed")
       \/ transport[c] = "doomed" /\ TransportBecomes(c, "cancelled")
    /\ UNCHANGED <<pc, waiter, worldVars, outcome, closeVars>>

\* A cancelled send usually ends cancelled, but its answer or its failure
\* may have come first.
SendEnds(c) ==
    /\ \/ /\ transport[c] \in {"sending", "cancelling"}
          /\ \E s \in {"answered", "failed"} : TransportBecomes(c, s)
       \/ transport[c] = "cancelling" /\ TransportBecomes(c, "cancelled")
    /\ UNCHANGED <<pc, waiter, worldVars, outcome, closeVars>>

WaiterStarts(c) ==
    /\ \/ waiter[c] = "created" /\ WaiterBecomes(c, "waiting")
       \/ waiter[c] = "doomed" /\ WaiterBecomes(c, "cancelled")
    /\ UNCHANGED <<pc, transport, worldVars, outcome, closeVars>>

\* token.wait() returns or fails, early too.
WaiterEnds(c) ==
    /\ \/ waiter[c] = "waiting" /\ WaiterBecomes(c, "woke")
       \/ waiter[c] = "cancelling"
          /\ \E s \in {"woke", "cancelled"} : WaiterBecomes(c, s)
    /\ UNCHANGED <<pc, transport, worldVars, outcome, closeVars>>

-----------------------------------------------------------------------------
(* What happens to a call from outside.                                    *)

CancelToken(c) ==
    /\ watched[c] /\ ~cancelled[c] /\ pc[c] # "ended"
    /\ cancelled' = [cancelled EXCEPT ![c] = TRUE]
    /\ UNCHANGED <<pc, taskVars, watched, expired, interrupted, interrupts, outcome, closeVars>>

DeadlinePasses(c) ==
    /\ ~expired[c] /\ pc[c] \notin {"idle", "ended"}
    /\ expired' = [expired EXCEPT ![c] = TRUE]
    /\ UNCHANGED <<pc, taskVars, watched, cancelled, interrupted, interrupts, outcome, closeVars>>

\* The caller's task is cancelled while the call is suspended.
Interrupt(c) ==
    /\ pc[c] \notin {"idle", "executing", "ended"}
    /\ interrupts[c] < MaxInterrupts
    /\ interrupted' = [interrupted EXCEPT ![c] = TRUE]
    /\ interrupts' = [interrupts EXCEPT ![c] = @ + 1]
    /\ UNCHANGED <<pc, taskVars, watched, cancelled, expired, outcome, closeVars>>

-----------------------------------------------------------------------------
(* The close of the runner.                                                *)

Aclose(k) ==
    /\ closer[k] = "idle"
    /\ closer' = [closer EXCEPT ![k] = "waiting"]
    /\ closed' = TRUE
    /\ closeTask' = IF closeTask = "none" THEN "created" ELSE closeTask
    /\ UNCHANGED <<pc, taskVars, worldVars, outcome, clientClosed, closes>>

\* DefaultModelClient.aclose and the transport's, up to the HTTP client's.
CloseStarts ==
    /\ closeTask = "created"
    /\ clientClosed' = TRUE
    /\ \/ clientClosed /\ closeTask' = "closed" /\ UNCHANGED closes
       \/ ~clientClosed /\ closeTask' = "closing" /\ closes' = closes + 1
    /\ UNCHANGED <<pc, taskVars, worldVars, outcome, closed, closer>>

CloseEnds ==
    /\ closeTask = "closing"
    /\ closeTask' \in {"closed", "raised"}
    /\ UNCHANGED <<pc, taskVars, worldVars, outcome, closed, clientClosed, closes, closer>>

\* The shield keeps the cancellation of one caller from the close task.
CloseInterrupted(k) ==
    /\ closer[k] = "waiting"
    /\ closer' = [closer EXCEPT ![k] = "interrupted"]
    /\ UNCHANGED <<pc, taskVars, worldVars, outcome, closed, clientClosed, closeTask, closes>>

CloseReturns(k) ==
    /\ closer[k] = "waiting"
    /\ closeTask \in {"closed", "raised"}
    /\ closer' = [closer EXCEPT ![k] =
          IF closeTask = "closed" THEN "returned" ELSE "raised"]
    /\ UNCHANGED <<pc, taskVars, worldVars, outcome, closed, clientClosed, closeTask, closes>>

-----------------------------------------------------------------------------
Resume(c) == \/ Execute(c) \/ Complete(c) \/ FirstWait(c) \/ SecondWait(c)
             \/ Settle(c) \/ LeaveOnCancel(c) \/ Finish(c)
Tasks(c) == SendStarts(c) \/ WaiterStarts(c) \/ SendEnds(c) \/ WaiterEnds(c)
Outside(c) == CancelToken(c) \/ DeadlinePasses(c) \/ Interrupt(c)
Close == CloseStarts \/ CloseEnds

Done == /\ \A c \in Calls : pc[c] = "ended"
        /\ \A k \in Closers : closer[k] \notin {"idle", "waiting"}
        /\ closeTask \notin {"created", "closing"}
        /\ UNCHANGED vars

Next == \/ \E c \in Calls : Resume(c) \/ Tasks(c) \/ Outside(c)
        \/ Close
        \/ \E k \in Closers : Aclose(k) \/ CloseReturns(k) \/ CloseInterrupted(k)
        \/ Done

\* The event loop runs what is ready and time passes.  A task that was
\* cancelled ends; one that was not may run for ever, but for its deadline.
Fairness ==
    /\ \A c \in Calls :
        /\ WF_vars(Complete(c)) /\ WF_vars(FirstWait(c)) /\ WF_vars(SecondWait(c))
        /\ WF_vars(Settle(c)) /\ WF_vars(LeaveOnCancel(c)) /\ WF_vars(Finish(c))
        /\ WF_vars(SendStarts(c)) /\ WF_vars(WaiterStarts(c))
        /\ WF_vars(transport[c] = "cancelling" /\ SendEnds(c))
        /\ WF_vars(waiter[c] = "cancelling" /\ WaiterEnds(c))
        /\ WF_vars(DeadlinePasses(c))

Spec == Init /\ [][Next]_vars /\ Fairness

-----------------------------------------------------------------------------
(* Properties.                                                             *)

TypeOK ==
    /\ pc \in [Calls -> {"idle", "executing", "first_wait", "second_wait",
                         "handoff", "on_cancel", "cleanup", "ended"}]
    /\ transport \in [Calls -> TransportStates]
    /\ waiter \in [Calls -> WaiterStates]
    /\ watched \in [Calls -> BOOLEAN]
    /\ cancelled \in [Calls -> BOOLEAN] /\ expired \in [Calls -> BOOLEAN]
    /\ interrupted \in [Calls -> BOOLEAN]
    /\ interrupts \in [Calls -> 0..MaxInterrupts]
    /\ outcome \in [Calls -> Outcomes \cup {None}]
    /\ closed \in BOOLEAN /\ clientClosed \in BOOLEAN
    /\ closeTask \in {"none", "created", "closing", "closed", "raised"}
    /\ closes \in 0..1
    /\ closer \in [Closers ->
          {"idle", "waiting", "returned", "raised", "interrupted"}]

\* A call never leaves a task behind, however it ends: not when the token,
\* the deadline and the caller's cancellations meet in its clean-ups.
NothingOrphaned == \A c \in Calls : pc[c] = "ended" => OwnedDone(c)

\* A cancellation of the caller is never lost to the answer, error or timeout
\* that it met.
CancellationIsNeverLost ==
    \A c \in Calls :
        pc[c] = "ended" /\ interrupts[c] > 0 => outcome[c] = "interrupted"

\* The result of the transport is taken only while the token is not
\* cancelled and the deadline not passed, although both can happen after the
\* transport answered and while the waiter is awaited.
TakesCurrent(c) ==
    outcome[c] = None /\ outcome'[c] \in {"response", "provider_error"}
        => ~cancelled[c] /\ ~expired[c] /\ TransportDone(c)

AnswersAreCurrent == [][\A c \in Calls : TakesCurrent(c)]_vars

\* aclose returns only when the HTTP client is closed, and that happens once,
\* whichever of the callers of aclose give up waiting.
CloseMeansClosed ==
    /\ closeTask \notin {"none", "created"} => clientClosed /\ closes = 1
    /\ \A k \in Closers : closer[k] = "returned" => closeTask = "closed"

\* A call that was begun ends: by its deadline at the latest, once its tasks
\* have obeyed.
CallsEnd == \A c \in Calls : pc[c] = "executing" ~> pc[c] = "ended"

=============================================================================
