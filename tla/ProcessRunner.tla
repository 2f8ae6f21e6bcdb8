---------------------------- MODULE ProcessRunner ----------------------------
(***************************************************************************)
(* execute_bash: one call owns a launch, a shell with its descendants, the *)
(* task that reads the merged output, the task that writes the raw output  *)
(* to a file through a bounded queue, two waits (the cancellation token    *)
(* and the timeout), and the cleanup of all of them.  The caller may also  *)
(* cancel the coroutine itself, at each place where it is suspended.       *)
(*                                                                         *)
(* Time is nondeterminism: the timeout, the grace period of a cleanup and  *)
(* the idle window of the output may end at any moment they are running.   *)
(***************************************************************************)
EXTENDS Naturals

CONSTANTS
    Capacity,    \* bound of the raw-output queue, _CAPTURE_QUEUE_CHUNKS
    MaxChunks,   \* bound on the chunks of output a command produces
    MaxCancels   \* bound on the times the caller cancels the coroutine

VARIABLES
    pc,          \* where execute_bash is suspended
    goal,        \* what it will do once the current wait is over
    owed,        \* a CancelledError is due when the shielded wait is over
    outcome,     \* error kind of the answer, or "raised"
    effect,      \* side_effect_state of the answer
    token,       \* the cancellation token is set
    timer,       \* the timeout has elapsed
    grace,       \* the current cleanup deadline has passed
    cancels,     \* cancellations by the caller so far
    launch,      \* the launch task
    shell,       \* the shell process
    desc,        \* its descendant: in its process group, or detached from it
    exitSeen,    \* process.returncode is set
    waited,      \* process.wait() has returned
    tree,        \* the kill of the process group
    direct,      \* the shell itself was killed
    pipeClosed,  \* our end of the output pipe is closed
    reader,      \* the task that reads the output
    readerSeen,  \* its end was observed by the main loop
    writer,      \* the task that writes the raw output
    queue,       \* chunks in the raw-output queue
    chunks,      \* chunks read so far
    stopAsked,   \* _writer_stop_requested
    stopQueued,  \* the stop marker is in the queue or consumed
    file,        \* the raw-output file exists
    keep,        \* _keep_raw_output: the answer names the file
    cleanup      \* the interruption cleanup task

answerVars == <<outcome, effect>>
mainVars == <<pc, goal, owed, answerVars>>
signalVars == <<token, timer, grace>>
processVars == <<launch, shell, desc, exitSeen, waited, tree, direct>>
readerVars == <<reader, readerSeen, chunks>>
writerVars == <<writer, queue, file>>
stopVars == <<stopAsked, stopQueued, keep>>
vars == <<mainVars, signalVars, cancels, processVars, pipeClosed,
          readerVars, writerVars, stopVars, cleanup>>

-----------------------------------------------------------------------------
Calling == pc \notin {"idle", "returned"}
LaunchOver == launch \in {"ready", "failed", "cancelled"}
ReaderActive == reader \in {"reading", "putting"}
WriterOver == writer \in {"done", "failed"}
Queued == queue + (IF stopQueued THEN 1 ELSE 0)
HasRoom == Queued < Capacity
EndOfOutput == pipeClosed \/ (shell = "dead" /\ desc \in {"unborn", "gone"})
TreeKilled == tree = "sent" /\ desc # "group"
StopReader == reader' = IF ReaderActive THEN "cancelled" ELSE reader

Answer(kind, certainty) ==
    pc' = "leaving" /\ outcome' = kind /\ effect' = certainty

(***************************************************************************)
(* The call.  Arguments and token are checked before anything is created.  *)
(***************************************************************************)
Reset ==
    /\ goal' = "none" /\ owed' = FALSE /\ timer' = FALSE /\ grace' = FALSE
    /\ cancels' = 0 /\ shell' = "none" /\ desc' = "unborn"
    /\ exitSeen' = FALSE /\ waited' = FALSE /\ tree' = "none"
    /\ direct' = FALSE /\ pipeClosed' = FALSE /\ reader' = "none"
    /\ readerSeen' = FALSE /\ queue' = 0 /\ chunks' = 0
    /\ stopAsked' = FALSE /\ stopQueued' = FALSE /\ file' = FALSE
    /\ keep' = FALSE /\ cleanup' = "none"

Refuse(kind) ==
    /\ pc' = "returned" /\ outcome' = kind /\ effect' = "not_attempted"
    /\ launch' = "none" /\ writer' = "none"

Begin ==
    /\ ~Calling
    /\ Reset
    /\ UNCHANGED token
    /\ \/ Refuse("invalid")
       \/ token /\ Refuse("cancelled")
       \/ /\ ~token
          /\ pc' = "launching" /\ outcome' = "none" /\ effect' = "none"
          /\ launch' = "pending" /\ writer' = "opening"

\* start_interruption_cleanup: one task owns the process once the four
\* tasks exist, and the launch before that.  It is started once.
StartCleanup ==
    /\ grace' = FALSE
    /\ cleanup' = IF cleanup # "none" THEN cleanup
                  ELSE IF reader = "none" THEN "settling" ELSE "killing"

Interrupt(why) == StartCleanup /\ goal' = why /\ pc' = "cleaning"

-----------------------------------------------------------------------------
(***************************************************************************)
(* The first wait: launch, token and timeout, in the order they are tested *)
(***************************************************************************)
Interrupted ==
    /\ pc \in {"launching", "running"}
    /\ token \/ timer
    /\ Interrupt(IF token THEN "cancelled" ELSE "timeout")
    /\ UNCHANGED <<owed, answerVars, token, timer, cancels, processVars,
                   pipeClosed, readerVars, writerVars, stopVars>>

\* An OSError and an interrupted launch are launch errors; any other
\* exception is handled as one of the whole call, with no process to clean up.
LaunchFailed ==
    /\ pc = "launching" /\ ~token /\ ~timer
    /\ launch = "failed"
    /\ \/ Answer("launch_error", "not_attempted")
       \/ Answer("io_error", "completion_unknown")
    /\ UNCHANGED <<goal, owed, signalVars, cancels, processVars, pipeClosed,
                   readerVars, writerVars, stopVars, cleanup>>

ProcessHandedOver ==
    /\ pc = "launching" /\ ~token /\ ~timer
    /\ launch = "ready"
    /\ pc' = "running" /\ reader' = "reading"
    /\ UNCHANGED <<goal, owed, answerVars, signalVars, cancels, processVars,
                   pipeClosed, readerSeen, chunks, writerVars, stopVars,
                   cleanup>>

(***************************************************************************)
(* The main loop: token and timeout first, then the reader, the writer and *)
(* the exit.                                                               *)
(***************************************************************************)
ReaderUnobserved == reader = "done" /\ ~readerSeen

ReaderObserved ==
    /\ pc = "running" /\ ~token /\ ~timer
    /\ ReaderUnobserved
    /\ readerSeen' = TRUE
    /\ UNCHANGED <<mainVars, signalVars, cancels, processVars, pipeClosed,
                   reader, chunks, writerVars, stopVars, cleanup>>

\* Mutant: a process that was started is taken for one that has exited.
HandleFailureHasty ==
    /\ pc' = "afterExit" /\ pipeClosed' = TRUE /\ StopReader
    /\ grace' = FALSE /\ UNCHANGED <<goal, cleanup>>

\* except Exception: what is left to do depends on whether the exit of the
\* process is already established.
HandleFailure ==
    IF exitSeen
    THEN /\ pc' = "afterExit" /\ pipeClosed' = TRUE /\ StopReader
         /\ grace' = FALSE /\ UNCHANGED <<goal, cleanup>>
    ELSE /\ Interrupt("io_error") /\ UNCHANGED <<pipeClosed, reader>>

CaptureFailed ==
    /\ pc = "running" /\ ~token /\ ~timer
    /\ reader = "failed" \/ (WriterOver /\ ~ReaderUnobserved)
    /\ HandleFailure
    /\ UNCHANGED <<owed, answerVars, token, timer, cancels, processVars,
                   readerSeen, chunks, writerVars, stopVars>>

ExitObserved ==
    /\ pc = "running" /\ ~token /\ ~timer
    /\ ~ReaderUnobserved /\ reader # "failed" /\ ~WriterOver
    /\ exitSeen
    /\ pc' = "draining"
    /\ UNCHANGED <<goal, owed, answerVars, signalVars, cancels, processVars,
                   pipeClosed, readerVars, writerVars, stopVars, cleanup>>

\* Mutant: the drain waits for the end of the output, without an idle window.
OutputDrainedToEnd ==
    /\ pc = "draining" /\ ~ReaderActive
    /\ pc' = "settling"
    /\ grace' = FALSE
    /\ UNCHANGED <<goal, owed, answerVars, token, timer, cancels, processVars,
                   pipeClosed, readerVars, writerVars, stopVars, cleanup>>

\* _finish_post_exit_output in the call itself: the output ends or stays
\* quiet for the idle window, then process.wait() is given the grace.
OutputDrained ==
    /\ pc = "draining"
    /\ pc' = "settling"
    /\ grace' = FALSE
    /\ StopReader
    /\ pipeClosed' = (pipeClosed \/ ReaderActive)
    /\ UNCHANGED <<goal, owed, answerVars, token, timer, cancels, processVars,
                   readerSeen, chunks, writerVars, stopVars, cleanup>>

WaitSettled ==
    /\ pc = "settling"
    /\ waited \/ grace
    /\ \/ /\ owed
          /\ owed' = FALSE
          /\ Interrupt("raise")
          /\ pipeClosed' = (pipeClosed \/ ~waited)
          /\ UNCHANGED reader
       \/ /\ ~owed /\ reader = "failed"
          /\ HandleFailure
          /\ UNCHANGED owed
       \/ /\ ~owed /\ reader # "failed"
          /\ pc' = "finishing" /\ goal' = "answer"
          /\ pipeClosed' = (pipeClosed \/ ~waited)
          /\ UNCHANGED <<owed, grace, reader, cleanup>>
    /\ UNCHANGED <<answerVars, token, timer, cancels, processVars,
                   readerSeen, chunks, writerVars, stopVars>>

AfterExitSettled ==
    /\ pc = "afterExit"
    /\ waited \/ grace
    /\ Answer("io_error", "confirmed_complete")
    /\ UNCHANGED <<goal, owed, signalVars, cancels, processVars, pipeClosed,
                   readerVars, writerVars, stopVars, cleanup>>

-----------------------------------------------------------------------------
(***************************************************************************)
(* accumulator.finish and close share _finish_writer: ask the writer to    *)
(* stop once, wait for room when the queue is full, join the writer.       *)
(***************************************************************************)
FinishRaises ==
    CASE goal = "answer" -> /\ HandleFailure
                            /\ UNCHANGED answerVars
      [] goal \in {"cancelled", "timeout"} ->
            /\ Answer(goal, "completion_unknown")
            /\ UNCHANGED <<goal, grace, pipeClosed, reader, cleanup>>
      [] goal = "close" ->
            /\ pc' = "returned"
            /\ UNCHANGED <<goal, answerVars, grace, pipeClosed, reader, cleanup>>

\* except asyncio.CancelledError, or the one close keeps until its end.
FinishCancelled ==
    IF goal = "close"
    THEN /\ pc' = "returned" /\ outcome' = "raised" /\ effect' = "none"
         /\ UNCHANGED <<goal, grace, cleanup>>
    ELSE Interrupt("raise") /\ UNCHANGED answerVars

\* The snapshot is truncated or not; only a truncated one keeps the file.
FinishReturns ==
    /\ UNCHANGED <<goal, grace, pipeClosed, reader, cleanup>>
    /\ CASE goal = "answer" ->
              /\ \E kind \in {"ok", "nonzero"} : Answer(kind, "confirmed_complete")
              /\ keep' \in {FALSE, chunks > 0}
         [] goal \in {"cancelled", "timeout"} ->
              /\ Answer(goal, "completion_unknown")
              /\ keep' \in {FALSE, chunks > 0}
         [] goal = "close" ->
              /\ pc' = "unlinking"
              /\ UNCHANGED <<answerVars, keep>>

WriterJoin(cancelled) ==
    \/ /\ cancelled
       /\ FinishCancelled
       /\ UNCHANGED <<keep, pipeClosed, reader>>
    \/ /\ ~cancelled /\ writer = "failed"
       /\ FinishRaises
       /\ UNCHANGED keep
    \/ ~cancelled /\ writer = "done" /\ FinishReturns

FinishWriter ==
    /\ pc = "finishing"
    /\ stopAsked' = TRUE
    /\ \/ /\ stopAsked /\ WriterOver
          /\ WriterJoin(FALSE)
          /\ UNCHANGED stopQueued
       \/ /\ ~stopAsked /\ WriterOver
          /\ FinishRaises
          /\ UNCHANGED <<stopQueued, keep>>
       \/ /\ ~WriterOver
          /\ pc' = IF stopAsked \/ HasRoom THEN "joining" ELSE "stopping"
          /\ stopQueued' = (stopQueued \/ (~stopAsked /\ HasRoom))
          /\ UNCHANGED <<goal, answerVars, grace, keep, pipeClosed,
                         reader, cleanup>>
    /\ UNCHANGED <<owed, token, timer, cancels, processVars, readerSeen,
                   chunks, writerVars>>

StopPut ==
    /\ pc = "stopping"
    /\ \/ /\ WriterOver
          /\ FinishRaises
          /\ UNCHANGED stopQueued
       \/ /\ ~WriterOver /\ HasRoom
          /\ pc' = "joining" /\ stopQueued' = TRUE
          /\ UNCHANGED <<goal, answerVars, grace, pipeClosed, reader, cleanup>>
    /\ UNCHANGED <<owed, token, timer, cancels, processVars, readerSeen,
                   chunks, writerVars, stopAsked, keep>>

WriterJoined ==
    /\ pc = "joining" /\ WriterOver
    /\ owed' = FALSE
    /\ WriterJoin(owed)
    /\ UNCHANGED <<token, timer, cancels, processVars, readerSeen, chunks,
                   writerVars, stopAsked, stopQueued>>

-----------------------------------------------------------------------------
\* finish_interruption_cleanup: the join of the cleanup task.
CleanupJoined ==
    /\ pc = "cleaning" /\ cleanup = "done"
    /\ owed' = FALSE
    /\ \/ /\ owed \/ goal = "raise"
          /\ Answer("raised", "none")
       \/ /\ ~owed /\ goal = "io_error"
          /\ Answer("io_error", "completion_unknown")
       \/ /\ ~owed /\ goal \in {"cancelled", "timeout"}
          /\ pc' = "finishing"
          /\ UNCHANGED answerVars
    /\ UNCHANGED <<goal, signalVars, cancels, processVars, pipeClosed,
                   readerVars, writerVars, stopVars, cleanup>>

\* finally: cancel what is left, then close the accumulator.
Leave ==
    /\ pc = "leaving"
    /\ pc' = "finishing" /\ goal' = "close"
    /\ StopReader
    /\ UNCHANGED <<owed, answerVars, signalVars, cancels, processVars,
                   pipeClosed, readerSeen, chunks, writerVars, stopVars,
                   cleanup>>

Unlinked ==
    /\ pc = "unlinking"
    /\ pc' = "returned"
    /\ owed' = FALSE
    /\ file' = (file /\ keep)
    /\ outcome' = IF owed THEN "raised" ELSE outcome
    /\ effect' = IF owed THEN "none" ELSE effect
    /\ UNCHANGED <<goal, signalVars, cancels, processVars, pipeClosed,
                   readerVars, writer, queue, stopVars, cleanup>>

-----------------------------------------------------------------------------
(***************************************************************************)
(* The caller cancels the coroutine.  Where it lands decides what happens: *)
(* a plain wait ends at once, a shielded one only remembers it.            *)
(***************************************************************************)
CancelPlainWait ==
    /\ pc \in {"launching", "running", "settling"}
    /\ Interrupt("raise")
    /\ owed' = FALSE
    /\ UNCHANGED <<answerVars, stopQueued, reader>>

\* The drain's finally still settles process.wait().
CancelDrain ==
    /\ pc = "draining"
    /\ pc' = "settling" /\ owed' = TRUE /\ grace' = FALSE
    /\ UNCHANGED <<goal, answerVars, cleanup, stopQueued, reader>>

\* The put of the stop marker is withdrawn, unless it has just succeeded.
CancelStop ==
    /\ pc = "stopping"
    /\ stopQueued' \in {FALSE, HasRoom}
    /\ FinishCancelled
    /\ UNCHANGED <<owed, reader>>

CancelShielded ==
    /\ pc \in {"joining", "cleaning", "unlinking"}
    /\ owed' = TRUE
    /\ UNCHANGED <<pc, goal, answerVars, grace, cleanup, stopQueued, reader>>

CancelHandler ==
    /\ pc = "afterExit"
    /\ Answer("raised", "none")
    /\ UNCHANGED <<goal, owed, grace, cleanup, stopQueued, reader>>

\* The finally is suspended while one of the two waits is being cancelled;
\* an exception here skips accumulator.close.
CancelFinally ==
    /\ pc = "leaving" /\ ~(token /\ timer)
    /\ pc' = "returned" /\ outcome' = "raised" /\ effect' = "none"
    /\ StopReader
    /\ UNCHANGED <<goal, owed, grace, cleanup, stopQueued>>

CallerCancels ==
    /\ cancels < MaxCancels
    /\ cancels' = cancels + 1
    /\ \/ CancelPlainWait \/ CancelDrain \/ CancelStop
       \/ CancelShielded \/ CancelHandler \/ CancelFinally
    /\ UNCHANGED <<token, timer, processVars, pipeClosed, readerSeen, chunks,
                   writerVars, stopAsked, keep>>

-----------------------------------------------------------------------------
(***************************************************************************)
(* The interruption cleanup task.                                          *)
(***************************************************************************)
\* Mutant: the process of a late launch is not looked after.
LaunchAbandoned ==
    /\ cleanup = "settling"
    /\ LaunchOver \/ grace
    /\ launch' = IF LaunchOver THEN launch ELSE "cancelled"
    /\ shell' = IF launch = "forked" THEN "dead" ELSE shell
    /\ cleanup' = "done"
    /\ UNCHANGED <<mainVars, signalVars, cancels, desc, exitSeen, waited, tree,
                   direct, pipeClosed, readerVars, writerVars, stopVars>>

LaunchSettled ==
    /\ cleanup = "settling"
    /\ \/ /\ launch = "ready"
          /\ cleanup' = "killing" /\ reader' = "reading"
          /\ UNCHANGED <<launch, shell>>
       \/ /\ launch \in {"failed", "cancelled"}
          /\ cleanup' = "done"
          /\ UNCHANGED <<launch, shell, reader>>
       \/ \* The grace is over: cancelling the launch kills a forked shell.
          /\ grace /\ ~LaunchOver
          /\ launch' = "cancelled"
          /\ shell' = IF launch = "forked" THEN "dead" ELSE shell
          /\ cleanup' = "done"
          /\ UNCHANGED reader
    /\ UNCHANGED <<mainVars, signalVars, cancels, desc, exitSeen, waited, tree,
                   direct, pipeClosed, readerSeen, chunks, writerVars, stopVars>>

KillTree ==
    /\ cleanup = "killing"
    /\ tree' \in {"sent", "failed"}
    /\ cleanup' = "reaping"
    /\ UNCHANGED <<mainVars, signalVars, cancels, launch, shell, desc, exitSeen,
                   waited, direct, pipeClosed, readerVars, writerVars, stopVars>>

\* The group is gone, or will not be waited for, and the shell has exited.
ClosePipe ==
    /\ cleanup = "reaping" /\ exitSeen /\ ~pipeClosed
    /\ tree = "failed" \/ TreeKilled \/ grace
    /\ pipeClosed' = TRUE
    /\ UNCHANGED <<mainVars, signalVars, cancels, processVars, readerVars,
                   writerVars, stopVars, cleanup>>

TreeReaped ==
    /\ cleanup = "reaping" /\ exitSeen /\ pipeClosed
    /\ TreeKilled /\ waited
    /\ cleanup' = "draining"
    /\ UNCHANGED <<mainVars, signalVars, cancels, processVars, pipeClosed,
                   readerVars, writerVars, stopVars>>

\* _terminate_direct_child: the tree kill is not confirmed, or the shell
\* did not exit or was not reaped within the grace.
KillDirectChild ==
    /\ cleanup = "reaping"
    /\ IF exitSeen
       THEN pipeClosed /\ (grace \/ (waited /\ tree = "failed"))
       ELSE grace
    /\ direct' = (direct \/ ~exitSeen)
    /\ pipeClosed' = TRUE
    /\ cleanup' = "direct"
    /\ UNCHANGED <<mainVars, signalVars, cancels, launch, shell, desc, exitSeen,
                   waited, tree, readerVars, writerVars, stopVars>>

DirectChildSettled ==
    /\ cleanup = "direct"
    /\ \/ waited /\ cleanup' = "draining" /\ UNCHANGED reader
       \/ ~waited /\ grace /\ cleanup' = "done" /\ StopReader
    /\ UNCHANGED <<mainVars, signalVars, cancels, processVars, pipeClosed,
                   readerSeen, chunks, writerVars, stopVars>>

CleanupDrained ==
    /\ cleanup = "draining"
    /\ StopReader
    /\ cleanup' = "done"
    /\ UNCHANGED <<mainVars, signalVars, cancels, processVars, pipeClosed,
                   readerSeen, chunks, writerVars, stopVars>>

-----------------------------------------------------------------------------
(***************************************************************************)
(* The reader and the writer of the output.                                *)
(***************************************************************************)
\* append: a chunk goes into the queue, or waits for room in it.
ReadChunk ==
    /\ reader = "reading" /\ chunks < MaxChunks
    /\ chunks' = chunks + 1
    /\ reader' = IF WriterOver THEN "failed"
                 ELSE IF HasRoom THEN "reading" ELSE "putting"
    /\ queue' = IF ~WriterOver /\ HasRoom THEN queue + 1 ELSE queue
    /\ UNCHANGED <<mainVars, signalVars, cancels, processVars, pipeClosed,
                   readerSeen, writer, file, stopVars, cleanup>>

PutChunk ==
    /\ reader = "putting"
    /\ \/ WriterOver /\ reader' = "failed" /\ UNCHANGED queue
       \/ ~WriterOver /\ HasRoom /\ reader' = "reading" /\ queue' = queue + 1
    /\ UNCHANGED <<mainVars, signalVars, cancels, processVars, pipeClosed,
                   readerSeen, chunks, writer, file, stopVars, cleanup>>

ReadEnd ==
    /\ reader = "reading"
    /\ \/ EndOfOutput /\ reader' = "done"
       \/ reader' = "failed"
    /\ UNCHANGED <<mainVars, signalVars, cancels, processVars, pipeClosed,
                   readerSeen, chunks, writerVars, stopVars, cleanup>>

\* A writer that fails removes its own file.
WriterFails ==
    /\ writer' = "failed" /\ file' = FALSE /\ UNCHANGED queue

OpenRawOutput ==
    /\ writer = "opening"
    /\ \/ writer' = "writing" /\ file' = TRUE /\ UNCHANGED queue
       \/ WriterFails
    /\ UNCHANGED <<mainVars, signalVars, cancels, processVars, pipeClosed,
                   readerVars, stopVars, cleanup>>

WriteChunk ==
    /\ writer = "writing" /\ queue > 0
    /\ \/ queue' = queue - 1 /\ UNCHANGED <<writer, file>>
       \/ WriterFails
    /\ UNCHANGED <<mainVars, signalVars, cancels, processVars, pipeClosed,
                   readerVars, stopVars, cleanup>>

WriterStops ==
    /\ writer = "writing" /\ queue = 0 /\ stopQueued
    /\ \/ writer' = "done" /\ UNCHANGED <<queue, file>>
       \/ WriterFails
    /\ UNCHANGED <<mainVars, signalVars, cancels, processVars, pipeClosed,
                   readerVars, stopVars, cleanup>>

-----------------------------------------------------------------------------
(***************************************************************************)
(* The operating system and the clock, while the call is open.             *)
(***************************************************************************)
LaunchSteps ==
    /\ Calling
    /\ \/ launch = "pending" /\ launch' = "failed" /\ UNCHANGED shell
       \/ launch = "pending" /\ launch' = "forked" /\ shell' = "alive"
       \/ launch = "forked" /\ launch' = "ready" /\ UNCHANGED shell
    /\ UNCHANGED <<mainVars, signalVars, cancels, desc, exitSeen, waited, tree,
                   direct, pipeClosed, readerVars, writerVars, stopVars, cleanup>>

ProcessSteps ==
    /\ Calling
    /\ \/ /\ shell = "alive" /\ desc = "unborn"
          /\ desc' \in {"group", "detached"}
          /\ UNCHANGED <<shell, exitSeen, waited>>
       \/ /\ shell = "alive"
          /\ shell' = "dead"
          /\ UNCHANGED <<desc, exitSeen, waited>>
       \/ /\ desc \in {"group", "detached"}
          /\ desc' = "gone"
          /\ UNCHANGED <<shell, exitSeen, waited>>
       \/ /\ shell = "dead" /\ launch = "ready" /\ ~exitSeen
          /\ exitSeen' = TRUE
          /\ UNCHANGED <<shell, desc, waited>>
       \/ /\ exitSeen /\ ~waited
          /\ waited' = TRUE
          /\ UNCHANGED <<shell, desc, exitSeen>>
    /\ UNCHANGED <<mainVars, signalVars, cancels, launch, tree, direct,
                   pipeClosed, readerVars, writerVars, stopVars, cleanup>>

\* The token and the timeout are read by the first wait and by the main
\* loop, the token before the next call too; only there they are let fire.
\* The token is the session's: ToolCalls says when it is set.
Read == pc \in {"launching", "running"}

TimerFires ==
    /\ Read /\ ~timer /\ timer' = TRUE
    /\ UNCHANGED <<mainVars, token, grace, cancels, processVars, pipeClosed,
                   readerVars, writerVars, stopVars, cleanup>>

GraceEnds ==
    /\ ~grace
    /\ pc \in {"settling", "afterExit"} \/ cleanup \notin {"none", "done"}
    /\ grace' = TRUE
    /\ UNCHANGED <<mainVars, token, timer, cancels, processVars, pipeClosed,
                   readerVars, writerVars, stopVars, cleanup>>

-----------------------------------------------------------------------------
Init ==
    /\ pc = "idle" /\ goal = "none" /\ owed = FALSE
    /\ outcome = "none" /\ effect = "none"
    /\ token = FALSE /\ timer = FALSE /\ grace = FALSE /\ cancels = 0
    /\ launch = "none" /\ shell = "none" /\ desc = "unborn"
    /\ exitSeen = FALSE /\ waited = FALSE /\ tree = "none" /\ direct = FALSE
    /\ pipeClosed = FALSE /\ reader = "none" /\ readerSeen = FALSE
    /\ writer = "none" /\ queue = 0 /\ chunks = 0
    /\ stopAsked = FALSE /\ stopQueued = FALSE /\ file = FALSE
    /\ keep = FALSE /\ cleanup = "none"

\* What the event loop does for the call itself.
MainStep ==
    \/ Interrupted \/ LaunchFailed \/ ProcessHandedOver \/ ReaderObserved
    \/ CaptureFailed \/ ExitObserved \/ OutputDrained \/ WaitSettled
    \/ AfterExitSettled \/ FinishWriter \/ StopPut \/ WriterJoined
    \/ CleanupJoined \/ Leave \/ Unlinked

CleanupStep ==
    \/ LaunchSettled \/ KillTree \/ ClosePipe \/ TreeReaped
    \/ KillDirectChild \/ DirectChildSettled \/ CleanupDrained

WriterStep == Calling /\ (OpenRawOutput \/ WriteChunk \/ WriterStops)
ReaderStep == ReadChunk \/ PutChunk \/ ReadEnd

-----------------------------------------------------------------------------
TypeOK ==
    /\ pc \in {"idle", "launching", "running", "draining", "settling",
               "afterExit", "cleaning", "finishing", "stopping", "joining",
               "leaving", "unlinking", "returned"}
    /\ goal \in {"none", "answer", "cancelled", "timeout", "io_error", "raise",
                 "close"}
    /\ outcome \in {"none", "invalid", "cancelled", "timeout", "launch_error",
                    "io_error", "ok", "nonzero", "raised"}
    /\ effect \in {"none", "not_attempted", "confirmed_complete",
                   "completion_unknown"}
    /\ launch \in {"none", "pending", "forked", "ready", "failed", "cancelled"}
    /\ shell \in {"none", "alive", "dead"}
    /\ desc \in {"unborn", "group", "detached", "gone"}
    /\ tree \in {"none", "sent", "failed"}
    /\ reader \in {"none", "reading", "putting", "done", "failed", "cancelled"}
    /\ writer \in {"none", "opening", "writing", "done", "failed"}
    /\ cleanup \in {"none", "settling", "killing", "reaping", "direct",
                    "draining", "done"}
    /\ {owed, token, timer, grace, exitSeen, waited, direct, pipeClosed,
        readerSeen, stopAsked, stopQueued, file, keep} \subseteq BOOLEAN
    /\ queue \in 0..Capacity /\ chunks \in 0..MaxChunks /\ cancels \in 0..MaxCancels

\* close waits for a writer that nobody told to stop: the put of the stop
\* marker was withdrawn by a cancellation while the queue was full, and
\* _writer_stop_requested keeps it from being put again.
MarkerLost == pc = "joining" /\ goal = "close" /\ stopAsked /\ ~stopQueued
=============================================================================
