# Verification of Millforge

TLA+ models of Millforge, the harness runtime of this repository, with the TLC
runs that check them on small instances and the TLAPS proofs that hold for every
value of their constants. Paths below are relative to `src/millforge/` of the
repository unless they say otherwise; `PROJECT.json` maps every definition to the
lines it translates (31 % of the implementation's lines), lists the hazards of the
code with the properties that are about them, and names the mutant - a plausible
mistake in the code - that each property catches.

Contents: 1. the system · 2. the modules and how they correspond to the code ·
3. the runs · 4. fairness · 5. the proofs · 6. where code and documentation
differ, and what else was seen · 7. what is not modelled · 8. plan.

## 1. The system

Millforge runs one *compiled harness plan* to one *result*. A compiler turns a
source document into an immutable plan on disk. A runtime checks a plan and its
bindings, asks a backend for one guarded session, and commits the outcome as
artifact files. The session is a loop in which a language model asks for tool
calls and guardrails decide which of them run. An evaluation runs whole workflows
of such sessions, judges them and keeps the records of a campaign. Everything a
reader of the files learns later depends on the order of a few writes and checks,
made while another thread may cancel, a deadline may pass, a write may fail, another
process may change a file or this one may die.

    connector / custom tool documents          evaluation campaign
                  | admission                           |
                  v                                     v
    compiler -> plan file                       base invocation
                  |        prompt, context files -----> |
                  v                                     v
              harness runtime ------ artifact writer -> run_directory/millforge
                  |
                  v
          guarded session backend --- context manager
                  |            '------ model client -> HTTP endpoint
                  v
          tool execution boundary --- built-in tools --- workspace
                               |----- compat tools  --- file mutation lock
                               |                '------ process runner -> shell
                               '----- connector broker -> provider

### Inventory

| Component | State it keeps | Operations | What is hard | What makes it correct | Module |
|---|---|---|---|---|---|
| **Guarded session backend** `_forge/adapter.py`, `_forge/core/`, `_forge/guardrails/` | iteration and attempt counters, four failure counters, the runner's step history, the bridge's owned successes and artifacts, the terminal intent | `run_session`, `WorkflowRunner.run`, `run_inference`, `ForgeToolBridge.invoke` | two histories of the same calls; checks made once for a batch; a token another thread sets; four budgets that reset each other | no tool before its prerequisites, a terminal result only when earned, bounded model calls, cancellation wins, it ends | `GuardedSession` |
| **Context manager** `_forge/context/` | the message history, changed in place | fold, compact in three phases, group replayed iterations | an iteration is several messages; failed attempts share its index; the contract of the next request | compaction never costs the session its request; the recent iterations stay | `Conversation` |
| **Harness runtime** `runtime.py` | `_state` (nine states), the two deadlines, the report being written | `execute` and its finalizations | a failure while a failure is written; cancellation and deadline between two writes; the task itself cancelled | a completed result is exactly a committed one, the files never contradict the result, no illegal transition | `HarnessRuntime` |
| **Artifact writer** `artifacts.py` | files of a run directory, the tracked artifacts | prepare, write each artifact, manifest, readers | the writer is built on first use and may never be; a directory used twice | the manifest lists what is there | part of `HarnessRuntime`, `BaseRunner` |
| **Base invocation** `base/`, `_forge/base_runner.py` | composed components, closed flags, one close task | compose, admit, execute, aclose | four modules derive one vocabulary; facade and runtime check it twice; half a composition is left behind; a byte limit with multi-byte texts | both checks agree; what is opened is closed; the prompt keeps its limit and says when it is cut | `BaseRunner`, `PromptAssembly` |
| **Model client** `model_backend.py` | the transport task and the cancellation task of a call | `complete`, `aclose` | cancellation, deadline, token and answer at the same await, and in the clean-ups | no orphaned task, no swallowed cancellation, no stale answer | `ModelClient` |
| **Tool execution boundary** `tools/execution.py`, `results.py` | certainty of the effect, the traces of bridge and executor | preflight, invoke, normalise | a timeout, an exception or a lie after the effect began | a trace for each call; certainty never claims too much; no unsafe retry | `ToolExecution` |
| **Built-in and compat tools** `tools/builtin_runtime.py`, `tools/path_policy.py`, `tools/pi_compat/` | none beyond a call | policy, read, write, patch, diff, edit, grep, find, ls, shell | other processes between check and use; limits of lines, bytes and matches | effects only where licensed, no lost change, exact windows and edits, honest notices | `BuiltinTools`, `FileTools`, `TextTools`, `SearchTools` |
| **File mutation lock** `tools/pi_compat/mutations.py` | registry of reference-counted locks | acquire and release around write and edit | the last user leaves while a newcomer arrives; symbolic links | one entry per key while in use, none afterwards, no lost update | `FileMutationLock` |
| **Process runner** `tools/pi_compat/process.py` | shell, descendants, reader, bounded queue, writer, two waits | `execute_bash` | exit, timeout, token and cancellation race with a reader and a writer | honest about the effect, no shell forgotten, it ends | `ProcessRunner` |
| **Connectors** `connectors/` | admission records, grants | admit, register, broker a call | provider, grant or registry change after the review | only an admitted, undrifted, approved tool is entered | `ConnectorAdmission`, `ToolAdmission` |
| **Custom tools** `custom_tools/` | none | compile a manifest | many independent faults | accepted exactly when sound | `CustomTools` |
| **Compiler front end** `compiler/{requests,semantic,lowering,...}.py`, `compiled_plan.py` | the source file while it is read | admit, parse, check, lower | other writers of the file; faults that hide each other | what is compiled was on disk; a document is refused exactly when unsound | `HarnessCompiler` |
| **Compiler graph analysis** `compiler/graph.py` | none | reachability, cycles, terminal requirements | corner cases; suppression of follow-up reports | agrees with definitions by paths; sessions can end | `HarnessGraph` |
| **Compiler publication** `compiler/output.py`, `service.py` | a directory of plans and reports | `persist_compile_outputs` | several compilers, a failure of every system call, kills, power loss | a plan never changes; a claim of certainty is true | `PlanPublication` |
| **Evaluation** `eval_*.py` | bundle and attempts of a trial; manifest, plan, log, index of a campaign | resolve, validate, score; append, resume, run, report | artifacts of several attempts; two judges; processes that die or interleave | no trial stranded, closures earned, judges agree, store whole, reports add up | `EvalWorkflow`, `CampaignStore`, `EvalReports` |
| **Contracts** `contracts.py`, `protocols.py`, `exceptions.py` | immutable records | validation | – | fields are consistent | – |
| **Test doubles** `testing/` | – | fakes of the protocols | – | stay within the protocols | – |

The interactions that matter: the runtime awaits the backend and every writer
call; the backend awaits the model client and the tool bridge; a *cancellation
token* (a thread-safe flag) and a *deadline* (a number compared with a clock) are
shared by all of them; the runtime's task may itself be cancelled at any await;
tool threads share the lock registry; compilers share a directory, campaign
processes a store; files, providers and grants are changed by others.

## 2. The modules

| Module | Models | Extends / uses |
|---|---|---|
| `SessionContract` | what a session promises its caller | – |
| `GuardedSession` | the session backend, in full control | `SessionContract` by `INSTANCE ... WITH` |
| `Conversation` | the message history and its compaction | – |
| `RuntimeStates` | the nine-state machine of the `RuntimeState` docstring | – |
| `HarnessRuntime` | `DefaultHarnessRuntime.execute` and its artifact writes | `RuntimeStates` by `INSTANCE` |
| `TextSizes` | the byte size of a text (pure operators) | – |
| `PromptAssembly` | context files and system prompt | `TextSizes` |
| `BaseRunner` | composition, facade, live runner and one execution | `HarnessRuntime`, `PromptAssembly` |
| `ModelClient` | `DefaultModelClient.complete`, close of the live runner | – |
| `ToolExecution` | bridge, executor, broker around *any* implementation | – |
| `ProcessRunner` | `execute_bash` | – |
| `ToolCalls` | the boundary with `execute_bash` as one implementation | `ToolExecution`; `ProcessRunner` and `ToolExecution` by `INSTANCE` |
| `TextTools`, `SearchTools` | windows, edits; grep, find, ls (pure operators) | one another, `TextSizes` |
| `BuiltinTools` | the built-in tools in a workspace others change | – |
| `FileTools` | a model that uses the compat file tools | `SearchTools` |
| `FileMutationLock` | `file_mutation_lock` with write and edit under it | – |
| `ConnectorAdmission`, `CustomTools` | the two admissions (pure operators) | one another |
| `ToolAdmission` | admission, registry, plan, executor, calls | `CustomTools` |
| `HarnessGraph` | `compile_semantic` (pure operators) | – |
| `SourceAdmission` | how a compiler reads its source while others write it | – |
| `HarnessCompiler` | one compiler call and the sessions on its plan | `SourceAdmission`, `HarnessGraph` |
| `PlanPublication` | `persist_compile_outputs`, kills and power losses | – |
| `EvalWorkflow` | one trial, its closure and its score | – |
| `EvalReports` | reports and budgets (pure operators) | – |
| `CampaignStore` | append, resume and run over one store | `EvalReports` |
| `MC...` | the instance that TLC checks (`MCFileTools` puts `FileTools` and `BuiltinTools` side by side) | the module it names |
| `...Proofs` | the theorems and their proofs: `SessionProofs` about `GuardedSession` and `ToolAdmission`, `ModelProofs` about `ModelClient` and `Conversation`, `HarnessRuntimeProofs` about `HarnessRuntime` and `BaseRunner`, `ToolExecutionProofs` about `ToolExecution`, `ToolCalls` with `ProcessRunner`, `BuiltinTools` and `FileTools`, `CompilerProofs` about `PlanPublication` and `SourceAdmission`, `EvaluationProofs` about `EvalWorkflow`, `CampaignStore` and `EvalReports`, `FileMutationLockProofs` | the modules they are about, `TLAPS` |
| `NaturalLemmas` | facts about natural numbers and sizes of texts that several proofs need | `TextSizes`, the theorem modules of the library |

One convention everywhere: **an action is what runs between two points where the
code can be interrupted** (an await, a lock acquisition, a system call, a read of
a token another thread sets), with everything the handler does in it. Digests are
modelled by the values they are taken of: two digests are equal when the values are.

### GuardedSession

`pc` is where `run_session` stands: `setup` and `load` (request and plan checks,
setting up bridge, tracker and enforcer), `loop` (top of `WorkflowRunner.run`),
`infer` (awaiting the model inside `run_inference`), `check` (the reply's calls
against premature terminals and prerequisites), `dispatch` (before each call of
the batch), `exec` (awaiting the executor), `raised` (an exception or the return
of the runner on its way through the `except` clauses of `run_session`), `done`.

* `iteration`, `attempts`, `retries`, `toolErrors`, `premature`,
  `prereqViolations` are the counters of the runner, of `run_inference`, of
  `ErrorTracker` and of `StepEnforcer`.
* `executed` is `StepTracker.executed_tools`; `owned`, `artifacts` and `intent` are
  the bridge's. A call's arguments are one abstract value, which is what
  argument-matched prerequisites compare.
* `ReplyCalls`, `ReplyUnusable`, `ReplyBadArgs`, `ModelRaises` are the model's
  answers; `DenyCall`, `StopCall`, `RejectCandidate`, `ToolSucceeds`,
  `ToolFailsSoftly`, `ToolRaises`, `ToolFailsHard` are the outcomes `invoke` tells
  apart; `EndBatch` is the bookkeeping after a batch; `Finish` is the mapping of an
  exception or a return to a session status, the cancellation check included.
* `CancelToken`, `WatcherRelays`, `DeadlinePasses`, `TaskCancelled` are the
  environment. The token is set by the caller; the watcher task turns it into the
  event the runner polls one task switch later, so the two are separate variables.

### Conversation

`full` is the history as it would be without compaction, `messages` the list the
code keeps; every answer of the model appends to both what the runner, the guardrails
and the bridge append, and each request is sent from `messages` after `Compacted`
(the three phases of `TieredCompact`, the boundary `EligibleEnd`, the grouping of
replayed iterations, truncation). `Accepted` is the request contract
(`contracts.py`) together with the replay check of the profile. A text is its size
class: short, already cut, long. When a session gives up is `GuardedSession`'s business.

### HarnessRuntime and BaseRunner

In `HarnessRuntime`, `pc` follows `execute`: preflight phases (`checkpoint` then
`perform`, one pair for each entry of `Phases`), session construction, entering the
backend, its answer, the terminal intent, the check before the commit, the write of
`terminal_result.json`, the checks and writes after it, and `finalize` for every
path that writes the evidence of a failure. `state` is `self._state`; `pending`
is the report the artifacts being written will carry; `todo` the artifacts still
to be written, in order; `disk`, `summary` and `manifest` what a reader of the run
directory finds. The shipped writer never suspends, but writer, loader and backend are
protocols (`protocols.py` 109-264) that `execute` awaits, so a cancellation of the task
may arrive at each of those awaits, also at the write that commits, after which the
file may or may not be there. The session's deadline is computed again when the
session is constructed; both deadlines are kept. A writer may also report a cancellation
or a timeout of its own (`LaterWriteInterrupted`); the shipped one does not.

`BaseRunner` is the same execution as the facade starts it. A *host* is a model
profile, a terminal vocabulary, files and options. `Compose` is the factory
(canonical vocabulary, capabilities, catalog, prompt); `CreateRunner` the facade's
check of the components it is given, one of which may have been replaced;
`CreateLive`, `PartialCloses`, `CreatorInterrupted` the live runner with the shielded
close of what it had opened; `Execute` the check of a request, one field of which may
differ. The execution runs with the pinned plan loader and the lazy writer, which keeps
the error of its factory for ever. `PromptAssembly` has texts as sequences of character
widths, so that a byte limit can fall inside a character.

### ModelClient

`transport` and `waiter` are the two tasks of a call with their life cycle, the
two states of a task cancelled before it ran included (`created` then `doomed`).
`pc` names the await a call is suspended in: the first wait, the wait after an
early end of the waiter, the hand-off of the answer, the wait for the cancelled
tasks, the final clean-up. `Interrupt` is a cancellation of the caller, delivered
when the call resumes; a `gather` that is cancelled passes it on and still waits
for its tasks. `Aclose`, `CloseStarts`, `CloseEnds`, `CloseInterrupted`,
`CloseReturns` are the shielded close task shared by all callers of `aclose`, with
the window in which the runner is closed and the client is not yet.

### ToolExecution, ProcessRunner, ToolCalls

`ToolExecution` follows one call at a time through `ForgeToolBridge.invoke`,
`CompiledToolBindingExecutor.execute` and the connector broker. `work[i]` is the truth
about call *i*'s effect (none, begun, complete), which nobody in the code can read; the
two traces are what the code says. An implementation may begin and complete its effect at
any time and answer honestly, for another call, with no result at all, raise or be
cancelled. A record that the trace contract refuses raises outside the `try` of
`_record_trace`, and the bridge reports a defect (`Recordable`, `ResultRaises`).

`ProcessRunner` has one variable for each thing that runs: the main coroutine (`pc`,
`goal`), the launch thread, shell and descendant, the reader, the bounded queue, the
writer, the timer, and the cancellations of the caller. `ToolCalls` puts it behind the
boundary: `BashStarts` and `BashReturns` are `bash_implementation`, and the refinement
`ImplementsBoundary` shows that what the runner reports fits the effect the command had.

### The file tools

`TextTools` has what `read` shows of a text, the head and tail windows of every other
output and the replacements of `edit`; `SearchTools` the walk with ignore files, the
matches and the notices. They are pure and used by `FileTools`, whose actions are a
model that reads page after page by the notices, edits, writes, searches. A loop that stops
at the first line that does not fit is the least line number where it stops (`KeepFirst`,
`LastBytes`); the walk and the count of occurrences are recursive functions, the walk over
the set `Directories` of the directories that can occur in a tree. `BuiltinTools`
has the policy before entry (`*Gate`), the implementation that looks again, the
temporary file and the replace, and `OthersChange` between any two of them. Links are
static; a digest is the content it is of. A patch has the *names* the runtime parses out
of its `---`, `+++` and rename lines, which are checked and compared, and the places it
*touches*, which are those git finds when it reads the patch itself; the two are
independent.

### FileMutationLock

`Call` resolves a key (`_mutation_key`), `Register` looks it up and counts the
caller in, `Acquire` takes the entry's lock, `ReadFile`/`OpenFile`/`FillFile` are
the operation under it, `Fail` is an error at any of those steps, `Release` and
`Leave` the two `finally` clauses. `Real` and `Lexical` are the two resolutions of
a path, which differ through a symbolic link; `KeyOf` picks by existence, as the
code does. `content` counts the changes of a file, so a lost update is a count
that moved between the read and the replacement.

### HarnessCompiler and HarnessGraph

`SourceAdmission` reads the source file as `compiler/requests.py` does (stat, open,
read, second stat) while others replace, link, rewrite in halves or remove it.
`HarnessCompiler` takes those very steps, then the
phases of the service: parse, semantic checks, lowering, the plan's own invariants; then
what `ForgeWorkflowFactory.build` makes of the plan and the order in which the bridge
lets its nodes succeed. `HarnessGraph` has every diagnostic of `compile_semantic` as an
operator on a parsed source, the Tarjan search with its own bookkeeping included, and
beside it, in `HarnessCompiler`, the definitions by paths it is compared with.

### ConnectorAdmission, CustomTools, ToolAdmission

The two admissions are operators from three documents to accepted records or a refusal.
`ToolAdmission` strings the steps together: `Judge` (both admissions), `Register`,
`CompilePlan`, `BuildExecutor`, `StartSession`, the calls of a session, `Drift` of the
provider, `Restart` (which keeps documents, plan and records and loses registry,
executor and session) and the clock that lets grants expire.

### PlanPublication

A directory has two halves: `current`, what a process sees, and `durable`, what a
power loss leaves at least. A sync copies the one to the other. `Start` begins
`persist_compile_outputs`; the prepared report, the plan and the committed report
are each written through a temporary file (`WriteReportTemp`, `ReplaceReport`,
`SyncReport`; `WritePlanTemp`, `LinkPlan`, `UnlinkPlanTemp`, `Confirm`,
`SyncPlan`), with a failure possible at each. Reports are *replaced*, plans are
*linked*, so a plan never overwrites. `Kill` ends a call anywhere; `PowerLoss`
ends them all and leaves, for each name, its current or its durable entry.

### EvalWorkflow, CampaignStore, EvalReports

`EvalWorkflow` is one trial: stages write artifacts, fail, are retried and end with a
terminal result; `Resolve` is `resolve_eval_transition`; `Closure` and `ScorerResult`
are the two judges, evaluated in every state a trial ends in, `Closure` for everything
the arbiter may cite (`Citable`) and for a host whose inputs and snapshots fit or do not,
which only the boundary looks at. `CampaignStore` has
processes that append, resume or run a campaign, each file write split where a crash
leaves it torn. `EvalReports` builds a report of what two of them have read.

## 3. The runs

Each run finishes its whole state space. The sizes are those of a run on two
to four workers.

| Run | Instance | States | What it shows |
|---|---|---|---|
| `guarded_session` | four nodes, batches of at most two, three iterations, other budgets 1 | 671 k | the guarded loop is ordered, cancellable, terminates and implements `SessionContract` |
| `conversation` | three answers of up to two calls, twelve policies | 447 k | compaction costs no request and no recent message |
| `base_runner` | some thousand hosts; clock to 4, timeout 1, deadline 3 | 184 k | from composition to answer: both checks agree, the prompt is honest, the execution is, and it ends |
| `model_client` | one call with or without a token, two cancellations of its caller, two closers | 51 k | a call always ends and leaves no task behind |
| `tool_calls` | one call to one of five nodes, queue of 1, two chunks, one cancellation | 521 k | traces fit effects, the runner is an honest implementation, no shell is forgotten, calls end |
| `file_tools` | families of tasks for the compat tools; built-in calls with two changes by others | 168 k | what a tool shows, changes and says agree; effects only where licensed |
| `file_mutation_lock` | three threads, four paths, three entries, three calls | 523 k | no update is lost, every call gets its turn |
| `tool_admission` | 2,400 admissions judged; two deployed scenarios | 55 k | admission is exact, only licensed tools are entered |
| `harness_compiler` | some 13,000 documents, three writes by others | 38 k | what is compiled was on disk, verdicts are exact, sessions on a plan can end |
| `plan_publication` | two calls for one request, two runs each, one power loss | 367 k | what a result claims is what the directory holds, also after a crash |
| `eval_workflow` | two edits of the workspace, two stages retried | 5.6 M | no trial stranded, closures earned, the judges agree and answer |
| `campaign_store` | two processes, two plan sets, two failures | 709 k | the store is honest, a lone run succeeds, reports add up |

The properties, by run; the comment before each in its module says what it is about.

* **guarded_session**. `ExecutionIsOrdered`: prerequisites and required steps hold when
  a tool *runs*, though they were checked for the whole batch before its first call.
  `CancellationWins`. `ImplementsContract`: refinement of `SessionContract`, owned
  successes read as *succeeded*, the intent as *committed* once the result reports it;
  so a terminal result is earned. `SessionEnds`: liveness. Bounds: the plan has the
  smallest set of nodes with every relation the guardrails look at - a required node,
  an argument-matched prerequisite, a plain one, a terminal with an artifact and one with
  a blocked disposition; two argument values make a match and a mismatch; batches of two
  let one call change what the other was checked against; three iterations leave room
  for an error, its correction and an answer. `Denied` is empty: the same branch is
  reached through the bridge's prerequisite check.
* **conversation**. `CompactionKeepsRequestsValid`: a request that is refused would have
  been refused with the whole history, too. `RecentStaysWhole`. Bounds: three answers
  make an old, a middle and a recent iteration, which is what the boundary tells apart;
  the twelve policies have `keep_recent` 0 to 2, thresholds that fire at once or one
  after another, and a replay field or none. Nudge types are one; names are left out.
* **base_runner**. `FacadeIsExact`: what the facade admits the runtime never refuses
  (but for input artifacts, which only the runtime looks at), and what the factory
  composed the facade never refuses. `PromptIsHonest`: within its limit, no file twice,
  and whatever is missing is told. `PartialIsClosed`: what a failed or cancelled
  construction opened is closed. `CompletedIsCommitted`: completed, committed and
  *terminal_result.json is on disk with the backend's own verdict* are one and the same.
  `SummaryTellsOutcome`: the files left behind do not contradict the result, though a
  failure half way re-classifies it. `InvocationEnds`: liveness. Bounds: hosts differ
  from a standard one in the prompt, the discovery of files, the vocabulary or one
  thing that is wrong, and each has a goal beyond which it does not go; byte limits of 14
  and 7 stand for 65,536 and 49,152, so three files of a few characters reach every
  branch; the clock is the runtime's, with room for each deadline to pass first.
* **model_client**. `NothingOrphaned`, `CallsEnd`. Bounds: calls share nothing but the
  closed flags, so one call stands for all; two closers let one give up while the other
  waits; two cancellations let each of the two clean-ups be hit.
* **tool_calls**. `TraceAccountsForEffects`: the bridge's record neither denies an effect
  that began nor claims one that did not complete. `ImplementsBoundary`: `execute_bash`
  behind the boundary is one of the implementations the boundary assumes.
  `NoShellLeftRunning`. `CallEnds`: a call ends unless a cancellation withdrew the stop
  marker from a full queue (see section 6). Bounds: one call, because calls of a session
  run one after another and the theorem holds for any number; a queue of one is full
  after one chunk, and a second chunk waits.
* **file_tools**. `ReadingIsExact`: paging by the notices shows each line once and in
  order, windows are maximal and of whole lines. `EditIsExact`: several edits give what
  one simultaneous replacement would. `SearchIsHonest`: an answer not marked truncated is
  complete. `EffectsAreLicensed`: an effect of a built-in tool is one the policy
  licensed, at the place it licensed; of a patch, what git finds in it, after every name
  the runtime found in it was writable. `NoLostChange`: a write that names a digest
  replaces that content, unless another process changed the file after the comparison.
  Bounds: windows of two lines and four bytes, page limits positive, texts and trees of
  families that reach each notice; a task ends after its answer.
* **file_mutation_lock**. `ReadStaysCurrent`: when every file has one key at all times
  (`Coherent`), an edit replaces what it read. `CallsSettle`: liveness. Bounds: three
  threads are a holder, a waiter and a newcomer, which the hand-over of a dropped entry
  needs; three calls let a thread come back while another still waits. The paths are two
  spellings of one file, another file, and a symbolic link to the first.
* **tool_admission**. `AdmissionExact`: the diagnostics of `admit_connector_tools` and
  `compile_custom_tools` accept exactly the sound documents, and accepted records are
  what the documents say. `EntryIsLicensed`: whatever was re-admitted, restarted or
  changed since, a tool is entered only while provider and tool are those of an
  admission, and a side effect only under a grant in force. Bounds: families of documents
  with every single fault and chosen pairs; the scenarios that are deployed are one of
  connector tools and one mixed with custom tools. Provider drift happens during
  sessions, plan and executor are built once per start: at other times nothing reads what
  they change.
* **harness_compiler**. `AdmittedIsSnapshot`: admitted bytes are a content the file had.
  `CyclesExact`: the search reports exactly the cycles. `AcceptedIffSound`.
  `SessionsCanEnd`: in every session each legal terminal result stays reachable, and no
  terminal runs without its artifacts. Bounds: all graphs of three and four nodes,
  and families with every role, tool, artifact and argument; three writes of the file
  make a replacement and both halves of a rewrite. Tools are assumed to return all
  artifacts of their descriptor.
* **plan_publication**. `CertaintyIsHonest`: COMMITTED survives every later crash; ABSENT
  published nothing. `CommittedReportsSettle`: a late prepared report does not outlive
  the committed ones. Bounds: two calls race for one plan and one report; each may run
  twice, which is the retry after a failure, a kill or a crash; one power loss can fall
  anywhere.
* **eval_workflow**. `NeverStranded`, `ClosureIsEarned`, `JudgesAgree`,
  `ScorerAlwaysAnswers`. Bound: the second edit is what makes evidence of the first one
  stale; attempts and retries are the code's own limits, and two of the four stages are
  retried (the theorems have no such bounds). Assumed of the stages, which
  are external: a stage that ends has written the artifacts it reports, the verdict it
  ends with, and the diff and test results as the tools observed them. Of the references
  of an arbiter the one least likely to resolve counts; whether the host's parts (snapshots
  of capabilities and fixture, inputs and context, stage result) fit is one flag.
* **campaign_store**. `StoreIsHonest`: results are whole and no file is ahead of the log.
  `LoneRunSucceeds`: a campaign nobody disturbs succeeds on whatever earlier deaths
  left, or the store is one it must refuse. `ReportsAddUp`: what is said of two runners'
  readings. Bounds: two processes, one plan set that extends the other, a sample
  threshold of 3 for the code's 30. The two processes are symmetric; no liveness is
  claimed, so the symmetry is sound.

Deadlock is checked in every run but `eval_workflow`, `tool_calls`, `tool_admission`,
`file_tools` and `conversation`, where trials, calls, sessions and tasks simply end; the
others have a step that stutters in the states where the code has nothing left to do.

## 4. Fairness

* `GuardedSession`: `WF(SessionStep)` and `WF(WatcherRelays)`. The awaited model and
  tool calls carry the session's deadline, so each returns; the watcher is a ready
  task of the same event loop. Neither the caller's cancellation nor the passing of
  time is assumed.
* `HarnessRuntime` and `BaseRunner`: `WF(ExecuteStep)`; the backend obeys the deadline
  it is given, the writers are file operations. The close of an HTTP client ends.
* `FileMutationLock`: weak fairness of each thread's step. A blocked `Acquire` is not
  enabled while the lock is held; `CallsSettle` needs no strong fairness because the
  number of calls is bounded. No thread is obliged to make a call.
* `ModelClient`: the event loop runs ready tasks, cancelled tasks end, and the
  call's deadline passes. **Not** fair: the start of a call, an uncancelled `send` or
  waiter (the endpoint may never answer), and the closers.
* `ToolCalls`: the event loop runs ready tasks, timers fire, file operations on a thread
  end, an answer is taken. **Nothing** is assumed of the command: it may never exit,
  close its output or stop writing.
* The other specifications claim no liveness and assume no fairness.

## 5. The proofs

Every theorem is checked by TLAPS to the last leaf and holds for all values of the
constants that satisfy the named assumptions of the module (`PlanAssumption`,
`BudgetAssumption`, `ToolAssumption`, ...). Most of them say that the constants have their
types and that `None` is no other value. These say more:

* `TaskAssumption`: a file that is read or cut has a line, an empty one perhaps, as every
  text split at its line feeds has; a page limit is positive.
* `BuiltinAssumption`: a name below a directory of the workspace, which is no link itself,
  is in the workspace; `git apply` keeps to the working tree it runs in.
* `HostAssumption`: terminal results are ordered, as strings are; the names of candidate
  files are names of files; the footer that closes a prompt is longer than one character.
* `ConversationAssumption`: the three thresholds of a policy are in order, which
  `TieredCompact` makes sure of when it is built.
* `DocumentAssumption`: the documents are finite sequences of records, and no digest is the
  absent value. It asks for no relation between the documents: any fault may be there.
* `ReportAssumption`: a primary success has completed validly, and a trial counts as a
  capability failure only if it was one, which the result records check themselves.

| Module | Theorems | Run properties among them |
|---|---|---|
| `SessionProofs`, of `GuardedSession` | `TypeCorrect`, `CallsNeverExceedBudget`, `CountersStayInBudget`, `HistoriesNeverDiverge`, `ToolsRunInOrder`, `RunnerReturnsIntent`, `TerminalResultsAreEarned`, `CancellationAlwaysWins`, `SessionImplementsContract` | `ExecutionIsOrdered`, `CancellationWins`, `ImplementsContract` |
| the same, of `ToolAdmission` | `AdmissionInductive`, `JudgementIsExact`, `EntriesAreLicensed` | `AdmissionExact`, `EntryIsLicensed` |
| `HarnessRuntimeProofs` | `Invariance`, `CompletionIsCommitted`, `SummariesTellTheOutcome`, `InterruptionsAreHonest`, `ImplementsRuntimeStates`, `StopsPreventCommits` | `CompletedIsCommitted`, `SummaryTellsOutcome` |
| the same, of `BaseRunner` | `BaseIsAnExecution`, `BaseInvariance`, `InvocationsAreHonest`, `FacadesAreExact`, `PromptsAreHonest` | the two above, `FacadeIsExact`, `PromptIsHonest` |
| `FileMutationLockProofs` | `LockTypeCorrect`, `UsersAlwaysCounted`, `EntriesOutliveUsers`, `RegistryNeverLeaks`, `SameKeyExcludes`, `NoLostUpdate` | `ReadStaysCurrent` |
| `CompilerProofs`, of `PlanPublication` | `Invariance`, `DurablePlansNeverChange`, `CertaintyCanBeBelieved`, `ReportsFollowPlans`, `CommittedReportsDoSettle`, `TypesOfPublication` | `CertaintyIsHonest`, `CommittedReportsSettle` |
| the same, of `SourceAdmission` | `AdmissionsAreSnapshots` | `AdmittedIsSnapshot` |
| `ModelProofs`, of `ModelClient` | `Invariance`, `ClientTypeCorrect`, `NothingIsOrphaned`, `CancellationReachesCaller`, `OnlyCurrentAnswers`, `CloseIsOnce` | `NothingOrphaned` |
| the same, of `Conversation` | `ConversationInductive`, `RecentIsKept`, `RequestsStayValid` | `RecentStaysWhole`, `CompactionKeepsRequestsValid` |
| `ToolExecutionProofs` | `ToolTypeCorrect`, `TracesAreHonest`, `NeverUpgraded`, `RetriesAreSafe` | `TraceAccountsForEffects` |
| the same, of `ToolCalls` | `CallsInvariance`, `ShellsAreKilled`, `BashIsAnImplementation`, `BashTracesAreHonest` | `NoShellLeftRunning`, `ImplementsBoundary`, `TraceAccountsForEffects` |
| the same, of `BuiltinTools` | `EffectsStayLicensed`, `ChangesAreNotLost` | `EffectsAreLicensed`, `NoLostChange` |
| the same, of `FileTools` | `ReadingIsAlwaysExact` | `ReadingIsExact` |
| `EvaluationProofs`, of `EvalWorkflow` | `TrialTypeCorrect`, `NoTrialStranded`, `ClosuresAreEarned`, `JudgesAlwaysAgree`, `ScorerNeverFails` | `NeverStranded`, `ClosureIsEarned`, `JudgesAgree`, `ScorerAlwaysAnswers` |
| the same, of `CampaignStore` | `TypesOfTheStore`, `TheStoreIsHonest`, `ALoneRunSucceeds`, `AcceptedReportsAddUp` | `StoreIsHonest`, `LoneRunSucceeds`, `ReportsAddUp` |

A property that a theorem proves and no run lists (`ModelCallsBounded`,
`HistoriesAgree`, `TerminalIsEarned`, `ReturnedIsIntent`, `StopPreventsCommit`,
`CommitIsNotHidden`, `AnswersAreCurrent`, `CloseMeansClosed`,
`DurablePlansStay`, `ReportNeverAhead`, `RegistryExact`, ...) holds by its proof, for
every instance. The run of the runtime is that of `BaseRunner`, which takes the same
actions and constrains them further: `BaseIsAnExecution`, so the safety theorems about
`HarnessRuntime` hold of it too.

**Session.** The invariant is built in layers, each proved over the one below.
`TypeOK`, then `Budgets`: a reply is awaited only while an iteration is left to
charge it to, and the session goes on only below every budget. Then `History`: the
two histories agree; the batch that was allowed before its first call stays allowed
(`BatchStillAllowed`) because the recorded history only grows; the bridge's check is
made for the very call that runs (`EntryAllowed`); an accepted intent is earned and
stays so, because no success is ever taken back. Then `Committed`, which ties a
terminal status to the intent. The refinement maps each step to `Succeed`, `Commit`,
`Fail`, `Stop` or a stutter; `History` is what makes `Succeed` and `Commit` enabled.

**Runtime.** The program counter determines everything else: the runtime state
(`StateInv`), that a run directory is there to write to (`PreparedInv`), what can be
on disk and what the pending report claims (`ReportInv`). Before the write that
commits, nothing is on disk; after it, the pending report is the backend's verdict; a
finalization carries a report that never claims the commit, and says UNKNOWN when the
file may be there. The refinement of `RuntimeStates` is a step-by-step reading of
`StateInv`. `StopsPreventCommits` is a temporal statement with a nested box: that a
stopped execution stays before the commit or past it without a file is a second
invariant proved from that state on. `InterruptionsAreHonest` has the other nesting: it
is about the executions in which no later writer reports an interruption itself
(`[][~LaterWriteInterrupted]_vars`), so its invariant `HonestInv` is proved of the steps
that are not that one.

`SummaryInv` follows the summary: a finalization writes its own before anything else, so
the one on disk is that of no execution, of the pending report, or of a finalization that
has yet to write. It needs `ReportInv`, which says when a report is pending.

**Facade.** `BaseRunner` adds to an execution what the caller knows. `FacadeInv`: where the
caller stands tells what was verified, and the composed components are what the factory
makes of the host. `AdmittedIsNotMisbound` compares the two sets of checks: what the facade
compared for equality, no preflight phase can find different. So a preflight failure is
one of the file system (`PreflightBlame`), and no later report blames the plan
(`BlameInv`). For the other direction the four modules that each derive the terminals must
agree, which comes down to sorting a sorted tuple again (`SortedAgain`, by ranks: the
elements of a finite set of numbers have ranks without gaps or ties).

**Prompt.** `ComposedInv`: whatever is composed is the prompt and the context of the
host as it is, and its footer fits the limit. That the prompt keeps its footer whole, stays
below the limit and loses no more than it must is then a statement about truncation by
bytes (`TruncatedFits`, over the running sums of `SumsRun`), for texts of any length.

**Lock.** The count of an entry is *exactly* its holders and waiters. It follows that
an entry is dropped only when nobody uses it (`EntryOutlivesUsers`), that one key has
one entry (`RegistryInjective`, `OwnerExact`), hence that calls with the same key
exclude each other (`KeyExclusion`); with `KeyIsTarget` under `Coherent`, that no
update is lost. Cardinalities come from `FiniteSetTheorems`.

**Publication.** `DirInv`: a name holds its own plan, foreign bytes or nothing, and
what is durable is current. `os.link` never replaces and a sync only copies current
to durable, so a durable plan cannot change; what survives a power loss agrees with
the durable half. `CallInv`: each call knows where it stands - nothing published yet,
plan in place, plan durable - and a power loss, which may undo the second, ends the
calls that rely on it.

`SettleInv` is about the calls that share a report. If each of them has returned COMMITTED
or has its committed report in place, the current report is a committed one; if each has
returned, so is the durable one. The two halves are needed because the last step before
the return makes current durable. `RunInv` gives each call temporary names of its own,
which the types need.

**Source admission.** `SourceInv` is what the disk promises and what an admission has seen
of it. A write gives the file a stamp it never had, so a file that still has the stamp it
was opened with holds what was read of it (`Unwritten`), and two equal observations mean
that nothing was written between them: an admitted compiler has read one version of
the file under the source root, whole, although the second half of a rewrite may come at
any step. Links and replacements change the identity.

**Model client.** `CallInv`: where a call is suspended tells what its tasks, its
pending cancellation and its outcome can be. `CloseInv`: the close task and the
client's flag move together.

**Conversation.** `ConversationInv`: the list the runner keeps and the whole history are
the header, *something* of earlier iterations, and one and the same end, and the end is
exactly the iterations the policy protects (`EndAlike`); the iterations of the whole history
are in order (`InSequence`), so what stops being recent is cut off the front of that end
(`Split`). A compaction finds its border at the start of the end or before it
(`CompactedKeepsRecent`), so it replaces the *something* and nothing else, however often it
is applied. Picking messages by their places is an order isomorphism of ranks (`Ranks`).

`RequestInv` is about what both gates of a request say. `Good` is what can spoil the whole
history (an id given twice; under a replay field, calls without their reasoning), `Fine` what
may not spoil the shortened one (the same, and that every reply has its call, once, and
under a replay field at its very place). The invariant: if the whole history is good, the
shortened one is fine. What compaction leaves is a *sieve* of what it was given
(`CompactedSieve`: some of the messages, in order, a text perhaps cut), and where calls
come with their reasoning and are followed by their replies, the sieve takes a call exactly
when it takes its replies (`PhasesSieve`; that no reply crosses the border is
`EndIsBorder`), which keeps it fine (`SieveKeeps`); an answer whose ids are new leaves it
fine (`JoinedFine`). `RequestLaid` says where the messages of a history stand in its
request, reasoning folded, so that a fine history is accepted (`FineIsAccepted`) and an
accepted one is good (`AcceptedIsGood`). A refusal of the shortened history is then one of
the whole.

**Tool boundary.** The invariant follows one call: until its implementation is entered
its effect has not begun (`Untouched`), while it is inside nothing is recorded
(`Running`), and once the executor has a result this result is sound for an effect that
can no longer move (`Answered`); what is over stays as it is (`Past`). So the trace of
every call, for any plan and any number of calls, fits the effect.

**Shell commands.** `RunnerInv` says of `execute_bash` which of its processes exist:
`ProcessInv` (nothing reads before the launch is ready, an exit is seen only of a shell
that exited), `CleanupInv` (the cleanup kills before it reaps and is done only when the
shell is), `WaitInv` (at every await, what the call will answer is what was seen). When
the call returns, then, no shell runs that was not sent a kill. With `BashInv`, which
equates what the operating system has seen of the command with the effect of the boundary's
call, every step of the runner is a step of an honest implementation or a stutter: the
refinement `BashIsAnImplementation`.

**Built-in tools.** `WorkspaceInv` carries what an implementation itself has made sure of
up to the effect (`Admitted`): that the places it is about to change are ones it may
change, and of a patch that its names are. That git touches no other places than those
named is not claimed, because nothing ensures it. The policy's look before the gate is not
needed. `OthersChange` may come between
any two steps. `StillExpected` is the part of `NoLostChange`: from the look to the
replace, the target has the content that was expected, or is gone, or others changed it.

**Tool admission.** The fold over the tools is a recursive function on the number of tools
judged; `AdmissionIsExact` proves by induction on it that the records admitted are those of
the tools without a fault and the faults reported those of the others. `AdmissionInv`: every
verdict kept is the judgement of the document and policy it names; a node that an executor
does not refuse is registered in its process and its records are of some admission
(`ExecutorIsBacked`, which survives a restart because the executor does not); the session is
the last one started. An entry of a call is then licensed by a record that was admitted,
through a registration and an executor of this process.

**Reading.** The size of a text grows with each line (`JoinedGrows`), so the texts that fit
are an initial segment of its beginnings, and the loop's exit is the one length that fits
while the next does not (`KeptIsMost`, `MostIsUnique`). The tail runs the same loop over the
reversed lines, whose beginnings are the ends of the text and of the same size
(`EndsReversed`, over `JoinedCons`: a line adds as much in front as behind). For the pages,
`ReadingInv` says that some number of lines has been seen, each once and in order, and that
the last answer names the line after them, or that there is none, or that the next line is
too long to be shown; `ReadGivesPage` says what each of the five answers of `read` is in
those terms, for every window size and limit. Sizes are recursive functions, and what is
said of them is proved along the least length that would contradict it (`LeastNatural`).

**Evaluation trial.** `Counted` says how often each stage has ended when a stage is at
work (the checker is one behind the builder, or level with it while the builder works);
the resolver's limits then always leave it a decision (`NextStage`). `Fresh` and
`Observed` say that what an attempt has written is of the workspace as it is and true of
it, so an approval, once in the bundle, is of the current workspace
(`ApprovalCurrent`): the builder, who alone edits, never works under one. `Closing` ties
the arbiter's verdict and the terminal results to the end of the trial. From these, what
each judge reads is compared with what the other reads. The evidence the boundary reads
alone, citations and what the host hands over, is a parameter of `Closure` that the
theorem quantifies over. `ScorerNeverFails` needs no
invariant: it holds of any state. The numbers of edits and of retried stages are any (`EvalAssumption`).

**Campaign store.** `HonestInv` relates every file to the log it was computed from: the
log only ever grows, by a record or a torn line, so an index, a report or closure evidence
speaks of records that are still there, and each runner's list of what is done is a part
of the log in its order. `LoneInv` is about a runner that has had the store to itself since
it began on a sound one: the log is whole and names only trials of the plan, so each
refusal's condition is false where the code tests it, whatever partial index an earlier
runner left. That the next trial is the first one missing is `LeastNatural`: a nonempty
set of naturals has a least element, from the library's well-founded minimum.

**Reports.** `ReportsAddUp` is an accounting of sums: each total of a report is a partition
of one finite set of cases, trials or artifacts, so that cardinalities of unions and images
(`FiniteSetTheorems`, `TotalOfParts`) give it. Of the state it needs what `HonestInv` says of
a runner's log: it is without repeats, names trials of plans, and an index's pending trials
are its plan less what it has done. The half about budgets is `PreflightAdmits`.

An operator whose `CASE` arms overlap is a `CHOOSE` in TLA+; where the code's `if` chain
decides by order, as in `ConnectorAdmission` and `ToolAdmission`, the models say
`IF ... ELSE IF`.

Model-checked only:

* The liveness properties (`SessionEnds`, `InvocationEnds`, `PartialIsClosed`,
  `CallsSettle`, `CallsEnd`, `CallEnds`): liveness under fairness is beyond this prover.
* What rests on recursive operators: the graph search of the compiler (`CyclesExact`,
  `AcceptedIffSound`, `SessionsCanEnd`).
* `EditIsExact` and `SearchIsHonest`: what a fold of replacements over a text, and a walk
  through a tree of any depth, compute is an induction over data of its own for each.

## 6. Where code and documentation differ, and what else was seen

Differences met while modelling; each is a reachable behaviour of the models.

* **Iterations** (`_forge/core/inference.py:191`): mixed retry kinds use up
  `attempt_limit` before either budget, and the workflow ends in `MaxIterationsError`
  with iterations left. `_forge/errors.py:101` says it means that max_iterations was exceeded.
* **A terminal success does not always return** (`_forge/core/runner.py:432`): when a
  terminal tool succeeded and a later terminal of the same batch fails, the loop goes on
  with an intent accepted. The comment at line 470 says it returns.
* **Traces lost** (`_forge/adapter.py:411`): three `except` clauses build their result
  without the bridge's trace, so records of calls that ran never reach `tool_trace.jsonl`.
* **Prior calls** (`_forge/adapter.py:1618`): the bridge keeps only the last success of a
  node, the step tracker keeps all. read(a), read(b), write(a) is allowed by the one and
  denied by the other.
* **No summary** (`runtime.py:1235`): cancelled or out of time just after the commit,
  `execute` returns COMPLETED without a summary.
* **Two locks for one path** (`tools/pi_compat/mutations.py:29`): the key of a path
  changes when the file comes into being behind a symbolic link, so two calls with the
  very same path can run together. Hence `Coherent`.
* **A close that waits for ever** (`tools/pi_compat/process.py:231`): the caller's
  cancellation while the stop marker waits for room in the queue withdraws the marker,
  and the close then awaits a writer that is never told to stop. `CallEnds` says that
  nothing else keeps a call from ending (`MarkerLost`).
* **Argument matches** (`compiler/source.py:91`, `_forge/adapter.py:1878`): the compiler
  accepts a prerequisite with more than one argument match, the session refuses the plan
  at its start.
* **Edits** (`tools/pi_compat_catalog.py:213`): the descriptor says that an old text
  must be unique; the count of non-overlapping occurrences accepts `aa` in `aaa`.
* **Approvals**: the `approval_policy` of a custom tool is recorded and asked for by
  nobody; the shipped runtime supplies no connector grants at all (`runtime.py:1070`), so
  a tool that needs one is always denied. Grants are not consumed by use. A selection
  whose tool id does not begin with `connector.` is admitted, and the snapshot refuses it.
* **Trace of a denial**: the repository's README says that every attempted or denied
  call emits a trace record; the denial of an unknown node emits none.
* **Metric names** (`eval_reports.py`): VALID_COMPLETION counts final outcomes in the
  primary, arm and category metrics, and primary successes in the task summaries and
  paired comparisons, under one id. A report with the index of a smaller plan set is
  accepted, and its pending trials are then fewer than its missing pairs; duplicate
  records are not refused; a denied budget does not stop a report; the preflight counts
  trials of both arms, the report pairs; the abort rule passes on no records where the
  false-closure rule is descriptive below 30.

Runtime and files: after a stop past the commit, a completed result lists files that
were not written; `terminal_result.json` stays beside a result
ARTIFACT_FINALIZATION_FAILED; a summary already written contradicts that result when the
metrics after it cannot be written; a committed report may carry UNKNOWN certainty; a
prepared report whose directory sync fails is called absent although it was replaced on
disk; a writer of a later artifact that raises a cancellation or a timeout, which the
protocol allows (`protocols.py` 135-175), turns a committed execution into CANCELLED or
TIMED_OUT with NOT_APPLICABLE certainty (`runtime.py:1737`). The lazy writer keeps the error of its factory, so a directory that was briefly
unwritable is never written to. Two concurrent `execute` calls on one runtime share
`_state` (the shipped entry points build a runtime for each invocation), and a run
directory used twice keeps the `terminal_result.json` of its first use; both are outside
the models.

Conversation: a call rescued from text under a replay profile has no reasoning to
replay, so the next request is refused and the session ends MODEL_FAILED; a provider
that reuses call ids makes the request contract refuse instead, which the session
reports as BACKEND_FAILED. `keep_recent` 0, which the policy allows, disables
compaction (`[-0]`). Truncating a text of 201 characters makes it longer, and a second
truncation loses the count of the first. A replay iteration that shares its index with a
failed attempt counts as incomplete and is never compacted beyond phase 1. Phase 2 leaves
calls without answers in histories without replay, which the contract accepts. After
phase 3 the history may still exceed the budget, and nothing checks that.

Tools: `apply_patch` checks the names it parses out of `---`, `+++` and rename lines,
stripped of `a/` and `b/` (`builtin_runtime.py:1305`), while `git apply` reads the patch
itself and strips one component of any path: mode-only, copy and binary sections and
paths without a prefix touch places of the working tree that were not checked, and the
answer's paths and diff are of the parsed names. It is reported NOT_ATTEMPTED though files
changed when git dies half way or the second diff fails; a write with a digest for a file that is gone writes; a
change between the comparison and the replace is lost (`NoLostChange` excludes just
that); `search_text` skips unreadable files and says nothing; `list` and `search`, as
grep and find, are marked truncated when exactly the limit was found; `ls` with a limit
of 0 answers *(empty directory)*; a fuzzy match of `edit` normalises the whole file;
mixed line endings are unified; a blank old text matches an empty file; bytes that are
not UTF-8 are replaced; a kill leaves the temporary file.

Evaluation: when a resume has left a partial index, and a campaign then appends the
remaining records and dies before it removes that index, every later campaign has nothing
to append, keeps the index and is refused, until it is removed by hand; an
ARBITER_REJECTED trial with clean evidence scores as primary success; a campaign reports
the records it generated, not those of the log; a closure whose arbiter cites an artifact
outside the bundle, or with a context, fixture or capability snapshot that does not fit,
is refused by the boundary (`eval_boundary.py:2331-2366`) and scored as primary success,
because the scorer is given none of these. Prompt: a context cut within a file is
told in the context's metadata only, not in that of the prompt; a directory whose file
repeats one already taken is skipped with its other candidates.

## 7. What is not modelled

Inside the modelled parts: contents of messages, results and events beyond what a
property tells apart; wording of diagnostics; the exact form of requests and responses,
whose validation is one outcome (refused, malformed). `TextResponse` handling in the
runner and the `Guardrails` facade are never reached from `run_session`. A request to the
model that the contract itself refuses is part of `Conversation`, and one of the ways
`ModelRaises` stands for in `GuardedSession`.

* *Files*: links do not change while a tool runs; processes outside that rewrite files
  under the lock or in the plan directory are out of scope there, as they are for the
  code, which locks threads of one process only. Page limits of zero, negative or
  fractional value; context lines of grep around lone carriage returns; path spelling,
  globs, regular expressions, image files.
* *Processes*: reuse of a process id between the reaping of a group leader and `killpg`
  (`process.py:989`); cancellations in the `finally` at line 566 beyond `MaxCancels`.
* *Runtime*: two executions over one run directory; the write-temp, fsync, replace of a
  single artifact, whose shape is that of `PlanPublication`; nothing reads a torn one.
* *Base invocation*: executor, prompt and context of replaced components, which the
  facade does not compare with the plan either; two terminals whose descriptors collide
  in a digest; grep, find and ls share the capability of read.
* *Compiler*: JSON parsing, the schemas of tools and catalogs, canonical bytes. A writer
  that pauses across the whole admission leaves a torn file that no stat can detect.
* *Connectors, custom tools*: field formats and the recursive scan of raw documents (one
  flag per tool). The broker's live evidence is the provider as it is now.
* *Evaluation*: the live branch, which the manifests refuse; the manual taxonomy,
  confounds, Markdown, the tables of presets and modes, hash fields; what the stages do.
* *Contracts*: immutable records with field validation. *Test doubles*: they implement
  protocols whose every answer the models allow.

## 8. Plan

Done, the most important behaviour first: the guarded session and its contract; the
runtime and its state machine; the mutation lock; plan publication; the model client;
the tool boundary with the process runner composed behind it; the conversation; the
compiler with its graph analysis; connector and custom tool admission up to the call; the
file tools; evaluation trials, campaigns and reports; the base invocation around the
runtime; theorems about all of them but the graph analysis, the edits and the searches.

Next, in this order:

1. Proofs about the graph search of the compiler, as a recursive function, and about the
   edits and the walk of the file tools.
2. `ArtifactWriter` (`artifacts.py`): two executions over one run directory and the
   readers.
3. The composition of `GuardedSession` with `Conversation`: which refusals of a request
   end a session with which status.
4. The schema subset of tools (`compiler/schema_validation.py`) as an operator checked
   against a reference definition.

The number of runs stays small: a component that interacts with one already checked
is composed with it and shares its run, rather than adding one.
