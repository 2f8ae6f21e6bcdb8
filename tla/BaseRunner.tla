----------------------------- MODULE BaseRunner -----------------------------
(***************************************************************************)
(* millforge-base: the preset composed from files, options and a terminal  *)
(* vocabulary; the facade that admits components and requests; and the one *)
(* execution it starts, which HarnessRuntime describes, with the pinned    *)
(* plan loader and the lazily built artifact writer of base_runner.py.     *)
(*                                                                         *)
(* A digest is modelled by what it is taken of.  Tuples of capability ids  *)
(* and terminal results are kept sorted by the code; capabilities are sets *)
(* here.  The clock starts when the execution does.                        *)
(***************************************************************************)
EXTENDS HarnessRuntime, PromptAssembly

CONSTANTS
    Hosts,      \* what one caller brings, and how far it goes
    Other       \* any value the preset does not use

\* Terminal results are strings, which have an order.  A footer is longer than
\* any character: it has a date in it.
ProperHost(h) ==
    LET Candidates == Seq({Absent} \cup DOMAIN h.content)
    IN  /\ h.terminals \in Seq(Nat)
        /\ h.footer \in Nat /\ h.enabled \in BOOLEAN
        /\ h.system # Absent => h.system \in Seq(Nat)
        /\ h.append # Absent => h.append \in Seq(Nat)
        /\ \A file \in DOMAIN h.content : h.content[file] # Unreadable =>
              h.content[file] \in Seq(0..h.footer)
        /\ {h.systemFiles, h.appendFiles, h.tree.native, h.tree.fallback}
              \subseteq Candidates
        /\ h.tree.directories \in Seq(Candidates)

\* None is no reason to refuse.
ASSUME HostAssumption ==
    /\ \A h \in Hosts : ProperHost(h)
    /\ None \notin {"backend_composition", "descriptor_composition",
                    "harness_identity", "compiled_plan_hash", "stage_kind",
                    "model_profile", "capability_envelope",
                    "selected_output_requirements",
                    "invocation_evidence_composition"}

VARIABLES
    host,        \* platform, options, files and terminal vocabulary
    facade,      \* where the caller stands with millforge-base
    refusal,     \* why it was refused
    composed,    \* the MillforgeBaseComponents the factory made
    components,  \* those the runner was given
    request,     \* the HarnessExecutionRequest
    writer,      \* _LazyRuntimeArtifactWriter
    owned        \* the HTTP client a live runner owns

facadeVars == <<facade, refusal>>
boundVars == <<composed, components, request>>
runnerVars == <<host, facadeVars, boundVars, writer, owned>>
baseVars == <<vars, runnerVars>>

-----------------------------------------------------------------------------
(* The preset: its tools, its terminals and its plan.                      *)

HarnessId == "unrestricted_agent"
PackId == "unrestricted"
StageKind == "millforge_base"
PinnedStage == [plane |-> "execution", node |-> "millforge-base", kind |-> StageKind]

\* required_capabilities of the descriptors; grep, find and ls need what read
\* does.
Needs == [read |-> {"filesystem.read"}, bash |-> {"process.execute"},
          edit |-> {"filesystem.read", "filesystem.write"},
          write |-> {"filesystem.write"}]
TerminalNeeds == {"terminal.intent"}
Required(terminals) ==
    UNION Range(Needs) \cup (IF terminals = <<>> THEN {} ELSE TerminalNeeds)

\* _capability_envelope: of the default descriptors, whatever the terminals.
Envelope == UNION Range(Needs) \cup TerminalNeeds

\* sorted, of a tuple without duplicates: the element at i has i - 1 below it.
Sorted(s) ==
    [i \in DOMAIN s |->
        CHOOSE x \in Range(s) : Cardinality({y \in Range(s) : y < x}) = i - 1]

\* canonicalize_base_terminal_results.
ValidTerminals(results) == Len(results) \in 1..64 /\ IsInjective(results)
Canonical(results) == Sorted(results)

\* The snapshot digest: the descriptors of these terminals.
Catalog(terminals) == <<DOMAIN Needs, terminals>>

\* The results of the terminal nodes of the source, sorted.
SourceTerminals(terminals) == Sorted(terminals)

ModelNeeds == {"tool_calls", "system_messages", "tool_result_messages"}

\* The prompt that this host gives the model.
HostPrompt(h) ==
    LET body == IF h.system # Absent THEN h.system
                ELSE LET found == DiscoveredPrompt(h.systemFiles, h.content)
                     IN  IF found = Absent THEN DefaultPrompt ELSE found
        append == IF h.append # Absent THEN h.append
                  ELSE DiscoveredPrompt(h.appendFiles, h.content)
    IN  Assembled(body, append, Context(h.enabled, h.tree, h.content).texts, h.footer)

Plan(prompt, profile, terminals) ==
    [harness |-> HarnessId, version |-> 1,
     hash |-> <<prompt, profile, terminals>>, sealed |-> TRUE,
     profile |-> profile, stages |-> {StageKind},
     required |-> Required(terminals), terminals |-> SourceTerminals(terminals)]

\* _metadata, without what only describes the preset.
Metadata(h, plan) ==
    [harness |-> HarnessId, hash |-> plan.hash, profile |-> h.profile.id,
     model |-> h.profile.model, pack |-> PackId]

\* What _create_millforge_base_components returns.
Components(h, terminals) ==
    LET prompt  == HostPrompt(h)
        context == Context(h.enabled, h.tree, h.content)
        plan    == Plan(prompt, h.profile.id, terminals)
    IN  [plan     |-> plan,
         metadata |-> Metadata(h, plan),
         profile  |-> h.profile,
         granted  |-> Envelope, constrained |-> FALSE,
         catalog  |-> Catalog(terminals),
         source   |-> SourceTerminals(terminals),
         terminals |-> terminals,
         context  |-> context, prompt |-> prompt]

-----------------------------------------------------------------------------
(* What the facade verifies.                                               *)

\* _describe_millforge_base.
Descriptor(terminals) ==
    [harness |-> HarnessId, version |-> 1, pack |-> PackId,
     required |-> Required(terminals), terminals |-> SourceTerminals(terminals),
     catalog |-> Catalog(terminals)]

\* _verify_component_composition.
Consistent(c) ==
    /\ c.metadata.harness = c.plan.harness
    /\ c.metadata.hash = c.plan.hash
    /\ c.profile.id = c.plan.profile
    /\ c.metadata.profile = c.profile.id
    /\ c.metadata.model = c.profile.model
    /\ c.granted = c.plan.required /\ ~c.constrained
    /\ c.terminals = Sorted(c.plan.terminals)
    /\ c.terminals = c.source

\* _descriptor_agrees_with_components.
Agrees(d, c) ==
    /\ d.harness = c.plan.harness /\ d.version = c.plan.version
    /\ d.pack = c.metadata.pack
    /\ d.catalog = c.catalog
    /\ d.required = c.plan.required
    /\ d.terminals = c.terminals
    /\ Sorted(c.plan.terminals) = c.terminals
    /\ "tool_calls" \in c.profile.supports

\* The first reason to refuse components, or None.
ComponentRefusal(c) ==
    IF ~Consistent(c) THEN "backend_composition"
    ELSE IF ~Agrees(Descriptor(c.terminals), c) THEN "descriptor_composition"
    ELSE None

\* Mutant: any stage of the pinned kind is taken for the pinned stage.
StageKindMatches(c, r) == r.stage.kind \in c.plan.stages
StageMatches(c, r) == r.stage = PinnedStage /\ r.stage.kind \in c.plan.stages

\* _build_invocation_evidence: the plan still has the digest it claims.
Evident(c) == c.plan.sealed

\* _verify_request, then the invocation evidence.
RequestRefusal(c, r) ==
    IF r.harness # c.plan.harness \/ r.version # c.plan.version
    THEN "harness_identity"
    ELSE IF r.hash # c.plan.hash THEN "compiled_plan_hash"
    ELSE IF ~StageMatches(c, r) THEN "stage_kind"
    ELSE IF r.profile # c.plan.profile THEN "model_profile"
    ELSE IF r.granted # c.granted \/ r.constrained # c.constrained
    THEN "capability_envelope"
    ELSE IF ~(r.outputs \subseteq Range(c.terminals))
    THEN "selected_output_requirements"
    ELSE IF ~Evident(c) THEN "invocation_evidence_composition"
    ELSE None

-----------------------------------------------------------------------------
(* The caller: components it derived from the composed ones, and the       *)
(* request it makes of them.                                               *)

Altered(c) ==
    {c,
     [c EXCEPT !.plan.harness = Other, !.metadata.harness = Other],
     [c EXCEPT !.plan.version = Other],
     [c EXCEPT !.plan.hash = Other],
     [c EXCEPT !.plan.hash = Other, !.metadata.hash = Other, !.plan.sealed = FALSE],
     [c EXCEPT !.plan.profile = Other],
     [c EXCEPT !.plan.stages = {}],
     [c EXCEPT !.plan.required = @ \cup {Other}],
     [c EXCEPT !.plan.required = @ \cup {Other}, !.granted = @ \cup {Other}],
     [c EXCEPT !.plan.terminals = Tail(@), !.terminals = Tail(@), !.source = Tail(@)],
     [c EXCEPT !.profile.supports = {}],
     [c EXCEPT !.profile.model = Other],
     [c EXCEPT !.constrained = TRUE],
     [c EXCEPT !.catalog = Other]}

Bound(c) ==
    [harness |-> c.plan.harness, version |-> c.plan.version,
     hash |-> c.plan.hash, stage |-> PinnedStage, profile |-> c.plan.profile,
     granted |-> c.granted, constrained |-> c.constrained,
     outputs |-> Range(c.terminals)]

Requests(c) ==
    LET bound == Bound(c)
    IN  {bound}
        \cup {[bound EXCEPT ![field] = Other] :
                  field \in {"harness", "version", "hash", "profile"}}
        \cup {[bound EXCEPT !.stage[field] = Other] : field \in DOMAIN PinnedStage}
        \cup {[bound EXCEPT !.granted = @ \ {"filesystem.read"}],
              [bound EXCEPT !.granted = @ \cup {Other}],
              [bound EXCEPT !.constrained = TRUE],
              [bound EXCEPT !.outputs = {Other}]}

-----------------------------------------------------------------------------
BaseInit ==
    /\ Init
    /\ host \in Hosts
    /\ facade = "start" /\ refusal = None
    /\ composed = None /\ components = None /\ request = None
    /\ writer = "unbuilt" /\ owned = None

Refuse(reason) == facade' = "refused" /\ refusal' = reason

\* _validate_live_profile: the logical profile and the secret that were asked
\* for are those of the resolved one.
LiveProfile(h) ==
    /\ h.asked = [id |-> h.profile.id, secret |-> h.profile.secret]
    /\ ModelNeeds \subseteq h.profile.supports

\* create_millforge_base_components; a live runner looks at the profile and
\* its secret before.
Compose ==
    /\ facade = "start"
    /\ IF ~host.supported
       THEN Refuse("unsupported_platform") /\ UNCHANGED composed
       ELSE IF ~ValidTerminals(host.terminals)
       THEN Refuse("terminal_results") /\ UNCHANGED composed
       ELSE IF host.goal = "live" /\ ~LiveProfile(host)
       THEN Refuse("live_profile") /\ UNCHANGED composed
       ELSE IF ~(ModelNeeds \subseteq host.profile.supports)
       THEN Refuse("model_capabilities") /\ UNCHANGED composed
       ELSE IF host.footer > PromptLimit
       THEN Refuse("prompt_budget") /\ UNCHANGED composed
       ELSE \/ Refuse("shell") /\ UNCHANGED composed
            \/ /\ composed' = Components(host, Canonical(host.terminals))
               /\ facade' = "composed" /\ UNCHANGED refusal
    /\ UNCHANGED <<vars, host, components, request, writer, owned>>

\* create_millforge_base_runner.
CreateRunner ==
    /\ facade = "composed" /\ host.goal \in {"runner", "execution"}
    /\ components' \in Altered(composed)
    /\ LET reason == ComponentRefusal(components')
       IN  IF reason # None THEN Refuse(reason)
           ELSE facade' = "ready" /\ UNCHANGED refusal
    /\ UNCHANGED <<vars, host, composed, request, writer, owned>>

\* MillforgeBaseRunner.execute up to the first await: everything is verified
\* again before the runtime is built.
Execute ==
    /\ facade = "ready" /\ host.goal = "execution"
    /\ request' \in Requests(components)
    /\ LET reasons == <<ComponentRefusal(components),
                        RequestRefusal(components, request')>>
       IN  IF reasons[1] # None THEN Refuse(reasons[1])
           ELSE IF reasons[2] # None THEN Refuse(reasons[2])
           ELSE facade' = "running" /\ UNCHANGED refusal
    /\ UNCHANGED <<vars, host, composed, components, writer, owned>>

-----------------------------------------------------------------------------
(* create_millforge_base_live_runner once the components are composed.  It *)
(* suspends only to close the client of a runner it could not finish.      *)

CreateLive ==
    /\ facade = "composed" /\ host.goal = "live"
    /\ owned' = "open"
    /\ components' = composed
    /\ \/ facade' = "closing"
       \/ facade' = IF ComponentRefusal(components') = None THEN "ready" ELSE "closing"
    /\ UNCHANGED <<vars, host, refusal, composed, request, writer>>

\* close_partial_composition, in a task the shield keeps.
PartialCloses ==
    /\ facade \in {"closing", "interrupted"} /\ owned = "open"
    /\ owned' = "closed"
    /\ facade' = IF facade = "closing" THEN "raised" ELSE facade
    /\ UNCHANGED <<vars, host, refusal, boundVars, writer>>

\* Mutant: without the shield the close dies with the caller.
CreatorInterruptedUnshielded ==
    /\ facade = "closing"
    /\ facade' = "interrupted" /\ owned' = "abandoned"
    /\ UNCHANGED <<vars, host, refusal, boundVars, writer>>
CreatorInterrupted ==
    /\ facade = "closing"
    /\ facade' = "interrupted"
    /\ UNCHANGED <<vars, host, refusal, boundVars, writer, owned>>

-----------------------------------------------------------------------------
(* The execution.                                                          *)

Outside == UNCHANGED <<host, facadeVars, boundVars, owned>>

\* What each preflight phase of the runtime finds wrong with the request.
Misbound(name) ==
    LET plan == components.plan
    IN  CASE name = "identity" -> \/ plan.harness # request.harness
                                  \/ plan.version # request.version
          [] name = "hash" -> plan.hash # request.hash
          [] name = "stage" -> \/ request.stage.plane # "execution"
                               \/ request.stage.kind \notin plan.stages
          [] name = "profile" -> request.profile # plan.profile
          [] name = "capabilities" -> ~(plan.required \subseteq request.granted)
          [] OTHER -> FALSE

\* Whatever depends on the file system may fail besides; the pinned loader
\* may not.
Preflight ==
    /\ PerformPhase
    /\ Phases[phase] \notin {"prepare", "inputs"} =>
          ((phase' = phase) <=> Misbound(Phases[phase]))
    /\ Outside /\ UNCHANGED writer

Writing == pc \in {"write_terminal", "post_write", "finalize"}

\* _resolve: the first write builds the writer; the error of a factory that
\* failed is raised again by every later write.
Resolved == writer' \in (IF writer = "unbuilt" THEN {"built", "broken"} ELSE {writer})

Write ==
    /\ \/ WriteTerminal \/ WriteAfterCommit \/ LaterWriteInterrupted
       \/ WriteNonTerminal
    /\ Resolved
    /\ writer' = "broken" => disk' = disk
    /\ Outside

RunOn ==
    /\ ExecuteStep
    /\ ~Writing /\ pc # "perform"
    /\ Outside /\ UNCHANGED writer

Construct == ConstructSession /\ Outside /\ UNCHANGED writer

\* The task awaiting execute is cancelled; a write under way has a writer.
Interrupt ==
    /\ facade = "running"
    /\ TaskCancelled
    /\ IF Writing THEN Resolved ELSE UNCHANGED writer
    /\ writer' = "broken" => disk' = disk
    /\ Outside

Return ==
    /\ facade = "running" /\ pc = "done"
    /\ facade' = "answered"
    /\ UNCHANGED <<vars, host, refusal, boundVars, writer, owned>>

Execution == facade = "running" /\ (Preflight \/ Construct \/ RunOn \/ Write)

Environment ==
    /\ facade = "running"
    /\ (CancelToken \/ Tick) /\ Outside /\ UNCHANGED writer

Finished ==
    /\ \/ facade \in {"refused", "raised", "answered"}
       \/ facade = "interrupted" /\ owned # "open"
       \/ <<facade, host.goal>> \in {<<"composed", "components">>,
                                    <<"ready", "runner">>, <<"ready", "live">>}
    /\ UNCHANGED baseVars

BaseNext ==
    \/ Compose \/ CreateRunner \/ Execute
    \/ CreateLive \/ PartialCloses \/ CreatorInterrupted
    \/ Execution \/ Return
    \/ Environment \/ Interrupt
    \/ Finished

\* execute runs on once its await completes, as in HarnessRuntime; the close
\* of an HTTP client ends.
BaseFairness ==
    WF_baseVars(Execution) /\ WF_baseVars(Return) /\ WF_baseVars(PartialCloses)

BaseSpec == BaseInit /\ [][BaseNext]_baseVars /\ BaseFairness

-----------------------------------------------------------------------------
(* Properties.                                                             *)

\* What the facade admits, the runtime never finds fault with: no execution
\* of the facade is answered with an invalid harness, nor with a rejected
\* binding, except for the input artifacts, which only the runtime looks at.
AdmittedIsBound ==
    Returned =>
        /\ result.class # "compiled_harness_invalid"
        /\ result.class = "binding_rejected" => Phases[phase] = "inputs"

\* The facade refuses nothing the factory composed itself, when the request
\* is bound to it: the four modules that derive the terminals, capabilities
\* and catalog of the preset agree for every vocabulary.
FactoryIsAdmitted ==
    refusal # None /\ components # None /\ components = composed =>
        request \in Requests(components) \ {Bound(components)}

\* The facade's checks are neither weaker than the runtime's nor stricter
\* than the factory's compositions.
FacadeIsExact == AdmittedIsBound /\ FactoryIsAdmitted

\* The system prompt keeps its limit, footer included, and repeats no file;
\* and whatever was asked for and is not in it, one of the two truncation
\* flags of the metadata tells, and neither is raised for nothing.
Wanted(h) ==
    LET file(candidates) ==
            LET f == FirstReadable(candidates, h.content)
            IN  IF f = Absent THEN <<>> ELSE h.content[f]
        files == Context(h.enabled, h.tree, h.content).files
    IN  <<IF h.system # Absent THEN h.system
          ELSE IF FirstReadable(h.systemFiles, h.content) = Absent
          THEN DefaultPrompt ELSE file(h.systemFiles),
          IF h.append # Absent THEN h.append ELSE file(h.appendFiles),
          [i \in DOMAIN files |-> h.content[files[i]]]>>

PromptIsHonest ==
    composed # None =>
        LET prompt == composed.prompt
            told   == prompt.truncated \/ composed.context.truncated
            append == IF prompt.append = Absent THEN <<>> ELSE prompt.append
            given  == <<prompt.body, append, prompt.texts>>
        IN  /\ ByteCount(prompt, host.footer) <= PromptLimit
            /\ IsInjective(composed.context.files)
            /\ told <=> given # Wanted(host)

\* A live runner that could not be finished leaves no open client, not even
\* when whoever asked for it stops waiting.
PartialIsClosed ==
    owned # None /\ facade \in {"closing", "interrupted", "raised"} ~> owned = "closed"

\* Every execution the facade started is answered.
InvocationEnds == facade = "running" ~> facade = "answered"
=============================================================================
