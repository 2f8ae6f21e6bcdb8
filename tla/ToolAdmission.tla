--------------------------- MODULE ToolAdmission ---------------------------
(***************************************************************************)
(* The way of an external tool from an operator's documents to a call:     *)
(* offline admission of connector tools and compilation of custom tools,   *)
(* registration of their descriptors (tools/registry.py), the plan          *)
(* compiled from the frozen registry, the executor built from plan,        *)
(* registry, admission records and broker (tools/execution.py,             *)
(* connectors/runtime.py), and the calls of a session.                     *)
(*                                                                         *)
(* Documents, plan and records are files: they survive a restart, which    *)
(* registry, executor and session do not, and they may meet a registry of  *)
(* another admission.  The provider changes whenever it likes.             *)
(***************************************************************************)
EXTENDS CustomTools

CONSTANTS
  Scenarios,     \* [admissions, sources, snapshots, served, deployed]: what
                 \* operators wrote, what the provider may announce and does
                 \* at first, and whether the tools are put to use or only
                 \* judged (a bound)
  ConnectorIds,  \* the tool ids that start with "connector."
  Stages,        \* the stages a session may run in
  MaxRuns,       \* bound on sessions
  MaxTime        \* bound on the clock

(***************************************************************************)
(* What the contracts of the documents leave open.  Tool names are ordered *)
(* as strings are.                                                         *)
(***************************************************************************)
SelectionTyped(s) ==
  /\ s.tool \in Nat
  /\ s.descriptionPolicy \in {"operator", "rejected", "sanitized"}
  /\ Absent \notin {s.description, Tidy(s.description)}

AnnouncedTyped(t) ==
  t.input.form # Absent /\ (t.output # Absent => t.output.form # Absent)

AdmissionTyped(a) ==
  /\ \A seq \in {a.snapshot.tools, a.manifest.selected, a.manifest.denied} :
        seq \in Seq(ToSet(seq))
  /\ \A t \in ToSet(a.snapshot.tools) : AnnouncedTyped(t)
  /\ \A s \in ToSet(a.manifest.selected) : SelectionTyped(s)
  /\ a.policy.roomy \in BOOLEAN

\* No digest is an absent value.
SourceTyped(c) ==
  /\ c.source.tools \in Seq(ToSet(c.source.tools))
  /\ c.policy.limit \in Nat
  /\ c.policy.roomy \in BOOLEAN /\ c.policy.pinned \in BOOLEAN
  /\ SourceDigest(c.source) # Absent
  /\ \A t \in ToSet(c.source.tools) :
        Absent \notin {Unpinned(t), DeclaredDescriptor(t),
                      CompilationRecord(c.source, t)}

ASSUME DocumentAssumption ==
  /\ \A sc \in Scenarios :
        /\ \A a \in sc.admissions : AdmissionTyped(a)
        /\ \A c \in sc.sources : SourceTyped(c)
  /\ MaxRuns \in Nat /\ MaxTime \in Nat

VARIABLES
  scenario,   \* the documents of this behaviour
  live,       \* what the provider serves now, a snapshot
  admitted,   \* the results of the admissions, as [input, result]
  compiled,   \* the results of the custom tool compilations
  registry,   \* [entries, frozen], the tool registry of the process
  plan,       \* the nodes of the compiled plan, {} before there is one
  executor,   \* Absent or [nodes, records, configured, defective]
  session,    \* Absent or the context of the session's calls
  run,        \* how many sessions were started
  now,        \* the monotonic clock
  entry       \* Absent or the request just handed to broker or implementation

admissionVars == <<scenario, live, admitted, compiled, registry, plan, executor,
          session, run, now, entry>>

Descriptors == UNION {ToSet(r.result.descriptors) : r \in admitted \cup compiled}

Records == UNION {ToSet(r.result.records) : r \in admitted}

IsConnector(d) == d.id \in ConnectorIds

AdmissionInit ==
  /\ scenario \in Scenarios
  /\ live = scenario.served
  /\ admitted = {} /\ compiled = {}
  /\ registry = [entries |-> {}, frozen |-> FALSE]
  /\ plan = {}
  /\ executor = Absent /\ session = Absent
  /\ run = 0 /\ now = 0
  /\ entry = Absent

(***************************************************************************)
(* Offline.  Each document is judged by itself and nothing else can see    *)
(* the order, so all are judged at once.                                   *)
(***************************************************************************)
Judge ==
  /\ admitted = {} /\ compiled = {}
  /\ admitted' = {[input |-> a, result |-> AdmissionResult(a)]
                    : a \in scenario.admissions}
  /\ compiled' = {[input |-> c, result |-> CompilationResult(c.source, c.policy)]
                    : c \in scenario.sources}
  /\ UNCHANGED <<scenario, live, registry, plan, executor, session, run, now,
                 entry>>

(***************************************************************************)
(* A process.  A refused registration raises and changes nothing.          *)
(***************************************************************************)
Register(d) ==
  /\ scenario.deployed
  /\ ~ registry.frozen
  /\ \A other \in registry.entries :
        other.id # d.id /\ other.implementation # d.implementation
  /\ registry' = [registry EXCEPT !.entries = @ \cup {d}]
  /\ entry' = Absent
  /\ UNCHANGED <<scenario, live, admitted, compiled, plan, executor, session,
                 run, now>>

Freeze ==
  /\ ~ registry.frozen /\ registry.entries # {}
  /\ registry' = [registry EXCEPT !.frozen = TRUE]
  /\ entry' = Absent
  /\ UNCHANGED <<scenario, live, admitted, compiled, plan, executor, session,
                 run, now>>

\* A node copies the descriptor it is bound to, whose digest covers all of it;
\* the model names of a plan are unique.  An executor keeps the plan it was
\* built from, so another plan or executor can wait for another process.
CompilePlan ==
  /\ registry.frozen /\ executor = Absent
  /\ \E nodes \in SUBSET registry.entries \ {{}} :
        /\ \A m, n \in nodes : m # n => m.model # n.model
        /\ plan' = nodes
  /\ entry' = Absent
  /\ UNCHANGED <<scenario, live, admitted, compiled, registry, executor,
                 session, run, now>>

\* The admission snapshot takes a record only for a registered descriptor of
\* the connector namespace, once, and only if the two agree.
RecordBinds(record, records) ==
  LET d == record.descriptor IN
  /\ d \in registry.entries
  /\ IsConnector(d)
  /\ \A other \in records : other.descriptor = d => other = record
  /\ record.capabilities = d.capabilities
  /\ record.effect = d.effect
  /\ record.idempotency = d.idempotency
  /\ record.keyPolicy = KeyPolicy(d.idempotency)

\* Every connector node must have the record of its very descriptor.
NodeIsCovered(node, records) ==
  IsConnector(node) =>
    \E record \in records :
       /\ record.descriptor = node
       /\ record.effect = node.effect
       /\ record.idempotency = node.idempotency

\* _node_binding_defect: such a node is kept, and every call of it denied.
Defective(node, implementations) ==
  \/ node \notin registry.entries
  \/ ~ IsConnector(node) /\ node.implementation \notin implementations

\* The broker quotes the discovery snapshot it was configured with.
BuildExecutor ==
  /\ registry.frozen /\ plan # {} /\ executor = Absent
  /\ \E records \in SUBSET Records, configured \in scenario.snapshots,
       implementations \in
         {{}, {d.implementation : d \in registry.entries}} :
        /\ \A record \in records : RecordBinds(record, records)
        /\ \A node \in plan : NodeIsCovered(node, records)
        /\ executor' =
             [nodes |-> plan, records |-> records, configured |-> configured,
              defective |-> {n \in plan : Defective(n, implementations)}]
  /\ entry' = Absent
  /\ UNCHANGED <<scenario, live, admitted, compiled, registry, plan, session,
                 run, now>>

(***************************************************************************)
(* The surroundings of a process.                                          *)
(***************************************************************************)
Restart ==
  /\ registry.entries # {}
  /\ registry' = [entries |-> {}, frozen |-> FALSE]
  /\ executor' = Absent /\ session' = Absent /\ entry' = Absent
  /\ UNCHANGED <<scenario, live, admitted, compiled, plan, run, now>>

\* It matters to calls only, so it may wait for a session.
Drift ==
  /\ session # Absent
  /\ \E s \in scenario.snapshots \ {live} : live' = s
  /\ entry' = Absent
  /\ UNCHANGED <<scenario, admitted, compiled, registry, plan, executor,
                 session, run, now>>

Tick ==
  /\ session # Absent /\ now < MaxTime
  /\ now' = now + 1
  /\ entry' = Absent
  /\ UNCHANGED <<scenario, live, admitted, compiled, registry, plan, executor,
                 session, run>>

(***************************************************************************)
(* A session.  Its context, with the grants of its caller, is fixed when   *)
(* it starts; a grant may be meant for any record, run and stage.          *)
(***************************************************************************)
Grants ==
  {[connector |-> r.connector, tool |-> r.tool, descriptor |-> r.descriptor,
    run |-> n, stage |-> s, policy |-> "explicit", expires |-> t]
     : r \in {q \in Records : q.approval = "explicit"},
       n \in 0 .. MaxRuns, s \in Stages, t \in 1 .. MaxTime}

StartSession ==
  /\ executor # Absent /\ session = Absent /\ run < MaxRuns
  /\ run' = run + 1
  /\ \E stage \in Stages, granted \in {{}} \cup {{g} : g \in Grants},
       capabilities \in {{}, UNION {n.capabilities : n \in executor.nodes}} :
        session' = [run |-> run', stage |-> stage, grants |-> granted,
                    capabilities |-> capabilities, started |-> now]
  /\ entry' = Absent
  /\ UNCHANGED <<scenario, live, admitted, compiled, registry, plan, executor,
                 now>>

EndSession ==
  /\ session # Absent
  /\ session' = Absent /\ entry' = Absent
  /\ UNCHANGED <<scenario, live, admitted, compiled, registry, plan, executor,
                 run, now>>

\* Each call gets the context of its session with the time of the call.
CallTime == now

GrantCovers(grant, record, node) ==
  /\ grant.connector = record.connector
  /\ grant.tool = record.tool
  /\ grant.descriptor = node
  /\ grant.run = session.run
  /\ grant.stage = session.stage
  /\ grant.policy = record.approval
  /\ grant.expires > CallTime

\* "operator" is decided out of band, and stays pending here.
ApprovalGiven(record, node) ==
  \/ record.approval = "none"
  \/ /\ record.approval = "explicit"
     /\ \E grant \in session.grants : GrantCovers(grant, record, node)

\* Mutant: the parts of a tool that a descriptor repeats, not the whole of it.
PartsUndrifted(record) ==
  LET tool == ToolNamed(live, record.tool) IN
  /\ record.tool \in Names(live)
  /\ live.identity = record.identity
  /\ executor.configured = record.snapshot
  /\ tool.input = record.input
  /\ record.output # Absent => tool.output = record.output
  /\ tool.description = record.description

\* What the broker says of its provider now, against the admission record.
Undrifted(record) ==
  LET tool == ToolNamed(live, record.tool) IN
  /\ record.capabilities = record.descriptor.capabilities
  /\ record.tool \in Names(live)
  /\ live.identity = record.identity
  /\ executor.configured = record.snapshot
  /\ tool = record.raw
  /\ tool.input = record.input
  /\ record.output # Absent => tool.output = record.output
  /\ tool.description = record.description

\* Preflight, for a node without a defect.
MayCall(node) ==
  /\ session # Absent
  /\ node \notin executor.defective
  /\ node.capabilities \subseteq session.capabilities

CallConnector(node) ==
  /\ MayCall(node) /\ IsConnector(node)
  /\ \E record \in executor.records :
        /\ record.descriptor = node
        /\ ApprovalGiven(record, node)
        /\ Undrifted(record)
        /\ entry' = [node |-> node, record |-> record]
  /\ UNCHANGED <<scenario, live, admitted, compiled, registry, plan, executor,
                 session, run, now>>

CallLocal(node) ==
  /\ MayCall(node) /\ ~ IsConnector(node)
  /\ entry' = [node |-> node, record |-> Absent]
  /\ UNCHANGED <<scenario, live, admitted, compiled, registry, plan, executor,
                 session, run, now>>

AdmissionNext ==
  \/ Judge
  \/ \E d \in Descriptors : Register(d)
  \/ Freeze \/ CompilePlan \/ BuildExecutor
  \/ Restart \/ Drift \/ Tick
  \/ StartSession \/ EndSession
  \/ \E node \in IF executor = Absent THEN {} ELSE executor.nodes :
        CallConnector(node) \/ CallLocal(node)

AdmissionSpec == AdmissionInit /\ [][AdmissionNext]_admissionVars
(***************************************************************************)
(* Properties.                                                             *)
(***************************************************************************)
\* The text an operator answers for: their own, or the provider's which they
\* repeated word for word and which neither is too long nor gives orders.
ReviewedText(s, tool, policy) ==
  IF s.descriptionPolicy = "operator" THEN Tidy(s.description)
  ELSE IF /\ s.descriptionPolicy = "sanitized"
          /\ tool.description \notin {"commanding", "secret"}
          /\ tool.description \in {"long", "padded"} => policy.roomy
          /\ s.description = Tidy(tool.description)
       THEN s.description
       ELSE Absent

ReviewedInput(s, tool) ==
  IF s.inputPolicy = "overlay" THEN s.input
  ELSE IF s.input \in {Absent, tool.input.form} THEN tool.input.form
  ELSE Absent

ReviewedOutput(s, tool) ==
  IF s.outputPolicy = "operator" THEN s.output
  ELSE IF tool.output = Absent THEN Absent
  ELSE IF s.output \in {Absent, tool.output.form} THEN tool.output.form
  ELSE Absent

\* A reviewer can answer for all that the model would be told of the tool.
Answerable(s, tool, policy) ==
  LET text   == ReviewedText(s, tool, policy)
      input  == ReviewedInput(s, tool)
      output == ReviewedOutput(s, tool)
  IN  /\ Absent \notin {text, input, output}
      /\ text # "blank" /\ "unsupported" \notin {input, output}
      /\ text = "long" => policy.roomy

\* The descriptor a reviewer of selection s expects.
Expected(s, tool, policy) ==
  Descriptor(s, ReviewedText(s, tool, policy), ReviewedInput(s, tool),
             ReviewedOutput(s, tool))

Pinned(pin, actual) == pin \in {Absent, actual}

SelectionSound(a, s) ==
  \E tool \in ToSet(a.snapshot.tools) :
     LET d == Expected(s, tool, a.policy) IN
     /\ tool.name = s.tool
     /\ \A other \in ToSet(a.manifest.denied) : other.tool # s.tool
     /\ Answerable(s, tool, a.policy)
     /\ s.capabilities # {} /\ s.capabilities \subseteq a.policy.capabilities
     /\ s.effect \in DOMAIN a.policy.matrix
     /\ s.approval \in a.policy.matrix[s.effect] \ {"forbidden"}
     /\ s.approval = "none" => s.effect = "read_only"
     /\ Pinned(s.rawPin, tool)
     /\ Pinned(s.descriptorPin, d)
     /\ Pinned(s.recordPin, Record(a, s, tool, d))

Sound(a) ==
  /\ ManifestValid(a.manifest) /\ PolicyValid(a.policy)
  /\ a.manifest.connector = a.snapshot.identity.connector
  /\ IdentityMatches(a.manifest.expected, a.snapshot.identity)
  /\ Pinned(a.manifest.identityPin, a.snapshot.identity)
  /\ Pinned(a.manifest.snapshotPin, a.snapshot)
  /\ a.snapshot.identity.protocol \in a.policy.protocols
  /\ a.snapshot.identity.transport \in a.policy.transports
  /\ Len(a.snapshot.tools) = Cardinality(Names(a.snapshot))
  /\ \A t \in ToSet(a.snapshot.tools) : t.description # "secret"
  /\ \A d \in ToSet(a.manifest.denied) :
        d.approval = "forbidden" /\ d.tool \in Names(a.snapshot)
  /\ \A s \in ToSet(a.manifest.selected) : SelectionSound(a, s)

SourceSound(source, policy) ==
  /\ ~ Hazardous(source) /\ SourceValid(source) /\ PolicyValid(policy)
  /\ Len(source.tools) <= policy.limit
  /\ \A i, j \in DOMAIN source.tools :
        i # j => source.tools[i].artifacts \cap source.tools[j].artifacts = {}
  /\ \A t \in ToSet(source.tools) :
        LET pins == <<t.declarationPin, t.descriptorPin, t.recordPin,
                      source.sourcePin>>
            actual == <<Unpinned(t), DeclaredDescriptor(t),
                        CompilationRecord(source, t), SourceDigest(source)>>
        IN  /\ \A i \in 1 .. 4 : IF policy.pinned THEN pins[i] = actual[i]
                                  ELSE Pinned(pins[i], actual[i])
            /\ t.capabilities \subseteq policy.capabilities
            /\ t.effect \in DOMAIN policy.matrix
            /\ t.approval \in policy.matrix[t.effect]
            /\ t.approval = "none" => t.effect = "read_only" /\ t.artifacts = {}
            /\ policy.roomy \/ "big" \notin {t.input, t.output}
            /\ policy.roomy \/ t.description # "long"

\* Documents are accepted exactly when nothing is wrong with them as a whole,
\* whatever the order of the checks, the ones skipped after a fault, and the
\* tools judged before and after; and then every selected tool, and no other,
\* has the descriptor its reviewer expects and a record of what was announced
\* under that one name (admission.py 107-339, custom_tools/compiler.py 129-279).
AdmissionExact ==
  /\ \A r \in admitted :
        LET a == r.input IN
        /\ r.result.accepted <=> Sound(a)
        /\ r.result.accepted =>
             /\ ToSet(r.result.descriptors) =
                  {Expected(s, ToolNamed(a.snapshot, s.tool), a.policy)
                     : s \in ToSet(a.manifest.selected)}
             /\ [i \in DOMAIN r.result.records |->
                   r.result.records[i].descriptor] = r.result.descriptors
             /\ \A record \in ToSet(r.result.records) :
                   \E s \in ToSet(a.manifest.selected) :
                      LET tool == ToolNamed(a.snapshot, s.tool) IN
                      record = Record(a, s, tool, Expected(s, tool, a.policy))
        /\ ~ r.result.accepted => r.result = Rejected
  /\ \A r \in compiled :
        LET source == r.input.source IN
        /\ r.result.accepted <=> SourceSound(source, r.input.policy)
        /\ ToSet(r.result.descriptors) =
             IF r.result.accepted
               THEN {DeclaredDescriptor(t) : t \in ToSet(source.tools)}
               ELSE {}

\* Whatever was re-admitted, re-registered, re-compiled, restarted or changed
\* at the provider since: a request reaches the broker only for a tool some
\* accepted manifest selected, under the descriptor the process registered,
\* while provider and tool are still the ones of that very admission, down to
\* the annotations no descriptor carries; and a local implementation runs only
\* under the descriptor registered now (execution.py 306, 521).
EntryIsAdmitted ==
  entry # Absent =>
    /\ entry.node \in registry.entries
    /\ entry.node.capabilities \subseteq session.capabilities
    /\ entry.record # Absent =>
         \E r \in admitted : \E s \in ToSet(r.input.manifest.selected) :
           LET a == r.input IN
           /\ entry.record \in ToSet(r.result.records)
           /\ entry.node \in ToSet(r.result.descriptors)
           /\ s.id = entry.node.id
           /\ live.identity = a.snapshot.identity
           /\ ToolNamed(live, s.tool) = ToolNamed(a.snapshot, s.tool)

\* A connector tool with a side effect is entered only under a grant that
\* names this descriptor, this run and this stage and has not expired now,
\* though manifest, matrix, record and grant each hold a part of that
\* (contracts.py 525, 749, execution.py 1088).
ApprovalIsInForce ==
  entry # Absent /\ entry.record # Absent =>
    \/ /\ entry.node.effect = "read_only"
       /\ \E r \in admitted : \E s \in ToSet(r.input.manifest.selected) :
            s.id = entry.node.id /\ s.approval = "none"
    \/ \E grant \in session.grants :
          /\ grant.descriptor = entry.node
          /\ grant.run = run /\ grant.stage = session.stage
          /\ now < grant.expires

\* Nothing enters an implementation on a licence that was only once valid:
\* neither the admission behind the entry nor the approval of its effect.
EntryIsLicensed == EntryIsAdmitted /\ ApprovalIsInForce
=============================================================================
