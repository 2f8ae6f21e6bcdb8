------------------------- MODULE ConnectorAdmission -------------------------
(***************************************************************************)
(* admit_connector_tools of connectors/admission.py, with the contracts of *)
(* connectors/contracts.py: what an operator's manifest and policy make of *)
(* the tools a provider announced.                                         *)
(*                                                                         *)
(* An admission is a record [snapshot, manifest, policy].  A digest is     *)
(* modelled by the value it is computed from, so two digests are equal     *)
(* exactly when the values are; a pinned digest is Absent or such a value.   *)
(* A schema is its form (what validate_json_schema_subset makes of it)     *)
(* with the spelling the provider sent.                                    *)
(***************************************************************************)
EXTENDS Naturals, Sequences, FiniteSets, SequencesExt

CONSTANT Absent    \* an absent value

When(condition, fault) == IF condition THEN {fault} ELSE {}

Mismatch(pinned, actual) == When(pinned # Absent /\ pinned # actual, "hash")

\* Every diagnostic but HASH_MISMATCH stops the selection being lowered.
Blocking(faults) == faults \ {"hash"} # {}

SideEffect(effect) == effect # "read_only"

Approved == {"explicit", "operator"}

Distinct(seq, Field(_)) ==
  \A i, j \in DOMAIN seq : i # j => Field(seq[i]) # Field(seq[j])

(***************************************************************************)
(* The contracts, checked when the three documents are read.               *)
(***************************************************************************)
SelectionValid(s) ==
  /\ s.approval # "forbidden"
  /\ s.outputPolicy = "operator" => s.output # Absent
  /\ SideEffect(s.effect) => s.approval \in Approved
  /\ "unsupported" \notin {s.input, s.output}

ManifestValid(m) ==
  /\ m.selected # <<>>
  /\ \A s \in ToSet(m.selected) : SelectionValid(s)
  /\ Distinct(m.selected, LAMBDA s : s.tool)
  /\ Distinct(m.denied, LAMBDA d : d.tool)
  /\ \A s \in ToSet(m.selected), d \in ToSet(m.denied) : s.tool # d.tool
  /\ Distinct(m.selected, LAMBDA s : s.id)
  /\ Distinct(m.selected, LAMBDA s : s.model)
  /\ Distinct(m.selected, LAMBDA s : s.implementation)

PolicyValid(p) ==
  \A effect \in DOMAIN p.matrix :
     /\ "forbidden" \notin p.matrix[effect]
     /\ SideEffect(effect) => "none" \notin p.matrix[effect]

(***************************************************************************)
(* The checks of the documents against each other, before any tool.        *)
(***************************************************************************)
Names(snapshot) == {t.name : t \in ToSet(snapshot.tools)}

Duplicates(snapshot) ==
  {n \in Names(snapshot) : \E i, j \in DOMAIN snapshot.tools :
     i # j /\ snapshot.tools[i].name = n /\ snapshot.tools[j].name = n}

\* The dictionary of the provider's tools keeps the last of a name.
ToolNamed(snapshot, n) ==
  snapshot.tools[Max({i \in DOMAIN snapshot.tools : snapshot.tools[i].name = n})]

IdentityMatches(expected, identity) ==
  /\ expected.protocol = identity.protocol
  /\ expected.transport = identity.transport
  /\ expected.release = identity.release

\* Evidence with secret material in it has no digest.
Hashable(tool) == tool.description # "secret"

\* Mutant: a tool announced twice is taken for the last one of its name.
GlobalFaultsButRepeats(a) ==
  LET identity == a.snapshot.identity IN
  UNION
    { When(a.manifest.connector # identity.connector, "connector"),
      When(~ IdentityMatches(a.manifest.expected, identity), "identity"),
      Mismatch(a.manifest.identityPin, identity),
      When(identity.protocol \notin a.policy.protocols, "protocol"),
      When(identity.transport \notin a.policy.transports, "transport"),
      IF \A t \in ToSet(a.snapshot.tools) : Hashable(t)
        THEN Mismatch(a.manifest.snapshotPin, a.snapshot)
        ELSE {"secret"} }

GlobalFaults(a) ==
  LET identity == a.snapshot.identity IN
  UNION
    { When(a.manifest.connector # identity.connector, "connector"),
      When(~ IdentityMatches(a.manifest.expected, identity), "identity"),
      Mismatch(a.manifest.identityPin, identity),
      When(identity.protocol \notin a.policy.protocols, "protocol"),
      When(identity.transport \notin a.policy.transports, "transport"),
      When(Duplicates(a.snapshot) # {}, "duplicate"),
      IF \A t \in ToSet(a.snapshot.tools) : Hashable(t)
        THEN Mismatch(a.manifest.snapshotPin, a.snapshot)
        ELSE {"secret"} }

DenialFaults(a) ==
  UNION { When(\/ d.tool \notin Names(a.snapshot)
               \/ d.approval # "forbidden", "denial")
            : d \in ToSet(a.manifest.denied) }

(***************************************************************************)
(* One selected tool.  A lowered part is [faults, value].                  *)
(***************************************************************************)
\* Blanks are collapsed; "padded" exceeds a tight limit only before that.
Tidy(description) ==
  IF description \in {"spaced", "padded"} THEN "plain" ELSE description

TooLong(description, policy) == ~ policy.roomy /\ description = "long"

NeedsOperatorText(description, policy) ==
  \/ ~ policy.roomy /\ description \in {"long", "padded"}
  \/ description = "commanding"

Lowered(faults, value) ==
  [faults |-> faults, value |-> IF faults = {} THEN value ELSE Absent]

AdmittedDescription(s, tool, policy) ==
  IF s.descriptionPolicy = "operator"
    THEN Lowered(When(TooLong(Tidy(s.description), policy), "description"),
                 Tidy(s.description))
  ELSE IF s.descriptionPolicy = "rejected"
    THEN Lowered({"description"}, Absent)
  ELSE Lowered(When(\/ NeedsOperatorText(tool.description, policy)
                    \/ Tidy(tool.description) # s.description, "description"),
               Tidy(tool.description))

\* The provider's own schema, which a schema of the manifest must repeat.
ExactSchema(selected, offered) ==
  Lowered(IF offered.form = "unsupported" THEN {"schema"}
          ELSE Mismatch(selected, offered.form),
          offered.form)

AdmittedInput(s, tool) ==
  IF s.inputPolicy = "overlay"
    THEN Lowered(When(s.input = Absent, "schema"), s.input)
    ELSE ExactSchema(s.input, tool.input)

AdmittedOutput(s, tool) ==
  IF s.outputPolicy = "operator" THEN Lowered({}, s.output)
  ELSE IF tool.output = Absent THEN Lowered({"schema"}, Absent)
  ELSE ExactSchema(s.output, tool.output)

CapabilityFaults(s, policy) ==
  When(s.capabilities = {} \/ ~ s.capabilities \subseteq policy.capabilities,
       "capability")

ApprovalFaults(s, policy) ==
  When(\/ s.effect \notin DOMAIN policy.matrix
       \/ s.approval \notin policy.matrix[s.effect], "approval")

Descriptor(s, description, input, output) ==
  [id |-> s.id, implementation |-> s.implementation, model |-> s.model,
   description |-> description, input |-> input, output |-> output,
   capabilities |-> s.capabilities, artifacts |-> s.artifacts,
   effect |-> s.effect, idempotency |-> s.idempotency]

KeyPolicy(idempotency) ==
  IF idempotency = "with_key" THEN "call_id" ELSE Absent

Record(a, s, tool, descriptor) ==
  [connector |-> a.manifest.connector, tool |-> s.tool,
   identity |-> a.snapshot.identity, snapshot |-> a.snapshot,
   raw |-> tool, input |-> tool.input, output |-> tool.output,
   description |-> tool.description, descriptor |-> descriptor,
   capabilities |-> descriptor.capabilities, effect |-> descriptor.effect,
   idempotency |-> descriptor.idempotency,
   keyPolicy |-> KeyPolicy(descriptor.idempotency), approval |-> s.approval]

\* The descriptor contract refuses a blank description.
DescriptorValid(d) == d.description # "blank"

\* _lower_selection: so far the faults of the whole admission, and the lowered
\* tools; a fault of one tool keeps those after it from being lowered.
LowerSelection(a, sofar, s) ==
  LET tool        == ToolNamed(a.snapshot, s.tool)
      early       == sofar.faults \cup Mismatch(s.rawPin, tool)
      description == AdmittedDescription(s, tool, a.policy)
      input       == AdmittedInput(s, tool)
      output      == AdmittedOutput(s, tool)
      checked     == early \cup description.faults \cup input.faults
                       \cup output.faults \cup CapabilityFaults(s, a.policy)
                       \cup ApprovalFaults(s, a.policy)
      descriptor  == Descriptor(s, description.value, input.value, output.value)
      record      == Record(a, s, tool, descriptor)
      Stopped(faults) == [faults |-> faults, lowered |-> sofar.lowered]
  IN  IF s.tool \notin Names(a.snapshot)
        THEN Stopped(sofar.faults \cup {"missing"})
      ELSE IF Blocking(early) THEN Stopped(early)
      ELSE IF \/ Blocking(checked)
              \/ Absent \in {description.value, input.value, output.value}
        THEN Stopped(checked)
      ELSE IF ~ DescriptorValid(descriptor)
        THEN Stopped(checked \cup {"descriptor"})
      ELSE [faults |-> checked \cup Mismatch(s.descriptorPin, descriptor)
                               \cup Mismatch(s.recordPin, record),
            lowered |-> Append(sofar.lowered,
                               [descriptor |-> descriptor, record |-> record])]

\* sorted, by the tool names of a valid manifest: no two are equal.
InOrder(selected) ==
  [i \in DOMAIN selected |->
     CHOOSE s \in ToSet(selected) :
        Cardinality({t \in ToSet(selected) : t.tool < s.tool}) = i - 1]

FirstFaults(a) == GlobalFaults(a) \cup DenialFaults(a)

\* Where the loop over the selected tools stands after i of them.
Lowering(a) ==
  LET order == InOrder(a.manifest.selected)
      sofar[i \in 0 .. Len(order)] ==
        IF i = 0 THEN [faults |-> FirstFaults(a), lowered |-> <<>>]
        ELSE LowerSelection(a, sofar[i - 1], order[i])
  IN  sofar

Rejected == [accepted |-> FALSE, descriptors |-> <<>>, records |-> <<>>]

Accepted(lowered) ==
  [accepted    |-> TRUE,
   descriptors |-> [i \in DOMAIN lowered |-> lowered[i].descriptor],
   records     |-> [i \in DOMAIN lowered |-> lowered[i].record]]

\* admit_connector_tools.
AdmissionResult(a) ==
  LET last == Lowering(a)[Len(a.manifest.selected)]
  IN  IF \/ ~ ManifestValid(a.manifest) \/ ~ PolicyValid(a.policy)
         \/ Blocking(FirstFaults(a))
         \/ last.faults # {}
        THEN Rejected
        ELSE Accepted(last.lowered)
=============================================================================
