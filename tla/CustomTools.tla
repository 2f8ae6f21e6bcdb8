----------------------------- MODULE CustomTools -----------------------------
(***************************************************************************)
(* compile_custom_tools of custom_tools/compiler.py with the contracts of  *)
(* custom_tools/contracts.py: contract-only tools declared in a source     *)
(* manifest.  Digests are modelled as in ConnectorAdmission, whose          *)
(* descriptors these tools share.                                          *)
(***************************************************************************)
EXTENDS ConnectorAdmission

(***************************************************************************)
(* The raw scan, before anything is validated: executable or secret        *)
(* material anywhere, a runtime that would execute, a description that     *)
(* gives the model orders.                                                 *)
(***************************************************************************)
Hazardous(source) ==
  \E t \in ToSet(source.tools) :
     \/ t.material
     \/ t.kind # "contract_only"
     \/ t.description = "commanding"

DeclarationValid(t) ==
  /\ t.approval # "forbidden"
  /\ SideEffect(t.effect) => t.approval \in Approved
  /\ SideEffect(t.effect) \/ t.artifacts # {} => t.capabilities # {}
  /\ t.description # "blank"
  /\ "unsupported" \notin {t.input, t.output}

SourceValid(source) ==
  /\ source.tools # <<>>
  /\ \A t \in ToSet(source.tools) : DeclarationValid(t)
  /\ Distinct(source.tools, LAMBDA t : t.id)
  /\ Distinct(source.tools, LAMBDA t : t.model)
  /\ Distinct(source.tools, LAMBDA t : t.implementation)

\* What a digest of a declaration or of a source covers: not the pins.
Unpinned(t) ==
  [t EXCEPT !.declarationPin = Absent, !.descriptorPin = Absent, !.recordPin = Absent]

SourceDigest(source) ==
  [package |-> source.package,
   tools   |-> {Unpinned(t) : t \in ToSet(source.tools)}]

\* A pin must be right, and there when the policy asks for pins.
PinFaults(pinned, actual, policy) ==
  Mismatch(pinned, actual) \cup When(policy.pinned /\ pinned = Absent, "hash")

SourceFaults(source, policy) ==
  UNION
    { When(Len(source.tools) > policy.limit, "limit"),
      PinFaults(source.sourcePin, SourceDigest(source), policy),
      When(\E i, j \in DOMAIN source.tools :
             /\ i # j
             /\ source.tools[i].artifacts \cap source.tools[j].artifacts # {},
           "artifact") }

DeclaredDescriptor(t) == Descriptor(t, t.description, t.input, t.output)

CompilationRecord(source, t) ==
  [package |-> source.package, source |-> SourceDigest(source),
   declaration |-> Unpinned(t), descriptor |-> DeclaredDescriptor(t),
   approval |-> t.approval]

DeclarationFaults(source, policy, t) ==
  UNION
    { When(TooLong(t.description, policy), "limit"),
      When("big" \in {t.input, t.output} /\ ~ policy.roomy, "schema"),
      When(~ t.capabilities \subseteq policy.capabilities, "capability"),
      ApprovalFaults(t, policy),
      When(t.artifacts # {} /\ t.approval = "none", "approval"),
      PinFaults(t.declarationPin, Unpinned(t), policy),
      PinFaults(t.descriptorPin, DeclaredDescriptor(t), policy),
      PinFaults(t.recordPin, CompilationRecord(source, t), policy) }

\* _lower_declaration: after the first fault nothing is lowered any more, and
\* what was lowered before it is dropped with the rest.
LowerDeclaration(source, policy, sofar, t) ==
  LET faults == sofar.faults \cup DeclarationFaults(source, policy, t) IN
  [faults  |-> faults,
   lowered |-> IF faults # {} THEN sofar.lowered
               ELSE Append(sofar.lowered,
                           [descriptor |-> DeclaredDescriptor(t),
                            record |-> CompilationRecord(source, t)])]

\* Where the loop over the declarations stands after i of them.
Compiling(source, policy) ==
  LET sofar[i \in 0 .. Len(source.tools)] ==
        IF i = 0 THEN [faults |-> SourceFaults(source, policy), lowered |-> <<>>]
        ELSE LowerDeclaration(source, policy, sofar[i - 1], source.tools[i])
  IN  sofar

\* compile_custom_tools.
CompilationResult(source, policy) ==
  LET last == Compiling(source, policy)[Len(source.tools)]
  IN  IF \/ Hazardous(source)
         \/ ~ SourceValid(source) \/ ~ PolicyValid(policy)
         \/ last.faults # {}
        THEN Rejected
        ELSE Accepted(last.lowered)
=============================================================================
