--------------------------- MODULE HarnessCompiler ---------------------------
(***************************************************************************)
(* One call of the harness compiler, from the source file to a session on  *)
(* the plan: request admission (SourceAdmission), the parser, the semantic *)
(* checks (HarnessGraph), lowering and the plan's own invariants           *)
(* (lowering.py, compiled_plan.py), then what the runtime makes of the     *)
(* plan: ForgeWorkflowFactory.build and the order in which ForgeToolBridge *)
(* lets nodes succeed.  Publication of the plan is module PlanPublication, *)
(* the session itself GuardedSession.                                      *)
(***************************************************************************)
EXTENDS HarnessGraph, SourceAdmission

CONSTANTS
    Sources,      \* documents the parser can return, records of HarnessGraph
    Values        \* abstract values of an argument

VARIABLES
    source,       \* the parsed source
    diagnostics,  \* of the phase that refused
    plan,         \* the compiled plan
    owned         \* ForgeToolBridge._owned_successes: node -> arguments

compileVars == <<source, diagnostics, plan, owned>>
vars == <<admissionVars, compileVars>>

Refuse(refusal, codes) == phase' = refusal /\ diagnostics' = codes
Refused == {"request failed", "parse failed", "schema failed",
            "semantic failed", "lowering failed", "session rejected"}

Init ==
    /\ AdmissionInit
    /\ source = None /\ diagnostics = {} /\ plan = None /\ owned = None

Admit == AdmissionNext /\ UNCHANGED compileVars

-----------------------------------------------------------------------------
(* From the document to the plan.                                          *)

\* What was read is the parser's, which may return any of the sources.
Forget == seen' = Unread /\ UNCHANGED <<disk, plan, owned>>

\* HarnessSourceParser.parse
Parse ==
    /\ phase = "parse" /\ Forget
    /\ \/ Refuse("parse failed", {}) /\ UNCHANGED source
       \/ \E s \in Sources :
            source' = s /\ phase' = "check" /\ UNCHANGED diagnostics

\* compile_harness_source_in_memory: a validated source, no file
CompileInMemory ==
    /\ phase = "request" /\ disk = Quiet /\ Forget
    /\ \E s \in Sources : source' = s /\ phase' = "check" /\ UNCHANGED diagnostics

\* _cross_field_diagnostics and _secret_scalar_diagnostics
CrossFieldDiagnostics(s) ==
    LET results == {s.result[t] : t \in TerminalNodes(s)}
    IN  (IF s.fits THEN {} ELSE {Diag("MF-S027", 0)})
          \cup (IF /\ Cardinality(results) = Cardinality(TerminalNodes(s))
                   /\ results = s.legal
                   /\ DOMAIN s.needs \subseteq results
                  THEN {} ELSE {Diag("MF-S029", 0)})
          \cup (IF s.secret THEN {Diag("MF-S026", 0)} ELSE {})

CheckSource ==
    /\ phase = "check" /\ UNCHANGED <<disk, seen, source, plan, owned>>
    /\ LET found == CrossFieldDiagnostics(source) IN
       IF found = {} THEN phase' = "semantic" /\ UNCHANGED diagnostics
       ELSE Refuse("schema failed", found)

CompileSemantic ==
    /\ phase = "semantic" /\ UNCHANGED <<disk, seen, source, plan, owned>>
    /\ LET found == SemanticDiagnostics(source) IN
       IF found = {} THEN phase' = "lower" /\ UNCHANGED diagnostics
       ELSE Refuse("semantic failed", found)

\* lower_resolved_harness: the artifacts of a node are its tool's, not the
\* ones the source says it produces.
PlanOf(s) ==
    [nodes |-> s.nodes, prereqs |-> [n \in s.nodes |-> Range(s.prereqs[n])],
     required |-> RequiredNodes(s), result |-> s.result,
     arguments |-> [n \in s.nodes |-> Descriptor(s, n).required],
     artifacts |-> [n \in s.nodes |-> Descriptor(s, n).artifacts],
     declared |-> s.declared, needs |-> s.needs]

\* CompiledHarnessPlan.validate_plan_invariants
PlanTerminals(p) == {n \in p.nodes : p.result[n] # None}
PlanIsValid(p) ==
    /\ PlanTerminals(p) # {}
    /\ p.required \cap PlanTerminals(p) = {}
    /\ \A n \in p.nodes : \A q \in p.prereqs[n] : q.node \in p.nodes \ {n}
    /\ \A n \in p.nodes : p.artifacts[n] \subseteq p.declared
    /\ \A r \in DOMAIN p.needs :
         /\ \E t \in PlanTerminals(p) : p.result[t] = r
         /\ p.needs[r] \subseteq p.declared \cap UNION {p.artifacts[n] : n \in p.nodes}

Lower ==
    /\ phase = "lower" /\ UNCHANGED <<disk, seen, source, owned>>
    /\ IF PlanIsValid(PlanOf(source))
         THEN plan' = PlanOf(source) /\ phase' = "compiled" /\ UNCHANGED diagnostics
         ELSE Refuse("lowering failed", {Diag("MF-L002", 0)}) /\ UNCHANGED plan

-----------------------------------------------------------------------------
(* The runtime's view of the plan.                                         *)

\* _translate_prerequisite refuses a second argument match.
Translatable(p) == \A n \in p.nodes : \A q \in p.prereqs[n] : Cardinality(q.matches) < 2

StartSession ==
    /\ phase = "compiled" /\ UNCHANGED <<disk, seen, source, plan>>
    /\ IF Translatable(plan)
         THEN /\ owned' = [n \in plan.nodes |-> None]
              /\ phase' = "session" /\ UNCHANGED diagnostics
         ELSE Refuse("session rejected", {}) /\ UNCHANGED owned

Arguments(n) == [plan.arguments[n] -> Values]

\* _prerequisite_decisions: the last success of each prerequisite, with
\* equal arguments.  StepEnforcer: a terminal waits for the required steps.
Allowed(o, n, args) ==
    /\ \A q \in plan.prereqs[n] :
         /\ o[q.node] # None
         /\ \A m \in q.matches : o[q.node][m.prior] = args[m.current]
    /\ n \in PlanTerminals(plan) => \A r \in plan.required : o[r] # None

\* _accept_terminal_candidate: the artifacts of what has succeeded suffice,
\* when every tool returns all the artifacts of its descriptor.
HasArtifacts(o, t) ==
    plan.result[t] \in DOMAIN plan.needs =>
        plan.needs[plan.result[t]] \subseteq
            UNION {plan.artifacts[n] : n \in {n \in plan.nodes : n = t \/ o[n] # None}}

Call(n, args) ==
    /\ phase = "session" /\ Allowed(owned, n, args)
    /\ IF n \in PlanTerminals(plan)
         THEN HasArtifacts(owned, n) /\ phase' = "done" /\ UNCHANGED owned
         ELSE owned' = [owned EXCEPT ![n] = args] /\ UNCHANGED phase
    /\ UNCHANGED <<disk, seen, source, diagnostics, plan>>

Ended == phase \in Refused \cup {"done"} /\ UNCHANGED vars

Next ==
    \/ Admit
    \/ Parse \/ CompileInMemory \/ CheckSource \/ CompileSemantic \/ Lower
    \/ StartSession
    \/ phase = "session" /\ \E n \in DOMAIN owned : \E args \in Arguments(n) : Call(n, args)
    \/ Ended

Spec == Init /\ [][Next]_vars

-----------------------------------------------------------------------------
(* What the compiler promises.                                             *)

\* The pairs <<n, u>> with a path of valid prerequisites from n to u, found
\* by allowing one more node on the way at a time.
Paths(s) ==
    LET Through(R, k) == R \cup ({n \in s.nodes : <<n, k>> \in R}
                                    \X {u \in s.nodes : <<k, u>> \in R})
    IN  FoldLeft(Through, Edges(s) \ InvalidEdges(s), InOrder(s.nodes))

\* graph.py:338-379: Tarjan's bookkeeping finds exactly the strongly
\* connected components of more than one node, for every graph.
CyclesExact ==
    phase = "semantic" =>
        LET paths == Paths(source)
            Mutual(n) == {m \in source.nodes : m = n \/ {<<n, m>>, <<m, n>>} \subseteq paths}
        IN  CycleComponents(ValidAdjacency(source)) =
                {Mutual(n) : n \in {n \in source.nodes : Cardinality(Mutual(n)) > 1}}

\* What the documents ask of a source (README.md:369-375), said without the
\* compiler's passes, its order of checks or its suppression of reports.
BindingsSound(s) ==
    /\ s.catalogs = "usable" /\ s.profile = "found"
    /\ \A n \in s.nodes :
         /\ Descriptor(s, n).lookup = "found"
         /\ Descriptor(s, n).capabilities \subseteq Grants
         /\ s.produces[n] \subseteq s.declared \cap Descriptor(s, n).artifacts
         /\ \A m \in s.nodes \ {n} : Descriptor(s, m).name # Descriptor(s, n).name
    /\ \A n \in s.nodes : \A i \in DOMAIN s.prereqs[n] :
         \A m \in s.prereqs[n][i].matches :
            Compatible(m, Descriptor(s, s.prereqs[n][i].node), Descriptor(s, n))

GraphSound(s) ==
    LET paths == Paths(s) IN
    /\ InvalidEdges(s) = {}
    /\ \A n \in s.nodes : <<n, n>> \notin paths
    /\ \A t \in TerminalNodes(s) : ~s.required[t] /\ \A n \in RequiredNodes(s) : <<t, n>> \in paths
    /\ \A t \in TerminalNodes(s) : s.result[t] \in DOMAIN s.needs =>
         \A a \in s.needs[s.result[t]] : \E n \in s.nodes : <<t, n>> \in paths /\ a \in s.produces[n]

\* semantic.py:138-225, graph.py:78-280: no pass hides the only fault behind
\* another and none invents one, so a source is refused exactly when it is
\* unsound; lowering refuses none of the others, except for an artifact that
\* a tool's descriptor lists and the source does not declare.
AcceptedIffSound ==
    /\ phase = "lower" => GraphSound(source) /\ BindingsSound(source)
    /\ phase = "semantic failed" =>
         ~(/\ RefDiagnostics(source) = {} /\ InvalidEdges(source) = {}
           /\ GraphSound(source) /\ BindingsSound(source))
    /\ phase = "lowering failed" =>
         \E n \in source.nodes : ~(Descriptor(source, n).artifacts \subseteq source.declared)

\* The states of _owned_successes that calls of the model can lead to.
Onward(o) == {[o EXCEPT ![c[1]] = c[2]] :
                 c \in UNION {{n} \X {args \in Arguments(n) : Allowed(o, n, args)} :
                                 n \in plan.nodes \ PlanTerminals(plan)}}
RECURSIVE Futures(_)
Futures(reached) ==
    LET more == reached \cup UNION {Onward(o) : o \in reached}
    IN  IF more = reached THEN reached ELSE Futures(more)

\* graph.py:78-280 and semantic.py against _forge/adapter.py:1613-1650: in
\* every session on an accepted plan, whatever has been called so far, each
\* legal terminal result can still be reached.
TerminalsStayReachable ==
    phase = "session" =>
        \A r \in source.legal : \E t \in PlanTerminals(plan) :
            /\ plan.result[t] = r
            /\ \E o \in Futures({owned}) : \E args \in Arguments(t) :
                  Allowed(o, t, args) /\ HasArtifacts(o, t)

\* artifact_validation.py:160-206: when the prerequisites and the required
\* steps let a terminal run, the producers of its artifacts have succeeded.
ArtifactsReady ==
    phase = "session" =>
        \A t \in PlanTerminals(plan) : \A args \in Arguments(t) :
            Allowed(owned, t, args) => HasArtifacts(owned, t)

\* What the compiler's graph analysis promises of an accepted plan is what
\* the session enforces: no session on it can get stuck before a terminal,
\* or reach one whose artifacts nothing has produced.
SessionsCanEnd == TerminalsStayReachable /\ ArtifactsReady
=============================================================================
