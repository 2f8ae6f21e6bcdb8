---------------------------- MODULE HarnessGraph ----------------------------
(***************************************************************************)
(* The semantic checks of the harness compiler: compile_semantic of        *)
(* compiler/semantic.py with graph.py, capabilities.py and                 *)
(* artifact_validation.py, as operators on a parsed source.                *)
(*                                                                         *)
(* A source is a record                                                    *)
(*   nodes     the node ids, naturals in the order of the sorted ids       *)
(*   tool      node -> exact tool reference                                *)
(*   prereqs   node -> sequence of [node, matches], matches a set of       *)
(*             [prior, current] argument pairs                             *)
(*   required, result, produces   node -> the field of that name           *)
(*   declared  declared artifact ids                                       *)
(*   needs     terminal result -> the artifacts it requires                *)
(*   profile   what the model profile lookup answers                       *)
(*   catalogs  whether the snapshots passed in are usable catalogs         *)
(*   legal     the terminal results the request allows                     *)
(*   fits, secret   harness id and stage match the request; a scalar of    *)
(*             the source looks like a secret                              *)
(* A diagnostic is its code and the node it is about (0 for none).         *)
(***************************************************************************)
EXTENDS Integers, Sequences, FiniteSets, SequencesExt

CONSTANTS
    Catalog,        \* tool reference -> [lookup, name, props, required,
                    \*   schema, capabilities, artifacts]
    Grants,         \* capability ids of the request's envelope
    None            \* "no value"

Diag(code, n) == [code |-> code, node |-> n]
Less(a, b) == a < b
InOrder(S) == SetToSortSeq(S, Less)
Descriptor(s, n) == Catalog[s.tool[n]]

-----------------------------------------------------------------------------
(* graph.py: edges, written <<dependent, prerequisite>>.                   *)

Edges(s) ==
    UNION {{<<n, s.prereqs[n][i].node>> : i \in DOMAIN s.prereqs[n]} : n \in s.nodes}
DuplicateEdges(s) ==
    {e \in Edges(s) : Cardinality({i \in DOMAIN s.prereqs[e[1]] :
                                      s.prereqs[e[1]][i].node = e[2]}) > 1}
UnknownEdges(s) == {e \in Edges(s) : e[2] \notin s.nodes}
SelfEdges(s) == {e \in Edges(s) : e[1] = e[2]}
\* Mutant: a terminal may be a prerequisite.
NoTerminalEdges(s) == {}
TerminalEdges(s) ==
    {e \in Edges(s) : e[2] \in s.nodes /\ s.result[e[2]] # None}
InvalidEdges(s) ==
    DuplicateEdges(s) \cup UnknownEdges(s) \cup SelfEdges(s) \cup TerminalEdges(s)
BadNodes(s) == {e[1] : e \in InvalidEdges(s)}

\* prerequisite -> its dependents, over the valid edges, and the reverse
ValidAdjacency(s) ==
    LET valid == Edges(s) \ InvalidEdges(s)
    IN  [p \in s.nodes |-> {n \in s.nodes : <<n, p>> \in valid}]
ReverseAdjacency(s) ==
    LET adjacency == ValidAdjacency(s)
    IN  [n \in s.nodes |-> {p \in s.nodes : n \in adjacency[p]}]

-----------------------------------------------------------------------------
(* _cycle_components: Tarjan's algorithm, one record for its local state.  *)

Lowered(t, n, to) == [t EXCEPT !.low[n] = IF to < @ THEN to ELSE @]

\* The members popped down to the root of the component.
PopTo(stack, n) == LET at == CHOOSE i \in DOMAIN stack : stack[i] = n
                   IN  SubSeq(stack, at, Len(stack))

\* Mutant: a node already left its component still lowers the link.
LowersAlways(t, d) == TRUE
OnStack(t, d) == d \in Range(t.stack)

RECURSIVE Visit(_, _, _)
Visit(t, n, adjacency) ==
    LET entered == [t EXCEPT !.index = @ + 1, !.stack = Append(@, n),
                             !.indices[n] = t.index, !.low[n] = t.index]
        Follow(u, d) ==
            IF u.indices[d] = None
              THEN LET v == Visit(u, d, adjacency) IN Lowered(v, n, v.low[d])
              ELSE IF OnStack(u, d) THEN Lowered(u, n, u.indices[d]) ELSE u
        left == FoldLeft(Follow, entered, InOrder(adjacency[n]))
        members == PopTo(left.stack, n)
    IN  IF left.low[n] # left.indices[n] THEN left
        ELSE [left EXCEPT
                !.stack = SubSeq(@, 1, Len(@) - Len(members)),
                !.components = @ \cup (IF Len(members) > 1 THEN {Range(members)} ELSE {})]

CycleComponents(adjacency) ==
    LET ids == DOMAIN adjacency
        start == [index |-> 0, stack |-> <<>>, components |-> {},
                  indices |-> [n \in ids |-> None], low |-> [n \in ids |-> 0]]
        Root(t, n) == IF t.indices[n] = None THEN Visit(t, n, adjacency) ELSE t
    IN  FoldLeft(Root, start, InOrder(ids)).components

CycleNodes(s) == UNION CycleComponents(ValidAdjacency(s))

-----------------------------------------------------------------------------
(* graph.py: what can be reached, and what a terminal waits for.           *)

\* _satisfiable_nodes
RECURSIVE Satisfiable(_, _, _)
Satisfiable(n, reverse, dead) ==
    /\ n \notin dead
    /\ \A p \in reverse[n] : Satisfiable(p, reverse, dead)

SatisfiableNodes(s) ==
    LET reverse == ReverseAdjacency(s)
        dead == CycleNodes(s) \cup BadNodes(s)
    IN  {n \in s.nodes : Satisfiable(n, reverse, dead)}

\* Everything reached from a set of nodes by following an adjacency.
RECURSIVE Closure(_, _)
Closure(adjacency, S) ==
    LET more == S \cup UNION {adjacency[n] : n \in S}
    IN  IF more = S THEN S ELSE Closure(adjacency, more)

\* _nodes_blocked_by_unresolved
UnresolvedBlocked(s, resolved) == Closure(ValidAdjacency(s), s.nodes \ resolved)

TerminalNodes(s) == {n \in s.nodes : s.result[n] # None}
RequiredNodes(s) == {n \in s.nodes : s.required[n]}

\* Mutant: only the direct prerequisites of the terminal are looked at.
DirectGaps(s, t) == RequiredNodes(s) \ (ReverseAdjacency(s)[t] \cup {t})

\* _required_ancestor_gaps
RequiredGaps(s, t) ==
    LET reverse == ReverseAdjacency(s)
    IN  RequiredNodes(s) \ (Closure(reverse, reverse[t]) \cup {t})

EdgeDiagnostics(s) ==
    {Diag("MF-G001", e[1]) : e \in UnknownEdges(s)}
        \cup {Diag("MF-G002", e[1]) : e \in SelfEdges(s)}
        \cup {Diag("MF-G003", e[1]) : e \in DuplicateEdges(s)}
        \cup {Diag("MF-G013", e[1]) : e \in TerminalEdges(s)}

CycleDiagnostics(s) ==
    {Diag("MF-G004", Min(c)) : c \in CycleComponents(ValidAdjacency(s))}

TerminalDiagnostics(s) ==
    {Diag("MF-G009", t) : t \in {t \in TerminalNodes(s) : s.result[t] \notin s.legal}}
        \cup {Diag("MF-G010", t) : t \in {t \in TerminalNodes(s) :
                  \E u \in TerminalNodes(s) : u < t /\ s.result[u] = s.result[t]}}
        \cup (IF TerminalNodes(s) = {} \/ s.legal \ {s.result[t] : t \in TerminalNodes(s)} # {}
                THEN {Diag("MF-G011", 0)} ELSE {})
        \cup {Diag("MF-G008", t) : t \in TerminalNodes(s) \cap RequiredNodes(s)}

\* Nodes whose reachability is reported: not on a cycle, not behind an
\* unresolved tool, not the dependent of an invalid edge.
Judged(s, resolved) ==
    s.nodes \ (CycleNodes(s) \cup UnresolvedBlocked(s, resolved) \cup BadNodes(s))

UnreachableCode(s, n) ==
    IF s.result[n] # None THEN "MF-G006"
    ELSE IF s.required[n] THEN "MF-G007" ELSE "MF-G005"

ReachDiagnostics(s, resolved) ==
    LET judged == Judged(s, resolved)
        reached == SatisfiableNodes(s)
        Ungated(t) == /\ ~s.required[t]
                      /\ RequiredGaps(s, t) # {}
                      /\ RequiredGaps(s, t) \subseteq reached
    IN  {Diag(UnreachableCode(s, n), n) : n \in judged \ reached}
            \cup {Diag("MF-G006", t) :
                    t \in {t \in judged \cap reached \cap TerminalNodes(s) : Ungated(t)}}

\* _argument_edge_diagnostics: both arguments known, required and of one schema.
Compatible(match, prior, current) ==
    /\ match.prior \in prior.props /\ match.current \in current.props
    /\ match.prior \in prior.required /\ match.current \in current.required
    /\ prior.schema[match.prior] = current.schema[match.current]

ArgumentDiagnostics(s, resolved) ==
    {Diag("MF-G012", n) : n \in {n \in resolved :
        \E i \in DOMAIN s.prereqs[n] :
            LET p == s.prereqs[n][i] IN
            \E m \in p.matches :
                /\ <<n, p.node>> \notin InvalidEdges(s)
                /\ p.node \in resolved
                /\ ~Compatible(m, Descriptor(s, p.node), Descriptor(s, n))}}

\* validate_harness_graph
GraphDiagnostics(s, resolved) ==
    EdgeDiagnostics(s) \cup CycleDiagnostics(s) \cup TerminalDiagnostics(s)
        \cup ReachDiagnostics(s, resolved) \cup ArgumentDiagnostics(s, resolved)

-----------------------------------------------------------------------------
(* semantic.py: references, the two catalogs, names.                       *)

\* _parse_unique_tool_refs: one exact reference is bound once.
RefDiagnostics(s) ==
    {Diag("MF-R005", n) : n \in {n \in s.nodes :
        \E m \in s.nodes : n < m /\ s.tool[n] = s.tool[m]}}

\* _lookup_model_profile
ProfileDiagnostics(s) ==
    CASE s.profile = "found"   -> {}
      [] s.profile = "missing" -> {Diag("MF-R001", 0)}
      [] s.profile = "raises"  -> {Diag("MF-R009", 0)}
      [] OTHER                 -> {Diag("MF-R010", 0)}

\* _lookup_tool_bindings and _tool_lookup_invalid_code
LookupCode(lookup) ==
    CASE lookup = "missing"    -> "MF-R002"
      [] lookup = "mismatched" -> "MF-R003"
      [] lookup = "unsupported" -> "MF-R007"
      [] lookup = "drift"      -> "MF-R008"
      [] lookup = "raises"     -> "MF-R009"
      [] OTHER                 -> "MF-R004"
Resolved(s) == {n \in s.nodes : Descriptor(s, n).lookup = "found"}
LookupDiagnostics(s) ==
    {Diag(LookupCode(Descriptor(s, n).lookup), n) : n \in s.nodes \ Resolved(s)}

\* _duplicate_model_tool_name_diagnostics
NameDiagnostics(s) ==
    {Diag("MF-R006", n) : n \in {n \in Resolved(s) :
        \E m \in Resolved(s) : n < m /\ Descriptor(s, n).name = Descriptor(s, m).name}}

\* validate_capability_grants
RequiredCapabilities(s) == UNION {Descriptor(s, n).capabilities : n \in Resolved(s)}
CapabilityDiagnostics(s) ==
    {Diag("MF-C001", Min({n \in Resolved(s) : c \in Descriptor(s, n).capabilities})) :
        c \in RequiredCapabilities(s) \ Grants}

-----------------------------------------------------------------------------
(* artifact_validation.py.                                                 *)

ValidProducers(s, a) ==
    {n \in Resolved(s) : a \in s.produces[n] \cap s.declared \cap Descriptor(s, n).artifacts}

ProductionDiagnostics(s) ==
    {Diag("MF-A001", n) : n \in {n \in Resolved(s) : ~(s.produces[n] \subseteq s.declared)}}
        \cup {Diag("MF-A002", n) : n \in {n \in Resolved(s) :
                  ~(s.produces[n] \subseteq Descriptor(s, n).artifacts)}}

\* Policies that name an unknown result (skipped), or an undeclared artifact.
Policies(s) == {r \in DOMAIN s.needs : \E t \in TerminalNodes(s) : s.result[t] = r}
PolicyDiagnostics(s) ==
    {Diag("MF-A003", 0) : r \in DOMAIN s.needs \ Policies(s)}
        \cup {Diag("MF-A007", 0) :
                r \in {r \in Policies(s) : ~(s.needs[r] \subseteq s.declared)}}

\* The nodes that have succeeded before terminal t can: its ancestors over
\* the declared prerequisites, and the globally required nodes.
Ancestors(s, t) ==
    LET reverse == [n \in s.nodes |-> {s.prereqs[n][i].node : i \in DOMAIN s.prereqs[n]} \cap s.nodes]
    IN  Closure(reverse, reverse[t])

GatedNodes(s, t) == Ancestors(s, t) \cup RequiredNodes(s)

\* Judged only on a graph without diagnostics.
ProducerDiagnostics(s) ==
    LET Ungated(t) == {a \in s.needs[s.result[t]] \cap s.declared :
                          ValidProducers(s, a) \cap GatedNodes(s, t) = {}}
    IN  UNION {{Diag(IF ValidProducers(s, a) = {} THEN "MF-A004" ELSE "MF-A005", t) :
                    a \in Ungated(t)} :
                  t \in {t \in TerminalNodes(s) : s.result[t] \in DOMAIN s.needs}}

ArtifactDiagnostics(s) ==
    ProductionDiagnostics(s) \cup PolicyDiagnostics(s)
        \cup (IF GraphDiagnostics(s, Resolved(s)) = {} THEN ProducerDiagnostics(s) ELSE {})

-----------------------------------------------------------------------------
\* compile_semantic: a repeated reference ends it before any catalog is read,
\* so does a catalog whose metadata is unusable.
SemanticDiagnostics(s) ==
    IF RefDiagnostics(s) # {} THEN RefDiagnostics(s)
    ELSE CASE s.catalogs = "discovery" -> {Diag("MF-C001_DISCOVERY_NOT_CATALOG", 0)}
           [] s.catalogs = "unreadable" -> {Diag("MF-R009", 0)}
           [] OTHER ->
                ProfileDiagnostics(s) \cup LookupDiagnostics(s) \cup NameDiagnostics(s)
                    \cup GraphDiagnostics(s, Resolved(s))
                    \cup CapabilityDiagnostics(s) \cup ArtifactDiagnostics(s)
=============================================================================
