-------------------------- MODULE MCHarnessCompiler --------------------------
EXTENDS HarnessCompiler

\* A tool takes x (and sometimes y); the last ones cannot be used.
Tool(name, props, required, schemas) ==
    [lookup |-> "found", name |-> name, props |-> props, required |-> required,
     schema |-> schemas, capabilities |-> {}, artifacts |-> {}]
OneArg(name, type) == Tool(name, {"x", "z"}, {"x"}, [x |-> type, z |-> type])
NoArg(name) == Tool(name, {}, {}, <<>>)

MCCatalog ==
    [t1 |-> NoArg("read"), t2 |-> NoArg("edit"), t3 |-> NoArg("done"), t4 |-> NoArg("note"),
     t5 |-> NoArg("block"),
     x1 |-> OneArg("open", "string"), x2 |-> OneArg("save", "string"),
     x3 |-> OneArg("count", "integer"),
     xy1 |-> Tool("from", {"x", "y"}, {"x", "y"}, [x |-> "string", y |-> "string"]),
     xy2 |-> Tool("to", {"x", "y"}, {"x", "y"}, [x |-> "string", y |-> "string"]),
     same |-> NoArg("read"),
     a1 |-> [NoArg("write") EXCEPT !.artifacts = {"patch"}],
     a2 |-> [NoArg("report") EXCEPT !.artifacts = {"patch", "log"}],
     shell |-> [NoArg("shell") EXCEPT !.capabilities = {"shell"}],
     net |-> [NoArg("net") EXCEPT !.capabilities = {"network"}],
     gone |-> [NoArg("gone") EXCEPT !.lookup = "missing"],
     other |-> [NoArg("other") EXCEPT !.lookup = "mismatched"],
     drifted |-> [NoArg("drifted") EXCEPT !.lookup = "drift"],
     broken |-> [NoArg("broken") EXCEPT !.lookup = "raises"]]

MCGrants == {"shell"}
MCValues == {0, 1}

\* A prerequisite without argument matches.
Needs(n) == [node |-> n, matches |-> {}]
Plain(S) == [i \in 1..Cardinality(S) |-> Needs(InOrder(S)[i])]
Base(N) ==
    [nodes |-> 1..N, tool |-> [n \in 1..N |-> <<"t1", "t2", "t3", "t4", "t5">>[n]],
     prereqs |-> [n \in 1..N |-> <<>>], required |-> [n \in 1..N |-> FALSE],
     result |-> [n \in 1..N |-> IF n = N THEN "COMPLETE" ELSE None],
     produces |-> [n \in 1..N |-> {}], declared |-> {}, needs |-> <<>>,
     profile |-> "found", catalogs |-> "usable", legal |-> {"COMPLETE"},
     fits |-> TRUE, secret |-> FALSE]

\* Every graph of three nodes (a loop at node 1 only) whose roles are free:
\* cycles, terminals as prerequisites.
Roles == {"plain", "required", "terminal"}
ThreeNodes ==
    {[Base(3) EXCEPT !.prereqs = [n \in 1..3 |-> Plain(e[n])],
                     !.required = [n \in 1..3 |-> k[n] = "required"],
                     !.result = [n \in 1..3 |-> IF k[n] = "terminal"
                                                  THEN "COMPLETE" ELSE None]] :
        e \in {e \in [1..3 -> SUBSET (1..3)] : 2 \notin e[2] /\ 3 \notin e[3]},
        k \in {k \in [1..3 -> Roles] : Cardinality({n \in 1..3 : k[n] = "terminal"}) = 1}}

\* Every loop-free graph of four nodes before a terminal that needs node 1:
\* the components Tarjan's algorithm has to tell apart.
FourNodes ==
    {[Base(5) EXCEPT !.prereqs = [n \in 1..5 |-> IF n = 5 THEN Plain({1}) ELSE Plain(e[n])],
                     !.required[2] = TRUE] :
        e \in {e \in [1..4 -> SUBSET (1..4)] : \A n \in 1..4 : n \notin e[n]}}

\* Repeated and unknown prerequisites (9 is no node).
Chain == [Base(3) EXCEPT !.prereqs = <<(<<>>), Plain({1}), Plain({1, 2})>>, !.required[1] = TRUE]
Terminals == {[Chain EXCEPT !.result = [n \in 1..3 |-> IF n \in t THEN "COMPLETE" ELSE None],
                            !.required = [n \in 1..3 |-> n \in q]] :
                 t \in SUBSET (1..3), q \in SUBSET (1..3)}
Edited == {[Chain EXCEPT !.prereqs[n] = @ \o <<Needs(m)>>] : n \in 1..3, m \in {1, 2, 9}}

\* Two terminals, 3 and 4, the second of which may wait for the first or the
\* first for the second, or a node for either.
TwoEnds ==
    {[Base(4) EXCEPT !.legal = {"COMPLETE", "BLOCKED"}, !.result[3] = "BLOCKED",
                     !.required = [n \in 1..4 |-> n \in r],
                     !.tool[1] = "a1", !.tool[2] = "a2", !.produces = <<{"patch"}, {"patch", "log"}, {}, {}>>,
                     !.declared = {"patch", "log"}, !.needs = w,
                     !.prereqs = <<(<<>>), Plain(e[2]), Plain(e[3]), Plain(e[4])>>] :
        r \in {{}, {1}}, w \in {<<>>, [COMPLETE |-> {"patch"}, BLOCKED |-> {"log"}]},
        e \in {e \in [2..4 -> SUBSET (1..4)] : 2 \notin e[2] /\ 3 \notin e[3] /\ 4 \notin e[4]}}

\* Tools: unusable, repeated, of one name, with and without a grant.
Bound == {[Chain EXCEPT !.tool = [n \in 1..3 |-> b[n]], !.profile = p, !.catalogs = c] :
            b \in [1..3 -> {"t1", "t2", "same", "shell", "net", "gone", "other", "drifted", "broken"}],
            p \in {"found"}, c \in {"usable"}}
Unfit == {[Chain EXCEPT !.fits = f, !.secret = h, !.profile = p, !.catalogs = c] :
            f \in BOOLEAN, h \in BOOLEAN, p \in {"found", "missing", "raises", "mismatched"},
            c \in {"usable", "discovery", "unreadable"}}

\* Arguments: matches over an edge between tools of one or two arguments.
Pairs == [prior : {"x", "y", "z"}, current : {"x", "y", "z"}]
Matched == {[Chain EXCEPT !.tool = <<a, b, "t3">>,
                          !.prereqs[2] = <<[node |-> 1, matches |-> m]>>] :
              a \in {"x1", "xy1", "x3"}, b \in {"x2", "xy2"},
              m \in {m \in SUBSET Pairs : /\ Cardinality(m) < 3
                                          /\ \A p, q \in m : p.prior = q.prior <=> p.current = q.current}}

\* Artifacts: who claims them, who can, what is declared and needed.
Made == {[Chain EXCEPT !.tool = <<b[1], b[2], "t3">>, !.produces = <<c[1], c[2], {}>>,
                       !.declared = d, !.needs = w, !.required[1] = FALSE,
                       !.prereqs = <<(<<>>), (<<>>), Plain(e)>>] :
           b \in {<<"a1", "a2">>, <<"t1", "a2">>}, e \in SUBSET {1, 2},
           c \in [1..2 -> SUBSET {"patch", "log"}], d \in SUBSET {"patch", "log"},
           w \in {<<>>, [COMPLETE |-> {"patch"}], [COMPLETE |-> {"log"}], [BLOCKED |-> {"log"}]}}

MCSources == ThreeNodes \cup FourNodes \cup Edited \cup Terminals \cup TwoEnds \cup Bound \cup Unfit \cup Matched \cup Made
=============================================================================
