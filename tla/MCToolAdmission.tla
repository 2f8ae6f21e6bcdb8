-------------------------- MODULE MCToolAdmission --------------------------
(* Families of documents for ToolAdmission: around one sound admission, all *)
(* combinations of what one group of checks looks at; and two scenarios     *)
(* whose tools are put to use.                                              *)
EXTENDS ToolAdmission

CONSTANT Other   \* a digest of something else

Ids == <<"connector.one", "connector.two", "connector.three">>
Names0 == <<"one", "two", "three">>

Form(f, k) == [form |-> f, spelling |-> k]

Identity ==
  [connector |-> "hub", protocol |-> "mcp", transport |-> "stdio",
   release |-> 1, reported |-> "a"]

Tool(n) ==
  [name |-> n, description |-> "plain", input |-> Form("in", 1),
   output |-> Form("out", 1), notes |-> 1]

Snapshot(tools) == [identity |-> Identity, created |-> 1, tools |-> tools]

Selection(n) ==
  [tool |-> n, id |-> Ids[n], implementation |-> Names0[n],
   model |-> Names0[n], description |-> "plain",
   descriptionPolicy |-> "sanitized", inputPolicy |-> "exact",
   outputPolicy |-> "exact", input |-> Absent, output |-> Absent,
   capabilities |-> {"net"}, artifacts |-> {}, effect |-> "read_only",
   idempotency |-> "idempotent", approval |-> "none",
   rawPin |-> Absent, descriptorPin |-> Absent, recordPin |-> Absent]

Manifest(selected, denied) ==
  [connector |-> "hub", expected |-> Identity, selected |-> selected,
   denied |-> denied, identityPin |-> Absent, snapshotPin |-> Absent]

Matrix ==
  [read_only |-> {"none", "explicit", "operator"},
   network_write |-> {"explicit", "operator"}]

Policy ==
  [capabilities |-> {"net"}, protocols |-> {"mcp"},
   transports |-> {"stdio", "http"}, roomy |-> FALSE, matrix |-> Matrix]

Admission(tools, selected, denied) ==
  [snapshot |-> Snapshot(tools), manifest |-> Manifest(selected, denied),
   policy |-> Policy]

Base == Admission(<<Tool(1)>>, <<Selection(1)>>, <<>>)

\* Who announces, what was expected of them, and what the policy allows.
Identities ==
  {[Base EXCEPT
      !.snapshot.identity = identity,
      !.manifest.connector = connector,
      !.manifest.identityPin = pin,
      !.manifest.snapshotPin = whole,
      !.policy.transports = transports,
      !.policy.protocols = protocols]
     : identity \in {Identity} \cup
         {[Identity EXCEPT !.release = 2], [Identity EXCEPT !.reported = "b"],
          [Identity EXCEPT !.transport = "http"],
          [Identity EXCEPT !.connector = "hub2"]},
       connector \in {"hub", "hub2"}, pin \in {Absent, Identity, Other},
       whole \in {Absent, Snapshot(<<Tool(1)>>)},
       transports \in {{"stdio", "http"}, {"stdio"}},
       protocols \in {{"mcp"}, {}}}

\* The text the model will read.
Texts ==
  LET texts == {"plain", "spaced", "commanding", "long", "padded", "blank"} IN
  {[Base EXCEPT
      !.snapshot.tools[1].description = offered,
      !.manifest.selected[1].description = written,
      !.manifest.selected[1].descriptionPolicy = policy,
      !.policy.roomy = roomy]
     : offered \in texts \cup {"secret"}, written \in texts,
       policy \in {"operator", "rejected", "sanitized"}, roomy \in BOOLEAN}

Schemas ==
  {[Base EXCEPT
      !.snapshot.tools[1].input = Form(offeredIn, 1),
      !.snapshot.tools[1].output = offeredOut,
      !.manifest.selected[1].input = input,
      !.manifest.selected[1].output = output,
      !.manifest.selected[1].inputPolicy = inputPolicy,
      !.manifest.selected[1].outputPolicy = outputPolicy]
     : offeredIn \in {"in", "unsupported"},
       offeredOut \in {Absent, Form("out", 1), Form("unsupported", 1)},
       input \in {Absent, "in", "other"}, output \in {Absent, "out", "unsupported"},
       inputPolicy \in {"exact", "overlay"},
       outputPolicy \in {"exact", "operator"}}

\* Who may do what, and who must be asked.
Approvals ==
  {[Base EXCEPT
      !.manifest.selected[1].effect = effect,
      !.manifest.selected[1].approval = approval,
      !.manifest.selected[1].capabilities = wanted,
      !.policy.capabilities = allowed,
      !.policy.matrix = matrix]
     : effect \in {"read_only", "network_write"},
       approval \in {"none", "explicit", "operator", "forbidden"},
       wanted \in {{}, {"net"}, {"net", "disk"}},
       allowed \in {{"net"}, {"net", "disk"}},
       matrix \in {Matrix, [read_only |-> {"none"}],
                   [Matrix EXCEPT !.network_write = {"none", "explicit"}],
                   [Matrix EXCEPT !.read_only = {"explicit", "forbidden"}]}}

\* Lists of announced, selected and denied tools, in any order, with
\* repetitions and gaps.
Lists(numbers, most) == UNION {[1 .. k -> numbers] : k \in 0 .. most}

Selections ==
  {Admission([i \in DOMAIN announced |-> Tool(announced[i])],
             [i \in DOMAIN chosen |-> Selection(chosen[i])],
             [i \in DOMAIN refused |->
                [tool |-> refused[i], approval |-> "forbidden"]])
     : announced \in Lists(1 .. 2, 3), chosen \in Lists(1 .. 3, 2),
       refused \in Lists({1, 3}, 1)}

Denials ==
  {Admission(<<Tool(1), Tool(2)>>, <<Selection(1)>>,
             <<[tool |-> n, approval |-> approval], [tool |-> m,
               approval |-> "forbidden"]>>)
     : n, m \in 1 .. 3, approval \in {"forbidden", "none"}}

\* Two selections that share an identifier, and one announced twice with two
\* meanings, of which the last would be taken.
Clashes ==
  LET one == Selection(1)  two == Selection(2) IN
  {Admission(<<Tool(2), Tool(1)>>, <<other, one>>, <<>>)
     : other \in {two, [two EXCEPT !.id = one.id],
                  [two EXCEPT !.model = one.model],
                  [two EXCEPT !.implementation = one.implementation]}}
  \cup {Admission(<<Tool(1), [Tool(1) EXCEPT !.input = Form("other", 1)]>>,
                  <<[one EXCEPT !.input = form]>>, <<>>)
          : form \in {Absent, "in", "other"}}

\* Digests pinned at review, right or wrong, on either of two tools, one of
\* which may also have another fault.
Pins ==
  LET Right(s) == Descriptor(s, "plain", "in", "out")
      Pin(kind, right) == IF kind = "right" THEN right
                          ELSE IF kind = "wrong" THEN Other ELSE Absent
  IN {LET a == Admission(<<Tool(1), [Tool(2) EXCEPT !.description = text]>>,
                         <<Selection(2), Selection(1)>>, <<>>)
          s1 == Selection(1)
          s2 == Selection(2)
      IN [a EXCEPT
            !.manifest.selected[2].rawPin = Pin(raw, Tool(1)),
            !.manifest.selected[2].descriptorPin = Pin(descriptor, Right(s1)),
            !.manifest.selected[2].recordPin =
              Pin(record, Record(a, s1, Tool(1), Right(s1))),
            !.manifest.selected[1].rawPin = Pin(second, Tool(2)),
            !.manifest.snapshotPin = Pin(whole, a.snapshot)]
      : raw, descriptor, record, second, whole \in {"right", "wrong", "none"},
        text \in {"plain", "commanding"}}

(* Custom tools *)
Declaration(n) ==
  [id |-> <<"custom.one", "custom.two">>[n],
   implementation |-> <<"c1", "c2">>[n], model |-> <<"c1", "c2">>[n],
   kind |-> "contract_only", material |-> FALSE, description |-> "plain",
   input |-> "in", output |-> "out", capabilities |-> {"net"},
   artifacts |-> {}, effect |-> "read_only", idempotency |-> "idempotent",
   approval |-> "none", declarationPin |-> Absent, descriptorPin |-> Absent,
   recordPin |-> Absent]

Source(tools) == [package |-> "p", tools |-> tools, sourcePin |-> Absent]

ToolPolicy ==
  [capabilities |-> {"net"}, matrix |-> Matrix, roomy |-> FALSE, limit |-> 2,
   pinned |-> FALSE]

Custom(source, policy) == [source |-> source, policy |-> policy]

Declared ==
  {Custom(Source(<<[Declaration(1) EXCEPT
                      !.effect = effect, !.approval = approval,
                      !.capabilities = wanted, !.artifacts = artifacts]>>),
          [ToolPolicy EXCEPT !.matrix = matrix])
     : effect \in {"read_only", "network_write"},
       approval \in {"none", "explicit", "forbidden"},
       wanted \in {{}, {"net"}, {"disk"}}, artifacts \in {{}, {"report"}},
       matrix \in {Matrix, [read_only |-> {"none"}],
                   [Matrix EXCEPT !.network_write = {"none"}]}}

Materials ==
  {Custom(Source(<<[Declaration(1) EXCEPT
                      !.kind = kind, !.material = material,
                      !.description = text, !.input = input]>>),
          [ToolPolicy EXCEPT !.roomy = roomy])
     : kind \in {"contract_only", "python"}, material, roomy \in BOOLEAN,
       text \in {"plain", "commanding", "long", "blank"},
       input \in {"in", "big", "unsupported"}}

Packages ==
  {Custom(Source(tools), [ToolPolicy EXCEPT !.limit = limit])
     : tools \in UNION
         {[1 .. k -> {Declaration(1), Declaration(2),
                      [Declaration(1) EXCEPT !.approval = "explicit",
                                             !.artifacts = {"report"}],
                      [Declaration(2) EXCEPT !.approval = "explicit",
                                             !.artifacts = {"report"}],
                      [Declaration(2) EXCEPT !.id = "custom.one"],
                      [Declaration(2) EXCEPT !.model = "c1"]}]
            : k \in 0 .. 2},
       limit \in 1 .. 2}

Hashes ==
  LET t == Declaration(1)
      source == Source(<<t>>)
      Pin(kind, right) == IF kind = "right" THEN right
                          ELSE IF kind = "wrong" THEN Other ELSE Absent
  IN {Custom([Source(<<[t EXCEPT
                 !.declarationPin = Pin(declaration, Unpinned(t)),
                 !.descriptorPin = Pin(descriptor, DeclaredDescriptor(t)),
                 !.recordPin = Pin(record, CompilationRecord(source, t))]>>)
                EXCEPT !.sourcePin = Pin(whole, SourceDigest(source))],
             [ToolPolicy EXCEPT !.pinned = pinned])
      : declaration, descriptor, record, whole \in {"right", "wrong", "none"},
        pinned \in BOOLEAN}

Judged ==
  {[admissions |-> {a}, sources |-> {}, snapshots |-> {a.snapshot},
    served |-> a.snapshot, deployed |-> FALSE]
     : a \in Identities \cup Texts \cup Schemas \cup Approvals \cup Selections
               \cup Denials \cup Clashes \cup Pins}
  \cup
  {[admissions |-> {}, sources |-> {c}, snapshots |-> {Snapshot(<<>>)},
    served |-> Snapshot(<<>>), deployed |-> FALSE]
     : c \in Declared \cup Materials \cup Packages \cup Hashes}

(* Put to use: one tool without and one with a side effect, admitted from   *)
(* two discoveries that differ in annotations only; the provider may also   *)
(* report another build of itself.                                          *)
Writing == [Selection(2) EXCEPT !.effect = "network_write",
                                !.approval = "explicit",
                                !.idempotency = "with_key"]

First == Admission(<<Tool(1), Tool(2)>>, <<Selection(1), Writing>>, <<>>)

Annotated == [First EXCEPT !.snapshot.tools[2].notes = 2]

Rebuilt == [First.snapshot EXCEPT !.identity.reported = "b"]

Connected ==
  [admissions |-> {First, Annotated}, sources |-> {},
   snapshots |-> {First.snapshot, Annotated.snapshot, Rebuilt},
   served |-> First.snapshot, deployed |-> TRUE]

(* A tool re-admitted with another schema beside a custom tool, a custom    *)
(* tool that claims an id of the connector namespace, and a selection under *)
(* an id outside of it.                                                     *)
Changed == [Base EXCEPT !.snapshot.tools[1].input = Form("other", 1)]

Local == [Admission(<<Tool(3)>>, <<Selection(3)>>, <<>>) EXCEPT
            !.manifest.selected[1].id = "local.three"]

Mixed ==
  [admissions |-> {Base, Changed, Local},
   sources |-> {Custom(Source(<<Declaration(1),
                  [Declaration(2) EXCEPT !.id = "connector.four"]>>),
                  ToolPolicy)},
   snapshots |-> {Base.snapshot, Changed.snapshot},
   served |-> Base.snapshot, deployed |-> TRUE]

MCScenarios == Judged \cup {Connected, Mixed}

MCConnectorIds == ToSet(Ids) \cup {"connector.four"}
=============================================================================
