----------------------------- MODULE MCFileTools -----------------------------
EXTENDS FileTools, BuiltinTools

Texts(letters, n) == UNION {[1..k -> letters] : k \in 0..n}

-----------------------------------------------------------------------------
\* Files to page through, and outputs to cut: lines that are empty, short,
\* of the limit and beyond it, with characters of one byte and of two.
Lines == {<<>>, <<1>>, <<2, 2>>, <<1, 2, 2>>}
Documents == UNION {[1..k -> Lines] : k \in 1..4}

Reads == {[tool |-> "read", lines |-> d] : d \in Documents}
Windows == {[tool |-> t, lines |-> d] : t \in {"head", "tail"}, d \in Documents}

-----------------------------------------------------------------------------
\* Files to edit, in families that each mix what can be confused: one
\* letter with itself, spaces at the end of lines, quotes, line endings.
Edits(olds, news) == {[old |-> o, new |-> n] : o \in olds, n \in news}
Lists(edits) == {<<>>} \cup {<<e>> : e \in edits} \cup (edits \X edits)

Family(letters, n, olds, news) ==
    {[tool |-> "edit", raw |-> t, edits |-> l] :
        t \in Texts(letters, n), l \in Lists(Edits(olds, news))}

Overlaps == Family({"x", "y"}, 4,
                   {<<"x">>, <<"x", "x">>, <<"x", "y">>, <<"y", "x">>},
                   {<<>>, <<"y">>, <<"x", "x">>})
Spaces == Family({"x", "space", "lf"}, 4,
                 {<<>>, <<"x">>, <<"x", "space">>, <<"space">>, <<"x", "lf", "x">>},
                 {<<"x", "space">>})
Quotes == Family({"x", "curly", "quote"}, 3,
                 {<<"x">>, <<"quote">>, <<"x", "curly">>},
                 {<<"curly">>, <<"quote", "quote">>})
Endings == Family({"x", "cr", "lf"}, 4,
                  {<<"x">>, <<"lf">>, <<"x", "cr", "lf", "x">>},
                  {<<"lf">>, <<"x", "cr", "lf">>})

Writes == {[tool |-> "write", raw |-> r, text |-> <<"y">>] : r \in Texts({"x"}, 1)}

-----------------------------------------------------------------------------
\* Trees: two files, one of them in a directory, every way they can be
\* closed, ignored or taken back.
Line(match, long) == [match |-> match, long |-> long]

File(name, lines, opens, binary) ==
    [name |-> name, kind |-> "file", lines |-> lines, opens |-> opens,
     binary |-> binary]

Bodies == {<<Line(TRUE, FALSE)>>,
           <<Line(FALSE, TRUE), Line(TRUE, FALSE), Line(TRUE, FALSE)>>}

Files(name) ==
    {File(name, b, TRUE, FALSE) : b \in Bodies}
    \cup {File(name, <<Line(TRUE, FALSE)>>, o, ~o) : o \in BOOLEAN}
    \cup {[name |-> name, kind |-> k] : k \in {"lost", "symlink"}}

Directory(name, listable, rules, open, entries) ==
    [name |-> name, kind |-> "directory", listable |-> listable,
     rules |-> rules, rulesOpen |-> open, entries |-> entries]

Rule(name, include) == [name |-> name, include |-> include]

Inner ==
    {Directory("d", listable, rules, open, <<b>>) :
        b \in Files("b"), listable \in BOOLEAN, open \in BOOLEAN,
        rules \in {<<>>, <<Rule("b", TRUE)>>, <<Rule("b", FALSE)>>}}

Outer ==
    {Directory("root", TRUE, rules, TRUE, <<a, d>>) :
        a \in Files("a"), d \in Inner,
        rules \in {<<>>, <<Rule("b", FALSE)>>, <<Rule("d", FALSE)>>,
                   <<Rule("a", FALSE), Rule("a", TRUE)>>}}

MCDirectories == Inner \cup Outer \cup {Directory("root", FALSE, <<>>, TRUE, <<>>)}

Roots ==
    Outer \cup {[name |-> "root", kind |-> "absent"], File("a", <<>>, TRUE, FALSE),
               Directory("root", FALSE, <<>>, TRUE, <<>>)}

Searches ==
    {[tool |-> "grep", root |-> r, names |-> {"a", "b"}, limit |-> l,
      context |-> c] : r \in Roots, l \in {0, 2, 9}, c \in {0, 1}}
    \cup {[tool |-> "find", root |-> r, names |-> {"a", "d"}, limit |-> l] :
             r \in Roots, l \in {0, 1, 3}}
    \cup {[tool |-> "ls", root |-> r, limit |-> l] : r \in Roots, l \in {1, 3}}

-----------------------------------------------------------------------------
\* A workspace of two committed files and one that may be new, with a link
\* to a file inside, links that lead out or nowhere, a directory, and names
\* below parents that are outside or missing; and calls of the built-in
\* tools in every context that their rules tell apart.
Leading(valid, parent, link, directory, place) ==
    [valid |-> valid, parent |-> parent, link |-> link, directory |-> directory,
     place |-> place, holds |-> {}]

MCLeads ==
    [dot |-> [Leading(TRUE, "outside", FALSE, TRUE, "dir") EXCEPT
                 !.holds = {"a", "new", "alias", "leak"}],
     a |-> Leading(TRUE, "inside", FALSE, FALSE, "a"),
     new |-> Leading(TRUE, "inside", FALSE, FALSE, "new"),
     alias |-> Leading(TRUE, "inside", TRUE, FALSE, "a"),
     leak |-> Leading(TRUE, "inside", TRUE, FALSE, "out"),
     dir |-> Leading(TRUE, "inside", FALSE, TRUE, "dir"),
     far |-> Leading(TRUE, "outside", FALSE, FALSE, "out"),
     lost |-> Leading(TRUE, "absent", FALSE, FALSE, "new"),
     up |-> Leading(FALSE, "outside", FALSE, FALSE, "out")]

MCCommitted == [a |-> "old", new |-> "old", out |-> "old"]
MCWorkspace == {"a", "new", "dir"}
MCStore == [plan |-> "plan.md", workspace_diff |-> "diff.md"]

Context == [tool |-> "inspect", root |-> "there", store |-> "there",
            there |-> {"a", "out"}, inputs |-> {"plan"}, name |-> "a", names |-> {}, touched |-> {},
            content |-> "new", expected |-> Unset, base |-> Unset, most |-> 2,
            query |-> "old", policy |-> Unset, artifact |-> "plan",
            produced |-> Unset, explicit |-> Unset, approved |-> TRUE, seconds |-> 1]

Names == DOMAIN MCLeads
Presences == {{"a", "out"}, {"a", "new", "out"}, {}}

Looks == {[Context EXCEPT !.tool = t, !.name = n, !.root = r, !.there = p] :
             t \in {"list", "search", "read", "inspect"}, n \in Names,
             r \in {"there", "missing"}, p \in Presences}
Diffs == {[Context EXCEPT !.tool = "diff", !.names = ns] :
             ns \in {{}, {"a"}, {"a", "up"}}}
Puts == {[Context EXCEPT !.tool = "write", !.name = n, !.expected = e, !.there = p] :
            n \in Names, e \in {Unset, "old", "theirs"}, p \in Presences}
Patches == {[Context EXCEPT !.tool = "patch", !.names = ns, !.touched = ps, !.base = b,
                            !.there = {"a", "new", "out"}] :
               ns \in {{}, {"a"}, {"a", "new"}, {"a", "leak"}},
               ps \in SUBSET {"a", "new"}, b \in {Unset, {}, {"a"}}}

Policy(declared, required) == [declared |-> declared, required |-> required]

Artifacts ==
    {[Context EXCEPT !.tool = t, !.artifact = a, !.policy = p, !.store = s,
                     !.produced = IF t = "fetch" THEN Unset ELSE {"plan", "workspace_diff"},
                     !.there = {"a", "new", "out", "plan.md"}] :
        t \in {"fetch", "store"}, a \in {"plan", "workspace_diff", "verdict"},
        s \in {"there", "missing"},
        p \in {Unset, Policy({"plan"}, {}), Policy({"plan", "verdict"}, {})}}
    \cup {[Context EXCEPT !.tool = "store_diff", !.artifact = "workspace_diff",
                          !.policy = Policy({"workspace_diff"}, {}),
                          !.produced = d, !.there = {"a", "new", "out"}] :
            d \in {{}, {"workspace_diff"}}}

Shells == {[Context EXCEPT !.tool = "shell", !.root = r, !.approved = a, !.seconds = s] :
              r \in {"there", "missing"}, a \in BOOLEAN, s \in {0, 1}}
Submissions == {[Context EXCEPT !.tool = "terminal", !.policy = p, !.explicit = e] :
                  p \in {Unset, Policy({}, {"plan"}), Policy({}, {"plan", "verdict"})},
                  e \in {Unset, {}, {"plan"}, {"verdict"}}}

MCCalls == Looks \cup Diffs \cup Puts \cup Patches \cup Artifacts \cup Shells
           \cup Submissions

-----------------------------------------------------------------------------
MCTasks == Reads \cup Windows \cup Overlaps \cup Spaces \cup Quotes \cup Endings
           \cup Writes \cup Searches

MCPageLimits == {NotGiven, 1, 3}

\* A compatibility tool or a built-in tool is at work; the other stands by.
FileIdle == task = [tool |-> "none"] /\ contents = <<>> /\ seen = <<>> /\ answer = Pending

BuiltinIdle ==
    /\ call = Context /\ stage = "over" /\ files = [p \in Locations |-> Absent]
    /\ text = Absent /\ temp = Unset /\ others = {} /\ mine = {}
    /\ returned = Unset /\ changes = 0

Init == (FileInit /\ BuiltinIdle) \/ (BuiltinInit /\ FileIdle)
Next ==
    \/ FileNext /\ UNCHANGED builtinVars
    \/ BuiltinNext /\ UNCHANGED fileVars

Spec == Init /\ [][Next]_<<fileVars, builtinVars>>
=============================================================================
