---------------------------- MODULE SearchTools -----------------------------
(***************************************************************************)
(* The Pi-compatible tools that look at many files: grep, find and ls, on  *)
(* a tree of directories with ignore files and entries that cannot be      *)
(* read.                                                                   *)
(*                                                                         *)
(* An entry is a record with its name, its kind and what the tools can     *)
(* see of it: of a file whether it opens, whether its first block holds a  *)
(* NUL byte, and which of its lines the pattern matches and which are      *)
(* overlong; of a directory whether it can be listed, the rules of its     *)
(* ignore file, whether they can be read, and its entries in the order of  *)
(* their names.  An entry of kind "lost" fails when it is looked at.  The  *)
(* last line of a file has no line feed, and no line a carriage return.    *)
(***************************************************************************)
EXTENDS TextTools

CONSTANTS Directories,    \* the directories of the trees
          OutputBytes,    \* limit of a search's output; a row counts as one
          Unlimited       \* max_lines of a search's output

-----------------------------------------------------------------------------
(***************************************************************************)
(* The walk.  A rule of an ignore file is [name, include], where include   *)
(* tells a negated rule; a specification is the rules of one directory.    *)
(***************************************************************************)
\* The decision of one ignore file: that of its last rule that matches.
Decision(rules, entry) ==
    LET hits == SelectSeq(rules, LAMBDA rule : rule.name = entry.name)
    IN  IF hits = <<>> THEN "none"
        ELSE IF Last(hits).include THEN "keep" ELSE "ignore"

\* _is_ignored: the innermost ignore file with a decision has it.
Ignored(entry, specs) ==
    LET decided == SelectSeq(specs, LAMBDA rules : Decision(rules, entry) # "none")
    IN  decided # <<>> /\ Decision(Last(decided), entry) = "ignore"

Walked(entries, unreadable) == [entries |-> entries, unreadable |-> unreadable]
Nothing == Walked(<<>>, 0)

Then(first, second) ==
    Walked(first.entries \o second.entries, first.unreadable + second.unreadable)

Rules == Seq([name : STRING, include : BOOLEAN])

\* _walk_directory: the entries below a directory, with their paths.
Walk(root, prefix, inheritedRules) ==
    LET walk[directory \in Directories, path \in Seq(STRING), inherited \in Seq(Rules)] ==
            LET ruled == directory.rules # <<>> /\ directory.rulesOpen
                specs == IF ruled THEN Append(inherited, directory.rules) ELSE inherited
                Under(entry) ==
                    LET here == Append(path, entry.name)
                        self == Walked(<<[path |-> here, entry |-> entry]>>, 0)
                    IN  IF entry.kind = "lost" THEN Walked(<<>>, 1)
                        ELSE IF Ignored(entry, specs) THEN Nothing
                        ELSE IF entry.kind # "directory" THEN self
                        ELSE IF ~entry.listable THEN Walked(<<>>, 1)
                        ELSE Then(self, walk[entry, here, specs])
            IN  FoldLeft(LAMBDA sofar, entry : Then(sofar, Under(entry)),
                         Walked(<<>>, IF directory.rulesOpen THEN 0 ELSE 1),
                         directory.entries)
    IN  walk[root, prefix, inheritedRules]

-----------------------------------------------------------------------------
(***************************************************************************)
(* Answers.                                                                *)
(***************************************************************************)
Found(kind, rows, truncated) ==
    [kind |-> kind, rows |-> rows, truncated |-> truncated]

UpTo(n, list) == SubSeq(list, 1, MinOf(n, Len(list)))

RootError(kind) == Found(kind, <<>>, FALSE)

\* _render_search_output: each row is a line of one byte.
Rendered(rows) ==
    LET window == TruncateHead([i \in DOMAIN rows |-> <<1>>],
                               Limit(Unlimited, OutputBytes))
    IN  [rows |-> SubSeq(rows, 1, Len(window.lines)), cut |-> window.truncated]

\* Mutant: paths that could not be read are not reported.
FlagLimits(limitReached, cut, longLines, unreadable) ==
    limitReached \/ cut \/ longLines

Flag(limitReached, cut, longLines, unreadable) ==
    limitReached \/ cut \/ longLines \/ unreadable > 0

-----------------------------------------------------------------------------
(***************************************************************************)
(* execute_grep.                                                           *)
(***************************************************************************)
\* The rows a file gives: [path, line, match].  With context, a match is
\* shown with its neighbours, again for every match.
RowsOf(file, line, context) ==
    LET from == MaxOf(1, line - context)
        to == MinOf(Len(file.entry.lines), line + context)
    IN  [k \in 1..MaxOf(to - from + 1, 0) |->
            [path |-> file.path, line |-> from + k - 1,
             match |-> from + k - 1 = line]]

Grepped(rows, count, unreadable, long) ==
    [rows |-> rows, count |-> count, unreadable |-> unreadable, long |-> long]

\* process_file, on what was found before.
ProcessFile(sofar, file, names, limit, context) ==
    LET lines == file.entry.lines
        hits == SelectSeq([i \in DOMAIN lines |-> i],
                          LAMBDA i : lines[i].match)
        taken == UpTo(limit - sofar.count, hits)
        rows == FlattenSeq([i \in DOMAIN taken |-> RowsOf(file, taken[i], context)])
    IN  CASE file.entry.kind # "file" \/ file.entry.name \notin names
             \/ sofar.count >= limit -> sofar
          [] OTHER ->
             IF ~file.entry.opens
             THEN [sofar EXCEPT !.unreadable = @ + 1]
             ELSE IF file.entry.binary THEN sofar
             ELSE Grepped(sofar.rows \o rows, sofar.count + Len(taken),
                          sofar.unreadable,
                          sofar.long \/ \E i \in DOMAIN rows :
                                            lines[rows[i].line].long)

\* names: what the glob lets through.
Grep(root, names, limit, context) ==
    LET most == MaxOf(1, limit)
        walk == IF root.kind = "directory" THEN Walk(root, <<>>, <<>>)
                ELSE Walked(<<[path |-> <<root.name>>, entry |-> root]>>, 0)
        found == FoldLeft(
                    LAMBDA sofar, file : ProcessFile(sofar, file, names, most, context),
                    Grepped(<<>>, 0, 0, FALSE), walk.entries)
        output == Rendered(found.rows)
    IN  CASE root.kind = "absent" -> RootError("not_found")
          [] root.kind = "directory" /\ ~root.listable ->
                RootError("permission_denied")
          [] root.kind = "file" /\ root.name \in names /\ ~root.opens ->
                RootError("permission_denied")
          [] OTHER -> Found("found", output.rows,
                            Flag(found.count >= most, output.cut, found.long,
                                 walk.unreadable + found.unreadable))

-----------------------------------------------------------------------------
(***************************************************************************)
(* execute_find and execute_ls.                                            *)
(***************************************************************************)
\* Files are opened to see whether they can be; a limit of 0 does not limit
\* but is reported as reached.
Find(root, names, limit) ==
    LET walk == Walk(root, <<>>, <<>>)
        matching == SelectSeq(walk.entries, LAMBDA e : e.entry.name \in names)
        closed == SelectSeq(matching,
                            LAMBDA e : e.entry.kind = "file" /\ ~e.entry.opens)
        open == SelectSeq(matching,
                          LAMBDA e : e.entry.kind # "file" \/ e.entry.opens)
        rows == IF limit = 0 THEN open ELSE UpTo(limit, open)
        output == Rendered([i \in DOMAIN rows |->
                               [path |-> rows[i].path, line |-> 0, match |-> TRUE]])
        reached == rows # <<>> /\ Len(rows) >= limit
    IN  CASE root.kind = "absent" -> RootError("not_found")
          [] root.kind = "file" -> RootError("invalid_arguments")
          [] root.kind = "directory" /\ ~root.listable ->
                RootError("permission_denied")
          [] OTHER -> Found("found", output.rows,
                            Flag(reached, output.cut, FALSE,
                                 walk.unreadable + Len(closed)))

\* The entries of one directory; nothing left to show is an empty directory.
List(root, limit) ==
    LET rows == UpTo(limit, root.entries)
        output == Rendered([i \in DOMAIN rows |->
                               [path |-> <<rows[i].name>>, line |-> 0,
                                match |-> TRUE]])
    IN  CASE root.kind = "absent" -> RootError("not_found")
          [] root.kind = "file" -> RootError("invalid_arguments")
          [] root.kind = "directory" /\ ~root.listable ->
                RootError("permission_denied")
          [] OTHER -> Found("found", output.rows,
                            rows # <<>> /\ (Len(root.entries) > limit \/ output.cut))
=============================================================================
