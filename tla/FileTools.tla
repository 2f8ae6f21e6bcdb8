------------------------------ MODULE FileTools ------------------------------
(***************************************************************************)
(* The Pi-compatible file tools as a model uses them: it pages through a   *)
(* file by the notices of read, edits or writes a file, and searches a     *)
(* tree.  A task is one of these, with the file or tree it meets.          *)
(***************************************************************************)
EXTENDS SearchTools

CONSTANTS Tasks,       \* a task is a record with its tool and arguments
          PageLimits   \* "limit" arguments of read

\* A file has a line, an empty one perhaps.
ASSUME TaskAssumption ==
    /\ NotGiven \notin Int
    /\ PageLimits \subseteq (Nat \ {0}) \cup {NotGiven}
    /\ \A t \in Tasks : t.tool \in {"read", "head", "tail"} =>
          t.lines \in Seq(Seq(Nat)) /\ t.lines # <<>>

VARIABLES
    task,
    contents, \* the text of the file an edit or a write works on
    seen,     \* numbers of the lines that read has shown, in order
    answer    \* the last answer, or Pending

fileVars == <<task, contents, seen, answer>>

Pending == [kind |-> "pending"]
Torn == <<"torn">>     \* a file whose writing failed half way

-----------------------------------------------------------------------------
FileInit ==
    /\ task \in Tasks
    /\ contents = (IF task.tool \in {"edit", "write"} THEN task.raw ELSE <<>>)
    /\ seen = <<>> /\ answer = Pending

\* A page of the file; the next one begins where the notice says.
ReadPage(limit) ==
    /\ task.tool = "read"
    /\ \E offset \in IF answer = Pending THEN {NotGiven, 0, 1}
                    ELSE {answer.next} \ {NotGiven} :
          answer' = Read(task.lines, offset, limit)
    /\ seen' = seen \o [i \in DOMAIN answer'.lines |-> answer'.from + i]
    /\ UNCHANGED <<task, contents>>

\* A line beyond the limit is left to bash, and read goes on after it.
SkipLine ==
    /\ task.tool = "read" /\ answer.kind = "too_long"
    /\ answer.from + 1 < Len(task.lines)
    /\ seen' = Append(seen, answer.from + 1)
    /\ answer' = Page("skipped", answer.from, <<>>, answer.from + 2)
    /\ UNCHANGED <<task, contents>>

\* The result of an operation that may write, with what it claims of it.
Operated(kind, effect) == [kind |-> kind, effect |-> effect]

WriteOut(text, done) ==
    \/ /\ contents' = text
       /\ answer' = Operated(done, "confirmed_complete")
    \/ \* open, write or close fails.
       /\ contents' \in {contents, Torn}
       /\ answer' = Operated("io_error", "completion_unknown")

EditFile ==
    /\ task.tool = "edit" /\ answer = Pending
    /\ LET edit == Edit(task.raw, task.edits)
       IN  \/ edit.kind = "edited" /\ WriteOut(edit.text, "edited")
           \/ \* A conflict, bad arguments, or a file that cannot be read.
              /\ \E kind \in ({edit.kind} \cup {"not_found"}) \ {"edited"} :
                    answer' = Operated(kind, "not_attempted")
              /\ UNCHANGED contents
    /\ UNCHANGED <<task, seen>>

\* Parent directories are made first; nothing of the old text is looked at.
WriteFile ==
    /\ task.tool = "write" /\ answer = Pending
    /\ \/ WriteOut(task.text, "written")
       \/ answer' = Operated("refused", "not_attempted") /\ UNCHANGED contents
    /\ UNCHANGED <<task, seen>>

Answer(tool, result) ==
    /\ task.tool = tool /\ answer = Pending
    /\ answer' = result
    /\ UNCHANGED <<task, contents, seen>>

Search ==
    \/ Answer("grep", Grep(task.root, task.names, task.limit, task.context))
    \/ Answer("find", Find(task.root, task.names, task.limit))
    \/ Answer("ls", List(task.root, task.limit))

\* The window other outputs are cut to.
Cut ==
    \/ Answer("head", TruncateHead(task.lines, Limit(MaxLines, MaxBytes)))
    \/ Answer("tail", TruncateTail(task.lines, Limit(MaxLines, MaxBytes)))

FileNext ==
    \/ \E limit \in PageLimits : ReadPage(limit)
    \/ SkipLine \/ EditFile \/ WriteFile \/ Search \/ Cut

FileSpec == FileInit /\ [][FileNext]_fileVars

-----------------------------------------------------------------------------
(***************************************************************************)
(* Correctness.                                                            *)
(***************************************************************************)
\* A model that follows the notices sees every line of the file once and in
\* order, whatever limits it asks for on the way, and is never sent past
\* the end (operations.py, execute_read).
PagesAreContiguous ==
    task.tool = "read" /\ answer # Pending =>
        /\ answer.kind # "refused"
        /\ seen = [i \in 1..Len(seen) |-> i]
        /\ answer.lines = SubSeq(task.lines, answer.from + 1,
                                 answer.from + Len(answer.lines))
        /\ answer.next = NotGiven /\ answer.kind # "too_long" =>
              Len(seen) = Len(task.lines)
        /\ answer.next # NotGiven => answer.next = Len(seen) + 1

\* A window is a whole number of lines from its end of the text, keeps both
\* limits, and could not be longer; only the tail cuts a line, when not one
\* fits (truncation.py, truncate_head and truncate_tail).
Fits(lines) == Len(lines) <= MaxLines /\ Joined(lines) <= MaxBytes

WindowsAreWhole ==
    task.tool \in {"head", "tail"} /\ answer # Pending =>
        LET all == Counted(task.lines)
            n == Len(all)
            Part(k) == IF task.tool = "head" THEN SubSeq(all, 1, k)
                       ELSE SubSeq(all, n - k + 1, n)
            longest == CHOOSE k \in 0..n :
                           /\ Fits(Part(k))
                           /\ k = n \/ ~Fits(Part(k + 1))
        IN  IF ~answer.truncated THEN answer.lines = task.lines
            ELSE IF task.tool = "tail" /\ longest = 0
            THEN /\ Len(answer.lines) = 1 /\ Fits(answer.lines)
                 /\ answer.lines[1] # all[n]
                 /\ IsSuffix(answer.lines[1], all[n])
            ELSE answer.lines = Part(longest)

\* Paging and cutting agree on what a line is and what fits: nothing of a
\* text is lost, repeated or split between the answers of the read tool, and
\* what an answer leaves out it says so (operations.py:222, truncation.py).
ReadingIsExact == PagesAreContiguous /\ WindowsAreWhole

\* Replaces, in one pass, the old text of each edit where it stands.
Replaced(text, edits, at) ==
    FlattenSeq([p \in 1..Len(text) |->
        IF \E i \in DOMAIN at : at[i] = p
        THEN edits[CHOOSE i \in DOMAIN at : at[i] = p].new
        ELSE IF \E i \in DOMAIN at : p \in at[i] + 1..at[i] + Len(edits[i].old) - 1
        THEN <<>> ELSE <<text[p]>>])

Places(text, edits) ==
    {at \in [DOMAIN edits -> 1..Len(text)] :
        /\ \A i \in DOMAIN edits : OccursAt(text, edits[i].old, at[i])
        /\ \A i, j \in DOMAIN edits : i # j =>
              \/ at[i] + Len(edits[i].old) <= at[j]
              \/ at[j] + Len(edits[j].old) <= at[i]}

\* An edit whose old texts are all there replaces them, each where it
\* stands in the file as it was, and changes no other character: the order
\* of the edits, what one puts where another looks, and the spelling of line
\* ends make no difference (pi_compat_catalog.py:207, "a unique,
\* non-overlapping region of the original file").  Edits with one place each,
\* also for the fuzzy eye, are not turned down.  Any other answer claims no
\* more than the file shows.
EditIsExact ==
    task.tool = "edit" /\ answer # Pending =>
        LET text == ToLf(task.raw)
            crlf == UsesCrlf(task.raw)
            edits == [i \in DOMAIN task.edits |->
                         [old |-> ToLf(task.edits[i].old),
                          new |-> ToLf(task.edits[i].new)]]
            places == Places(text, edits)
        IN  /\ answer.effect = "not_attempted" => contents = task.raw
            /\ /\ answer.kind = "edited"
               /\ Restore(text, crlf) = task.raw
               /\ \A i \in DOMAIN edits : FindFrom(text, edits[i].old, 1) > 0
               => \E at \in places : contents = Restore(Replaced(text, edits, at), crlf)
            /\ /\ places # {} /\ edits # <<>>
               /\ \A i \in DOMAIN edits :
                     /\ edits[i].old # <<>>
                     /\ \A at, other \in 1..Len(text) :
                           /\ OccursAt(text, edits[i].old, at)
                           /\ OccursAt(text, edits[i].old, other)
                           => at = other
                     /\ CountOf(FuzzyForm(text), FuzzyForm(edits[i].old)) = 1
               /\ \A at \in places : Replaced(text, edits, at) # text
               => answer.kind # "conflict"

\* Every file and directory a search may look at: none of the entries on
\* its way is ignored, lost or closed.
Reachable(root) ==
    LET reach[directory \in Directories, path \in Seq(STRING), specs \in Seq(Rules)] ==
            LET below == IF directory.rulesOpen THEN Append(specs, directory.rules) ELSE specs
                open == {i \in DOMAIN directory.entries :
                            LET e == directory.entries[i]
                                said == {k \in DOMAIN below : Decision(below[k], e) # "none"}
                            IN  /\ e.kind # "lost"
                                /\ e.kind = "directory" => e.listable
                                /\ said = {} \/ Decision(below[CHOOSE k \in said :
                                        \A m \in said : m <= k], e) = "keep"}
            IN  UNION {LET e == directory.entries[i] here == Append(path, e.name)
                       IN  {[path |-> here, entry |-> e]}
                           \cup (IF e.kind = "directory" THEN reach[e, here, below] ELSE {})
                       : i \in open}
    IN  reach[root, <<>>, <<>>]

Hits ==
    CASE task.tool = "grep" ->
            UNION {{<<f.path, i>> : i \in {j \in DOMAIN f.entry.lines :
                                              f.entry.lines[j].match}} :
                   f \in {f \in Reachable(task.root) :
                             /\ f.entry.kind = "file" /\ f.entry.name \in task.names
                             /\ f.entry.opens /\ ~f.entry.binary}}
      [] task.tool = "find" ->
            {<<f.path, 0>> : f \in {f \in Reachable(task.root) :
                                       /\ f.entry.name \in task.names
                                       /\ f.entry.kind = "file" => f.entry.opens}}
      [] task.tool = "ls" ->
            {<<<<task.root.entries[i].name>>, 0>> : i \in DOMAIN task.root.entries}

Listed ==
    LET rows == SelectSeq(answer.rows, LAMBDA row : row.match)
    IN  {<<rows[i].path, rows[i].line>> : i \in DOMAIN rows}

\* A search that does not say it is cut short lists every match of every
\* file it may look at, and no file was closed to it; whatever it says, it
\* lists matches only (search.py, operations.py:execute_ls).  A limit below
\* one makes ls call any directory empty, and is left out.
SearchIsHonest ==
    /\ task.tool \in {"grep", "find", "ls"} /\ answer # Pending
    /\ answer.kind = "found" /\ task.root.kind = "directory"
    /\ task.tool = "ls" => task.limit > 0
    => /\ Listed \subseteq Hits
       /\ ~answer.truncated =>
             /\ Hits \subseteq Listed
             /\ \A f \in Reachable(task.root) :
                   /\ task.tool # "ls" /\ f.entry.kind = "file"
                   /\ f.entry.name \in task.names
                   => f.entry.opens
=============================================================================
