----------------------------- MODULE TextTools ------------------------------
(***************************************************************************)
(* What the Pi-compatible tools do with the text of one file: the window   *)
(* read shows of it, the head and tail windows of every other output, and  *)
(* the replacements of edit.                                               *)
(*                                                                         *)
(* Read looks at sizes only, so its text is a sequence of lines and a line *)
(* the sequence of the byte widths of its characters.  Edit looks at       *)
(* characters: a space, a line feed, a carriage return, a curly quote and  *)
(* the plain quote it normalises to stand for their kinds.                 *)
(***************************************************************************)
EXTENDS Integers, SequencesExt, TextSizes

CONSTANTS MaxLines, MaxBytes,   \* DEFAULT_MAX_LINES, DEFAULT_MAX_BYTES
          NotGiven              \* an argument left out, and "no next page"

ASSUME WindowAssumption == MaxLines \in Nat \ {0} /\ MaxBytes \in Nat \ {0}

-----------------------------------------------------------------------------
(***************************************************************************)
(* Windows of a text given as lines.                                       *)
(***************************************************************************)
\* The size of "\n".join(lines).
Joined(lines) ==
    Sums([i \in DOMAIN lines |-> Bytes(lines[i])])[Len(lines)]
    + IF lines = <<>> THEN 0 ELSE Len(lines) - 1

\* _split_lines_for_counting: a final line feed ends a line, begins none.
Counted(lines) ==
    IF lines \in {<<>>, << <<>> >>} THEN <<>>
    ELSE IF Last(lines) = <<>> THEN Front(lines) ELSE lines

Window(lines, truncated, by) ==
    [lines |-> lines, truncated |-> truncated, by |-> by]

\* The loop of truncate_head breaks at the first line that would be one too
\* many, or with which the output would be too large.
KeepFirst(lines, limit) ==
    Min({n \in 0..Len(lines) :
            \/ n \in {Len(lines), limit.lines}
            \/ Joined(SubSeq(lines, 1, n + 1)) > limit.bytes})

Limit(lines, bytes) == [lines |-> lines, bytes |-> bytes]

TruncateHead(lines, limit) ==
    LET all == Counted(lines)
        kept == KeepFirst(all, limit)
    IN  CASE Len(all) <= limit.lines /\ Joined(lines) <= limit.bytes ->
                Window(lines, FALSE, "none")
          [] OTHER ->
                Window(SubSeq(all, 1, kept), TRUE,
                       IF Bytes(all[1]) > limit.bytes THEN "first_line"
                       ELSE IF kept < Len(all) /\ kept < limit.lines
                            THEN "bytes" ELSE "lines")

\* _truncate_from_end: whole characters only.
LastBytes(line, bytes) ==
    LET From(n) == SubSeq(line, n + 1, Len(line))
    IN  From(Min({n \in 0..Len(line) : Bytes(From(n)) <= bytes}))

TruncateTail(lines, limit) ==
    LET all == Counted(lines)
        kept == KeepFirst(Reverse(all), limit)
    IN  CASE Len(all) <= limit.lines /\ Joined(lines) <= limit.bytes ->
                Window(lines, FALSE, "none")
          [] OTHER ->
                Window(IF kept = 0 THEN <<LastBytes(Last(all), limit.bytes)>>
                       ELSE SubSeq(all, Len(all) - kept + 1, Len(all)),
                       TRUE,
                       IF kept < Len(all) /\ kept < limit.lines
                       THEN "bytes" ELSE "lines")

-----------------------------------------------------------------------------
(***************************************************************************)
(* execute_read, of a text file and with whole numbers.                    *)
(***************************************************************************)
MinOf(i, j) == IF i <= j THEN i ELSE j
MaxOf(i, j) == IF i >= j THEN i ELSE j

\* _js_slice_index: a negative index counts from the end.
SliceIndex(i, length) ==
    IF i < 0 THEN MaxOf(length + i, 0) ELSE MinOf(i, length)

\* _read_start_line: 0-based; no offset and 0 are the first line.
StartLine(offset) ==
    IF offset \in {NotGiven, 0} THEN 0 ELSE MaxOf(0, offset - 1)

Page(kind, from, lines, next) ==
    [kind |-> kind, from |-> from, lines |-> lines, next |-> next]

\* Mutant: the notice names the last line shown.
NextAfterRepeats(start, shown) == start + shown

\* The offset a notice names.
NextAfter(start, shown) == start + shown + 1

Read(lines, offset, limit) ==
    LET n == Len(lines)
        start == StartLine(offset)
        end == IF limit = NotGiven THEN n ELSE MinOf(start + limit, n)
        selected == SubSeq(lines, start + 1, SliceIndex(end, n))
        window == TruncateHead(selected, Limit(MaxLines, MaxBytes))
    IN  CASE start >= n -> Page("refused", start, <<>>, NotGiven)
          [] start < n /\ window.by = "first_line" ->
                Page("too_long", start, <<>>, NotGiven)
          [] start < n /\ window.by \in {"lines", "bytes"} ->
                Page("truncated", start, window.lines,
                     NextAfter(start, Len(window.lines)))
          [] start < n /\ ~window.truncated /\ end < n ->
                Page("limited", start, window.lines,
                     NextAfter(start, end - start))
          [] start < n /\ ~window.truncated /\ end = n ->
                Page("last", start, window.lines, NotGiven)

-----------------------------------------------------------------------------
(***************************************************************************)
(* Texts of characters.                                                    *)
(***************************************************************************)
OccursAt(text, part, i) ==
    /\ i + Len(part) - 1 <= Len(text)
    /\ SubSeq(text, i, i + Len(part) - 1) = part

\* str.find, from position i; 0 for none.
FindFrom(text, part, i) ==
    LET at == {j \in i..Len(text) + 1 : OccursAt(text, part, j)}
    IN  IF at = {} THEN 0 ELSE CHOOSE j \in at : \A k \in at : j <= k

\* str.count: occurrences that do not overlap, from the left.
CountOf(text, part) ==
    LET count[i \in 1..Len(text) + 1] ==
            LET at == FindFrom(text, part, i)
            IN  IF at = 0 THEN 0 ELSE 1 + count[at + Len(part)]
    IN  IF part = <<>> THEN Len(text) + 1 ELSE count[1]

\* normalize_to_lf.
ToLf(text) ==
    FlattenSeq([i \in DOMAIN text |->
        IF text[i] # "cr" THEN <<text[i]>>
        ELSE IF i < Len(text) /\ text[i + 1] = "lf" THEN <<>> ELSE <<"lf">>])

\* detect_line_ending: what precedes the first line feed.
UsesCrlf(text) ==
    LET first == FindFrom(text, <<"lf">>, 1)
    IN  first > 1 /\ text[first - 1] = "cr"

\* restore_line_endings.
Restore(text, crlf) ==
    IF ~crlf THEN text
    ELSE FlattenSeq([i \in DOMAIN text |->
            IF text[i] = "lf" THEN <<"cr", "lf">> ELSE <<text[i]>>])

\* normalize_for_fuzzy_match: no space before the end of a line or of the
\* text, no curly quotes.
Trailing(text, i) ==
    \E j \in i + 1..Len(text) + 1 :
        /\ j > Len(text) \/ text[j] = "lf"
        /\ \A k \in i..j - 1 : text[k] = "space"

FuzzyForm(text) ==
    FlattenSeq([i \in DOMAIN text |->
        IF text[i] = "curly" THEN <<"quote">>
        ELSE IF text[i] = "space" /\ Trailing(text, i) THEN <<>>
        ELSE <<text[i]>>])

-----------------------------------------------------------------------------
(***************************************************************************)
(* apply_edits_to_normalized_content.  An edit is [old, new].              *)
(***************************************************************************)
Match(at, length, new, fuzzy) ==
    [at |-> at, length |-> length, new |-> new, fuzzy |-> fuzzy]

\* _fuzzy_find_text; a position of 0 is "not found".
FuzzyFind(text, edit) ==
    LET exact == FindFrom(text, edit.old, 1)
        old == FuzzyForm(edit.old)
        fuzzy == FindFrom(FuzzyForm(text), old, 1)
    IN  IF exact > 0 THEN Match(exact, Len(edit.old), edit.new, FALSE)
        ELSE Match(fuzzy, Len(old), edit.new, TRUE)

Splice(text, match) ==
    SubSeq(text, 1, match.at - 1) \o match.new
    \o SubSeq(text, match.at + match.length, Len(text))

\* Mutant: the replacements are made in the order of their positions.
SpliceAllForward(text, matches) ==
    FoldLeft(Splice, text, matches)

\* The loop over reversed(matched_edits).
SpliceAll(text, matches) == FoldLeft(Splice, text, Reverse(matches))

ByPosition(matches) ==
    SortSeq(matches, LAMBDA m, n : m.at < n.at)

Conflict == [kind |-> "conflict", text |-> <<>>]

ApplyEdits(text, edits) ==
    LET lf == [i \in DOMAIN edits |->
                  [old |-> ToLf(edits[i].old), new |-> ToLf(edits[i].new)]]
        fuzzy == \E i \in DOMAIN lf :
                    FuzzyFind(text, lf[i]).fuzzy /\ FuzzyFind(text, lf[i]).at > 0
        base == IF fuzzy THEN FuzzyForm(text) ELSE text
        found == [i \in DOMAIN lf |-> FuzzyFind(base, lf[i])]
        sorted == ByPosition(found)
        result == SpliceAll(base, sorted)
        sound ==
            /\ \A i \in DOMAIN lf :
                  /\ lf[i].old # <<>> /\ found[i].at > 0
                  /\ CountOf(FuzzyForm(base), FuzzyForm(lf[i].old)) <= 1
            /\ \A i \in 1..Len(sorted) - 1 :
                  sorted[i].at + sorted[i].length <= sorted[i + 1].at
    IN  IF sound /\ result # base
        THEN [kind |-> "edited", text |-> result] ELSE Conflict

\* execute_edit on the text of the file, after the byte order mark.
Edit(raw, edits) ==
    LET applied == ApplyEdits(ToLf(raw), edits)
    IN  CASE edits = <<>> -> [kind |-> "refused", text |-> raw]
          [] edits # <<>> /\ applied.kind = "conflict" ->
                [kind |-> "conflict", text |-> raw]
          [] edits # <<>> /\ applied.kind = "edited" ->
                [kind |-> "edited", text |-> Restore(applied.text, UsesCrlf(raw))]
=============================================================================
