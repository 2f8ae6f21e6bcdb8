--------------------------- MODULE PromptAssembly ---------------------------
(***************************************************************************)
(* What millforge-base tells the model: the project context it discovers,  *)
(* and the system prompt it assembles under a byte limit.                  *)
(*                                                                         *)
(* A text is the sequence of the widths of its characters in UTF-8.  A     *)
(* file is known by its identity (two names may be one file), and holds a  *)
(* text or cannot be read.                                                 *)
(***************************************************************************)
EXTENDS Integers, Sequences, SequencesExt, FiniteSetsExt, TextSizes

CONSTANTS
    PromptLimit,     \* _PROMPT_BYTE_LIMIT
    ContextLimit,    \* _CONTEXT_BYTE_LIMIT
    AppendPrefix,    \* bytes of _APPEND_PREFIX
    ContextFrame,    \* bytes of _CONTEXT_PREFIX
    ContextSuffix,   \* bytes of _CONTEXT_SUFFIX
    RecordFrame,     \* bytes around the content of one context file
    DefaultPrompt,   \* _DEFAULT_SYSTEM_PROMPT
    Unreadable,      \* a file whose read raises OSError
    Absent           \* "no value"

ASSUME LimitAssumption ==
    /\ PromptLimit \in Nat /\ ContextLimit \in Nat
    /\ {AppendPrefix, ContextFrame, ContextSuffix, RecordFrame} \subseteq Nat
    /\ DefaultPrompt \in Seq(Nat) /\ Absent \notin Seq(Nat)

\* _truncate_to_utf8_bytes: a character that does not fit whole is left out.
Truncated(text, limit) ==
    SubSeq(text, 1, Max({n \in 0..Len(text) : Bytes(SubSeq(text, 1, n)) <= limit}))

-----------------------------------------------------------------------------
(* Discovery.  A directory is the sequence of its candidates, each a file  *)
(* or Absent.                                                              *)

\* The first candidate that can be read, or Absent.
FirstReadable(candidates, content) ==
    LET readable == {i \in DOMAIN candidates :
                        /\ candidates[i] # Absent
                        /\ content[candidates[i]] # Unreadable}
    IN  IF readable = {} THEN Absent ELSE candidates[Min(readable)]

\* _discover_prompt_file: the file is cut at the limit before it is used.
DiscoveredPrompt(candidates, content) ==
    LET file == FirstReadable(candidates, content)
    IN  IF file = Absent THEN Absent ELSE Truncated(content[file], PromptLimit)

\* One directory between the root and the working directory.
Added(found, directory, content) ==
    LET file == FirstReadable(directory, content)
    IN  IF file = Absent \/ file \in ToSet(found) THEN found
        ELSE Append(found, file)

\* The files of the context: the global one, then one of each directory.
ContextFiles(tree, content) ==
    LET native == FirstReadable(tree.native, content)
        global == IF native # Absent THEN native
                  ELSE FirstReadable(tree.fallback, content)
        found[n \in 0..Len(tree.directories)] ==
            IF n = 0 THEN IF global = Absent THEN <<>> ELSE <<global>>
            ELSE Added(found[n - 1], tree.directories[n], content)
    IN  found[Len(tree.directories)]

\* _allocate_context: the files share one budget, in order; the first that
\* does not fit is cut and the rest left out.
Allotted(done, text, last) ==
    LET kept == Truncated(text, done.room)
        room == done.room - Bytes(kept)
    IN  IF done.truncated THEN done
        ELSE [texts     |-> Append(done.texts, kept),
              room      |-> room,
              truncated |-> kept # text \/ (room = 0 /\ ~last)]

Allocated(texts) ==
    LET done[n \in 0..Len(texts)] ==
            IF n = 0 THEN [texts |-> <<>>, room |-> ContextLimit, truncated |-> FALSE]
            ELSE Allotted(done[n - 1], texts[n], n = Len(texts))
    IN  done[Len(texts)]

Context(enabled, tree, content) ==
    LET files == IF enabled THEN ContextFiles(tree, content) ELSE <<>>
        given == Allocated([i \in DOMAIN files |-> content[files[i]]])
    IN  [files |-> files, texts |-> given.texts, truncated |-> given.truncated]

-----------------------------------------------------------------------------
(* Assembly: body, appended text, context, and a footer that always fits.  *)

Prompt(body, append, framed, texts, truncated) ==
    [body |-> body, append |-> append, framed |-> framed, texts |-> texts,
     truncated |-> truncated]

\* Mutant: the suffix that closes the context is not reserved.
RecordRoomUnclosed(used, footer) == PromptLimit - (used + RecordFrame + footer)
\* The room for the content of the next context file.
RecordRoom(used, footer) ==
    PromptLimit - (used + RecordFrame + ContextSuffix + footer)

\* The loop over context.files.
Recorded(done, text, footer) ==
    LET room == RecordRoom(done.used, footer)
        kept == Truncated(text, room)
    IN  IF done.truncated THEN done
        ELSE IF room < 0
        THEN [texts |-> done.texts, used |-> done.used, truncated |-> TRUE]
        ELSE [texts     |-> Append(done.texts, kept),
              used      |-> done.used + RecordFrame + Bytes(kept),
              truncated |-> kept # text]

Recording(texts, start, footer) ==
    LET done[n \in 0..Len(texts)] ==
            IF n = 0
            THEN [texts |-> <<>>, used |-> start + ContextFrame, truncated |-> FALSE]
            ELSE Recorded(done[n - 1], texts[n], footer)
    IN  done[Len(texts)]

WithContext(body, append, texts, start, footer) ==
    LET done == Recording(texts, start, footer)
    IN  IF texts = <<>> THEN Prompt(body, append, FALSE, <<>>, FALSE)
        ELSE IF start + ContextFrame + ContextSuffix + footer > PromptLimit
        THEN Prompt(body, append, FALSE, <<>>, TRUE)
        ELSE Prompt(body, append, TRUE, done.texts, done.truncated)

\* The appended text follows a prefix, if both fit at all.
WithAppend(body, append, texts, footer) ==
    LET room == PromptLimit - (Bytes(body) + AppendPrefix + footer)
        kept == Truncated(append, room)
    IN  IF append \in {Absent, <<>>}
        THEN WithContext(body, Absent, texts, Bytes(body), footer)
        ELSE IF room < 0 THEN Prompt(body, Absent, FALSE, <<>>, TRUE)
        ELSE IF kept # append THEN Prompt(body, kept, FALSE, <<>>, TRUE)
        ELSE WithContext(body, kept, texts,
                         Bytes(body) + AppendPrefix + Bytes(kept), footer)

\* _build_millforge_base_system_prompt_resolved, for a footer that fits.
Assembled(body, append, texts, footer) ==
    LET kept == Truncated(body, PromptLimit - footer)
    IN  IF kept # body THEN Prompt(kept, Absent, FALSE, <<>>, TRUE)
        ELSE WithAppend(body, append, texts, footer)

\* byte_count: the bytes of everything that was concatenated.
ByteCount(prompt, footer) ==
    LET append == IF prompt.append = Absent THEN 0
                  ELSE AppendPrefix + Bytes(prompt.append)
        records == [i \in DOMAIN prompt.texts |-> RecordFrame + Bytes(prompt.texts[i])]
        context == IF prompt.framed THEN ContextFrame + Bytes(records) + ContextSuffix
                   ELSE 0
    IN  Bytes(prompt.body) + append + context + footer
=============================================================================
