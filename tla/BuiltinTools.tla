---------------------------- MODULE BuiltinTools -----------------------------
(***************************************************************************)
(* The built-in tools on a workspace and an artifact directory that other  *)
(* processes change too.  A call passes the side-effect policy, which      *)
(* looks at the files, and then an implementation that looks at them       *)
(* again; between the two, and between what the implementation reads and   *)
(* what it writes, anything may have happened.                             *)
(*                                                                         *)
(* A name is what a model writes; where it leads is fixed: whether it is a *)
(* valid logical path, whether its parent is inside the root, outside or   *)
(* missing, whether it is a link or a directory, which names are below it, *)
(* and the place, the real file, it stands for.  A digest is modelled by   *)
(* the content it is of.                                                   *)
(***************************************************************************)
EXTENDS Integers, FiniteSets

CONSTANTS
    Calls,        \* the calls, each a record with its tool and context
    Leads,        \* name -> [valid, parent, link, directory, place, holds]
    Committed,         \* place -> the content git knows of it
    Workspace,    \* places below the workspace root
    Store,        \* artifact -> its place below the artifact root
    Absent, Unset,
    MaxChanges    \* changes that other processes make

\* A file whose parent is inside the root and that is no link is inside
\* itself; a tool that stores has a descriptor of what it produces.  A patch
\* has names, those the runtime finds in it, and it touches places, those git
\* finds in it: git keeps to the working tree, and that is all the two are
\* sure to have in common.
ASSUME BuiltinAssumption ==
    /\ \A n \in DOMAIN Leads :
          Leads[n].valid /\ Leads[n].parent = "inside" /\ ~Leads[n].link
             => Leads[n].place \in Workspace
    /\ \A c \in Calls :
          /\ c.name \in DOMAIN Leads /\ c.names \subseteq DOMAIN Leads
          /\ c.touched \subseteq Workspace \cap DOMAIN Committed
          /\ c.tool \in {"store", "store_diff"} => c.produced # Unset

VARIABLES
    call, stage,
    files,        \* place -> its content, or Absent
    text,         \* what the call is about to write
    temp,         \* the temporary file beside a target: [place, full]
    others,       \* places changed by others since this call last looked
    mine,         \* places this call has changed
    returned,     \* what the call returned, or Unset
    changes

builtinVars == <<call, stage, files, text, temp, others, mine, returned, changes>>

Locations == DOMAIN Committed \cup {Store[a] : a \in DOMAIN Store}

-----------------------------------------------------------------------------
(***************************************************************************)
(* Paths.                                                                  *)
(***************************************************************************)
There(place) == place \in Locations /\ files[place] # Absent

\* resolve_existing_contained finds the name.
Existing(name) ==
    LET at == Leads[name]
    IN  /\ at.valid /\ at.parent # "absent"
        /\ at.directory \/ There(at.place)
        /\ at.place \in Workspace

\* Mutant: where a link leads is not looked at.
WritableAnyLink(name) ==
    LET at == Leads[name]
    IN  /\ at.valid /\ at.parent = "inside"
        /\ at.link => There(at.place)
        /\ ~at.directory

\* resolve_write_contained accepts the name; the place is the target.
Writable(name) ==
    LET at == Leads[name]
    IN  /\ at.valid /\ at.parent = "inside"
        /\ at.link => There(at.place)
        /\ at.link \/ There(at.place) => at.place \in Workspace
        /\ ~at.directory

Target(name) == Leads[name].place

-----------------------------------------------------------------------------
(***************************************************************************)
(* Rules that the policy and the implementations share.                    *)
(***************************************************************************)
\* _artifact_policy_error: the artifact a tool may touch.
ArtifactAllowed(c) ==
    /\ c.policy # Unset
    /\ c.artifact \in c.policy.declared
    /\ c.produced # Unset => c.artifact \in c.produced
    /\ c.artifact \in DOMAIN Store

\* The artifacts a terminal intent carries; none if it names one that the
\* request does not have.
TerminalRefs(c) == IF c.explicit = Unset THEN c.inputs ELSE c.explicit

TerminalBacked(c) ==
    /\ TerminalRefs(c) \subseteq c.inputs
    /\ c.policy # Unset => c.policy.required \subseteq TerminalRefs(c)

\* _git_diff of some places: those that differ from the commit.
Diff(places) == {p \in places : files[p] # Committed[p]}

\* The places a call names; git diff without names is of everything.
Named(c) ==
    IF c.names = {} THEN DOMAIN Committed ELSE {Leads[n].place : n \in c.names}

\* expected_sha256 does not match the file.
Mismatch(c) ==
    LET now == files[Target(c.name)]
    IN  c.expected # Unset /\ now # Absent /\ now # c.expected

-----------------------------------------------------------------------------
(***************************************************************************)
(* The policy before entry: an error code, or Unset.                     *)
(***************************************************************************)
WorkspaceGate(c) ==
    CASE c.root # "there" -> "policy_denied"
      [] OTHER ->
         CASE c.tool \in {"list", "search"} ->
                IF Existing(c.name) THEN Unset ELSE "policy_denied"
           [] c.tool = "read" ->
                IF ~Existing(c.name) THEN "policy_denied"
                ELSE IF Leads[c.name].directory THEN "not_found" ELSE Unset
           [] c.tool = "write" ->
                IF ~Writable(c.name) THEN "policy_denied"
                ELSE IF Mismatch(c) THEN "conflict" ELSE Unset
           [] c.tool = "patch" ->
                IF c.names # {} /\ \A n \in c.names : Writable(n)
                THEN Unset ELSE "policy_denied"
           [] c.tool \in {"diff", "store_diff"} ->
                IF \A n \in c.names : Leads[n].valid
                THEN Unset ELSE "policy_denied"

ArtifactGate(c) ==
    CASE c.store # "there" -> "policy_denied"
      [] OTHER ->
         IF c.tool = "store_diff" /\ WorkspaceGate(c) # Unset
         THEN WorkspaceGate(c)
         ELSE IF ~ArtifactAllowed(c) THEN "policy_denied"
         ELSE IF c.tool = "fetch" /\ ~There(Store[c.artifact])
         THEN "policy_denied" ELSE Unset

ShellGate(c) ==
    CASE c.root # "there" -> "policy_denied"
      [] OTHER -> IF ~c.approved THEN "invalid_arguments"
                  ELSE IF c.seconds <= 0 THEN "timeout" ELSE Unset

TerminalGate(c) ==
    IF TerminalBacked(c) THEN Unset ELSE "terminal_intent_invalid"

GateError(c) ==
    CASE c.tool \in {"list", "search", "read", "write", "patch", "diff"} ->
            WorkspaceGate(c)
      [] c.tool \in {"fetch", "store", "store_diff"} -> ArtifactGate(c)
      [] c.tool = "shell" -> ShellGate(c)
      [] c.tool = "terminal" -> TerminalGate(c)
      [] c.tool = "inspect" -> Unset

-----------------------------------------------------------------------------
Outcome(status, code, effect, data, by) ==
    [status |-> status, code |-> code, effect |-> effect, data |-> data, by |-> by]

Refusal(code, by) ==
    Outcome("not_executed", code, "not_attempted", {}, by)

Success(data) ==
    Outcome("success", Unset, "confirmed_complete", data, "implementation")

Returns(outcome) ==
    /\ returned' = outcome /\ stage' = "over"
    /\ UNCHANGED <<call, changes>>

BuiltinInit ==
    /\ call \in Calls /\ stage = "gate"
    /\ files = [p \in Locations |->
                   IF p \in call.there
                   THEN IF p \in DOMAIN Committed THEN Committed[p] ELSE "old" ELSE Absent]
    /\ text = Absent /\ temp = Unset /\ others = {} /\ mine = {}
    /\ returned = Unset /\ changes = 0

\* validate_builtin_pre_entry_policy; a file it reads may fail to open.
Gate ==
    /\ stage = "gate"
    /\ others' = {}
    /\ \/ GateError(call) = Unset /\ stage' = "entered"
          /\ UNCHANGED <<call, changes, returned>>
       \/ GateError(call) # Unset /\ Returns(Refusal(GateError(call), "gate"))
       \/ call.tool = "write" /\ Returns(Refusal("policy_denied", "gate"))
    /\ UNCHANGED <<files, text, temp, mine>>

\* Reading fails, at any point of an implementation.
ReadFails ==
    /\ stage = "entered" /\ call.tool \notin {"inspect", "terminal", "shell"}
    /\ Returns(Refusal("policy_denied", "io"))
    /\ UNCHANGED <<files, text, temp, others, mine>>

Refuses(code) ==
    /\ Returns(Refusal(code, "implementation"))
    /\ UNCHANGED <<files, text, temp, others, mine>>

Shows(data) ==
    /\ Returns(Success(data))
    /\ UNCHANGED <<files, text, temp, others, mine>>

-----------------------------------------------------------------------------
(***************************************************************************)
(* Tools that look.                                                        *)
(***************************************************************************)
\* The files of the workspace that the names below a directory lead to, and
\* the answer cut at a number of rows.
Visible ==
    {Target(n) : n \in {m \in Leads[call.name].holds :
                           There(Target(m)) /\ Target(m) \in Workspace}}

Matches ==
    IF call.tool = "list" THEN Visible
    ELSE {p \in Visible : files[p] = call.query}

\* Rows end as soon as the number is reached.
Full(rows) == Cardinality(rows) >= call.most

ListOrSearch ==
    /\ stage = "entered" /\ call.tool \in {"list", "search"}
    /\ IF ~Existing(call.name) THEN Refuses("policy_denied")
       ELSE \E rows \in SUBSET Matches, closed \in SUBSET Matches :
              /\ call.tool = "list" => closed = {}
              /\ rows \cap closed = {}
              /\ Cardinality(rows) <= call.most
              /\ Cardinality(rows) < call.most => rows = Matches \ closed
              /\ Shows([rows |-> rows, cut |-> Full(rows), closed |-> closed])

ReadFile ==
    /\ stage = "entered" /\ call.tool = "read"
    /\ IF ~Existing(call.name) THEN Refuses("policy_denied")
       ELSE IF Leads[call.name].directory THEN Refuses("not_found")
       ELSE Shows(files[Target(call.name)])

ReadDiff ==
    /\ stage = "entered" /\ call.tool = "diff"
    /\ IF \E n \in call.names : ~Leads[n].valid THEN Refuses("policy_denied")
       ELSE Shows(Diff(Named(call)))

FetchArtifact ==
    /\ stage = "entered" /\ call.tool = "fetch"
    /\ IF ~ArtifactAllowed(call) \/ ~There(Store[call.artifact])
       THEN Refuses("policy_denied")
       ELSE Shows([artifact |-> call.artifact, content |-> files[Store[call.artifact]]])

Inspect == stage = "entered" /\ call.tool = "inspect" /\ Shows(call.inputs)

Terminal ==
    /\ stage = "entered" /\ call.tool = "terminal"
    /\ IF TerminalBacked(call) THEN Shows(TerminalRefs(call))
       ELSE Refuses("terminal_intent_invalid")

-----------------------------------------------------------------------------
(***************************************************************************)
(* Tools that write.                                                       *)
(***************************************************************************)
\* What is to be written is settled, and the files have been looked at.
Looked(content) ==
    /\ others' = {} /\ stage' = "checked" /\ text' = content
    /\ UNCHANGED <<call, files, temp, mine, returned, changes>>

\* Mutant: the policy before entry has compared the digests already.
CompareTrusting ==
    /\ stage = "entered" /\ call.tool = "write"
    /\ IF ~Writable(call.name) THEN Refuses("policy_denied")
       ELSE Looked(call.content)

\* _workspace_write_file up to the write.
Compare ==
    /\ stage = "entered" /\ call.tool = "write"
    /\ IF ~Writable(call.name) THEN Refuses("policy_denied")
       ELSE IF Mismatch(call) THEN Refuses("conflict")
       ELSE Looked(call.content)

\* _artifact_write up to the write.
AdmitArtifact ==
    /\ stage = "entered" /\ call.tool \in {"store", "store_diff"}
    /\ IF ~ArtifactAllowed(call) THEN Refuses("policy_denied")
       ELSE Looked(IF call.tool = "store" THEN call.content
                   ELSE IF Diff(DOMAIN Committed) = {} THEN "clean" ELSE "dirty")

Where == IF call.tool = "write" THEN Target(call.name) ELSE Store[call.artifact]
StillWritable == call.tool = "write" => Writable(call.name)

\* atomic_write_contained: the name is resolved again, a temporary file is
\* filled, and takes the place of the target.
MakeTemp ==
    /\ stage = "checked" /\ call.tool \in {"write", "store", "store_diff"}
    /\ IF ~StillWritable THEN Refuses("policy_denied")
       ELSE /\ temp' = [place |-> Where, full |-> FALSE] /\ stage' = "filling"
            /\ UNCHANGED <<call, files, text, others, mine, returned, changes>>

FillTemp ==
    /\ stage = "filling"
    /\ temp' = [temp EXCEPT !.full = TRUE] /\ stage' = "filled"
    /\ UNCHANGED <<call, files, text, others, mine, returned, changes>>

Replace ==
    /\ stage = "filled"
    /\ files' = [files EXCEPT ![temp.place] = text]
    /\ mine' = mine \cup {temp.place}
    /\ temp' = Unset
    /\ Returns(Success([content |-> text]))
    /\ UNCHANGED <<text, others>>

\* A step of the write fails; the temporary file goes, if it can.
WriteFails ==
    /\ stage \in {"checked", "filling", "filled"} /\ call.tool # "patch"
    /\ temp' \in {temp, Unset}
    /\ Returns(Refusal("policy_denied", "io"))
    /\ UNCHANGED <<files, text, others, mine>>

-----------------------------------------------------------------------------
(***************************************************************************)
(* _workspace_apply_patch.  The names that _changed_paths_from_patch finds *)
(* are checked and compared; git apply then reads the patch by itself, and *)
(* applies it when every place it finds there is as the patch has it.      *)
(***************************************************************************)
PatchBase ==
    /\ stage = "entered" /\ call.tool = "patch"
    /\ IF call.names = {} \/ \E n \in call.names : ~Writable(n)
       THEN Refuses("policy_denied")
       ELSE IF call.base # Unset /\ Diff(Named(call)) # call.base
       THEN Refuses("conflict") ELSE Looked(call.content)

\* git refuses a patch in which it finds nothing, unless all of it is for
\* places that it skips.  It writes the files one after another, and may die
\* on the way.
GitApply ==
    /\ stage = "checked" /\ call.tool = "patch"
    /\ \/ /\ call.touched = {} \/ \E p \in call.touched : files[p] # Committed[p]
          /\ Refuses("conflict")
       \/ /\ \A p \in call.touched : files[p] = Committed[p]
          /\ \E done \in SUBSET call.touched :
                /\ files' = [p \in Locations |-> IF p \in done THEN text ELSE files[p]]
                /\ mine' = done
                /\ IF done = call.touched
                   THEN stage' = "applied" /\ UNCHANGED <<call, returned, changes>>
                   ELSE Returns(Refusal("conflict", "io"))
          /\ UNCHANGED <<text, temp, others>>

\* The second diff is only for the answer, and of the names again.
PatchReturns ==
    /\ stage = "applied"
    /\ \/ Returns(Success(Diff(Named(call))))
       \/ Returns(Refusal("policy_denied", "io"))
    /\ UNCHANGED <<files, text, temp, others, mine>>

-----------------------------------------------------------------------------
(***************************************************************************)
(* _shell_run_profile.  The program may change any file while it runs.     *)
(***************************************************************************)
Start ==
    /\ stage = "entered" /\ call.tool = "shell"
    /\ IF ~call.approved THEN Refuses("invalid_arguments")
       ELSE \/ /\ stage' = "running"
               /\ UNCHANGED <<call, files, text, temp, others, mine, returned, changes>>
            \/ /\ Returns(Outcome("hard_failure", "implementation_error",
                                 "not_attempted", {}, "io"))
               /\ UNCHANGED <<files, text, temp, others, mine>>

Works ==
    /\ stage = "running" /\ mine = {}
    /\ \E p \in Workspace \cap Locations :
          files' = [files EXCEPT ![p] = "theirs"] /\ mine' = {p}
    /\ UNCHANGED <<call, stage, text, temp, others, returned, changes>>

Exits ==
    /\ stage = "running"
    /\ \/ Returns(Success([exit |-> 0]))
       \/ Returns(Outcome("soft_failure", "policy_denied", "confirmed_complete",
                         {}, "implementation"))
       \/ Returns(Outcome("timed_out", "timeout", "completion_unknown",
                         {}, "implementation"))
    /\ UNCHANGED <<files, text, temp, others, mine>>

-----------------------------------------------------------------------------
(***************************************************************************)
(* The world.                                                              *)
(***************************************************************************)
OthersChange ==
    /\ stage # "over" /\ changes < MaxChanges
    /\ \E p \in Locations, to \in {"theirs", Absent} :
          /\ files[p] # to
          /\ files' = [files EXCEPT ![p] = to]
          /\ others' = others \cup {p}
    /\ changes' = changes + 1
    /\ UNCHANGED <<call, stage, text, temp, mine, returned>>

\* The process is killed.
Killed ==
    /\ stage \in {"filling", "filled"}
    /\ stage' = "killed"
    /\ UNCHANGED <<call, files, text, temp, others, mine, returned, changes>>

BuiltinNext ==
    \/ Gate \/ ReadFails
    \/ ListOrSearch \/ ReadFile \/ ReadDiff \/ FetchArtifact \/ Inspect \/ Terminal
    \/ Compare \/ AdmitArtifact \/ MakeTemp \/ FillTemp \/ Replace \/ WriteFails
    \/ PatchBase \/ GitApply \/ PatchReturns
    \/ Start \/ Works \/ Exits
    \/ OthersChange \/ Killed

BuiltinSpec == BuiltinInit /\ [][BuiltinNext]_builtinVars

-----------------------------------------------------------------------------
(***************************************************************************)
(* Correctness.                                                            *)
(***************************************************************************)
\* What a call may change: the place its name stands for, if it is in the
\* workspace, or an artifact that the policy declares and the tool produces;
\* of a patch, whatever git finds in it, be it named there for the runtime or
\* not.
Licensed ==
    CASE call.tool = "write" -> {Leads[call.name].place} \cap Workspace
      [] call.tool = "patch" -> call.touched
      [] call.tool \in {"store", "store_diff"} ->
            {Store[a] : a \in DOMAIN Store \cap call.produced \cap call.policy.declared
                               \cap {call.artifact}}
      [] call.tool = "shell" -> Workspace
      [] OTHER -> {}

\* A call changes what it is licensed to change and nothing else, whatever
\* happens around it; a call that is denied has changed nothing, and one
\* that succeeds has done all of it (builtin_runtime.py:183, "performs no
\* writes"; the result's not_attempted and confirmed_complete).  A patch is
\* out of it when git dies half way, or when the diff after it fails: both
\* are reported as not attempted.  A patch that had an effect named places of
\* the workspace only; that it changed these and no others, nothing ensures.
EffectsAreLicensed ==
    /\ mine # {} => call.policy # Unset \/ call.tool \in {"write", "patch", "shell"}
    /\ mine # {} => mine \subseteq Licensed
    /\ mine # {} /\ call.tool = "patch" =>
          call.names # {} /\ \A n \in call.names : Leads[n].place \in Workspace
    /\ returned # Unset =>
          /\ returned.effect = "not_attempted" /\ ~(call.tool = "patch" /\ returned.by = "io")
             => mine = {}
          /\ returned.status = "success" /\ call.tool \notin {"shell"} => mine = Licensed
          /\ returned.status = "success" /\ call.tool = "terminal" =>
                /\ call.policy # Unset => call.policy.required \subseteq returned.data
                /\ returned.data \subseteq call.inputs

\* A write that names the content it expects never replaces another one,
\* unless it came there after the implementation itself had compared: what
\* changed between the policy and the entry is safe
\* (_workspace_write_file).  A file deleted in the meantime is made anew.
NoLostChange ==
    [][\A p \in Locations :
          /\ call.tool = "write" /\ stage = "filled" /\ stage' = "over"
          /\ files'[p] # files[p] /\ call.expected # Unset
          => files[p] \in {call.expected, Absent} \/ p \in others]_builtinVars
=============================================================================
