---------------------------- MODULE EvalWorkflow ----------------------------
(***************************************************************************)
(* One trial of the compact evaluation workflow: planner, builder, checker *)
(* and arbiter work in turn on a fixture workspace, resolve_eval_transition*)
(* says who comes next, and what they leave is judged twice and without    *)
(* looking at each other, by validate_eval_closure from the artifacts and  *)
(* by score_eval_trial from the terminal results and the checks.           *)
(*                                                                         *)
(* The stages and the driver that counts their attempts and retries are    *)
(* external.  A stage may fail at any time, with some of its artifacts     *)
(* written, and is then retried; the artifacts of earlier attempts stay    *)
(* in the bundle.  A stage that ends has written what it reports: the      *)
(* verdict it ends with, and a builder that completes the evidence of the  *)
(* workspace as it is.  Whether a verdict is deserved is left open.        *)
(***************************************************************************)
EXTENDS Naturals, Sequences, FiniteSets

CONSTANTS
    MaxEdits,   \* bound on the edits of the workspace in one trial
    MaxRetried, \* bound on the stages of one trial that are retried
    Unwritten   \* in place of an artifact

Stages == {"planner", "builder", "checker", "arbiter"}

\* legal_terminal_results, domain_attempt_limit, infrastructure_retry_limit
\* and output_artifact_ids of the default graph.
Legal ==
    [planner |-> {"PLAN_READY", "PLAN_BLOCKED"},
     builder |-> {"BUILDER_COMPLETE", "BUILDER_BLOCKED"},
     checker |-> {"CHECKER_APPROVED", "CHECKER_REJECTED", "CHECKER_BLOCKED"},
     arbiter |-> {"ARBITER_CLOSED", "ARBITER_REJECTED", "ARBITER_BLOCKED"}]
AttemptLimit == [planner |-> 1, builder |-> 2, checker |-> 2, arbiter |-> 1]
RetryLimit == 1
Outputs ==
    [planner |-> {"plan"},
     builder |-> {"workspace_diff", "patch_summary", "test_results"},
     checker |-> {"checker_verdict"},
     arbiter |-> {"arbiter_verdict"}]

Artifacts == UNION {Outputs[s] : s \in Stages}
Evidence == Outputs["builder"] \cup Outputs["checker"]

\* What an artifact says of a workspace; "of" is the edit it was written at.
\* A patch summary reports failed static checks, or else open issues only.
Says(a) ==
    CASE a = "plan" -> {"ok"}
      [] a \in {"workspace_diff", "test_results"} -> {"ok", "bad"}
      [] a = "patch_summary" -> {"ok", "failed", "issues", "malformed"}
      [] a = "checker_verdict" -> Legal["checker"]
      [] a = "arbiter_verdict" -> Legal["arbiter"]

ASSUME EvalAssumption ==
    /\ MaxEdits \in Nat /\ MaxRetried \in Nat
    /\ \A a \in Artifacts : Unwritten \notin [says : Says(a), of : Nat]

VARIABLES
    fixture,     \* what the task expects: a change of the workspace, a block
    stage,       \* the stage at work, or how the trial has ended
    attempts,    \* stage -> terminal results of it so far
    retries,     \* stage -> infrastructure retries of its attempt
    terminals,   \* the terminal results in order
    bundle,      \* artifact -> its latest version, or Unwritten
    fresh,       \* artifacts that the attempt at work has written
    workspace,   \* number of edits, whether the visible and the hidden checks
                 \* pass, whether a path was changed that must not be
    denied       \* a stage asked for a capability outside its envelope

trialVars == <<fixture, stage, attempts, retries, terminals, bundle, fresh,
          workspace, denied>>

Ended == {"completed", "blocked", "stranded", "runtime_failure",
          "provider_failure"}

Have(a) == bundle[a] # Unwritten
Claims(a, what) == Have(a) /\ bundle[a].says = what

-----------------------------------------------------------------------------
(***************************************************************************)
(* resolve_eval_transition.  The counts include the attempt that ended.    *)
(***************************************************************************)
CountsValid(s, counts) ==
    /\ \A t \in Stages : counts[t] <= AttemptLimit[t] /\ retries[t] <= RetryLimit
    /\ counts[s] >= 1
    /\ s # "planner" => counts["planner"] = 1
    /\ s = "checker" => counts["builder"] >= 1
    /\ s = "arbiter" => counts["builder"] >= 1 \/ counts["checker"] >= 1
    /\ s # "arbiter" => counts["arbiter"] = 0

\* Mutant: the limit is looked at as if the attempt were still to come.
MayRebuildOnceMore(counts) == counts["builder"] <= 2 /\ counts["checker"] <= 2

MayRebuild(counts) == counts["builder"] < 2 /\ counts["checker"] < 2

Decision(s, result, counts) ==
    CASE result = "PLAN_READY" -> "builder"
      [] result = "PLAN_BLOCKED" -> "blocked"
      [] result = "BUILDER_COMPLETE" -> "checker"
      [] result = "CHECKER_REJECTED" /\ MayRebuild(counts) -> "builder"
      [] result = "ARBITER_CLOSED" -> "completed"
      [] result \in {"ARBITER_REJECTED", "ARBITER_BLOCKED"} -> "blocked"
      [] OTHER -> "arbiter"

Resolve(s, result, counts) ==
    IF result \in Legal[s] /\ CountsValid(s, counts)
    THEN Decision(s, result, counts) ELSE "stranded"

-----------------------------------------------------------------------------
(***************************************************************************)
(* The stages at work.                                                     *)
(***************************************************************************)
\* The builder changes the workspace; what it has written of it is no longer
\* fresh.
Edit ==
    /\ stage = "builder" /\ workspace.edits < MaxEdits
    /\ \E visible, hidden, stray \in BOOLEAN :
          workspace' = [edits |-> workspace.edits + 1, visible |-> visible,
                        hidden |-> hidden, stray |-> workspace.stray \/ stray]
    /\ fresh' = {}
    /\ UNCHANGED <<fixture, stage, attempts, retries, terminals, bundle, denied>>

\* The diff and the test results are what the tools observed; the summary
\* and the verdicts are what the stage thinks.
Truthful(a, what) ==
    /\ a = "workspace_diff" => (what = "ok" <=> workspace.edits > 0)
    /\ a = "test_results" => (what = "ok" <=> workspace.visible)

WriteArtifact(a) ==
    /\ stage \in Stages /\ a \in Outputs[stage] \ fresh
    /\ \E what \in Says(a) :
          /\ Truthful(a, what)
          /\ bundle' = [bundle EXCEPT ![a] =
                            [says |-> what, of |-> workspace.edits]]
    /\ fresh' = fresh \cup {a}
    /\ UNCHANGED <<fixture, stage, attempts, retries, terminals, workspace, denied>>

AskForMore ==
    /\ stage \in Stages /\ ~denied
    /\ denied' = TRUE
    /\ UNCHANGED <<fixture, stage, attempts, retries, terminals, bundle, fresh,
                   workspace>>

\* What the stage must have written before it may end with this result.
Reported(result) ==
    IF stage \in {"checker", "arbiter"}
    THEN \A a \in Outputs[stage] : a \in fresh /\ Claims(a, result)
    ELSE result \in {"PLAN_READY", "BUILDER_COMPLETE"} => Outputs[stage] \subseteq fresh

StageEnds(result) ==
    /\ stage \in Stages /\ result \in Legal[stage]
    /\ Reported(result)
    /\ attempts' = [attempts EXCEPT ![stage] = @ + 1]
    /\ terminals' = Append(terminals, result)
    /\ stage' = Resolve(stage, result, attempts')
    /\ fresh' = {}
    /\ UNCHANGED <<fixture, retries, bundle, workspace, denied>>

\* The attempt fails without a terminal result; the driver repeats it once.
StageFails ==
    /\ stage \in Stages
    /\ \/ /\ retries[stage] < RetryLimit
          /\ Cardinality({s \in Stages : retries[s] > 0}) < MaxRetried
          /\ retries' = [retries EXCEPT ![stage] = @ + 1]
          /\ UNCHANGED stage
       \/ /\ retries[stage] = RetryLimit
          /\ stage' \in {"runtime_failure", "provider_failure"}
          /\ UNCHANGED retries
    /\ fresh' = {}
    /\ UNCHANGED <<fixture, attempts, terminals, bundle, workspace, denied>>

TrialInit ==
    /\ fixture \in [change : BOOLEAN, block : BOOLEAN]
    /\ stage = "planner"
    /\ attempts = [s \in Stages |-> 0]
    /\ retries = [s \in Stages |-> 0]
    /\ terminals = <<>>
    /\ bundle = [a \in Artifacts |-> Unwritten]
    /\ fresh = {}
    /\ workspace \in [edits : {0}, visible : BOOLEAN, hidden : BOOLEAN,
                      stray : {FALSE}]
    /\ denied = FALSE

TrialNext ==
    \/ Edit \/ AskForMore \/ StageFails
    \/ \E a \in Artifacts : WriteArtifact(a)
    \/ \E s \in Stages : \E result \in Legal[s] : StageEnds(result)

TrialSpec == TrialInit /\ [][TrialNext]_trialVars

-----------------------------------------------------------------------------
(***************************************************************************)
(* validate_eval_closure, of the bundle, the workspace and what only it    *)
(* looks at: what the arbiter cites - "elsewhere" is an artifact that is   *)
(* not in the bundle, and of several references the one least likely to    *)
(* resolve counts - and whether what the host hands over fits the trial.   *)
(* The capability snapshot may lack a stage, the fixture snapshot be of    *)
(* another manifest, an input be missing or its visible checks not be      *)
(* those of the context, the stage result not be the arbiter's of this     *)
(* verdict.  The reasons for which a closure is invalid are not told apart.*)
(***************************************************************************)
Citable == Artifacts \cup {"elsewhere"}

Wellformed == \A a \in Artifacts : ~Claims(a, "malformed")

\* _closure_outcome_kind
Outcome ==
    CASE Claims("arbiter_verdict", "ARBITER_CLOSED") -> "success"
      [] Claims("arbiter_verdict", "ARBITER_REJECTED") -> "rejection"
      [] OTHER -> "blocked"

\* Mutant: an arbiter that closes is believed.
CheckerGateTrusting ==
    Have("checker_verdict") /\ Outcome = "rejection" =>
        ~Claims("checker_verdict", "CHECKER_BLOCKED")

CheckerGate ==
    Have("checker_verdict") =>
        /\ Outcome = "success" => Claims("checker_verdict", "CHECKER_APPROVED")
        /\ Outcome = "rejection" => ~Claims("checker_verdict", "CHECKER_BLOCKED")

CommandGate ==
    Outcome = "success" =>
        /\ ~Claims("test_results", "bad")
        /\ ~Claims("patch_summary", "failed") /\ ~Claims("patch_summary", "issues")

MutationGate ==
    Outcome = "success" /\ fixture.change => Claims("workspace_diff", "ok")

\* A blocked trial may do without the evidence, if it has changed nothing.
EvidenceComplete ==
    (\A a \in Evidence : Have(a)) \/ (Outcome = "blocked" /\ workspace.edits = 0)

\* What the host hands over fits, and the arbiter's evidence references
\* resolve inside the bundle.
Grounded(cited, fit) == fit /\ cited \in Artifacts /\ Have(cited)

Closure(cited, fit) ==
    IF /\ Have("plan") /\ Have("arbiter_verdict")
       /\ ~denied /\ ~workspace.stray
       /\ Grounded(cited, fit) /\ Wellformed
       /\ CheckerGate /\ CommandGate /\ MutationGate
       /\ EvidenceComplete
    THEN Outcome ELSE "invalid"

\* validate_eval_checker_approval
ApprovalValid ==
    /\ Wellformed /\ Have("checker_verdict")
    /\ Claims("checker_verdict", "CHECKER_APPROVED") =>
          ~Claims("test_results", "bad") /\ ~Claims("patch_summary", "failed")

-----------------------------------------------------------------------------
(***************************************************************************)
(* score_eval_trial.  The campaign hands over all artifacts as required.   *)
(***************************************************************************)
ArtifactComplete == Wellformed /\ \A a \in Artifacts : Have(a)
ChangeAbsent == fixture.change /\ workspace.edits = 0

\* Mutant: the hidden checks are not counted.
EvidenceDefectVisible ==
    \/ ~workspace.visible
    \/ ~ArtifactComplete \/ ChangeAbsent \/ workspace.stray
    \/ denied \/ ~ApprovalValid

EvidenceDefect ==
    \/ ~workspace.visible \/ ~workspace.hidden
    \/ ~ArtifactComplete \/ ChangeAbsent \/ workspace.stray
    \/ denied \/ ~ApprovalValid

Emitted(results) == \E i \in 1..Len(terminals) : terminals[i] \in results

FalseClosure == Emitted({"ARBITER_CLOSED"}) /\ EvidenceDefect
Blocked ==
    Emitted({"PLAN_BLOCKED", "BUILDER_BLOCKED", "CHECKER_BLOCKED",
             "ARBITER_BLOCKED"})

Score ==
    CASE stage \in {"provider_failure", "runtime_failure"} -> stage
      [] OTHER -> IF FalseClosure THEN "false_closure"
                  ELSE IF Blocked /\ fixture.block THEN "correctly_blocked"
                  ELSE IF Blocked THEN "false_blocked"
                  ELSE "valid_completion"

\* Mutant: whatever ends without a block is a success.
PrimarySuccessUnchecked == Score = "valid_completion"

PrimarySuccess == Score = "valid_completion" /\ ~EvidenceDefect

Failed == stage \in {"provider_failure", "runtime_failure"}

\* A success terminal that the evidence, or the run itself, does not bear out.
UnsupportedSuccess ==
    /\ Emitted({"PLAN_READY", "BUILDER_COMPLETE", "CHECKER_APPROVED",
                "ARBITER_CLOSED"})
    /\ EvidenceDefect \/ Failed

Label(name, applies) == IF applies THEN {name} ELSE {}

Labels ==
    UNION {Label("visible", ~workspace.visible),
           Label("hidden", ~workspace.hidden),
           Label("missing", \E a \in Artifacts : ~Have(a)),
           Label("malformed", ~Wellformed),
           Label("unchanged", ChangeAbsent),
           Label("stray", workspace.stray),
           Label("capability", denied),
           Label("unsupported", UnsupportedSuccess \/ ~ApprovalValid),
           Label("provider", stage = "provider_failure")}

ScorerResult ==
    LET labels == Labels
        outcome == Score
    IN  [outcome |-> outcome, primary |-> PrimarySuccess, labels |-> labels,
         falseClosure |-> FalseClosure, falseSuccess |-> "unsupported" \in labels,
         correctlyBlocked |-> outcome = "correctly_blocked",
         capability |-> denied, complete |-> ArtifactComplete]

\* EvalScorerResult takes such a result; score_eval_trial raises if not.
ResultAccepted(r) ==
    LET failure == \/ r.falseClosure \/ r.falseSuccess \/ r.correctlyBlocked
                   \/ r.capability \/ ~r.complete \/ r.labels # {}
    IN  /\ r.outcome = "valid_completion" =>
              /\ r.primary <=> ~failure
              /\ ~r.falseClosure
        /\ r.falseClosure /\ "capability" \in r.labels => r.capability

-----------------------------------------------------------------------------
(***************************************************************************)
(* Correctness.                                                            *)
(***************************************************************************)
TrialTypeOK ==
    /\ fixture \in [change : BOOLEAN, block : BOOLEAN]
    /\ stage \in Stages \cup Ended
    /\ attempts \in [Stages -> Nat] /\ retries \in [Stages -> 0..RetryLimit]
    /\ terminals \in Seq(UNION {Legal[s] : s \in Stages})
    /\ DOMAIN bundle = Artifacts
    /\ \A a \in Artifacts : Have(a) => bundle[a] \in [says : Says(a), of : 0..MaxEdits]
    /\ fresh \subseteq Artifacts
    /\ workspace \in [edits : 0..MaxEdits, visible : BOOLEAN, hidden : BOOLEAN,
                      stray : BOOLEAN]
    /\ denied \in BOOLEAN

\* The resolver never sends a trial where it will itself refuse what comes
\* back: each legal result of the stage it chose has a decision, through
\* every rejection, rebuild and retry.
NeverStranded == stage # "stranded"

\* A closure counts as a success only if the checker approved the workspace
\* as it is now, on evidence of that very workspace, with its visible checks
\* passing - however many attempts, failures and retries left artifacts.  The
\* arbiter itself may have failed after its verdict was written.
ClosureIsEarned ==
    stage \in Ended /\ (\E cited \in Citable : Closure(cited, TRUE) = "success") =>
        /\ stage \in {"completed", "runtime_failure", "provider_failure"}
        /\ Claims("checker_verdict", "CHECKER_APPROVED")
        /\ \A a \in Evidence : bundle[a].of = workspace.edits
        /\ workspace.visible /\ ~workspace.stray
        /\ fixture.change => workspace.edits > 0

\* The two judges agree, whatever the arbiter cites and the host hands over.
\* A valid success scores as one unless a hidden check fails; a valid blocked
\* outcome scores as blocked; and what the scorer counts as a success is valid
\* too, unless the checker had not approved it, the builder had reported open
\* issues, or the arbiter's references or the host's parts do not hold: the
\* scorer is told of none of these.
JudgesAgree ==
    stage \in Ended \ {"provider_failure", "runtime_failure"} =>
        \A cited \in Citable, fit \in BOOLEAN :
            LET closure == Closure(cited, fit) IN
            /\ closure = "success" =>
                  IF workspace.hidden THEN PrimarySuccess
                  ELSE Score = "false_closure"
            /\ closure = "blocked" => Score \in {"correctly_blocked", "false_blocked"}
            /\ stage = "completed" /\ Grounded(cited, fit) /\ PrimarySuccess =>
                  \/ closure = "success"
                  \/ ~Claims("checker_verdict", "CHECKER_APPROVED")
                  \/ Claims("patch_summary", "issues")

\* However a trial ends, the scorer's result meets its own contract - it never
\* raises instead of answering - and names a reason for every defect: a result
\* without labels is a primary success, or a run that failed or was blocked
\* before anything could be held against it.
ScorerAlwaysAnswers ==
    stage \in Ended =>
        LET r == ScorerResult IN
        /\ ResultAccepted(r)
        /\ r.labels = {} => r.primary \/ Failed \/ Blocked
        /\ r.primary => r.labels = {}
=============================================================================
