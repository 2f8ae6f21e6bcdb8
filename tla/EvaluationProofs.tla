-------------------------- MODULE EvaluationProofs --------------------------
(***************************************************************************)
(* The evaluation.  Of a trial: none is stranded, every closure is earned  *)
(* and the two judges agree, for any number of edits of the workspace.  Of *)
(* a campaign: its store keeps what it hands on, and a run that is left    *)
(* alone succeeds, for any number of processes, plan sets and failures.    *)
(***************************************************************************)
EXTENDS EvalWorkflow, CampaignStore, NaturalLemmas, SequenceTheorems

(***************************************************************************)
(*                              One trial                                  *)
(***************************************************************************)
-----------------------------------------------------------------------------
(***************************************************************************)
(* The inductive invariant.                                                *)
(***************************************************************************)
\* How often each stage has ended when a stage is at work: the builder is
\* one ahead of the checker or level with it, and the resolver's own limits
\* leave room for one more end of the stage it has chosen.
Counted ==
    /\ stage # "stranded"
    /\ stage = "planner" => \A s \in Stages : attempts[s] = 0
    /\ stage \in Stages \ {"planner"} => attempts["planner"] = 1
    /\ stage \in Stages => attempts["arbiter"] = 0
    /\ stage = "builder" => /\ attempts["builder"] \in 0..1
                            /\ attempts["checker"] = attempts["builder"]
    /\ stage = "checker" => /\ attempts["builder"] \in 1..2
                            /\ attempts["checker"] = attempts["builder"] - 1
    /\ stage = "arbiter" => /\ attempts["builder"] \in 1..2
                            /\ attempts["checker"] \in 0..2

Current(a) == Have(a) /\ bundle[a].of = workspace.edits

\* What the bundle says of the workspace as it is was observed there.
Observed ==
    /\ \A a \in Artifacts : Have(a) => bundle[a].of <= workspace.edits
    /\ Current("workspace_diff") =>
          (bundle["workspace_diff"].says = "ok" <=> workspace.edits > 0)
    /\ Current("test_results") =>
          (bundle["test_results"].says = "ok" <=> workspace.visible)

\* What the attempt at work has written is current, and so is what the
\* builder hands to the checker.
Fresh ==
    /\ \A a \in fresh : Current(a)
    /\ stage = "checker" => \A a \in Outputs["builder"] : Current(a)

\* An approval in the bundle is of the workspace as it is, on current
\* evidence: the builder never works under one.
Approved == Claims("checker_verdict", "CHECKER_APPROVED")
ApprovalCurrent ==
    Approved => /\ stage \notin {"planner", "builder"}
                /\ \A a \in Evidence : Current(a)

\* The arbiter is the last to speak, and what it has said is in the bundle;
\* a stage blocks a trial that goes on only without an approval.
Closing ==
    /\ Have("arbiter_verdict") => stage \notin {"planner", "builder", "checker"}
    /\ stage = "completed" => /\ Claims("arbiter_verdict", "ARBITER_CLOSED")
                              /\ Emitted({"ARBITER_CLOSED"})
    /\ Emitted({"ARBITER_CLOSED"}) => stage = "completed"
    /\ stage = "blocked" =>
          /\ ~Claims("arbiter_verdict", "ARBITER_CLOSED")
          /\ Claims("arbiter_verdict", "ARBITER_BLOCKED") =>
                Emitted({"ARBITER_BLOCKED"})
    /\ Blocked => stage \notin {"planner", "builder", "checker"}
    /\ Blocked /\ Approved => stage = "blocked"

TrialInv == TrialTypeOK /\ Counted /\ Observed /\ Fresh /\ ApprovalCurrent /\ Closing

-----------------------------------------------------------------------------
(***************************************************************************)
(* The tables, spelled out.                                                *)
(***************************************************************************)
LEMMA Tables ==
    /\ Artifacts = {"plan", "workspace_diff", "patch_summary", "test_results",
                    "checker_verdict", "arbiter_verdict"}
    /\ Evidence = {"workspace_diff", "patch_summary", "test_results",
                   "checker_verdict"}
    /\ Outputs["planner"] = {"plan"}
    /\ Outputs["builder"] = {"workspace_diff", "patch_summary", "test_results"}
    /\ Outputs["checker"] = {"checker_verdict"}
    /\ Outputs["arbiter"] = {"arbiter_verdict"}
<1>1. /\ Outputs["planner"] = {"plan"}
      /\ Outputs["builder"] = {"workspace_diff", "patch_summary", "test_results"}
      /\ Outputs["checker"] = {"checker_verdict"}
      /\ Outputs["arbiter"] = {"arbiter_verdict"}
  BY DEF Outputs
<1>2. Artifacts = Outputs["planner"] \cup Outputs["builder"]
                     \cup Outputs["checker"] \cup Outputs["arbiter"]
  BY DEF Artifacts, Stages
<1> QED
  BY <1>1, <1>2 DEF Evidence

LEMMA LegalResults ==
    /\ Legal["planner"] = {"PLAN_READY", "PLAN_BLOCKED"}
    /\ Legal["builder"] = {"BUILDER_COMPLETE", "BUILDER_BLOCKED"}
    /\ Legal["checker"] = {"CHECKER_APPROVED", "CHECKER_REJECTED", "CHECKER_BLOCKED"}
    /\ Legal["arbiter"] = {"ARBITER_CLOSED", "ARBITER_REJECTED", "ARBITER_BLOCKED"}
BY DEF Legal

LEMMA Limits ==
    /\ AttemptLimit["planner"] = 1 /\ AttemptLimit["builder"] = 2
    /\ AttemptLimit["checker"] = 2 /\ AttemptLimit["arbiter"] = 1
BY DEF AttemptLimit

\* A trial has said what it had said before, and its new terminal result.
LEMMA EmittedGrows ==
    ASSUME TrialTypeOK, NEW r \in UNION {Legal[s] : s \in Stages}, NEW R,
           terminals' = Append(terminals, r)
    PROVE  Emitted(R)' <=> (Emitted(R) \/ r \in R)
<1>1. /\ Len(terminals') = Len(terminals) + 1 /\ Len(terminals) \in Nat
      /\ \A i \in 1..Len(terminals) : terminals'[i] = terminals[i]
      /\ terminals'[Len(terminals) + 1] = r
  BY DEF TrialTypeOK
<1> QED
  BY <1>1 DEF Emitted

-----------------------------------------------------------------------------
(***************************************************************************)
(* It is inductive.                                                        *)
(***************************************************************************)
LEMMA TrialInitInv == TrialInit => TrialInv
<1> SUFFICES ASSUME TrialInit PROVE TrialInv
  OBVIOUS
<1>1. TrialTypeOK
  <2>1. /\ DOMAIN bundle = Artifacts
        /\ \A a \in Artifacts : ~Have(a)
    BY DEF TrialInit, Have
  <2>2. terminals \in Seq(UNION {Legal[s] : s \in Stages})
    BY DEF TrialInit
  <2>3. stage \in Stages \cup Ended /\ fresh \subseteq Artifacts
    BY DEF TrialInit, Stages
  <2>4. attempts \in [Stages -> Nat] /\ retries \in [Stages -> 0..RetryLimit]
    BY DEF TrialInit, RetryLimit
  <2>5. /\ fixture \in [change : BOOLEAN, block : BOOLEAN]
        /\ denied \in BOOLEAN
    BY DEF TrialInit
  <2>6. workspace \in [edits : 0..MaxEdits, visible : BOOLEAN, hidden : BOOLEAN,
                       stray : BOOLEAN]
    <3>1. 0 \in 0..MaxEdits
      BY EvalAssumption
    <3> QED
      BY <3>1 DEF TrialInit
  <2> QED
    BY <2>1, <2>2, <2>3, <2>4, <2>5, <2>6 DEF TrialTypeOK
<1>2. ~Emitted({"ARBITER_CLOSED"}) /\ ~Blocked
  BY DEF TrialInit, Emitted, Blocked
<1>3. \A a \in Artifacts : ~Have(a)
  BY DEF TrialInit, Have
<1>4. Counted
  BY DEF TrialInit, Counted, Stages
<1>5. Observed /\ Fresh
  BY <1>3, Tables DEF TrialInit, Observed, Fresh, Current
<1>6. ApprovalCurrent /\ Closing
  BY <1>2, <1>3, Tables DEF TrialInit, ApprovalCurrent, Approved, Claims, Closing
<1> QED
  BY <1>1, <1>4, <1>5, <1>6 DEF TrialInv

\* Who is at work, and how a trial ends, are told apart.
LEMMA StagesAndEnds ==
    /\ Stages = {"planner", "builder", "checker", "arbiter"}
    /\ Stages \cap Ended = {}
BY DEF Stages, Ended

LEMMA EditStep == ASSUME TrialInv, Edit PROVE TrialInv'
<1>1. /\ stage = "builder" /\ stage' = stage /\ fresh' = {} /\ bundle' = bundle
      /\ attempts' = attempts /\ retries' = retries /\ terminals' = terminals
      /\ fixture' = fixture /\ denied' = denied
  BY DEF Edit
<1>2. /\ workspace.edits \in Nat /\ workspace'.edits = workspace.edits + 1
      /\ workspace'.edits \in 0..MaxEdits
      /\ workspace' \in [edits : 0..MaxEdits, visible : BOOLEAN, hidden : BOOLEAN,
                         stray : BOOLEAN]
  BY EvalAssumption DEF Edit, TrialInv, TrialTypeOK
<1>3. TrialTypeOK'
  BY <1>1, <1>2 DEF TrialInv, TrialTypeOK, Have
<1>4. Counted'
  BY <1>1 DEF TrialInv, Counted
<1>5. \A a \in Artifacts : Have(a) =>
          bundle[a].of \in Nat /\ bundle[a].of <= workspace.edits
  BY <1>2 DEF TrialInv, TrialTypeOK, Observed
<1>6. \A a \in Artifacts : ~Current(a)' /\ (Have(a)' => bundle'[a].of <= workspace'.edits)
  BY <1>1, <1>2, <1>5 DEF Current, Have
<1>7. Observed'
  BY <1>6, Tables DEF Observed
<1>8. Fresh'
  BY <1>1 DEF Fresh
<1>9. ApprovalCurrent'
  BY <1>1 DEF TrialInv, ApprovalCurrent, Approved, Claims, Have
<1>10. Closing'
  BY <1>1 DEF TrialInv, Closing, Blocked, Emitted, Approved, Claims, Have
<1> QED
  BY <1>3, <1>4, <1>7, <1>8, <1>9, <1>10 DEF TrialInv

LEMMA AskStep == ASSUME TrialInv, AskForMore PROVE TrialInv'
<1>1. /\ stage' = stage /\ fresh' = fresh /\ bundle' = bundle
      /\ attempts' = attempts /\ retries' = retries /\ terminals' = terminals
      /\ fixture' = fixture /\ workspace' = workspace /\ denied' = TRUE
  BY DEF AskForMore
<1>2. TrialTypeOK'
  BY <1>1 DEF TrialInv, TrialTypeOK, Have
<1>3. Counted' /\ Observed' /\ Fresh'
  BY <1>1 DEF TrialInv, Counted, Observed, Fresh, Current, Have
<1>4. ApprovalCurrent' /\ Closing'
  BY <1>1 DEF TrialInv, ApprovalCurrent, Closing, Blocked, Emitted, Approved, Claims,
              Have, Current
<1> QED
  BY <1>2, <1>3, <1>4 DEF TrialInv

LEMMA FailStep == ASSUME TrialInv, StageFails PROVE TrialInv'
<1>1. /\ stage \in Stages /\ fresh' = {} /\ bundle' = bundle
      /\ attempts' = attempts /\ terminals' = terminals
      /\ fixture' = fixture /\ workspace' = workspace /\ denied' = denied
      /\ stage' = stage \/ stage' \in {"runtime_failure", "provider_failure"}
  BY DEF StageFails
<1>2. retries' \in [Stages -> 0..RetryLimit]
  BY DEF StageFails, TrialInv, TrialTypeOK, RetryLimit
<1>3. stage' \in Stages \cup Ended
  BY <1>1 DEF Ended
<1>4. TrialTypeOK'
  BY <1>1, <1>2, <1>3 DEF TrialInv, TrialTypeOK, Have
<1>5. Counted'
  BY <1>1, StagesAndEnds DEF TrialInv, Counted, Ended
<1>6. \A a : /\ Have(a)' <=> Have(a)
             /\ Current(a)' <=> Current(a)
             /\ \A what : Claims(a, what)' <=> Claims(a, what)
  BY <1>1 DEF Current, Have, Claims
<1>7. Observed' /\ Fresh'
  BY <1>1, <1>6, StagesAndEnds DEF TrialInv, Observed, Fresh
<1>8. Approved' <=> Approved
  BY <1>6 DEF Approved
<1>9. ApprovalCurrent'
  BY <1>1, <1>6, <1>8 DEF TrialInv, ApprovalCurrent
<1>10. \A R : Emitted(R)' <=> Emitted(R)
  BY <1>1 DEF Emitted
<1>11. Blocked' <=> Blocked
  BY <1>10 DEF Blocked
<1>12. Closing'
  BY <1>1, <1>6, <1>8, <1>10, <1>11, StagesAndEnds DEF TrialInv, Closing
<1> QED
  BY <1>4, <1>5, <1>7, <1>9, <1>12 DEF TrialInv

LEMMA WriteStep == ASSUME TrialInv, NEW a \in Artifacts, WriteArtifact(a) PROVE TrialInv'
<1>1. PICK what \in Says(a) :
        /\ Truthful(a, what)
        /\ bundle' = [bundle EXCEPT ![a] = [says |-> what, of |-> workspace.edits]]
  BY DEF WriteArtifact
<1>2. /\ stage \in Stages /\ a \in Outputs[stage] /\ fresh' = fresh \cup {a}
      /\ stage' = stage /\ attempts' = attempts /\ retries' = retries
      /\ terminals' = terminals /\ fixture' = fixture /\ workspace' = workspace
      /\ denied' = denied
  BY DEF WriteArtifact
<1>3. workspace.edits \in Nat /\ workspace.edits \in 0..MaxEdits
  BY EvalAssumption DEF TrialInv, TrialTypeOK
<1>4. /\ DOMAIN bundle' = Artifacts
      /\ bundle'[a] = [says |-> what, of |-> workspace.edits]
      /\ \A b \in Artifacts : b # a => bundle'[b] = bundle[b]
  BY <1>1 DEF TrialInv, TrialTypeOK
<1>5. Have(a)' /\ Current(a)' /\ bundle'[a] \in [says : Says(a), of : 0..MaxEdits]
  <2>1. [says |-> what, of |-> workspace.edits] \in [says : Says(a), of : Nat]
    BY <1>3
  <2>2. bundle'[a] # Unwritten
    BY <1>4, <2>1, EvalAssumption
  <2> QED
    BY <1>2, <1>3, <1>4, <2>2 DEF Have, Current
<1>6. \A b \in Artifacts : b # a =>
          /\ Have(b)' <=> Have(b)
          /\ Current(b)' <=> Current(b)
          /\ \A says : Claims(b, says)' <=> Claims(b, says)
  BY <1>2, <1>4 DEF Have, Current, Claims
<1>7. TrialTypeOK'
  <2>1. \A b \in Artifacts :
            Have(b)' => bundle'[b] \in [says : Says(b), of : 0..MaxEdits]
    BY <1>4, <1>5, <1>6 DEF TrialInv, TrialTypeOK
  <2>2. fresh' \subseteq Artifacts
    BY <1>2 DEF TrialInv, TrialTypeOK
  <2> QED
    BY <1>2, <1>4, <2>1, <2>2 DEF TrialInv, TrialTypeOK
<1>8. Counted'
  BY <1>2 DEF TrialInv, Counted
<1>9. Observed'
  <2>1. \A b \in Artifacts : Have(b)' => bundle'[b].of <= workspace'.edits
    BY <1>2, <1>3, <1>4, <1>6 DEF TrialInv, Observed
  <2>2. Current("workspace_diff")' =>
          (bundle'["workspace_diff"].says = "ok" <=> workspace'.edits > 0)
    BY <1>1, <1>2, <1>4, <1>6, Tables DEF TrialInv, Observed, Truthful
  <2>3. Current("test_results")' =>
          (bundle'["test_results"].says = "ok" <=> workspace'.visible)
    BY <1>1, <1>2, <1>4, <1>6, Tables DEF TrialInv, Observed, Truthful
  <2> QED
    BY <2>1, <2>2, <2>3 DEF Observed
<1>10. Fresh'
  <2>1. \A b \in fresh' : Current(b)'
    BY <1>2, <1>5, <1>6 DEF TrialInv, TrialTypeOK, Fresh
  <2>2. stage' = "checker" => \A b \in Outputs["builder"] : Current(b)'
    BY <1>2, <1>6, Tables DEF TrialInv, Fresh
  <2> QED
    BY <2>1, <2>2 DEF Fresh
<1>11. ApprovalCurrent'
  <2>1. CASE stage = "checker"
    BY <1>2, <1>5, <1>6, <1>10, <2>1, Tables DEF Fresh, ApprovalCurrent
  <2>2. CASE stage # "checker"
    <3>1. Approved' <=> Approved
      BY <1>2, <1>6, <2>2, Tables, StagesAndEnds DEF Approved
    <3>2. Approved => stage = "arbiter" /\ a = "arbiter_verdict"
      BY <1>2, <2>2, Tables, StagesAndEnds DEF TrialInv, ApprovalCurrent
    <3> QED
      BY <1>2, <1>6, <3>1, <3>2, Tables DEF TrialInv, ApprovalCurrent
  <2> QED
    BY <2>1, <2>2
<1>12. Closing'
  <2>1. \A R : Emitted(R)' <=> Emitted(R)
    BY <1>2 DEF Emitted
  <2>2. Blocked' <=> Blocked
    BY <2>1 DEF Blocked
  <2>3. stage' \notin {"completed", "blocked"}
    BY <1>2, StagesAndEnds
  <2>4. Have("arbiter_verdict")' => stage' \notin {"planner", "builder", "checker"}
    BY <1>2, <1>6, Tables, StagesAndEnds DEF TrialInv, Closing
  <2>5. ~(Blocked' /\ Approved')
    BY <1>2, <1>6, <2>2, <2>3, Tables, StagesAndEnds DEF TrialInv, Closing, Approved
  <2> QED
    BY <1>2, <2>1, <2>2, <2>3, <2>4, <2>5 DEF TrialInv, Closing
<1> QED
  BY <1>7, <1>8, <1>9, <1>10, <1>11, <1>12 DEF TrialInv

\* The resolver has a decision for each legal terminal of the stage it chose.
LEMMA NextStage ==
    ASSUME TrialInv, NEW terminal, StageEnds(terminal)
    PROVE  \/ stage = "planner" /\ terminal = "PLAN_READY" /\ stage' = "builder"
           \/ stage = "planner" /\ terminal = "PLAN_BLOCKED" /\ stage' = "blocked"
           \/ stage = "builder" /\ terminal = "BUILDER_COMPLETE" /\ stage' = "checker"
           \/ stage = "builder" /\ terminal = "BUILDER_BLOCKED" /\ stage' = "arbiter"
           \/ /\ stage = "checker" /\ terminal = "CHECKER_REJECTED"
              /\ attempts["builder"] = 1 /\ stage' = "builder"
           \/ /\ stage = "checker" /\ terminal \in Legal["checker"]
              /\ stage' = "arbiter"
           \/ stage = "arbiter" /\ terminal = "ARBITER_CLOSED" /\ stage' = "completed"
           \/ /\ stage = "arbiter" /\ terminal \in {"ARBITER_REJECTED", "ARBITER_BLOCKED"}
              /\ stage' = "blocked"
<1>1. /\ stage \in Stages /\ terminal \in Legal[stage]
      /\ attempts' = [attempts EXCEPT ![stage] = @ + 1]
      /\ stage' = Resolve(stage, terminal, attempts')
  BY DEF StageEnds
<1>2. /\ attempts'[stage] = attempts[stage] + 1
      /\ \A s \in Stages : attempts[s] \in Nat /\ retries[s] <= RetryLimit
      /\ \A s \in Stages : s # stage => attempts'[s] = attempts[s]
  BY <1>1 DEF TrialInv, TrialTypeOK, RetryLimit
<1>3. CountsValid(stage, attempts')
  <2>1. CASE stage = "planner"
    BY <1>1, <1>2, <2>1, Limits, StagesAndEnds DEF TrialInv, Counted, CountsValid
  <2>2. CASE stage = "builder"
    BY <1>1, <1>2, <2>2, Limits, StagesAndEnds DEF TrialInv, Counted, CountsValid
  <2>3. CASE stage = "checker"
    <3>1. /\ attempts'["planner"] = 1 /\ attempts'["arbiter"] = 0
          /\ attempts'["builder"] \in 1..2 /\ attempts'["checker"] \in 1..2
      BY <1>1, <1>2, <2>3, StagesAndEnds DEF TrialInv, Counted
    <3> QED
      BY <1>2, <2>3, <3>1, Limits, StagesAndEnds DEF CountsValid
  <2>4. CASE stage = "arbiter"
    BY <1>1, <1>2, <2>4, Limits, StagesAndEnds DEF TrialInv, Counted, CountsValid
  <2> QED
    BY <1>1, <2>1, <2>2, <2>3, <2>4, StagesAndEnds
<1>4. stage' = Decision(stage, terminal, attempts')
  BY <1>1, <1>3 DEF Resolve
<1>5. stage = "checker" /\ MayRebuild(attempts') => attempts["builder"] = 1
  BY <1>1, <1>2, StagesAndEnds DEF TrialInv, Counted, MayRebuild
<1>6. CASE stage = "planner"
  BY <1>1, <1>4, <1>6, LegalResults DEF Decision
<1>7. CASE stage = "builder"
  BY <1>1, <1>4, <1>7, LegalResults DEF Decision
<1>8. CASE stage = "checker"
  BY <1>1, <1>4, <1>5, <1>8, LegalResults DEF Decision
<1>9. CASE stage = "arbiter"
  BY <1>1, <1>4, <1>9, LegalResults DEF Decision
<1> QED
  BY <1>1, <1>6, <1>7, <1>8, <1>9, StagesAndEnds

LEMMA EndStep == ASSUME TrialInv, NEW terminal, StageEnds(terminal) PROVE TrialInv'
<1>1. /\ stage \in Stages /\ terminal \in Legal[stage] /\ Reported(terminal)
      /\ attempts' = [attempts EXCEPT ![stage] = @ + 1]
      /\ terminals' = Append(terminals, terminal) /\ fresh' = {}
      /\ bundle' = bundle /\ retries' = retries /\ fixture' = fixture
      /\ workspace' = workspace /\ denied' = denied
  BY DEF StageEnds
<1>2. terminal \in UNION {Legal[s] : s \in Stages}
  BY <1>1
<1>3. /\ attempts'[stage] = attempts[stage] + 1
      /\ \A s \in Stages : attempts[s] \in Nat
      /\ \A s \in Stages : s # stage => attempts'[s] = attempts[s]
      /\ attempts' \in [Stages -> Nat]
  BY <1>1 DEF TrialInv, TrialTypeOK
<1>4. \A R : Emitted(R)' <=> (Emitted(R) \/ terminal \in R)
  BY <1>1, <1>2, EmittedGrows DEF TrialInv
<1>5. \A a : /\ Have(a)' <=> Have(a)
             /\ Current(a)' <=> Current(a)
             /\ \A what : Claims(a, what)' <=> Claims(a, what)
  BY <1>1 DEF Current, Have, Claims
<1>6. Approved' <=> Approved
  BY <1>5 DEF Approved
<1>7. TrialTypeOK'
  <2>1. stage' \in Stages \cup Ended
    BY NextStage, StagesAndEnds DEF Ended
  <2>2. terminals' \in Seq(UNION {Legal[s] : s \in Stages})
    BY <1>1, <1>2 DEF TrialInv, TrialTypeOK
  <2> QED
    BY <1>1, <1>3, <2>1, <2>2 DEF TrialInv, TrialTypeOK, Have
<1>8. Counted'
  BY <1>3, NextStage, StagesAndEnds DEF TrialInv, Counted
<1>9. Observed'
  BY <1>1, <1>5 DEF TrialInv, Observed
<1>10. Fresh'
  <2>1. stage' = "checker" => Outputs["builder"] \subseteq fresh
    BY <1>1, NextStage DEF Reported
  <2> QED
    BY <1>1, <1>5, <2>1 DEF TrialInv, Fresh
<1>11. ApprovalCurrent'
  <2>1. stage' \in {"planner", "builder"} /\ stage = "checker" => ~Approved
    BY <1>1, NextStage, Tables DEF Reported, Claims, Approved
  <2> QED
    BY <1>5, <1>6, <2>1, NextStage DEF TrialInv, ApprovalCurrent
<1>12. Closing'
  <2>1. /\ Blocked' <=> \/ Blocked
                        \/ terminal \in {"PLAN_BLOCKED", "BUILDER_BLOCKED",
                                      "CHECKER_BLOCKED", "ARBITER_BLOCKED"}
        /\ Emitted({"ARBITER_CLOSED"})' <=>
              Emitted({"ARBITER_CLOSED"}) \/ terminal = "ARBITER_CLOSED"
        /\ Emitted({"ARBITER_BLOCKED"})' <=>
              Emitted({"ARBITER_BLOCKED"}) \/ terminal = "ARBITER_BLOCKED"
    BY <1>4 DEF Blocked
  <2>2. stage \in {"checker", "arbiter"} =>
            Claims(IF stage = "checker" THEN "checker_verdict" ELSE "arbiter_verdict",
                   terminal)
    BY <1>1, Tables DEF Reported
  <2>3. stage \notin {"completed", "blocked"}
    BY <1>1, StagesAndEnds
  <2>4. CASE stage = "planner"
    BY <1>5, <1>6, <2>1, <2>4, NextStage DEF TrialInv, Closing, ApprovalCurrent, Claims
  <2>5. CASE stage = "builder"
    BY <1>5, <1>6, <2>1, <2>5, NextStage DEF TrialInv, Closing, ApprovalCurrent
  <2>6. CASE stage = "checker"
    <3>1. /\ stage' \in {"builder", "arbiter"} /\ ~Have("arbiter_verdict")
          /\ ~Blocked /\ ~Emitted({"ARBITER_CLOSED"})
          /\ terminal \in Legal["checker"]
      BY <1>1, <2>6, NextStage DEF TrialInv, Closing
    <3>2. terminal = "CHECKER_BLOCKED" => ~Approved
      BY <2>2, <2>6 DEF Approved, Claims
    <3>3. Blocked' => terminal = "CHECKER_BLOCKED"
      BY <2>1, <3>1, LegalResults
    <3>4. ~Emitted({"ARBITER_CLOSED"})' /\ ~Have("arbiter_verdict")'
      BY <1>5, <2>1, <3>1, LegalResults
    <3>5. Blocked' => terminal = "CHECKER_BLOCKED" /\ stage' = "arbiter"
      BY <2>6, <3>3, NextStage
    <3> QED
      BY <1>6, <3>1, <3>2, <3>4, <3>5 DEF Closing
  <2>7. CASE stage = "arbiter"
    BY <1>5, <1>6, <2>1, <2>2, <2>3, <2>7, NextStage DEF TrialInv, Closing, Claims
  <2> QED
    BY <1>1, <2>4, <2>5, <2>6, <2>7, StagesAndEnds
<1> QED
  BY <1>7, <1>8, <1>9, <1>10, <1>11, <1>12 DEF TrialInv

LEMMA TrialNextInv == ASSUME TrialInv, [TrialNext]_trialVars PROVE TrialInv'
<1>1. CASE UNCHANGED trialVars
  BY <1>1 DEF trialVars, TrialInv, TrialTypeOK, Counted, Observed, Fresh, Current, ApprovalCurrent,
              Approved, Closing, Blocked, Emitted, Claims, Have
<1>2. CASE \E s \in Stages : \E terminal \in Legal[s] : StageEnds(terminal)
  BY <1>2, EndStep
<1> QED
  BY <1>1, <1>2, EditStep, AskStep, FailStep, WriteStep DEF TrialNext

LEMMA TrialInductive == TrialSpec => []TrialInv
<1>1. TrialInit => TrialInv
  BY TrialInitInv
<1>2. TrialInv /\ [TrialNext]_trialVars => TrialInv'
  BY TrialNextInv
<1> QED
  BY <1>1, <1>2, PTL DEF TrialSpec

-----------------------------------------------------------------------------
(***************************************************************************)
(* What the bundle of a trial that has ended says, and what is concluded.  *)
(***************************************************************************)
LEMMA Verdicts ==
    ASSUME TrialTypeOK
    PROVE  /\ Have("test_results") => bundle["test_results"].says \in {"ok", "bad"}
           /\ Have("arbiter_verdict") =>
                 bundle["arbiter_verdict"].says \in Legal["arbiter"]
           /\ workspace.edits \in Nat
<1>1. Says("test_results") = {"ok", "bad"} /\ Says("arbiter_verdict") = Legal["arbiter"]
  BY DEF Says
<1>2. \A a \in Artifacts : Have(a) => bundle[a].says \in Says(a)
  BY DEF TrialTypeOK
<1>3. workspace.edits \in Nat
  BY EvalAssumption DEF TrialTypeOK
<1> QED
  BY <1>1, <1>2, <1>3, Tables

\* On current evidence, the claims are the facts.
LEMMA CurrentClaims ==
    ASSUME TrialInv, Approved
    PROVE  /\ \A a \in Evidence : Have(a) /\ bundle[a].of = workspace.edits
           /\ ~Claims("test_results", "bad") <=> workspace.visible
           /\ Claims("workspace_diff", "ok") <=> workspace.edits > 0
<1>1. \A a \in Evidence : Current(a)
  BY DEF TrialInv, ApprovalCurrent
<1> QED
  BY <1>1, Verdicts, Tables DEF TrialInv, Observed, Current, Claims

\* What it takes for the boundary to accept a closure as a success.
LEMMA SuccessNeeds ==
    ASSUME NEW cited, NEW fit, Closure(cited, fit) = "success"
    PROVE  /\ Claims("arbiter_verdict", "ARBITER_CLOSED")
           /\ Wellformed /\ \A a \in Artifacts : Have(a)
           /\ Claims("checker_verdict", "CHECKER_APPROVED")
           /\ ~Claims("test_results", "bad") /\ ~Claims("patch_summary", "failed")
           /\ fixture.change => Claims("workspace_diff", "ok")
           /\ ~denied /\ ~workspace.stray
<1>1. /\ Wellformed /\ Have("plan") /\ Have("arbiter_verdict")
      /\ CheckerGate /\ CommandGate /\ MutationGate /\ EvidenceComplete
      /\ ~denied /\ ~workspace.stray /\ Outcome = "success"
  BY DEF Closure
<1>2. Claims("arbiter_verdict", "ARBITER_CLOSED")
  BY <1>1 DEF Outcome
<1>3. \A a \in Evidence : Have(a)
  BY <1>1 DEF EvidenceComplete
<1>4. \A a \in Artifacts : Have(a)
  BY <1>1, <1>3, Tables
<1> QED
  BY <1>1, <1>2, <1>4, Tables DEF CheckerGate, CommandGate, MutationGate

LEMMA EarnedFromInv == TrialInv => ClosureIsEarned
<1> SUFFICES ASSUME TrialInv, stage \in Ended,
                    NEW cited \in Citable, Closure(cited, TRUE) = "success"
             PROVE  /\ stage \in {"completed", "runtime_failure", "provider_failure"}
                    /\ Claims("checker_verdict", "CHECKER_APPROVED")
                    /\ \A a \in Evidence : bundle[a].of = workspace.edits
                    /\ workspace.visible /\ ~workspace.stray
                    /\ fixture.change => workspace.edits > 0
  BY DEF ClosureIsEarned
<1>1. stage \notin {"blocked", "stranded"}
  BY SuccessNeeds DEF TrialInv, Closing, Counted
<1>2. Approved
  BY SuccessNeeds DEF Approved
<1> QED
  BY <1>1, <1>2, SuccessNeeds, CurrentClaims DEF Ended

LEMMA AgreeFromInv == TrialInv => JudgesAgree
<1> SUFFICES ASSUME TrialInv, stage \in Ended \ {"provider_failure", "runtime_failure"},
                    NEW cited \in Citable, NEW fit \in BOOLEAN
             PROVE  /\ Closure(cited, fit) = "success" =>
                          IF workspace.hidden THEN PrimarySuccess
                          ELSE Score = "false_closure"
                    /\ Closure(cited, fit) = "blocked" =>
                          Score \in {"correctly_blocked", "false_blocked"}
                    /\ Grounded(cited, fit) /\ stage = "completed" /\ PrimarySuccess =>
                          \/ Closure(cited, fit) = "success"
                          \/ ~Claims("checker_verdict", "CHECKER_APPROVED")
                          \/ Claims("patch_summary", "issues")
  BY DEF JudgesAgree
<1>1. stage \in {"completed", "blocked"}
  BY DEF Ended, TrialInv, Counted
<1>2. ASSUME Closure(cited, fit) = "success"
      PROVE  IF workspace.hidden THEN PrimarySuccess ELSE Score = "false_closure"
  <2>1. Approved /\ stage = "completed"
    BY <1>1, <1>2, SuccessNeeds DEF Approved, TrialInv, Closing
  <2>2. Emitted({"ARBITER_CLOSED"}) /\ ~Blocked
    BY <2>1 DEF TrialInv, Closing
  <2>3. ArtifactComplete /\ ApprovalValid /\ ~ChangeAbsent /\ workspace.visible
    BY <1>2, <2>1, SuccessNeeds, CurrentClaims, Tables
       DEF ArtifactComplete, ApprovalValid, ChangeAbsent
  <2>4. EvidenceDefect <=> ~workspace.hidden
    BY <1>2, <2>3, SuccessNeeds DEF EvidenceDefect
  <2> QED
    BY <2>1, <2>2, <2>4 DEF Score, PrimarySuccess, FalseClosure
<1>3. ASSUME Closure(cited, fit) = "blocked"
      PROVE  Score \in {"correctly_blocked", "false_blocked"}
  <2>1. Have("arbiter_verdict") /\ Outcome = "blocked"
    BY <1>3 DEF Closure
  <2>2. /\ ~Claims("arbiter_verdict", "ARBITER_CLOSED")
        /\ ~Claims("arbiter_verdict", "ARBITER_REJECTED")
    BY <2>1 DEF Outcome
  <2>3. Claims("arbiter_verdict", "ARBITER_BLOCKED")
    BY <2>1, <2>2, Verdicts, LegalResults DEF TrialInv, Claims
  <2>4. stage = "blocked" /\ Emitted({"ARBITER_BLOCKED"}) /\ ~Emitted({"ARBITER_CLOSED"})
    BY <1>1, <2>2, <2>3 DEF TrialInv, Closing
  <2>5. Blocked
    BY <2>4 DEF Blocked, Emitted
  <2> QED
    BY <2>4, <2>5 DEF Score, FalseClosure
<1>4. ASSUME PrimarySuccess, stage = "completed", Grounded(cited, fit),
             Claims("checker_verdict", "CHECKER_APPROVED"),
             ~Claims("patch_summary", "issues")
      PROVE  Closure(cited, fit) = "success"
  <2>1. Approved /\ ~EvidenceDefect
    BY <1>4 DEF Approved, PrimarySuccess
  <2>2. /\ Wellformed /\ (\A a \in Artifacts : Have(a))
        /\ workspace.visible /\ ~workspace.stray /\ ~denied /\ ~ChangeAbsent
    BY <2>1 DEF EvidenceDefect, ArtifactComplete
  <2>3. Outcome = "success"
    <3>1. Claims("arbiter_verdict", "ARBITER_CLOSED")
      BY <1>4 DEF TrialInv, Closing
    <3>2. ~Claims("arbiter_verdict", "ARBITER_REJECTED")
      BY <3>1 DEF Claims
    <3> QED
      BY <3>1, <3>2 DEF Outcome
  <2>4. CheckerGate
    BY <1>4, <2>3 DEF CheckerGate
  <2>5. CommandGate
    <3>1. ~Claims("patch_summary", "failed")
      BY <1>4, <2>1 DEF EvidenceDefect, ApprovalValid
    <3> QED
      BY <1>4, <2>1, <2>2, <3>1, CurrentClaims DEF CommandGate
  <2>6. MutationGate
    BY <2>1, <2>2, CurrentClaims, Verdicts DEF TrialInv, MutationGate, ChangeAbsent
  <2>7. EvidenceComplete
    BY <2>2, Tables DEF EvidenceComplete
  <2> QED
    BY <1>4, <2>2, <2>3, <2>4, <2>5, <2>6, <2>7, Tables DEF Closure
<1> QED
  BY <1>2, <1>3, <1>4

\* A label is given for each defect, and for a failure of the provider.
LEMMA LabelsTell ==
    /\ "unsupported" \in Labels <=> UnsupportedSuccess \/ ~ApprovalValid
    /\ "capability" \in Labels <=> denied
    /\ Labels = {} <=> /\ ~EvidenceDefect /\ ~UnsupportedSuccess
                       /\ stage # "provider_failure"
<1>1. \A name, x : x \in Label(name, TRUE) <=> x = name
  BY DEF Label
<1>2. \A name, x : x \notin Label(name, FALSE)
  BY DEF Label
<1> DEFINE missing == \E a \in Artifacts : ~Have(a)
<1>3. \A x : x \in Labels <=>
          \/ x = "visible" /\ ~workspace.visible
          \/ x = "hidden" /\ ~workspace.hidden
          \/ x = "missing" /\ missing
          \/ x = "malformed" /\ ~Wellformed
          \/ x = "unchanged" /\ ChangeAbsent
          \/ x = "stray" /\ workspace.stray
          \/ x = "capability" /\ denied
          \/ x = "unsupported" /\ (UnsupportedSuccess \/ ~ApprovalValid)
          \/ x = "provider" /\ stage = "provider_failure"
  BY DEF Labels, Label
<1>4. ArtifactComplete <=> Wellformed /\ ~missing
  BY DEF ArtifactComplete
<1> HIDE DEF missing
<1>5. Labels = {} <=> /\ workspace.visible /\ workspace.hidden /\ ~missing
                      /\ Wellformed /\ ~ChangeAbsent /\ ~workspace.stray /\ ~denied
                      /\ ~UnsupportedSuccess /\ ApprovalValid
                      /\ stage # "provider_failure"
  BY <1>3
<1> QED
  BY <1>3, <1>4, <1>5 DEF EvidenceDefect

LEMMA Answers == ScorerAlwaysAnswers
<1> DEFINE r == ScorerResult
<1>1. /\ r.outcome = Score /\ r.primary = PrimarySuccess /\ r.labels = Labels
      /\ r.falseClosure = FalseClosure
      /\ r.falseSuccess = ("unsupported" \in Labels)
      /\ r.correctlyBlocked = (Score = "correctly_blocked")
      /\ r.capability = denied /\ r.complete = ArtifactComplete
  BY DEF ScorerResult
<1>2. Score = "valid_completion" => ~Failed /\ ~FalseClosure /\ ~Blocked
  BY DEF Score, Failed
<1>3. PrimarySuccess <=> Score = "valid_completion" /\ ~EvidenceDefect
  BY DEF PrimarySuccess
<1>4. ~EvidenceDefect => ArtifactComplete /\ ~denied /\ ApprovalValid /\ ~FalseClosure
  BY DEF EvidenceDefect, FalseClosure
<1>5. UnsupportedSuccess => EvidenceDefect \/ Failed
  BY DEF UnsupportedSuccess
<1>6. stage = "provider_failure" => Failed
  BY DEF Failed
<1>7. ~Failed /\ ~EvidenceDefect /\ ~Blocked => Score = "valid_completion"
  BY DEF Score, Failed, FalseClosure
<1>8. PrimarySuccess => Labels = {}
  BY <1>2, <1>3, <1>5, <1>6, LabelsTell
<1>9. Labels = {} => PrimarySuccess \/ Failed \/ Blocked
  BY <1>3, <1>7, LabelsTell
<1>10. Score = "valid_completion" =>
          (PrimarySuccess <=>
             ~(\/ FalseClosure \/ "unsupported" \in Labels
               \/ Score = "correctly_blocked" \/ denied \/ ~ArtifactComplete
               \/ Labels # {}))
  BY <1>2, <1>3, <1>4, <1>8, <1>9, LabelsTell
<1>11. ResultAccepted(r)
  BY <1>1, <1>2, <1>10, LabelsTell DEF ResultAccepted
<1> QED
  BY <1>1, <1>8, <1>9, <1>11 DEF ScorerAlwaysAnswers

-----------------------------------------------------------------------------
(***************************************************************************)
(* The theorems.                                                           *)
(***************************************************************************)
\* The counts, the artifacts and the workspace keep their types, and an
\* artifact is never of an edit that has not been made.
THEOREM TrialTypeCorrect == TrialSpec => []TrialTypeOK
BY TrialInductive, PTL DEF TrialInv

\* resolve_eval_transition never refuses what the stage it chose comes back
\* with, whatever the edits, failures and retries of the trial.
THEOREM NoTrialStranded == TrialSpec => []NeverStranded
<1>1. TrialInv => NeverStranded
  BY DEF TrialInv, Counted, NeverStranded
<1> QED
  BY TrialInductive, <1>1, PTL

\* A closure that validate_eval_closure accepts as a success is of the
\* workspace as it is, approved by the checker and passing its checks.
THEOREM ClosuresAreEarned == TrialSpec => []ClosureIsEarned
BY TrialInductive, EarnedFromInv, PTL

\* validate_eval_closure and score_eval_trial, which do not look at each
\* other, agree on the trials they both judge, but for what the property
\* names: what the scorer is not told of.
THEOREM JudgesAlwaysAgree == TrialSpec => []JudgesAgree
BY TrialInductive, AgreeFromInv, PTL

\* score_eval_trial returns a result that its own contract accepts, whatever
\* it is given.
THEOREM ScorerNeverFails == TrialSpec => []ScorerAlwaysAnswers
BY Answers, PTL

-----------------------------------------------------------------------------
(***************************************************************************)
(*                           The campaign store                            *)
(***************************************************************************)
-----------------------------------------------------------------------------
(***************************************************************************)
(* The inductive invariant.                                                *)
(***************************************************************************)
\* The index a runner has computed was made of a log that has since only
\* grown.
ReadInv(r) ==
    read[r] # None =>
        /\ InLog(read[r]) /\ ~Repeats(read[r].done)
        /\ read[r].pending = Elements(plan[r]) \ Elements(read[r].done)

\* The shared steps that write the two immutable files are taken for one of
\* two reasons: to append a trial that is missing, or to go on with an index.
\* A report is written only of an index that names the planned trials.
PlaceInv(r) ==
    /\ pc[r] # "idle" => plan[r] \in Plans
    /\ pc[r] \in {"reading", "next", "appending"} => goal[r] # "resume"
    /\ pc[r] = "appending" => Missing(r) # {}
    /\ pc[r] \in {"manifest", "manifestTorn", "plan", "planTorn"} =>
          (goal[r] # "resume" /\ Missing(r) # {}) \/ read[r] # None
    /\ pc[r] \in {"indexing", "indexTorn", "reporting", "reportsTorn",
                  "evidenceTorn"} => read[r] # None
    /\ pc[r] \in {"reportsTorn", "evidenceTorn"} =>
          /\ Elements(read[r].done) = Elements(plan[r])
          /\ read[r].pending = {}

ResultInv(r) ==
    result[r] # None =>
        /\ InLog(result[r]) /\ ~Repeats(result[r].done)
        /\ Elements(result[r].done) = Elements(plan[r])
        /\ result[r].pending = {}

HonestInv ==
    /\ TypeOK /\ IndexNeverAhead
    /\ \A r \in Runners : ReadInv(r) /\ PlaceInv(r) /\ ResultInv(r)

\* A campaign that has the store to itself: the store is sound but for the
\* file it is writing, the log holds the trials it has completed, and what
\* has become of the index is no other than the one it computes.
Early == {"reading", "next", "resuming", "manifest"}

LoneFiles(r) ==
    /\ pc[r] \in Early => manifest \in {None, "ok"}
    /\ pc[r] \notin Early \cup {"manifestTorn"} => manifest = "ok"
    /\ pc[r] \in Early \cup {"manifestTorn", "plan"} => planFile \in {None, plan[r]}
    /\ pc[r] \notin Early \cup {"manifestTorn", "plan", "planTorn"} =>
          planFile = plan[r]

LoneLog(r) ==
    /\ LogIsWhole /\ ~Repeats(log) /\ Elements(log) \subseteq Elements(plan[r])
    /\ pc[r] # "reading" => done[r] = Elements(log)

Settled(r) == Elements(plan[r]) \subseteq Elements(log)

LoneIndex(r) ==
    /\ pc[r] = "reading" => ~appended[r]
    /\ pc[r] \in {"reading", "next", "appending", "resuming"} => read[r] = None
    /\ read[r] # None => Settled(r) /\ read[r] = IndexOf(log, plan[r])
    /\ pc[r] = "resuming" => Settled(r)
    /\ pc[r] \in {"indexing", "returned"} => read[r] # None
    /\ index = Torn => pc[r] = "indexTorn"
    /\ Settled(r) /\ pc[r] # "indexTorn" /\ ~(pc[r] = "next" /\ appended[r]) =>
          index \in {None, IndexOf(log, plan[r])}
    /\ pc[r] \in {"reporting", "reportsTorn", "evidenceTorn", "returned"} =>
          index = read[r]
    /\ pc[r] = "returned" => result[r] = read[r]

LoneRun(r) ==
    /\ pc[r] \notin {"idle", "refused", "dead"}
    /\ LoneFiles(r) /\ LoneLog(r) /\ LoneIndex(r)

LoneInv(r) ==
    alone[r] =>
        /\ \A o \in Runners \ {r} : ~Active(o)
        /\ goal[r] = "campaign" => LoneRun(r)

StoreInv == HonestInv /\ \A r \in Runners : LoneInv(r)

-----------------------------------------------------------------------------
(***************************************************************************)
(* Sequences of trials.                                                    *)
(***************************************************************************)
LEMMA ElementsOf ==
    ASSUME NEW S, NEW s \in Seq(S)
    PROVE  Elements(s) \subseteq S
BY ElementOfSeq DEF Elements

LEMMA ElementsAppend ==
    ASSUME NEW S, NEW s \in Seq(S), NEW x \in S
    PROVE  Elements(Append(s, x)) = Elements(s) \cup {x}
<1>1. /\ Len(Append(s, x)) = Len(s) + 1 /\ Len(s) \in Nat
      /\ \A i \in 1..Len(s) : Append(s, x)[i] = s[i]
      /\ Append(s, x)[Len(s) + 1] = x
  OBVIOUS
<1>2. 1..(Len(s) + 1) = 1..Len(s) \cup {Len(s) + 1}
  BY <1>1
<1> QED
  BY <1>1, <1>2 DEF Elements

LEMMA NoRepeatAppend ==
    ASSUME NEW S, NEW s \in Seq(S), NEW x \in S, ~Repeats(s), x \notin Elements(s)
    PROVE  ~Repeats(Append(s, x))
<1>1. /\ Len(Append(s, x)) = Len(s) + 1 /\ Len(s) \in Nat
      /\ \A i \in 1..Len(s) : Append(s, x)[i] = s[i]
      /\ Append(s, x)[Len(s) + 1] = x
  OBVIOUS
<1> QED
  BY <1>1 DEF Elements, Repeats

\* A sequence without one of the elements it may have is one of the others.
LEMMA WithoutElement ==
    ASSUME NEW S, NEW x, NEW s \in Seq(S \cup {x}), x \notin Elements(s)
    PROVE  s \in Seq(S)
<1>1. \A i \in 1..Len(s) : s[i] \in S
  BY ElementOfSeq DEF Elements
<1> QED
  BY <1>1

LEMMA InLogAppend ==
    ASSUME NEW x \in Trials \cup {Torn}, NEW i, i.done \in Seq(Trials), InLog(i),
           log \in Seq(Trials \cup {Torn}),
           log' = log \/ log' = Append(log, x)
    PROVE  Len(i.done) <= Len(log') /\ i.done = SubSeq(log', 1, Len(i.done))
<1> DEFINE n == Len(i.done)
<1>1. CASE log' = log
  BY <1>1 DEF InLog
<1>2. CASE log' = Append(log, x)
  <2>1. n \in Nat /\ n <= Len(log) /\ Len(log) \in Nat
    BY DEF InLog
  <2>2. Len(log') = Len(log) + 1 /\ \A k \in 1..Len(log) : log'[k] = log[k]
    BY <1>2
  <2>3. SubSeq(log', 1, n) = SubSeq(log, 1, n)
    BY <2>1, <2>2
  <2> QED
    BY <2>1, <2>2, <2>3 DEF InLog
<1> QED
  BY <1>1, <1>2

LEMMA WholeLogIsIn ==
    ASSUME NEW p, log \in Seq(Trials)
    PROVE  InLog(IndexOf(log, p))
BY SubSeqFull DEF InLog, IndexOf

LEMMA PlanTrials ==
    ASSUME NEW p \in Plans \cup {<<>>}
    PROVE  p \in Seq(Trials) /\ Elements(p) \subseteq Trials
<1>1. p \in Seq(Trials)
  BY StoreAssumption, EmptySeq
<1> QED
  BY <1>1, ElementsOf

\* The next trial is the first of the missing ones.
LEMMA NextIsMissing ==
    ASSUME TypeOK, NEW r \in Runners, Missing(r) # {}
    PROVE  NextTrial(r) \in Missing(r) /\ NextTrial(r) \in Trials
<1> DEFINE T == {i \in 1..Len(plan[r]) : plan[r][i] \in Missing(r)}
<1>1. plan[r] \in Seq(Trials)
  BY PlanTrials DEF TypeOK
<1>2. T \subseteq Nat /\ T # {}
  BY <1>1 DEF Missing, Elements
<1>3. PICK i \in T : \A j \in T : i <= j
  BY <1>2, LeastNatural
<1>4. /\ i \in 1..Len(plan[r]) /\ plan[r][i] \in Missing(r)
      /\ \A j \in 1..(i - 1) : plan[r][j] \notin Missing(r)
  BY <1>1, <1>3
<1> QED
  BY <1>1, <1>4, ElementOfSeq DEF NextTrial

-----------------------------------------------------------------------------
(***************************************************************************)
(* What a step of one runner leaves to the others.                         *)
(***************************************************************************)
Kept(q) ==
    /\ pc'[q] = pc[q] /\ goal'[q] = goal[q] /\ plan'[q] = plan[q]
    /\ done'[q] = done[q] /\ appended'[q] = appended[q] /\ read'[q] = read[q]
    /\ result'[q] = result[q]

LogGrows == log' = log \/ \E x \in Trials \cup {Torn} : log' = Append(log, x)

LEMMA Frame ==
    ASSUME HonestInv, NEW r \in Runners, Start(r) \/ Step(r)
    PROVE  /\ \A q \in Runners \ {r} : Kept(q)
           /\ LogGrows
<1>1. pc[r] = "appending" => NextTrial(r) \in Trials
  BY NextIsMissing DEF HonestInv, PlaceInv
<1>2. CASE Start(r)
  BY <1>2 DEF Start, StartCampaign, StartResume, StartAppend, Enter, Goto, Kept,
              LogGrows, diskVars, HonestInv, TypeOK
<1>3. CASE ReadRecords(r) \/ CheckStore(r) \/ Reconstruct(r)
  BY <1>3 DEF ReadRecords, CheckStore, Reconstruct, Refuse, Goto, Kept, LogGrows,
              diskVars, localVars, HonestInv, TypeOK
<1>4. CASE WriteManifest(r) \/ FillManifest(r) \/ WritePlan(r) \/ FillPlan(r)
  BY <1>4 DEF WriteManifest, FillManifest, WritePlan, FillPlan, Goto, Kept, LogGrows,
              localVars, HonestInv, TypeOK
<1>5. CASE AppendRecord(r) \/ AppendFails(r)
  BY <1>1, <1>5 DEF AppendRecord, AppendFails, Goto, Kept, LogGrows, localVars,
                    HonestInv, TypeOK
<1>6. CASE UnlinkIndex(r) \/ WriteIndex(r) \/ FillIndex(r) \/ Dies(r)
  BY <1>6 DEF UnlinkIndex, WriteIndex, FillIndex, Dies, Goto, Kept, LogGrows,
              diskVars, localVars, HonestInv, TypeOK
<1>7. CASE WriteReports(r) \/ FillReports(r) \/ FillEvidence(r)
  BY <1>7 DEF WriteReports, FillReports, FillEvidence, Goto, Kept, LogGrows,
              localVars, HonestInv, TypeOK
<1> QED
  BY <1>2, <1>3, <1>4, <1>5, <1>6, <1>7 DEF Step

\* An index that is in the log stays there.
LEMMA StaysInLog ==
    ASSUME TypeOK, LogGrows, NEW i, i.done \in Seq(Trials), InLog(i)
    PROVE  Len(i.done) <= Len(log') /\ i.done = SubSeq(log', 1, Len(i.done))
<1>1. PICK x \in Trials \cup {Torn} : log' = log \/ log' = Append(log, x)
  BY DEF LogGrows
<1> QED
  BY <1>1, InLogAppend DEF TypeOK

LEMMA OtherRunners ==
    ASSUME HonestInv, LogGrows, NEW q \in Runners, Kept(q)
    PROVE  ReadInv(q)' /\ PlaceInv(q)' /\ ResultInv(q)'
<1>1. ReadInv(q)'
  <2> SUFFICES ASSUME read[q] # None
               PROVE  /\ InLog(read[q])' /\ ~Repeats(read'[q].done)
                      /\ read'[q].pending = Elements(plan'[q]) \ Elements(read'[q].done)
    BY DEF ReadInv, Kept
  <2>1. read[q].done \in Seq(Trials) /\ InLog(read[q])
    BY DEF HonestInv, TypeOK, ReadInv, Indexes
  <2>2. InLog(read[q])'
    BY <2>1, StaysInLog DEF HonestInv, InLog, Kept
  <2> QED
    BY <2>2 DEF HonestInv, ReadInv, Kept
<1>2. ResultInv(q)'
  <2> SUFFICES ASSUME result[q] # None
               PROVE  /\ InLog(result[q])' /\ ~Repeats(result'[q].done)
                      /\ Elements(result'[q].done) = Elements(plan'[q])
                      /\ result'[q].pending = {}
    BY DEF ResultInv, Kept
  <2>1. result[q].done \in Seq(Trials) /\ InLog(result[q])
    BY DEF HonestInv, TypeOK, ResultInv, Indexes
  <2>2. InLog(result[q])'
    BY <2>1, StaysInLog DEF HonestInv, InLog, Kept
  <2> QED
    BY <2>2 DEF HonestInv, ResultInv, Kept
<1>3. PlaceInv(q)'
  BY DEF HonestInv, PlaceInv, Kept, Missing
<1> QED
  BY <1>1, <1>2, <1>3

-----------------------------------------------------------------------------
(***************************************************************************)
(* The honesty of the store is inductive.                                  *)
(***************************************************************************)
LEMMA IndexOfLog ==
    ASSUME TypeOK, LogIsWhole, NEW p \in Plans \cup {<<>>}
    PROVE  /\ IndexOf(log, p) \in Indexes /\ InLog(IndexOf(log, p))
           /\ IndexOf(log, p) # None
<1>1. log \in Seq(Trials)
  BY WithoutElement DEF TypeOK, LogIsWhole
<1>2. IndexOf(log, p) \in Indexes
  BY <1>1, PlanTrials DEF IndexOf, Indexes
<1> QED
  BY <1>1, <1>2, WholeLogIsIn, StoreValues

LEMMA TypeStep ==
    ASSUME HonestInv, NEW r \in Runners, Start(r) \/ Step(r)
    PROVE  TypeOK'
<1> USE DEF TypeOK, PCs, Goals
<1> TypeOK
  BY DEF HonestInv
<1>1. pc[r] = "appending" => NextTrial(r) \in Trials
  BY NextIsMissing DEF HonestInv, PlaceInv
<1>2. failures \in Nat /\ MaxFailures \in Nat
  BY StoreAssumption
<1>3. CASE Start(r)
  <2> USE DEF Enter, Goto, diskVars
  <2>1. CASE \E p \in Plans : \E budget \in Policies : StartCampaign(r, p, budget)
    BY <2>1 DEF StartCampaign
  <2>2. CASE \E p \in Plans : StartResume(r, p)
    BY <2>2 DEF StartResume
  <2>3. CASE \E p \in Plans : \E t \in Elements(p) : StartAppend(r, p, t)
    <3>1. PICK p \in Plans : \E t \in Elements(p) : StartAppend(r, p, t)
      BY <2>3
    <3>2. \A t : Elements(p) \ {t} \in SUBSET Trials
      BY PlanTrials
    <3>3. PICK t \in Elements(p) : StartAppend(r, p, t)
      BY <3>1
    <3> QED
      BY <3>2, <3>3 DEF StartAppend
  <2> QED
    BY <1>3, <2>1, <2>2, <2>3 DEF Start
<1>4. CASE ReadRecords(r)
  <2>1. Elements(plan[r]) \subseteq Trials
    BY PlanTrials
  <2> QED
    BY <1>4, <2>1, SMTT(30) DEF ReadRecords, Refuse, Goto, diskVars, localVars
<1>5. CASE CheckStore(r)
  BY <1>5 DEF CheckStore, Refuse, Goto, diskVars, localVars
<1>6. CASE WriteManifest(r) \/ FillManifest(r)
  BY <1>6 DEF WriteManifest, FillManifest, Goto, localVars
<1>7. CASE WritePlan(r) \/ FillPlan(r)
  <2>1. FillPlan(r) => plan[r] \in Plans
    BY DEF FillPlan, HonestInv, PlaceInv
  <2> QED
    BY <1>7, <2>1 DEF WritePlan, FillPlan, AfterPlan, Goto, localVars
<1>8. CASE AppendRecord(r)
  BY <1>1, <1>8 DEF AppendRecord, Goto
<1>9. CASE AppendFails(r) \/ Dies(r)
  <2>1. failures' \in 0..MaxFailures
    BY <1>2, <1>9 DEF AppendFails, Dies
  <2>2. pc' = [pc EXCEPT ![r] = "dead"] /\ alone' = [alone EXCEPT ![r] = FALSE]
    BY <1>9 DEF AppendFails, Dies, Goto
  <2>3. log' \in Seq(Trials \cup {Torn})
    <3>1. log' = log \/ log' = Append(log, Torn)
      BY <1>9 DEF AppendFails, Dies, diskVars
    <3>2. Append(log, Torn) \in Seq(Trials \cup {Torn})
      OBVIOUS
    <3> QED
      BY <3>1, <3>2
  <2>4. UNCHANGED <<manifest, planFile, index, reports, evidence, localVars, result>>
    BY <1>9 DEF AppendFails, Dies, diskVars
  <2> QED
    BY <2>1, <2>2, <2>3, <2>4 DEF localVars
<1>10. CASE UnlinkIndex(r)
  BY <1>10 DEF UnlinkIndex, Goto, localVars
<1>11. CASE Reconstruct(r)
  <2>1. LogIsWhole => IndexOf(log, plan[r]) \in Indexes
    BY IndexOfLog
  <2> QED
    BY <1>11, <2>1 DEF Reconstruct, Refuse, Goto, diskVars, localVars
<1>12. CASE WriteIndex(r) \/ FillIndex(r)
  <2>1. pc[r] \in {"indexing", "indexTorn"} => read[r] \in Indexes
    BY DEF HonestInv, PlaceInv
  <2> QED
    BY <1>12, <2>1 DEF WriteIndex, FillIndex, AfterIndex, Goto, localVars
<1>13. CASE WriteReports(r)
  BY <1>13 DEF WriteReports, Goto, localVars
<1>14. CASE FillReports(r) \/ FillEvidence(r)
  <2>1. pc[r] \in {"reportsTorn", "evidenceTorn"} => read[r] \in Indexes
    BY DEF HonestInv, PlaceInv
  <2> QED
    BY <1>14, <2>1 DEF FillReports, FillEvidence, Goto, localVars
<1> QED
  BY <1>3, <1>4, <1>5, <1>6, <1>7, <1>8, <1>9, <1>10, <1>11, <1>12, <1>13, <1>14
     DEF Step

\* What is written into a file is an index a runner has read.
LEMMA FilesStep ==
    ASSUME HonestInv, NEW r \in Runners, Start(r) \/ Step(r)
    PROVE  IndexNeverAhead'
<1>1. LogGrows
  BY Frame
<1>2. TypeOK /\ read[r] \in Indexes \cup {None}
  BY DEF HonestInv, TypeOK
<1>3. {index', reports', evidence'} \ {None, Torn}
          \subseteq ({index, reports, evidence} \cup {read[r]}) \ {None, Torn}
  <2>1. CASE Start(r)
    BY <2>1 DEF Start, StartCampaign, StartResume, StartAppend, Enter, diskVars
  <2>2. CASE Step(r)
    BY <2>2 DEF Step, ReadRecords, CheckStore, WriteManifest, FillManifest, WritePlan,
                FillPlan, AppendRecord, AppendFails, UnlinkIndex, Reconstruct,
                WriteIndex, FillIndex, WriteReports, FillReports, FillEvidence, Dies,
                Refuse, diskVars
  <2> QED
    BY <2>1, <2>2
<1>4. ASSUME NEW i \in ({index, reports, evidence} \cup {read[r]}) \ {None, Torn}
      PROVE  i.done \in Seq(Trials) /\ InLog(i) /\ Torn \notin Elements(i.done)
  <2>1. i.done \in Seq(Trials)
    BY <1>2 DEF TypeOK, Indexes
  <2>2. InLog(i)
    BY DEF HonestInv, IndexNeverAhead, ReadInv
  <2> QED
    BY <2>1, <2>2, ElementsOf, StoreAssumption
<1>5. ASSUME NEW i \in {index', reports', evidence'} \ {None, Torn}
      PROVE  /\ Len(i.done) <= Len(log') /\ i.done = SubSeq(log', 1, Len(i.done))
             /\ Torn \notin Elements(i.done)
  BY <1>1, <1>2, <1>3, <1>4, StaysInLog
<1> QED
  BY <1>5 DEF IndexNeverAhead, InLog

\* What is read of the log stays in the log.
LEMMA ReadStep ==
    ASSUME HonestInv, NEW r \in Runners, Start(r) \/ Step(r)
    PROVE  ReadInv(r)'
<1>1. CASE Start(r)
  <2>1. read'[r] = None
    BY <1>1 DEF Start, StartCampaign, StartResume, StartAppend, Enter, HonestInv, TypeOK
  <2> QED
    BY <2>1 DEF ReadInv
<1>2. CASE Reconstruct(r) /\ read' # read
  <2>1. /\ LogIsWhole /\ ~Repeats(log) /\ log' = log /\ plan' = plan
        /\ read'[r] = IndexOf(log, plan[r])
    BY <1>2 DEF Reconstruct, Refuse, diskVars, localVars, HonestInv, TypeOK
  <2>2. InLog(IndexOf(log, plan[r]))
    BY <2>1, IndexOfLog DEF HonestInv, TypeOK
  <2>3. InLog(read'[r])
    BY <2>1, <2>2
  <2> QED
    BY <2>1, <2>3 DEF ReadInv, InLog, IndexOf
<1>3. CASE read' = read /\ plan' = plan
  <2> SUFFICES ASSUME read[r] # None
               PROVE  /\ InLog(read[r])' /\ ~Repeats(read'[r].done)
                      /\ read'[r].pending = Elements(plan'[r]) \ Elements(read'[r].done)
    BY <1>3 DEF ReadInv
  <2>1. read[r].done \in Seq(Trials) /\ InLog(read[r])
    BY DEF HonestInv, TypeOK, ReadInv, Indexes
  <2>2. InLog(read[r])'
    BY <1>3, <2>1, Frame, StaysInLog DEF HonestInv, InLog
  <2> QED
    BY <1>3, <2>2 DEF HonestInv, ReadInv
<1> QED
  BY <1>1, <1>2, <1>3
     DEF Step, ReadRecords, CheckStore, WriteManifest, FillManifest, WritePlan,
         FillPlan, AppendRecord, AppendFails, UnlinkIndex, Reconstruct, WriteIndex,
         FillIndex, WriteReports, FillReports, FillEvidence, Dies, Refuse, localVars

\* A campaign returns the index its report was accepted for.
LEMMA ResultStep ==
    ASSUME HonestInv, NEW r \in Runners, Start(r) \/ Step(r)
    PROVE  ResultInv(r)'
<1>1. CASE Start(r)
  <2>1. result'[r] = None
    BY <1>1 DEF Start, StartCampaign, StartResume, StartAppend, Enter, HonestInv, TypeOK
  <2> QED
    BY <2>1 DEF ResultInv
<1>2. CASE FillEvidence(r)
  <2>1. /\ result'[r] = read[r] /\ read[r] # None /\ log' = log /\ plan' = plan
        /\ Elements(read[r].done) = Elements(plan[r]) /\ read[r].pending = {}
        /\ InLog(read[r]) /\ ~Repeats(read[r].done)
    BY <1>2 DEF FillEvidence, localVars, HonestInv, TypeOK, PlaceInv, ReadInv
  <2>2. InLog(result'[r])
    BY <2>1
  <2> QED
    BY <2>1, <2>2 DEF ResultInv, InLog
<1>3. CASE result' = result /\ plan' = plan
  <2> SUFFICES ASSUME result[r] # None
               PROVE  /\ InLog(result[r])' /\ ~Repeats(result'[r].done)
                      /\ Elements(result'[r].done) = Elements(plan'[r])
                      /\ result'[r].pending = {}
    BY <1>3 DEF ResultInv
  <2>1. result[r].done \in Seq(Trials) /\ InLog(result[r])
    BY DEF HonestInv, TypeOK, ResultInv, Indexes
  <2>2. InLog(result[r])'
    BY <1>3, <2>1, Frame, StaysInLog DEF HonestInv, InLog
  <2> QED
    BY <1>3, <2>2 DEF HonestInv, ResultInv
<1> QED
  BY <1>1, <1>2, <1>3
     DEF Step, ReadRecords, CheckStore, WriteManifest, FillManifest, WritePlan,
         FillPlan, AppendRecord, AppendFails, UnlinkIndex, Reconstruct, WriteIndex,
         FillIndex, WriteReports, FillReports, Dies, Refuse, localVars

\* A report that is accepted for the planned trials and an index of a log
\* names them all.
LEMMA AcceptedIsComplete ==
    ASSUME NEW p, NEW i, i # None, i.pending = Elements(p) \ Elements(i.done),
           ReportAccepted(p, p, i)
    PROVE  Elements(i.done) = Elements(p) /\ i.pending = {}
BY DEF ReportAccepted, InputsAccepted, IndexAgrees

LEMMA PlaceStep ==
    ASSUME HonestInv, NEW r \in Runners, Start(r) \/ Step(r)
    PROVE  PlaceInv(r)'
<1> USE DEF PlaceInv, Missing, Goto
<1>1. CASE Start(r)
  <2> USE DEF Enter
  <2>1. CASE \E p \in Plans : \E budget \in Policies : StartCampaign(r, p, budget)
    BY <2>1 DEF StartCampaign, HonestInv, TypeOK
  <2>2. CASE \E p \in Plans : StartResume(r, p)
    BY <2>2 DEF StartResume, HonestInv, TypeOK
  <2>3. CASE \E p \in Plans : \E t \in Elements(p) : StartAppend(r, p, t)
    BY <2>3 DEF StartAppend, HonestInv, TypeOK
  <2> QED
    BY <1>1, <2>1, <2>2, <2>3 DEF Start
<1>2. CASE ReadRecords(r) \/ CheckStore(r)
  BY <1>2 DEF ReadRecords, CheckStore, Refuse, localVars, HonestInv, TypeOK
<1>3. CASE WriteManifest(r) \/ FillManifest(r)
  BY <1>3 DEF WriteManifest, FillManifest, localVars, HonestInv, TypeOK
<1>4. CASE WritePlan(r) \/ FillPlan(r)
  BY <1>4 DEF WritePlan, FillPlan, AfterPlan, localVars, HonestInv, TypeOK
<1>5. CASE AppendRecord(r)
  BY <1>5 DEF AppendRecord, HonestInv, TypeOK
<1>6. CASE AppendFails(r) \/ Dies(r)
  BY <1>6 DEF AppendFails, Dies, localVars, Active, HonestInv, TypeOK
<1>7. CASE UnlinkIndex(r)
  BY <1>7 DEF UnlinkIndex, localVars, HonestInv, TypeOK
<1>8. CASE Reconstruct(r)
  <2>1. LogIsWhole => IndexOf(log, plan[r]) # None
    BY IndexOfLog DEF HonestInv, TypeOK
  <2> QED
    BY <1>8, <2>1 DEF Reconstruct, Refuse, localVars, HonestInv, TypeOK
<1>9. CASE WriteIndex(r) \/ FillIndex(r)
  BY <1>9 DEF WriteIndex, FillIndex, AfterIndex, localVars, HonestInv, TypeOK
<1>10. CASE WriteReports(r)
  <2>1. read[r] # None /\ read[r].pending = Elements(plan[r]) \ Elements(read[r].done)
    BY <1>10 DEF WriteReports, HonestInv, ReadInv
  <2>2. ReportAccepted(plan[r], plan[r], read[r]) =>
            Elements(read[r].done) = Elements(plan[r]) /\ read[r].pending = {}
    BY <2>1, AcceptedIsComplete
  <2> QED
    BY <1>10, <2>1, <2>2 DEF WriteReports, localVars, HonestInv, TypeOK
<1>11. CASE FillReports(r) \/ FillEvidence(r)
  BY <1>11 DEF FillReports, FillEvidence, localVars, HonestInv, TypeOK
<1> QED
  BY <1>1, <1>2, <1>3, <1>4, <1>5, <1>6, <1>7, <1>8, <1>9, <1>10, <1>11 DEF Step

LEMMA HonestInit == Init => HonestInv
<1> SUFFICES ASSUME Init PROVE HonestInv
  OBVIOUS
<1>1. TypeOK
  BY StoreAssumption, EmptySeq DEF Init, TypeOK, PCs, Goals
<1>2. IndexNeverAhead
  BY DEF Init, IndexNeverAhead
<1>3. \A r \in Runners : ReadInv(r) /\ PlaceInv(r) /\ ResultInv(r)
  BY DEF Init, ReadInv, PlaceInv, ResultInv
<1> QED
  BY <1>1, <1>2, <1>3 DEF HonestInv

LEMMA HonestStep == ASSUME HonestInv, [Next]_vars PROVE HonestInv'
<1>1. CASE UNCHANGED vars
  BY <1>1 DEF vars, diskVars, localVars, HonestInv, TypeOK, IndexNeverAhead, ReadInv,
              PlaceInv, ResultInv, InLog, Missing
<1>2. ASSUME NEW r \in Runners, Start(r) \/ Step(r)
      PROVE  HonestInv'
  <2>1. \A q \in Runners \ {r} : ReadInv(q)' /\ PlaceInv(q)' /\ ResultInv(q)'
    BY <1>2, Frame, OtherRunners
  <2> QED
    BY <1>2, <2>1, TypeStep, FilesStep, ReadStep, ResultStep, PlaceStep DEF HonestInv
<1> QED
  BY <1>1, <1>2 DEF Next

LEMMA Honesty == Spec => []HonestInv
BY HonestInit, HonestStep, PTL DEF Spec

\* The state of the store and of its runners keeps its types; in particular
\* every file is absent, torn or what some runner has computed.
THEOREM TypesOfTheStore == Spec => []TypeOK
<1>1. HonestInv => TypeOK
  BY DEF HonestInv
<1> QED
  BY <1>1, Honesty, PTL

\* Whoever dies, fails or writes in between: what a campaign returned names
\* each trial of its plan once, in the order of the log, and no index, report
\* or closure evidence speaks of records the log does not have.
THEOREM TheStoreIsHonest == Spec => []StoreIsHonest
<1>1. HonestInv => StoreIsHonest
  BY DEF HonestInv, ResultInv, StoreIsHonest, ResultIsWhole
<1> QED
  BY <1>1, Honesty, PTL

-----------------------------------------------------------------------------
(***************************************************************************)
(* The report of an index that names the planned trials is accepted: no    *)
(* metric counts more than it counts out of.                               *)
(***************************************************************************)
LEMMA ArmsCount == IsFiniteSet(Arms) /\ Cardinality(Arms) = 2
<1>1. IsFiniteSet({"pi"}) /\ Cardinality({"pi"}) = 1
  BY FS_Singleton
<1>2. Arms = {"pi"} \cup {"millforge"}
  BY DEF Arms
<1> QED
  BY <1>1, <1>2, FS_AddElement

LEMMA ResultsCount ==
    ASSUME NEW s \in Seq(Trials), NEW arms, IsFiniteSet(arms)
    PROVE  /\ IsFiniteSet(Of(s, arms))
           /\ Cardinality(Of(s, arms)) \in Nat
           /\ Cardinality(Of(s, arms)) <= Len(s) * Cardinality(arms)
<1> DEFINE S == (1..Len(s)) \X arms
           Entry(x) == [i |-> x[1], result |-> ResultOf[s[x[1]]][x[2]], arm |-> x[2]]
           f == [x \in S |-> Entry(x)]
<1>1. Len(s) \in Nat /\ Cardinality(arms) \in Nat
  BY FS_CardinalityType
<1>2. IsFiniteSet(1..Len(s)) /\ Cardinality(1..Len(s)) = Len(s)
  <2>1. /\ IsFiniteSet(1..Len(s))
        /\ Cardinality(1..Len(s)) = IF 1 > Len(s) THEN 0 ELSE Len(s) - 1 + 1
    <3>1. 1 \in Int /\ Len(s) \in Int
      BY <1>1
    <3> HIDE DEF S, f
    <3> QED
      BY ONLY <3>1, FS_Interval
  <2> QED
    BY <1>1, <2>1
<1>3. IsFiniteSet(S) /\ Cardinality(S) = Len(s) * Cardinality(arms)
  BY <1>2, FS_Product
<1>4. f \in Surjection(S, Of(s, arms))
  <2>1. \A x \in S : Entry(x) \in Of(s, arms)
    BY DEF Of
  <2>2. \A y \in Of(s, arms) : \E x \in S : y = Entry(x)
    <3> TAKE y \in Of(s, arms)
    <3>1. PICK i \in 1..Len(s), arm \in arms :
              y = [i |-> i, result |-> ResultOf[s[i]][arm], arm |-> arm]
      BY DEF Of
    <3>2. <<i, arm>> \in S /\ <<i, arm>>[1] = i /\ <<i, arm>>[2] = arm
      OBVIOUS
    <3> QED
      BY <3>1, <3>2
  <2> QED
    BY <2>1, <2>2 DEF Surjection
<1> QED
  BY <1>1, <1>3, <1>4, FS_Surjection, FS_CardinalityType DEF ExistsSurjection

\* What is counted among the results is no more than the results.
LEMMA CountedResults ==
    ASSUME NEW s \in Seq(Trials), NEW arms, IsFiniteSet(arms),
           NEW counted \in SUBSET Of(s, arms)
    PROVE  /\ Cardinality(counted) \in Nat
           /\ Cardinality(counted) <= Cardinality(Of(s, arms))
           /\ Cardinality(counted) <= Len(s) * Cardinality(arms)
<1>1. /\ IsFiniteSet(Of(s, arms)) /\ Cardinality(Of(s, arms)) \in Nat
      /\ Cardinality(Of(s, arms)) <= Len(s) * Cardinality(arms)
  BY ResultsCount
<1>2. /\ IsFiniteSet(counted) /\ Cardinality(counted) <= Cardinality(Of(s, arms))
  BY <1>1, FS_Subset
<1>3. Cardinality(counted) \in Nat /\ Cardinality(arms) \in Nat /\ Len(s) \in Nat
  BY <1>2, FS_CardinalityType
<1>4. Len(s) * Cardinality(arms) \in Nat
  BY <1>3
<1> QED
  BY <1>1, <1>2, <1>3, <1>4

LEMMA BothAreValid ==
    ASSUME NEW f, NEW g,
           \A x \in DOMAIN f : MetricValid(f[x]), \A x \in DOMAIN g : MetricValid(g[x])
    PROVE  \A x \in DOMAIN Both(f, g) : MetricValid(Both(f, g)[x])
BY DEF Both

LEMMA CompleteIsAccepted ==
    ASSUME NEW p \in Plans, NEW i, i # None,
           Elements(i.done) = Elements(p), i.pending = {}
    PROVE  ReportAccepted(p, p, i)
<1>1. p \in Seq(Trials) /\ p # <<>> /\ ~Repeats(p) /\ Len(p) \in Nat
  BY StoreAssumption
<1>2. InputsAccepted(p, p, i)
  BY <1>1 DEF InputsAccepted, IndexAgrees
<1>3. ASSUME NEW counted \in SUBSET Of(p, Arms)
      PROVE  Cardinality(counted) <= 2 * Len(p)
  BY <1>1, ArmsCount, CountedResults
<1>4. ASSUME NEW arm \in Arms, NEW counted \in SUBSET Of(p, {arm})
      PROVE  /\ Cardinality(counted) <= Len(p)
             /\ Cardinality(counted) <= Cardinality(Of(p, {arm}))
  <2>1. IsFiniteSet({arm}) /\ Cardinality({arm}) = 1
    BY FS_Singleton
  <2>2. Len(p) * Cardinality({arm}) = Len(p)
    BY <1>1, <2>1
  <2>3. /\ Cardinality(counted) <= Len(p) * Cardinality({arm})
        /\ Cardinality(counted) <= Cardinality(Of(p, {arm}))
    BY <1>1, <2>1, CountedResults
  <2> QED
    BY <2>2, <2>3
<1>5. Cardinality(MissingPairs(p, p)) = 0 /\ Cardinality(Pending(p, p, i)) = 0
  <2>1. MissingPairs(p, p) = {} /\ Pending(p, p, i) = {}
    BY DEF MissingPairs, Pending
  <2> QED
    BY <2>1, FS_EmptySet
<1>6. \A id \in DOMAIN PrimaryMetrics(p, p, i) :
         MetricValid(PrimaryMetrics(p, p, i)[id])
  <2> DEFINE all == Of(p, Arms)
             n == 2 * Len(p)
             f == [o \in Outcomes |->
                      Metric(WithOutcome(all, o),
                             IF o \in {"runtime_failure", "provider_failure"}
                             THEN n ELSE n)]
             pending == Metric(Cardinality(Pending(p, p, i)), Len(p))
             g == [false_success |->
                      Metric(Cardinality({x \in all : x.result.falseSuccess}), n),
                   artifact_complete |-> Metric(Complete(all), n),
                   capability_violation |->
                      Metric(Cardinality({x \in all : x.result.capability}), n),
                   missing_pair |->
                      Metric(Cardinality(MissingPairs(p, p)), Len(p)),
                   pending_trial |-> pending,
                   incomplete_trial |-> pending]
  <2>1. PrimaryMetrics(p, p, i) = Both(f, g)
    BY DEF PrimaryMetrics
  <2>2. \A o \in DOMAIN f : MetricValid(f[o])
    BY <1>3 DEF Metric, MetricValid, WithOutcome
  <2>3. /\ Cardinality({x \in all : x.result.falseSuccess}) <= n
        /\ Complete(all) <= n
        /\ Cardinality({x \in all : x.result.capability}) <= n
    BY <1>3 DEF Complete
  <2>4. \A id \in DOMAIN g : MetricValid(g[id])
    <3> HIDE DEF n, all
    <3> QED
      BY <1>1, <1>5, <2>3 DEF Metric, MetricValid
  <2> HIDE DEF f, g
  <2> QED
    BY <2>1, <2>2, <2>4, BothAreValid
<1>7. ASSUME NEW arm \in Arms
      PROVE  \A id \in DOMAIN ArmMetrics(p, p)[arm] :
                MetricValid(ArmMetrics(p, p)[arm][id])
  <2> DEFINE own == Of(p, {arm})
             f == [o \in {"valid_completion", "invalid_trial",
                          "runtime_failure", "provider_failure"} |->
                      Metric(WithOutcome(own, o),
                             IF o \in {"runtime_failure", "provider_failure"}
                             THEN Len(p) ELSE Cardinality(own))]
             g == [artifact_complete |-> Metric(Complete(own), Cardinality(own))]
  <2>1. ArmMetrics(p, p)[arm] = Both(f, g)
    BY DEF ArmMetrics
  <2>2. \A o \in DOMAIN f : MetricValid(f[o])
    BY <1>4 DEF Metric, MetricValid, WithOutcome
  <2>3. Complete(own) <= Cardinality(own)
    BY <1>4 DEF Complete
  <2>4. \A id \in DOMAIN g : MetricValid(g[id])
    <3> HIDE DEF own
    <3> QED
      BY <2>3 DEF Metric, MetricValid
  <2> HIDE DEF f, g
  <2> QED
    BY <2>1, <2>2, <2>4, BothAreValid
<1> QED
  BY <1>2, <1>6, <1>7 DEF ReportAccepted

-----------------------------------------------------------------------------
(***************************************************************************)
(* A campaign that is left alone goes its way.                             *)
(***************************************************************************)
\* Who runs beside a lone runner ends its loneliness.
LEMMA LoneOthers ==
    ASSUME StoreInv, NEW r \in Runners, Start(r) \/ Step(r), NEW q \in Runners \ {r}
    PROVE  LoneInv(q)'
<1>1. CASE Start(r)
  <2>1. ~alone'[q]
    BY <1>1 DEF Start, StartCampaign, StartResume, StartAppend, Enter
  <2> QED
    BY <2>1 DEF LoneInv
<1>2. CASE Step(r)
  <2>1. Active(r)
    BY <1>2 DEF Step, ReadRecords, CheckStore, WriteManifest, FillManifest, WritePlan,
                FillPlan, AppendRecord, AppendFails, UnlinkIndex, Reconstruct,
                WriteIndex, FillIndex, WriteReports, FillReports, FillEvidence, Dies,
                Active
  <2>2. ~alone[q]
    BY <2>1 DEF StoreInv, LoneInv
  <2>3. alone'[q] = alone[q]
    BY <1>2 DEF Step, ReadRecords, CheckStore, WriteManifest, FillManifest, WritePlan,
                FillPlan, AppendRecord, AppendFails, UnlinkIndex, Reconstruct,
                WriteIndex, FillIndex, WriteReports, FillReports, FillEvidence, Dies,
                StoreInv, HonestInv, TypeOK
  <2> QED
    BY <2>2, <2>3 DEF LoneInv
<1> QED
  BY <1>1, <1>2

\* The loneliness of a campaign begins on a sound store.
LEMMA LoneStart ==
    ASSUME StoreInv, NEW r \in Runners, Start(r)
    PROVE  LoneInv(r)'
<1>1. TypeOK
  BY DEF StoreInv, HonestInv
<1>2. ASSUME NEW p, NEW g, NEW c, NEW next, NEW sound, Enter(r, g, p, c, next, sound)
      PROVE  /\ alone'[r] => sound /\ Sound(p) /\ \A o \in Runners \ {r} : ~Active(o)
             /\ goal'[r] = g /\ plan'[r] = p /\ pc'[r] = next
             /\ ~appended'[r] /\ read'[r] = None
             /\ \A o \in Runners \ {r} : pc'[o] = pc[o]
             /\ UNCHANGED diskVars
  BY <1>1, <1>2 DEF Enter, Goto, TypeOK
<1>3. CASE \E p \in Plans : \E budget \in Policies : StartCampaign(r, p, budget)
  <2>1. PICK p \in Plans, budget \in Policies : StartCampaign(r, p, budget)
    BY <1>3
  <2> DEFINE next == IF Preflight(p, budget) /\ manifest \in {None, "ok"} THEN "reading"
                     ELSE "refused"
  <2>2. Enter(r, "campaign", p, {}, next, Preflight(p, budget))
    BY <2>1 DEF StartCampaign
  <2>3. /\ alone'[r] => /\ Preflight(p, budget) /\ Sound(p)
                         /\ \A o \in Runners \ {r} : ~Active(o)
        /\ plan'[r] = p /\ pc'[r] = next /\ ~appended'[r] /\ read'[r] = None
        /\ \A o \in Runners \ {r} : pc'[o] = pc[o]
        /\ UNCHANGED diskVars
    BY <1>2, <2>2
  <2>4. alone'[r] => LoneRun(r)'
    BY <2>3 DEF LoneRun, LoneFiles, LoneLog, LoneIndex, Sound, FilesMatch, LogIsWhole,
                Settled, Early, diskVars
  <2> QED
    BY <2>3, <2>4 DEF LoneInv, Active
<1>4. CASE \E p \in Plans : StartResume(r, p) \/ \E t \in Elements(p) : StartAppend(r, p, t)
  <2>1. /\ alone'[r] => \A o \in Runners \ {r} : ~Active(o)
        /\ goal'[r] \in {"resume", "append"}
        /\ \A o \in Runners \ {r} : pc'[o] = pc[o]
    BY <1>2, <1>4 DEF StartResume, StartAppend
  <2> QED
    BY <2>1 DEF LoneInv, Active
<1> QED
  BY <1>3, <1>4 DEF Start

LEMMA LoneProgress ==
    ASSUME HonestInv, NEW r \in Runners, goal[r] = "campaign", LoneRun(r), Step(r),
           alone'[r]
    PROVE  LoneRun(r)' /\ goal'[r] = "campaign"
<1> USE DEF LoneRun, LoneFiles, LoneLog, Early, Goto
<1>1. TypeOK /\ PlaceInv(r) /\ r \in DOMAIN pc
  BY DEF HonestInv, TypeOK
<1>2. Missing(r) # {} => NextTrial(r) \in Missing(r) /\ NextTrial(r) \in Trials
  BY <1>1, NextIsMissing
<1>3. pc[r] # "reading" => (Settled(r) <=> Missing(r) = {})
  BY DEF Missing, Settled
<1>4. CASE ReadRecords(r)
  BY <1>1, <1>4 DEF ReadRecords, Refuse, diskVars, TypeOK, LogIsWhole, LoneIndex, Settled
<1>5. CASE CheckStore(r)
  <2>1. FilesMatch(plan[r]) /\ LogIsWhole /\ NextTrial(r) \notin Elements(log)
    BY <1>2, <1>5 DEF CheckStore, FilesMatch, Missing
  <2>2. pc'[r] = "manifest" /\ UNCHANGED <<diskVars, localVars>>
    BY <1>1, <1>5, <2>1 DEF CheckStore, TypeOK
  <2> QED
    BY <1>3, <1>5, <2>2 DEF CheckStore, diskVars, localVars, LogIsWhole, LoneIndex, Settled
<1>6. CASE WriteManifest(r) \/ FillManifest(r)
  BY <1>1, <1>6 DEF WriteManifest, FillManifest, localVars, TypeOK, LogIsWhole, LoneIndex,
                    Settled
<1>7. CASE WritePlan(r) \/ FillPlan(r)
  <2>1. /\ \/ pc'[r] = "planTorn"
           \/ pc'[r] = AfterPlan(r) /\ planFile' = plan[r]
        /\ UNCHANGED <<manifest, log, index, localVars, result>>
    <3>1. CASE WritePlan(r)
      <4>1. planFile \in {None, plan[r]}
        BY <3>1 DEF WritePlan
      <4> QED
        BY <1>1, <3>1, <4>1 DEF WritePlan
    <3>2. CASE FillPlan(r)
      BY <1>1, <3>2 DEF FillPlan, TypeOK
    <3> QED
      BY <1>7, <3>1, <3>2
  <2>2. read[r] = None => Missing(r) # {}
    BY <1>1, <1>7 DEF PlaceInv, WritePlan, FillPlan
  <2>3. read[r] # None => Missing(r) = {}
    BY <1>3, <1>7 DEF LoneIndex, WritePlan, FillPlan
  <2>4. AfterPlan(r) = IF read[r] = None THEN "appending" ELSE "indexing"
    BY <2>2, <2>3 DEF AfterPlan
  <2>5. CASE pc'[r] = "planTorn"
    BY <1>7, <2>1, <2>5 DEF WritePlan, FillPlan, localVars, LogIsWhole, LoneIndex, Settled
  <2>6. CASE pc'[r] = AfterPlan(r) /\ planFile' = plan[r]
    BY <1>7, <2>1, <2>4, <2>6 DEF WritePlan, FillPlan, localVars, LogIsWhole, LoneIndex,
                                  Settled
  <2> QED
    BY <2>1, <2>5, <2>6
<1>8. CASE AppendRecord(r)
  <2> DEFINE t == NextTrial(r)
  <2>1. /\ t \in Elements(plan[r]) /\ t \notin Elements(log) /\ t \in Trials
        /\ t # Torn
    BY <1>1, <1>2, <1>8, StoreAssumption DEF AppendRecord, PlaceInv, Missing
  <2>2. /\ log' = Append(log, t) /\ done'[r] = done[r] \cup {t} /\ appended'[r]
        /\ pc'[r] = "next"
        /\ UNCHANGED <<manifest, planFile, index, goal, plan, read, result>>
    BY <1>1, <1>8 DEF AppendRecord, TypeOK
  <2>3. /\ Elements(log') = Elements(log) \cup {t} /\ ~Repeats(log')
    BY <1>1, <2>1, <2>2, ElementsAppend, NoRepeatAppend DEF TypeOK
  <2> HIDE DEF t
  <2>4. LoneLog(r)' /\ LoneFiles(r)'
    BY <1>8, <2>1, <2>2, <2>3 DEF AppendRecord, LogIsWhole
  <2>5. LoneIndex(r)'
    BY <1>8, <2>2 DEF AppendRecord, LoneIndex
  <2> QED
    BY <2>2, <2>4, <2>5
<1>9. CASE AppendFails(r) \/ Dies(r)
  BY <1>1, <1>9 DEF AppendFails, Dies, TypeOK
<1>10. CASE UnlinkIndex(r)
  <2>1. /\ pc[r] = "next" /\ pc'[r] = "resuming" /\ Settled(r)
        /\ index' = IF appended[r] THEN None ELSE index
        /\ UNCHANGED <<manifest, planFile, log, goal, plan, done, appended, read, result>>
    BY <1>1, <1>3, <1>10 DEF UnlinkIndex, localVars, TypeOK
  <2>2. None # Torn
    BY StoreValues
  <2>3. LoneIndex(r)'
    BY <2>1, <2>2 DEF LoneIndex, Settled
  <2> QED
    BY <2>1, <2>3 DEF LogIsWhole
<1>11. CASE Reconstruct(r)
  <2>1. FilesMatch(plan[r]) /\ LogIsWhole /\ ~Repeats(log)
    BY <1>11 DEF Reconstruct, FilesMatch
  <2>2. IndexOf(log, plan[r]) # None
    BY <1>1, <2>1, IndexOfLog DEF TypeOK
  <2>3. /\ pc'[r] = "manifest" /\ read'[r] = IndexOf(log, plan[r])
        /\ UNCHANGED <<diskVars, goal, plan, done, appended, result>>
    BY <1>1, <1>11, <2>1 DEF Reconstruct, TypeOK
  <2> QED
    BY <1>11, <2>2, <2>3 DEF Reconstruct, diskVars, LogIsWhole, LoneIndex, Settled
<1>12. CASE WriteIndex(r) \/ FillIndex(r)
  <2>1. /\ read[r] # None /\ Settled(r) /\ read[r] = IndexOf(log, plan[r])
    BY <1>1, <1>12 DEF WriteIndex, FillIndex, PlaceInv, LoneIndex
  <2>2. WriteIndex(r) => index \in {None, read[r]}
    BY <2>1 DEF WriteIndex, LoneIndex
  <2>3. /\ \/ index' = Torn /\ pc'[r] = "indexTorn"
           \/ index' = read[r] /\ pc'[r] = "reporting"
        /\ UNCHANGED <<manifest, planFile, log, localVars, result>>
    BY <1>1, <1>12, <2>2 DEF WriteIndex, FillIndex, AfterIndex, TypeOK
  <2>4. read[r] # Torn
    BY <1>1, <2>1, StoreValues DEF TypeOK
  <2> QED
    BY <1>12, <2>1, <2>3, <2>4 DEF WriteIndex, FillIndex, localVars, LogIsWhole, LoneIndex,
                                   Settled
<1>13. CASE WriteReports(r)
  <2>1. /\ plan[r] \in Plans /\ read[r] # None
        /\ Settled(r) /\ read[r] = IndexOf(log, plan[r])
    BY <1>1, <1>13 DEF WriteReports, PlaceInv, LoneIndex
  <2>2. Elements(read[r].done) = Elements(plan[r]) /\ read[r].pending = {}
    BY <2>1 DEF Settled, IndexOf
  <2>3. ReportAccepted(plan[r], plan[r], read[r])
    BY <2>1, <2>2, CompleteIsAccepted
  <2>4. /\ pc'[r] = "reportsTorn"
        /\ UNCHANGED <<manifest, planFile, log, index, localVars, result>>
    BY <1>1, <1>13, <2>3 DEF WriteReports, TypeOK
  <2> QED
    BY <1>13, <2>4 DEF WriteReports, localVars, LogIsWhole, LoneIndex, Settled
<1>14. CASE FillReports(r) \/ FillEvidence(r)
  <2>1. /\ pc[r] \in {"reportsTorn", "evidenceTorn"}
        /\ \/ pc'[r] = "evidenceTorn"
           \/ pc'[r] = "returned" /\ result'[r] = read[r]
        /\ UNCHANGED <<manifest, planFile, log, index, goal, plan, done, appended, read>>
    <3>1. CASE FillReports(r)
      BY <1>1, <3>1 DEF FillReports, localVars, TypeOK
    <3>2. CASE FillEvidence(r)
      BY <1>1, <3>2 DEF FillEvidence, localVars, TypeOK
    <3> QED
      BY <1>14, <3>1, <3>2
  <2>2. read[r] # None
    BY <1>1, <2>1 DEF PlaceInv
  <2>3. LoneIndex(r)'
    BY <2>1, <2>2 DEF LoneIndex, Settled
  <2> QED
    BY <2>1, <2>3 DEF LogIsWhole
<1> QED
  BY <1>4, <1>5, <1>6, <1>7, <1>8, <1>9, <1>10, <1>11, <1>12, <1>13, <1>14 DEF Step

LEMMA StoreInit == Init => StoreInv
BY HonestInit DEF Init, StoreInv, LoneInv

LEMMA StoreStep == ASSUME StoreInv, [Next]_vars PROVE StoreInv'
<1>1. HonestInv'
  BY HonestStep DEF StoreInv
<1>2. CASE UNCHANGED vars
  <2>1. \A r \in Runners : LoneInv(r)'
    BY <1>2 DEF vars, diskVars, localVars, StoreInv, LoneInv, LoneRun, LoneFiles,
                LoneLog, LoneIndex, LogIsWhole, Settled, Active
  <2> QED
    BY <1>1, <2>1 DEF StoreInv
<1>3. ASSUME NEW r \in Runners, Start(r) \/ Step(r)
      PROVE  StoreInv'
  <2>1. \A q \in Runners \ {r} : LoneInv(q)'
    BY <1>3, LoneOthers
  <2>2. LoneInv(r)'
    <3>1. CASE Start(r)
      BY <3>1, LoneStart
    <3>2. CASE Step(r)
      <4> SUFFICES ASSUME alone'[r] PROVE LoneInv(r)'
        BY DEF LoneInv
      <4>1. HonestInv /\ TypeOK
        BY DEF StoreInv, HonestInv
      <4>2. alone[r] /\ goal' = goal
        BY <3>2, <4>1
           DEF Step, ReadRecords, CheckStore, WriteManifest, FillManifest, WritePlan,
               FillPlan, AppendRecord, AppendFails, UnlinkIndex, Reconstruct, WriteIndex,
               FillIndex, WriteReports, FillReports, FillEvidence, Dies, Refuse,
               localVars, TypeOK
      <4>3. \A o \in Runners \ {r} : ~Active(o) /\ pc'[o] = pc[o]
        BY <1>3, <4>1, <4>2, Frame DEF StoreInv, LoneInv, Kept
      <4>4. goal[r] = "campaign" => LoneRun(r)'
        BY <3>2, <4>1, <4>2, LoneProgress DEF StoreInv, LoneInv
      <4> QED
        BY <4>2, <4>3, <4>4 DEF LoneInv, Active
    <3> QED
      BY <1>3, <3>1, <3>2
  <2> QED
    BY <1>1, <2>1, <2>2 DEF StoreInv
<1> QED
  BY <1>2, <1>3 DEF Next

\* A campaign that begins on a sound store and has it to itself is never
\* refused, and leaves the index it returns behind - however much of the
\* work earlier runs had done, and whatever partial index they left.
THEOREM ALoneRunSucceeds == Spec => []LoneRunSucceeds
<1>1. Spec => []StoreInv
  BY StoreInit, StoreStep, PTL DEF Spec
<1>2. StoreInv => LoneRunSucceeds
  BY DEF StoreInv, LoneInv, LoneRun, LoneFiles, LoneLog, LoneIndex, LoneRunSucceeds,
         Sound, FilesMatch, Settled, Early
<1> QED
  BY <1>1, <1>2, PTL

-----------------------------------------------------------------------------
(***************************************************************************)
(* What a report counts apart adds up: each of its sums is a partition of  *)
(* the same finite set of cases, trials or artifacts.                      *)
(***************************************************************************)
\* The parts a finite set falls into add up to the set.
LEMMA TotalOfParts ==
    ASSUME NEW X, IsFiniteSet(X), NEW D, IsFiniteSet(D), NEW g \in [X -> D],
           NEW w, DOMAIN w = D,
           \A d \in D : w[d] = Cardinality({x \in X : g[x] = d})
    PROVE  Total(w) = Cardinality(X)
<1> DEFINE one(s) == CHOOSE x \in s : TRUE
           Sum(h) == h = [s \in SUBSET D |->
                            IF s = {} THEN 0 ELSE w[one(s)] + h[s \ {one(s)}]]
           In(s) == {x \in X : g[x] \in s}
           F == [s \in SUBSET D |-> Cardinality(In(s))]
           H == CHOOSE h : Sum(h)
<1>1. Total(w) = H[D]
  BY DEF Total, MapThenSumSet, MapThenFoldSet
<1>2. ASSUME NEW s \in SUBSET D, s # {}
      PROVE  /\ one(s) \in s /\ IsFiniteSet(s)
             /\ Cardinality(s \ {one(s)}) < Cardinality(s) 
             /\ Cardinality(s \ {one(s)}) \in Nat /\ Cardinality(s) \in Nat
             /\ Cardinality(In(s)) = w[one(s)] + Cardinality(In(s \ {one(s)}))
  <2> DEFINE d == one(s)
             A == {x \in X : g[x] = d}
             B == In(s \ {d})
  <2>1. d \in s
    BY <1>2
  <2> HIDE DEF d
  <2>2. IsFiniteSet(s) /\ IsFiniteSet(s \ {d})
    BY FS_Subset
  <2>3. Cardinality(s) \in Nat /\ Cardinality(s \ {d}) \in Nat
    BY <2>2, FS_CardinalityType
  <2>4. Cardinality(s \ {d}) = Cardinality(s) - 1
    BY <2>1, <2>2, FS_RemoveElement
  <2>5. A \cap B = {} /\ A \cup B = In(s)
    BY <2>1
  <2>6. IsFiniteSet(A) /\ IsFiniteSet(B)
    BY FS_Subset
  <2> HIDE DEF A, B
  <2>7. Cardinality(In(s)) = Cardinality(A) + Cardinality(B)
    <3>1. Cardinality(A \cup B) = Cardinality(A) + Cardinality(B) - Cardinality(A \cap B)
      BY <2>6, FS_Union
    <3>2. Cardinality(A \cap B) = 0
      BY <2>5, FS_EmptySet
    <3>3. Cardinality(A) \in Nat /\ Cardinality(B) \in Nat
      BY <2>6, FS_CardinalityType
    <3>4. Cardinality(A \cup B) = Cardinality(A) + Cardinality(B)
      BY <3>1, <3>2, <3>3
    <3> HIDE DEF In
    <3> QED
      BY <2>5, <3>4
  <2>8. w[d] = Cardinality(A)
    BY <2>1 DEF A
  <2>9. s \in SUBSET D /\ Cardinality(s \ {d}) < Cardinality(s)
    BY <2>3, <2>4
  <2> QED
    BY <2>1, <2>2, <2>3, <2>7, <2>8, <2>9 DEF d, B
<1>3. In({}) = {} /\ Cardinality(In({})) = 0
  BY FS_EmptySet
<1>4. Sum(F)
  <2>1. ASSUME NEW s \in SUBSET D
        PROVE  F[s] = IF s = {} THEN 0 ELSE w[one(s)] + F[s \ {one(s)}]
    <3> HIDE DEF In, one
    <3>1. CASE s = {}
      BY <1>3, <3>1
    <3>2. CASE s # {}
      <4>1. s \ {one(s)} \in SUBSET D
        OBVIOUS
      <4> QED
        BY <1>2, <3>2, <4>1
    <3> QED
      BY <3>1, <3>2
  <2> DEFINE G == [s \in SUBSET D |->
                      IF s = {} THEN 0 ELSE w[one(s)] + F[s \ {one(s)}]]
  <2>2. F = G
    <3> HIDE DEF In, one
    <3>1. \A s \in SUBSET D : F[s] = G[s]
      <4> HIDE DEF F
      <4> QED
        BY <2>1
    <3>2. F = [s \in SUBSET D |-> F[s]] /\ G = [s \in SUBSET D |-> G[s]]
      OBVIOUS
    <3> HIDE DEF F, G
    <3> QED
      BY <3>1, <3>2
  <2> HIDE DEF F
  <2> QED
    BY <2>2
<1>5. Sum(H)
  <2> HIDE DEF Sum
  <2> QED
    BY <1>4
<1> HIDE DEF H
<1>6. ASSUME NEW s \in SUBSET D
      PROVE  H[s] = IF s = {} THEN 0 ELSE w[one(s)] + H[s \ {one(s)}]
  BY <1>5
<1>7. H[D] = F[D]
  <2> DEFINE Wrong == {s \in SUBSET D : H[s] # F[s]}
             T == {Cardinality(s) : s \in Wrong}
  <2> SUFFICES ASSUME Wrong # {} PROVE FALSE
    OBVIOUS
  <2>1. T \in SUBSET Nat /\ T # {}
    <3>1. \A s \in SUBSET D : Cardinality(s) \in Nat
      BY FS_Subset, FS_CardinalityType
    <3>2. Wrong \subseteq SUBSET D
      OBVIOUS
    <3> HIDE DEF Wrong
    <3> QED
      BY <3>1, <3>2
  <2>2. PICK n \in T : \A m \in T : n <= m
    <3> HIDE DEF T
    <3> QED
      BY <2>1, LeastNatural
  <2>3. PICK s \in Wrong : Cardinality(s) = n
    BY <2>2
  <2>4. s \in SUBSET D /\ H[s] # F[s]
    BY <2>3
  <2>5. s # {}
    BY <1>3, <1>6, <2>4
  <2> DEFINE t == s \ {one(s)}
  <2>6. t \in SUBSET D
    BY <2>4
  <2>7. Cardinality(t) < n
    BY <1>2, <2>3, <2>4, <2>5
  <2>8. t \notin Wrong
    <3>1. Cardinality(t) \in Nat /\ n \in Nat
      BY <1>2, <2>3, <2>4, <2>5
    <3> SUFFICES ASSUME t \in Wrong PROVE FALSE
      OBVIOUS
    <3>2. Cardinality(t) \in T
      <4> HIDE DEF Wrong, t
      <4> QED
        OBVIOUS
    <3> HIDE DEF t, T
    <3>3. n <= Cardinality(t)
      BY <2>2, <3>2
    <3> QED
      BY <2>7, <3>1, <3>3
  <2>9. H[t] = F[t] /\ F[t] = Cardinality(In(t)) /\ F[s] = Cardinality(In(s))
    BY <2>4, <2>6, <2>8
  <2>10. H[s] = w[one(s)] + H[t]
    BY <1>6, <2>4, <2>5
  <2>11. Cardinality(In(s)) = w[one(s)] + Cardinality(In(t))
    BY <1>2, <2>4, <2>5
  <2> HIDE DEF t, F, In, one
  <2> QED
    BY <2>4, <2>9, <2>10, <2>11
<1>8. F[D] = Cardinality(X)
  <2>1. In(D) = X
    OBVIOUS
  <2> HIDE DEF In
  <2> QED
    BY <2>1
<1> QED
  BY <1>1, <1>7, <1>8

\* The results of the trials T that are in R, as pairs of trial and arm.
Cases(T, arms, R) == {c \in T \X arms : ResultOf[c[1]][c[2]] \in R}

LEMMA CasesCount ==
    ASSUME NEW T, IsFiniteSet(T), NEW arms, IsFiniteSet(arms), NEW R
    PROVE  /\ IsFiniteSet(Cases(T, arms, R))
           /\ Cardinality(Cases(T, arms, R)) \in Nat
<1>1. IsFiniteSet(T \X arms)
  BY FS_Product
<1>2. Cases(T, arms, R) \in SUBSET (T \X arms)
  BY DEF Cases
<1>3. IsFiniteSet(Cases(T, arms, R))
  BY <1>1, <1>2, FS_Subset
<1> QED
  BY <1>3, FS_CardinalityType

\* A trial has one position in a sequence without repetition.
LEMMA PositionsCount ==
    ASSUME NEW s \in Seq(Trials), ~Repeats(s), NEW T
    PROVE  /\ IsFiniteSet(Elements(s)) /\ IsFiniteSet(Elements(s) \cap T)
           /\ Cardinality(Positions(s, T)) = Cardinality(Elements(s) \cap T)
           /\ Cardinality(Positions(s, T)) \in Nat
<1> DEFINE A == Elements(s) \cap T
           B == Positions(s, T)
           f == [i \in B |-> s[i]]
           h == [i \in 1..Len(s) |-> s[i]]
<1>1. Len(s) \in Nat
  OBVIOUS
<1>2. IsFiniteSet(1..Len(s))
  BY <1>1, FS_Interval
<1>3. h \in Surjection(1..Len(s), Elements(s))
  BY DEF Surjection, Elements
<1>4. IsFiniteSet(Elements(s))
  BY <1>2, <1>3, FS_Surjection
<1>5. IsFiniteSet(A)
  BY <1>4, FS_Subset
<1>6. IsFiniteSet(B)
  BY <1>2, FS_Subset DEF Positions
<1>7. f \in Bijection(B, A)
  <2>1. f \in [B -> A]
    BY DEF Positions, Elements
  <2>2. \A a \in A : \E i \in B : f[i] = a
    BY DEF Positions, Elements
  <2>3. ASSUME NEW i \in B, NEW j \in B, f[i] = f[j] PROVE i = j
    <3>1. i \in 1..Len(s) /\ j \in 1..Len(s) /\ s[i] = s[j]
      BY <2>3 DEF Positions
    <3>2. ~(i < j) /\ ~(j < i)
      BY <3>1 DEF Repeats
    <3> QED
      BY <1>1, <3>1, <3>2
  <2>4. f \in Surjection(B, A)
    BY <2>1, <2>2 DEF Surjection
  <2>5. f \in Injection(B, A)
    <3> HIDE DEF f, A, B
    <3> QED
      BY <2>1, <2>3 DEF Injection, IsInjective
  <2> HIDE DEF f, A, B
  <2> QED
    BY <2>4, <2>5 DEF Bijection
<1>8. Cardinality(A) = Cardinality(B)
  <2> HIDE DEF f, A, B
  <2> QED
    BY <1>6, <1>7, FS_Bijection DEF ExistsBijection
<1>9. Cardinality(B) \in Nat
  BY <1>6, FS_CardinalityType
<1> QED
  BY <1>4, <1>5, <1>8, <1>9

\* The results that are in R.
Among(results, R) == {x \in results : x.result \in R}

\* The results of records without repetition are counted trial by trial.
LEMMA RecordsCount ==
    ASSUME NEW s \in Seq(Trials), ~Repeats(s), NEW arms, IsFiniteSet(arms),
           NEW T, NEW R
    PROVE  Cardinality(Among(OfTrials(s, T, arms), R))
              = Cardinality(Cases(Elements(s) \cap T, arms, R))
<1> DEFINE A == Among(OfTrials(s, T, arms), R)
           B == Cases(Elements(s) \cap T, arms, R)
           Case(x) == <<s[x.i], x.arm>>
           f == [x \in A |-> Case(x)]
           Entry(i, arm) == [i |-> i, result |-> ResultOf[s[i]][arm], arm |-> arm]
<1>1. A = {x \in Of(s, arms) : s[x.i] \in T /\ x.result \in R}
  BY DEF OfTrials, Among
<1>2. IsFiniteSet(A)
  <2>1. IsFiniteSet(Of(s, arms))
    BY ResultsCount
  <2> HIDE DEF A
  <2>2. A \subseteq Of(s, arms)
    BY <1>1
  <2> QED
    BY <2>1, <2>2, FS_Subset
<1>3. ASSUME NEW x \in A
      PROVE  /\ x.i \in 1..Len(s) /\ x.arm \in arms /\ x = Entry(x.i, x.arm)
             /\ s[x.i] \in Elements(s) \cap T /\ ResultOf[s[x.i]][x.arm] \in R
  <2>1. x \in Of(s, arms) /\ s[x.i] \in T /\ x.result \in R
    BY <1>1
  <2>2. PICK i \in 1..Len(s), arm \in arms : x = Entry(i, arm)
    BY <2>1 DEF Of
  <2>3. x.i = i /\ x.arm = arm /\ x.result = ResultOf[s[i]][arm]
    BY <2>2
  <2>4. s[i] \in Elements(s)
    BY DEF Elements
  <2> HIDE DEF Entry, A
  <2> QED
    BY <2>1, <2>2, <2>3, <2>4
<1>4. f \in [A -> B]
  <2> SUFFICES ASSUME NEW x \in A PROVE Case(x) \in B
    OBVIOUS
  <2>1. /\ Case(x) \in (Elements(s) \cap T) \X arms
        /\ Case(x)[1] = s[x.i] /\ Case(x)[2] = x.arm
    <3> HIDE DEF A, B
    <3> QED
      BY <1>3
  <2> HIDE DEF A, Case
  <2> QED
    BY <1>3, <2>1 DEF Cases
<1>5. ASSUME NEW c \in B PROVE \E x \in A : f[x] = c
  <2>1. /\ c \in (Elements(s) \cap T) \X arms /\ ResultOf[c[1]][c[2]] \in R
    BY DEF Cases
  <2>2. PICK t \in Elements(s) \cap T, arm \in arms : c = <<t, arm>>
    BY <2>1
  <2>3. PICK i \in 1..Len(s) : s[i] = t
    BY <2>2 DEF Elements
  <2> DEFINE x == Entry(i, arm)
  <2>4. x \in Of(s, arms)
    BY <2>2, <2>3 DEF Of
  <2>5. x.i = i /\ x.arm = arm /\ x.result = ResultOf[t][arm]
    BY <2>3
  <2>6. ResultOf[t][arm] \in R
    BY <2>1, <2>2
  <2> HIDE DEF x
  <2>7. x \in A
    BY <1>1, <2>2, <2>3, <2>4, <2>5, <2>6
  <2>8. Case(x) = c
    BY <2>2, <2>3, <2>5
  <2> HIDE DEF A
  <2>9. f[x] = Case(x)
    BY <2>7
  <2> QED
    BY <2>7, <2>8, <2>9
<1>6. ASSUME NEW x \in A, NEW y \in A, f[x] = f[y] PROVE x = y
  <2>1. s[x.i] = s[y.i] /\ x.arm = y.arm
    <3> HIDE DEF A
    <3>1. Case(x) = Case(y)
      BY <1>6
    <3> QED
      BY <3>1
  <2>2. Len(s) \in Nat /\ x.i \in 1..Len(s) /\ y.i \in 1..Len(s)
    BY <1>3
  <2>3. x.i = y.i
    <3> DEFINE i == x.i
               j == y.i
    <3>1. s[i] = s[j] /\ i \in 1..Len(s) /\ j \in 1..Len(s)
      BY <2>1, <2>2
    <3> HIDE DEF i, j
    <3>2. ~(i < j) /\ ~(j < i)
      BY <3>1 DEF Repeats
    <3>3. i = j
      BY <2>2, <3>1, <3>2
    <3> QED
      BY <3>3 DEF i, j
  <2>4. x = Entry(x.i, x.arm) /\ y = Entry(y.i, y.arm)
    BY <1>3
  <2> HIDE DEF Entry
  <2> QED
    BY <2>1, <2>3, <2>4
<1> HIDE DEF f, A, B
<1>7. f \in Bijection(A, B)
  <2>1. f \in Surjection(A, B)
    BY <1>4, <1>5 DEF Surjection
  <2>2. f \in Injection(A, B)
    BY <1>4, <1>6 DEF Injection, IsInjective
  <2> QED
    BY <2>1, <2>2 DEF Bijection
<1>8. Cardinality(A) = Cardinality(B)
  BY <1>2, <1>7, FS_Bijection DEF ExistsBijection
<1> QED
  BY <1>8 DEF A, B

\* The results that the metrics tell apart.
Having(outcome) == {r \in Results : r.outcome = outcome}
Primary == {r \in Results : r.primary}
Completed == {r \in Results : r.complete}

\* Records are of trials.
LEMMA AllTrials ==
    ASSUME NEW s \in Seq(Trials), NEW arms
    PROVE  /\ Of(s, arms) = OfTrials(s, Trials, arms)
           /\ Elements(s) \cap Trials = Elements(s)
<1>1. ASSUME NEW x \in Of(s, arms) PROVE s[x.i] \in Trials
  <2>1. PICK i \in 1..Len(s), arm \in arms :
            x = [i |-> i, result |-> ResultOf[s[i]][arm], arm |-> arm]
    BY DEF Of
  <2>2. x.i = i /\ s[i] \in Trials
    BY <2>1
  <2> QED
    BY <2>2
<1> QED
  BY <1>1, ElementsOf DEF OfTrials

\* The metrics of records without repetition count cases.
LEMMA MetricsCount ==
    ASSUME NEW s \in Seq(Trials), ~Repeats(s), NEW arms \in SUBSET Arms, NEW T,
           NEW o
    PROVE  /\ WithOutcome(OfTrials(s, T, arms), o)
                 = Cardinality(Cases(Elements(s) \cap T, arms, Having(o)))
           /\ Successes(OfTrials(s, T, arms))
                 = Cardinality(Cases(Elements(s) \cap T, arms, Primary))
           /\ Complete(OfTrials(s, T, arms))
                 = Cardinality(Cases(Elements(s) \cap T, arms, Completed))
<1> DEFINE A == OfTrials(s, T, arms)
<1>1. IsFiniteSet(arms)
  BY ArmsCount, FS_Subset
<1>2. ASSUME NEW x \in Of(s, arms)
      PROVE  s[x.i] \in Trials /\ x.result \in Results
  <2>1. PICK i \in 1..Len(s), arm \in arms :
            x = [i |-> i, result |-> ResultOf[s[i]][arm], arm |-> arm]
    BY DEF Of
  <2>2. x.i = i /\ x.result = ResultOf[s[i]][arm] /\ s[i] \in Trials
    BY <2>1
  <2> QED
    BY <2>2, ReportAssumption
<1>3. A \subseteq Of(s, arms)
  BY DEF OfTrials
<1>4. {x \in A : x.result.outcome = o} = Among(A, Having(o))
  <2> HIDE DEF A
  <2> QED
    BY <1>2, <1>3 DEF Having, Among
<1>5. {x \in A : x.result.primary} = Among(A, Primary)
  <2> HIDE DEF A
  <2> QED
    BY <1>2, <1>3 DEF Primary, Among
<1>6. {x \in A : x.result.complete} = Among(A, Completed)
  <2> HIDE DEF A
  <2> QED
    BY <1>2, <1>3 DEF Completed, Among
<1>7. ASSUME NEW R
      PROVE  Cardinality(Among(A, R))
                = Cardinality(Cases(Elements(s) \cap T, arms, R))
  BY <1>1, RecordsCount
<1> HIDE DEF A
<1>10. WithOutcome(A, o) = Cardinality(Cases(Elements(s) \cap T, arms, Having(o)))
  BY <1>4, <1>7 DEF WithOutcome
<1>11. Successes(A) = Cardinality(Cases(Elements(s) \cap T, arms, Primary))
  BY <1>5, <1>7 DEF Successes
<1>12. Complete(A) = Cardinality(Cases(Elements(s) \cap T, arms, Completed))
  BY <1>6, <1>7 DEF Complete
<1> QED
  BY <1>10, <1>11, <1>12 DEF A

\* The number of results.
LEMMA LengthCounts ==
    ASSUME NEW s \in Seq(Trials), ~Repeats(s)
    PROVE  /\ Cardinality(Elements(s)) = Len(s)
           /\ Cardinality(Of(s, Arms)) = 2 * Len(s)
           /\ \A arm \in Arms : Cardinality(Of(s, {arm})) = Len(s)
<1>1. Len(s) \in Nat /\ Cardinality(Elements(s)) = Len(s) /\ IsFiniteSet(Elements(s))
  <2>1. Positions(s, Trials) = 1..Len(s) /\ Len(s) \in Nat
    BY DEF Positions
  <2>2. Cardinality(1..Len(s)) = Len(s)
    <3>1. 1 \in Int /\ Len(s) \in Int /\ (1 > Len(s) => Len(s) = 0) /\ Len(s) - 1 + 1 = Len(s)
      BY <2>1
    <3> QED
      BY <3>1, FS_Interval
  <2>3. Elements(s) \cap Trials = Elements(s)
    BY ElementsOf
  <2> QED
    BY <2>1, <2>2, <2>3, PositionsCount
<1>2. ASSUME NEW arms \in SUBSET Arms, IsFiniteSet(arms)
      PROVE  Cardinality(Of(s, arms)) = Len(s) * Cardinality(arms)
  <2>2. Among(OfTrials(s, Trials, arms), Results)
           = OfTrials(s, Trials, arms)
    <3>1. ASSUME NEW x \in Of(s, arms) PROVE x.result \in Results
      <4>1. PICK i \in 1..Len(s), arm \in arms :
                x = [i |-> i, result |-> ResultOf[s[i]][arm], arm |-> arm]
        BY DEF Of
      <4>2. x.result = ResultOf[s[i]][arm] /\ s[i] \in Trials
        BY <4>1
      <4> QED
        BY <4>2, ReportAssumption
    <3> QED
      BY <3>1 DEF OfTrials, Among
  <2>3. Cases(Elements(s), arms, Results) = Elements(s) \X arms
    <3>1. \A c \in Elements(s) \X arms : c[1] \in Trials /\ c[2] \in Arms
      BY ElementsOf
    <3> QED
      BY <3>1, ReportAssumption DEF Cases
  <2>4. Cardinality(Elements(s) \X arms) = Len(s) * Cardinality(arms)
    BY <1>1, <1>2, FS_Product
  <2>5. Of(s, arms) = OfTrials(s, Trials, arms) /\ Elements(s) \cap Trials = Elements(s)
    BY AllTrials
  <2>6. Cardinality(Among(OfTrials(s, Trials, arms), Results))
           = Cardinality(Cases(Elements(s) \cap Trials, arms, Results))
    BY <1>2, RecordsCount
  <2> QED
    BY <2>2, <2>3, <2>4, <2>5, <2>6
<1>3. Cardinality(Of(s, Arms)) = 2 * Len(s)
  <2>1. Cardinality(Of(s, Arms)) = Len(s) * 2
    BY <1>2, ArmsCount
  <2> QED
    BY <1>1, <2>1
<1>4. ASSUME NEW arm \in Arms PROVE Cardinality(Of(s, {arm})) = Len(s)
  <2>1. IsFiniteSet({arm}) /\ Cardinality({arm}) = 1
    BY FS_Singleton
  <2>2. Cardinality(Of(s, {arm})) = Len(s) * 1
    BY <1>2, <2>1
  <2> QED
    BY <1>1, <2>2
<1> QED
  BY <1>1, <1>3, <1>4

\* Cases add up by their arms, by their trials and by their categories.
LEMMA CasesByArm ==
    ASSUME NEW T, IsFiniteSet(T), NEW R, NEW w, DOMAIN w = Arms,
           \A arm \in Arms : w[arm] = Cardinality(Cases(T, {arm}, R))
    PROVE  Total(w) = Cardinality(Cases(T, Arms, R))
<1> DEFINE X == Cases(T, Arms, R)
           g == [c \in X |-> c[2]]
<1>1. IsFiniteSet(X) /\ IsFiniteSet(Arms)
  BY ArmsCount, CasesCount
<1>2. X \subseteq T \X Arms
  BY DEF Cases
<1>3. g \in [X -> Arms]
  <2> HIDE DEF X
  <2> QED
    BY <1>2
<1>4. ASSUME NEW arm \in Arms
      PROVE  Cases(T, {arm}, R) = {x \in X : g[x] = arm}
  BY DEF Cases
<1> HIDE DEF X, g
<1>5. \A d \in Arms : w[d] = Cardinality({x \in X : g[x] = d})
  BY <1>4
<1>6. Total(w) = Cardinality(X)
  BY <1>1, <1>3, <1>5, TotalOfParts
<1> QED
  BY <1>6 DEF X

LEMMA CasesByTrial ==
    ASSUME NEW D, IsFiniteSet(D), NEW T \in SUBSET D, NEW R, NEW w, DOMAIN w = D,
           \A t \in D : w[t] = Cardinality(Cases(T \cap {t}, Arms, R))
    PROVE  Total(w) = Cardinality(Cases(T, Arms, R))
<1> DEFINE X == Cases(T, Arms, R)
           g == [c \in X |-> c[1]]
<1>1. IsFiniteSet(X)
  BY ArmsCount, CasesCount, FS_Subset
<1>2. X \subseteq T \X Arms
  BY DEF Cases
<1>3. g \in [X -> D]
  <2> HIDE DEF X
  <2> QED
    BY <1>2
<1>4. ASSUME NEW t \in D
      PROVE  Cases(T \cap {t}, Arms, R) = {x \in X : g[x] = t}
  BY DEF Cases
<1> HIDE DEF X, g
<1>5. \A d \in D : w[d] = Cardinality({x \in X : g[x] = d})
  BY <1>4
<1>6. Total(w) = Cardinality(X)
  BY <1>1, <1>3, <1>5, TotalOfParts
<1> QED
  BY <1>6 DEF X

LEMMA CasesByCategory ==
    ASSUME NEW D, IsFiniteSet(D), NEW T \in SUBSET Trials, IsFiniteSet(T), NEW R,
           NEW w, DOMAIN w = D, \A t \in T : CategoryOf[t] \in D,
           \A c \in D : w[c] = Cardinality(Cases(T \cap Category(c), Arms, R))
    PROVE  Total(w) = Cardinality(Cases(T, Arms, R))
<1> DEFINE X == Cases(T, Arms, R)
           g == [c \in X |-> CategoryOf[c[1]]]
<1>1. IsFiniteSet(X)
  BY ArmsCount, CasesCount
<1>2. X \subseteq T \X Arms
  BY DEF Cases
<1>3. g \in [X -> D]
  <2> HIDE DEF X
  <2> QED
    BY <1>2
<1>4. ASSUME NEW c \in D
      PROVE  Cases(T \cap Category(c), Arms, R) = {x \in X : g[x] = c}
  BY DEF Cases, Category
<1> HIDE DEF X, g
<1>5. \A d \in D : w[d] = Cardinality({x \in X : g[x] = d})
  BY <1>4
<1>6. Total(w) = Cardinality(X)
  BY <1>1, <1>3, <1>5, TotalOfParts
<1> QED
  BY <1>6 DEF X

\* And so do trials, the missing ones among them.
LEMMA TrialsByTrial ==
    ASSUME NEW D, IsFiniteSet(D), NEW T \in SUBSET D, NEW w, DOMAIN w = D,
           \A t \in D : w[t] = IF t \in T THEN 1 ELSE 0
    PROVE  Total(w) = Cardinality(T)
<1> DEFINE g == [t \in T |-> t]
<1>1. IsFiniteSet(T) /\ g \in [T -> D]
  BY FS_Subset
<1>2. ASSUME NEW t \in D PROVE w[t] = Cardinality({x \in T : g[x] = t})
  <2>1. CASE t \in T
    <3>1. {x \in T : g[x] = t} = {t}
      BY <2>1
    <3> HIDE DEF g
    <3> QED
      BY <2>1, <3>1, FS_Singleton
  <2>2. CASE t \notin T
    <3>1. {x \in T : g[x] = t} = {}
      BY <2>2
    <3> HIDE DEF g
    <3> QED
      BY <2>2, <3>1, FS_EmptySet
  <2> QED
    BY <2>1, <2>2
<1> HIDE DEF g
<1> QED
  BY <1>1, <1>2, TotalOfParts

LEMMA TrialsByCategory ==
    ASSUME NEW D, IsFiniteSet(D), NEW T \in SUBSET Trials, IsFiniteSet(T),
           NEW w, DOMAIN w = D, \A t \in T : CategoryOf[t] \in D,
           \A c \in D : w[c] = Cardinality(T \cap Category(c))
    PROVE  Total(w) = Cardinality(T)
<1> DEFINE g == [t \in T |-> CategoryOf[t]]
<1>1. g \in [T -> D]
  OBVIOUS
<1>2. ASSUME NEW c \in D PROVE T \cap Category(c) = {t \in T : g[t] = c}
  BY DEF Category
<1> HIDE DEF g
<1> QED
  BY <1>1, <1>2, TotalOfParts

\* What the metrics of a report count.
Capable(results) == Cardinality({x \in results : x.result.capability})

\* The metrics, one by one.
LEMMA MetricsAre ==
    ASSUME NEW plans, NEW records, NEW ledger
    PROVE  LET m == PrimaryMetrics(plans, records, ledger)
               all == Of(records, Arms)
           IN  /\ \A o \in {"valid_completion", "invalid_trial", "false_closure"} :
                     /\ m[o].count = WithOutcome(all, o) /\ m[o].of = 2 * Len(records)
               /\ \A o \in {"runtime_failure", "provider_failure"} :
                     /\ m[o].count = WithOutcome(all, o) /\ m[o].of = 2 * Len(plans)
               /\ m["artifact_complete"].count = Complete(all)
               /\ m["artifact_complete"].of = 2 * Len(records)
               /\ m["capability_violation"].count = Capable(all)
               /\ m["missing_pair"].count = Cardinality(MissingPairs(plans, records))
               /\ m["pending_trial"].count = Cardinality(Pending(plans, records, ledger))
<1> DEFINE all == Of(records, Arms)
           a == 2 * Len(records)
           n == 2 * Len(plans)
           pending == Metric(Cardinality(Pending(plans, records, ledger)), Len(plans))
           f == [o \in Outcomes |->
                    Metric(WithOutcome(all, o),
                           IF o \in {"runtime_failure", "provider_failure"} THEN n ELSE a)]
           g == [false_success |->
                    Metric(Cardinality({x \in all : x.result.falseSuccess}), a),
                 artifact_complete |-> Metric(Complete(all), a),
                 capability_violation |->
                    Metric(Cardinality({x \in all : x.result.capability}), a),
                 missing_pair |->
                    Metric(Cardinality(MissingPairs(plans, records)), Len(plans)),
                 pending_trial |-> pending,
                 incomplete_trial |-> pending]
           m == PrimaryMetrics(plans, records, ledger)
<1>1. m = Both(f, g)
  BY DEF PrimaryMetrics
<1>2. \A o \in Outcomes :
         m[o] = Metric(WithOutcome(all, o),
                       IF o \in {"runtime_failure", "provider_failure"} THEN n ELSE a)
  <2> HIDE DEF m, g, n, a, all
  <2> QED
    BY <1>1 DEF Both
<1>3. /\ "artifact_complete" \notin Outcomes /\ "capability_violation" \notin Outcomes
      /\ "missing_pair" \notin Outcomes /\ "pending_trial" \notin Outcomes
  BY DEF Outcomes
<1>4. \A id \in DOMAIN g : id \notin Outcomes => m[id] = g[id]
  <2> HIDE DEF m, g
  <2> QED
    BY <1>1 DEF Both
<1>5. /\ m["artifact_complete"] = Metric(Complete(all), a)
      /\ m["capability_violation"]
            = Metric(Capable(all), a)
      /\ m["missing_pair"] = Metric(Cardinality(MissingPairs(plans, records)), Len(plans))
      /\ m["pending_trial"] = pending
  <2> HIDE DEF m, n, a, all, pending
  <2> QED
    BY <1>3, <1>4 DEF Capable
<1>6. \A c, of : Metric(c, of).count = c /\ Metric(c, of).of = of
  BY DEF Metric
<1>7. /\ {"valid_completion", "invalid_trial", "false_closure"} \subseteq Outcomes
      /\ {"runtime_failure", "provider_failure"} \subseteq Outcomes
      /\ \A o \in {"valid_completion", "invalid_trial", "false_closure"} :
            o \notin {"runtime_failure", "provider_failure"}
  BY DEF Outcomes
<1> HIDE DEF m, n, a, all
<1>8. \A o \in {"valid_completion", "invalid_trial", "false_closure"} :
         m[o].count = WithOutcome(all, o) /\ m[o].of = a
  BY <1>2, <1>6, <1>7
<1>9. \A o \in {"runtime_failure", "provider_failure"} :
         m[o].count = WithOutcome(all, o) /\ m[o].of = n
  BY <1>2, <1>6, <1>7
<1> QED
  BY <1>5, <1>6, <1>8, <1>9 DEF m, n, a, all, pending

\* The metrics each arm has of its own, but for the artifacts.
ArmIds == {"valid_completion", "invalid_trial", "runtime_failure", "provider_failure"}

LEMMA ArmMetricsAre ==
    ASSUME NEW plans, NEW records, NEW arm \in Arms
    PROVE  LET m == ArmMetrics(plans, records)[arm]
               own == Of(records, {arm})
           IN  /\ DOMAIN m = ArmIds \cup {"artifact_complete"}
               /\ \A o \in ArmIds :
                     /\ m[o].count = WithOutcome(own, o)
                     /\ m[o].of = IF o \in {"runtime_failure", "provider_failure"}
                                  THEN Len(plans) ELSE Cardinality(own)
               /\ m["artifact_complete"].count = Complete(own)
               /\ m["artifact_complete"].of = Cardinality(own)
<1> DEFINE own == Of(records, {arm})
           f == [o \in ArmIds |->
                    Metric(WithOutcome(own, o),
                           IF o \in {"runtime_failure", "provider_failure"}
                           THEN Len(plans) ELSE Cardinality(own))]
           g == [artifact_complete |-> Metric(Complete(own), Cardinality(own))]
           m == ArmMetrics(plans, records)[arm]
<1>1. m = Both(f, g)
  BY DEF ArmMetrics, ArmIds
<1>2. \A c, of : Metric(c, of).count = c /\ Metric(c, of).of = of
  BY DEF Metric
<1>3. "artifact_complete" \notin ArmIds
  BY DEF ArmIds
<1> HIDE DEF m, own
<1>4. DOMAIN f = ArmIds /\ DOMAIN g = {"artifact_complete"}
  OBVIOUS
<1>5. \A o \in ArmIds : m[o] = f[o]
  <2> HIDE DEF f, g
  <2> QED
    BY <1>1, <1>4 DEF Both
<1>6. m["artifact_complete"] = g["artifact_complete"]
  <2> HIDE DEF f, g
  <2> QED
    BY <1>1, <1>3, <1>4 DEF Both
<1>7. DOMAIN m = ArmIds \cup {"artifact_complete"}
  <2> HIDE DEF f, g
  <2> QED
    BY <1>1, <1>4 DEF Both
<1>8. \A o \in ArmIds :
         /\ m[o].count = WithOutcome(own, o)
         /\ m[o].of = IF o \in {"runtime_failure", "provider_failure"}
                      THEN Len(plans) ELSE Cardinality(own)
  BY <1>2, <1>5
<1>9. /\ m["artifact_complete"].count = Complete(own)
      /\ m["artifact_complete"].of = Cardinality(own)
  BY <1>2, <1>6
<1> HIDE DEF f, g
<1> QED
  BY <1>7, <1>8, <1>9 DEF m, own

\* The artifacts of the trials, however they are enumerated.
LEMMA ArtifactsAddUp ==
    ASSUME NEW plans \in Seq(Trials), NEW records \in Seq(Trials),
           ~Repeats(plans), ~Repeats(records),
           Elements(records) \subseteq Elements(plans),
           NEW w, DOMAIN w = Elements(plans),
           \A t \in Elements(plans) :
              w[t] = IF t \in Elements(records) THEN ArtifactsOf[t] ELSE 0
    PROVE  Total(w) = ArtifactCount(records)
<1> DEFINE E == Elements(records)
           P == Elements(plans)
           n == Len(records)
           Own(t) == {t} \X (1..ArtifactsOf[t])
           X == UNION {Own(t) : t \in E}
           v == [i \in 1..n |-> ArtifactsOf[records[i]]]
           g == [x \in X |-> x[1]]
           h == [x \in X |-> CHOOSE i \in 1..n : records[i] = x[1]]
<1>1. IsFiniteSet(E) /\ IsFiniteSet(P) /\ E \subseteq Trials
  BY PositionsCount, ElementsOf
<1>2. ASSUME NEW t \in E
      PROVE  IsFiniteSet(Own(t)) /\ Cardinality(Own(t)) = ArtifactsOf[t]
  <2> DEFINE k == ArtifactsOf[t]
  <2>1. k \in Nat
    BY <1>1, ReportAssumption
  <2> HIDE DEF k
  <2>2. IsFiniteSet(1..k) /\ Cardinality(1..k) = k
    <3>1. 1 \in Int /\ k \in Int /\ (1 > k => k = 0) /\ k - 1 + 1 = k
      BY <2>1
    <3> QED
      BY <3>1, FS_Interval
  <2>3. IsFiniteSet({t}) /\ Cardinality({t}) = 1
    BY FS_Singleton
  <2>4. /\ IsFiniteSet({t} \X (1..k))
        /\ Cardinality({t} \X (1..k)) = Cardinality({t}) * Cardinality(1..k)
    <3> HIDE DEF Own
    <3> QED
      BY <2>2, <2>3, FS_Product
  <2>5. 1 * k = k
    BY <2>1
  <2> QED
    BY <2>2, <2>3, <2>4, <2>5 DEF k
<1>3. IsFiniteSet(X)
  <2> DEFINE S == {Own(t) : t \in E}
             q == [t \in E |-> Own(t)]
  <2>1. q \in Surjection(E, S)
    BY DEF Surjection
  <2>2. IsFiniteSet(S)
    BY <1>1, <2>1, FS_Surjection
  <2>3. \A T \in S : IsFiniteSet(T)
    <3> HIDE DEF Own
    <3> QED
      BY <1>2
  <2> HIDE DEF S, q
  <2>4. IsFiniteSet(UNION S)
    BY <2>2, <2>3, FS_UNION
  <2> QED
    BY <2>4 DEF S
<1>4. ASSUME NEW x \in X PROVE x[1] \in E /\ x \in Own(x[1])
  <2>1. PICK t \in E : x \in Own(t)
    OBVIOUS
  <2> HIDE DEF X, E
  <2>2. x[1] = t
    BY <2>1
  <2> QED
    BY <2>1, <2>2
<1>5. ASSUME NEW t \in E PROVE {x \in X : x[1] = t} = Own(t)
  <2>1. Own(t) \subseteq X
    OBVIOUS
  <2>2. \A x \in Own(t) : x[1] = t
    OBVIOUS
  <2> HIDE DEF X, Own
  <2> QED
    BY <1>4, <2>1, <2>2
<1>6. Total(w) = Cardinality(X)
  <2>1. g \in [X -> P]
    <3> HIDE DEF X
    <3> QED
      BY <1>4
  <2>2. ASSUME NEW t \in P PROVE w[t] = Cardinality({x \in X : g[x] = t})
    <3>1. {x \in X : g[x] = t} = {x \in X : x[1] = t}
      <4> HIDE DEF X
      <4> QED
        OBVIOUS
    <3> HIDE DEF g
    <3>2. CASE t \in E
      <4>1. {x \in X : g[x] = t} = Own(t)
        <5> HIDE DEF X, Own, E
        <5> QED
          BY <1>5, <3>1, <3>2
      <4>2. w[t] = ArtifactsOf[t]
        BY <3>2
      <4> HIDE DEF X, Own, E
      <4> QED
        BY <1>2, <3>2, <4>1, <4>2
    <3>3. CASE t \notin E
      <4>1. {x \in X : x[1] = t} = {}
        <5> HIDE DEF X, E
        <5> QED
          BY <1>4, <3>3
      <4>2. w[t] = 0
        BY <3>3
      <4> HIDE DEF X, E
      <4> QED
        BY <3>1, <4>1, <4>2, FS_EmptySet
    <3> QED
      BY <3>2, <3>3
  <2> HIDE DEF X, g, P
  <2>3. DOMAIN w = P
    BY DEF P
  <2> QED
    BY <1>1, <1>3, <2>1, <2>2, <2>3, TotalOfParts
<1>7. Total(v) = Cardinality(X)
  <2>1. n \in Nat /\ IsFiniteSet(1..n)
    <3>1. n \in Nat
      OBVIOUS
    <3> QED
      BY <3>1, FS_Interval
  <2>2. ASSUME NEW x \in X
        PROVE  h[x] \in 1..n /\ records[h[x]] = x[1]
    <3>1. \E i \in 1..n : records[i] = x[1]
      <4> HIDE DEF X
      <4> QED
        BY <1>4 DEF Elements
    <3> HIDE DEF X
    <3> QED
      BY <3>1
  <2>3. h \in [X -> 1..n]
    <3> HIDE DEF X
    <3>1. h = [x \in X |-> h[x]]
      OBVIOUS
    <3> HIDE DEF h
    <3> QED
      BY <2>2, <3>1
  <2>4. ASSUME NEW i \in 1..n PROVE v[i] = Cardinality({x \in X : h[x] = i})
    <3> DEFINE t == records[i]
    <3>1. t \in E
      BY DEF Elements
    <3>2. \A j \in 1..n : records[j] = t <=> j = i
      <4> SUFFICES ASSUME NEW j \in 1..n, records[j] = records[i] PROVE j = i
        OBVIOUS
      <4>1. ~(i < j) /\ ~(j < i)
        BY DEF Repeats
      <4> QED
        BY <2>1, <4>1
    <3>3. \A x \in X : h[x] = i <=> x[1] = t
      <4> HIDE DEF X, h, t
      <4> QED
        BY <2>2, <3>2
    <3>4. {x \in X : h[x] = i} = Own(t)
      <4>1. {x \in X : h[x] = i} = {x \in X : x[1] = t}
        <5> HIDE DEF X, h, t
        <5> QED
          BY <3>3
      <4> HIDE DEF X, h, t, Own, E
      <4> QED
        BY <1>5, <3>1, <4>1
    <3>5. v[i] = ArtifactsOf[t]
      OBVIOUS
    <3> HIDE DEF X, h, t, Own, E, v
    <3> QED
      BY <1>2, <3>1, <3>4, <3>5
  <2> DEFINE D == 1..n
  <2>5. DOMAIN v = D /\ IsFiniteSet(D) /\ h \in [X -> D]
    BY <2>1, <2>3
  <2>6. \A i \in D : v[i] = Cardinality({x \in X : h[x] = i})
    BY <2>4
  <2> HIDE DEF X, h, v, D
  <2> QED
    BY <1>3, <2>5, <2>6, TotalOfParts
<1>8. ArtifactCount(records) = Total(v)
  BY DEF ArtifactCount
<1> QED
  BY <1>6, <1>7, <1>8

\* What an accepted report is made of.
Accepted(plans, records) ==
    /\ plans \in Seq(Trials) /\ ~Repeats(plans)
    /\ records \in Seq(Trials) /\ ~Repeats(records)
    /\ Elements(records) \subseteq Elements(plans)

\* The sum of a metric over the arms.
OfArms(plans, records, id) ==
    Total([arm \in Arms |-> ArmMetrics(plans, records)[arm][id].count])

\* The summaries of the arms add up to the metrics.
LEMMA ArmsAddUp ==
    ASSUME NEW plans, NEW records, NEW ledger, Accepted(plans, records),
           NEW id \in DOMAIN ArmMetrics(plans, records)["pi"]
    PROVE  LET arms == ArmMetrics(plans, records)
               m == PrimaryMetrics(plans, records, ledger)
           IN  /\ OfArms(plans, records, id) = m[id].count
               /\ arms["pi"][id].of + arms["millforge"][id].of = m[id].of
<1> DEFINE arms == ArmMetrics(plans, records)
           m == PrimaryMetrics(plans, records, ledger)
           E == Elements(records)
           w == [arm \in Arms |-> arms[arm][id].count]
<1>1. /\ records \in Seq(Trials) /\ ~Repeats(records)
      /\ Len(records) \in Nat /\ Len(plans) \in Nat
  BY DEF Accepted
<1>2. "pi" \in Arms /\ "millforge" \in Arms
  BY DEF Arms
<1>3. IsFiniteSet(E)
  BY <1>1, PositionsCount
<1>4. ASSUME NEW arm \in Arms
      PROVE  /\ DOMAIN arms[arm] = ArmIds \cup {"artifact_complete"}
             /\ \A o \in ArmIds :
                   /\ arms[arm][o].count = WithOutcome(Of(records, {arm}), o)
                   /\ arms[arm][o].of
                         = IF o \in {"runtime_failure", "provider_failure"}
                           THEN Len(plans) ELSE Cardinality(Of(records, {arm}))
             /\ arms[arm]["artifact_complete"].count = Complete(Of(records, {arm}))
             /\ arms[arm]["artifact_complete"].of = Cardinality(Of(records, {arm}))
  BY ArmMetricsAre
<1>5. ASSUME NEW a \in SUBSET Arms, NEW o
      PROVE  /\ WithOutcome(Of(records, a), o) = Cardinality(Cases(E, a, Having(o)))
             /\ Complete(Of(records, a)) = Cardinality(Cases(E, a, Completed))
  <2>1. /\ WithOutcome(OfTrials(records, Trials, a), o)
              = Cardinality(Cases(Elements(records) \cap Trials, a, Having(o)))
        /\ Complete(OfTrials(records, Trials, a))
              = Cardinality(Cases(Elements(records) \cap Trials, a, Completed))
    BY <1>1, MetricsCount
  <2>2. /\ Of(records, a) = OfTrials(records, Trials, a)
        /\ Elements(records) \cap Trials = Elements(records)
    BY <1>1, AllTrials
  <2> QED
    BY <2>1, <2>2
<1>6. /\ \A o \in {"valid_completion", "invalid_trial", "false_closure"} :
            /\ m[o].count = WithOutcome(Of(records, Arms), o)
            /\ m[o].of = 2 * Len(records)
      /\ \A o \in {"runtime_failure", "provider_failure"} :
            /\ m[o].count = WithOutcome(Of(records, Arms), o)
            /\ m[o].of = 2 * Len(plans)
      /\ m["artifact_complete"].count = Complete(Of(records, Arms))
      /\ m["artifact_complete"].of = 2 * Len(records)
      /\ m["capability_violation"].count = Capable(Of(records, Arms))
      /\ m["missing_pair"].count = Cardinality(MissingPairs(plans, records))
      /\ m["pending_trial"].count = Cardinality(Pending(plans, records, ledger))
  BY MetricsAre
<1>7. \A arm \in Arms : Cardinality(Of(records, {arm})) = Len(records)
  BY <1>1, LengthCounts
<1>8. id \in ArmIds \cup {"artifact_complete"}
  BY <1>2, <1>4
<1> HIDE DEF E, m, arms
<1>9. /\ Len(records) + Len(records) = 2 * Len(records)
      /\ Len(plans) + Len(plans) = 2 * Len(plans)
  BY <1>1
<1>10. CASE id \in ArmIds
  <2>1. m[id].count = Cardinality(Cases(E, Arms, Having(id)))
    BY <1>5, <1>6, <1>10 DEF ArmIds
  <2>2. \A arm \in Arms : arms[arm][id].count = Cardinality(Cases(E, {arm}, Having(id)))
    BY <1>4, <1>5, <1>10
  <2>3. Total(w) = m[id].count
    <3>1. \A arm \in Arms : w[arm] = Cardinality(Cases(E, {arm}, Having(id)))
      BY <2>2
    <3>2. DOMAIN w = Arms
      OBVIOUS
    <3> HIDE DEF w, m
    <3> QED
      BY <1>3, <2>1, <3>1, <3>2, CasesByArm
  <2>4. \A arm \in Arms :
           arms[arm][id].of = IF id \in {"runtime_failure", "provider_failure"}
                              THEN Len(plans) ELSE Len(records)
    BY <1>4, <1>7, <1>10
  <2>5. m[id].of = IF id \in {"runtime_failure", "provider_failure"}
                   THEN 2 * Len(plans) ELSE 2 * Len(records)
    BY <1>6, <1>10 DEF ArmIds
  <2> HIDE DEF w, m, arms
  <2>6. arms["pi"][id].of + arms["millforge"][id].of = m[id].of
    BY <1>2, <1>9, <2>4, <2>5
  <2> QED
    BY <2>3, <2>6 DEF w, m, arms, OfArms
<1>11. CASE id = "artifact_complete"
  <2>1. /\ m[id].count = Cardinality(Cases(E, Arms, Completed))
        /\ m[id].of = 2 * Len(records)
    BY <1>5, <1>6, <1>11
  <2>2. \A arm \in Arms : /\ arms[arm][id].count = Cardinality(Cases(E, {arm}, Completed))
                          /\ arms[arm][id].of = Len(records)
    BY <1>4, <1>5, <1>7, <1>11
  <2>3. Total(w) = m[id].count
    <3>1. \A arm \in Arms : w[arm] = Cardinality(Cases(E, {arm}, Completed))
      BY <2>2
    <3>2. DOMAIN w = Arms
      OBVIOUS
    <3> HIDE DEF w, m
    <3> QED
      BY <1>3, <2>1, <3>1, <3>2, CasesByArm
  <2> HIDE DEF w, m, arms
  <2>4. arms["pi"][id].of + arms["millforge"][id].of = m[id].of
    BY <1>2, <1>9, <2>1, <2>2
  <2> QED
    BY <2>3, <2>4 DEF w, m, arms, OfArms
<1> QED
  BY <1>10, <1>11, <1>8

\* The summaries of the tasks add up to the cases of the records.
LEMMA TasksAddUp ==
    ASSUME NEW plans, NEW records, Accepted(plans, records)
    PROVE  LET tasks == TaskMetrics(plans, records)
               E == Elements(records)
           IN  /\ Total([t \in DOMAIN tasks |-> tasks[t]["valid_completion"].count])
                     = Cardinality(Cases(E, Arms, Primary))
               /\ Total([t \in DOMAIN tasks |-> tasks[t]["invalid_trial"].count])
                     = Cardinality(Cases(E, Arms, Having("invalid_trial")))
               /\ Total([t \in DOMAIN tasks |-> tasks[t]["incomplete_trial"].count])
                     = Cardinality(MissingPairs(plans, records))
               /\ Total([t \in DOMAIN tasks |-> tasks[t].artifacts])
                     = ArtifactCount(records)
<1> DEFINE tasks == TaskMetrics(plans, records)
           E == Elements(records)
           P == Elements(plans)
           own(t) == IF t \in E THEN Of(<<t>>, Arms) ELSE {}
<1>1. /\ plans \in Seq(Trials) /\ ~Repeats(plans)
      /\ records \in Seq(Trials) /\ ~Repeats(records) /\ E \subseteq P
  BY DEF Accepted
<1>2. IsFiniteSet(P) /\ P \subseteq Trials
  BY <1>1, PositionsCount, ElementsOf
<1>3. DOMAIN tasks = P
  BY DEF TaskMetrics
<1>4. ASSUME NEW t \in P
      PROVE  /\ tasks[t]["valid_completion"].count = Successes(own(t))
             /\ tasks[t]["invalid_trial"].count = WithOutcome(own(t), "invalid_trial")
             /\ tasks[t]["incomplete_trial"].count = IF t \in E THEN 0 ELSE 1
             /\ tasks[t].artifacts = IF t \in E THEN ArtifactsOf[t] ELSE 0
  <2> DEFINE o == own(t)
             c == IF t \in E THEN 0 ELSE 1
  <2>1. tasks[t] = [valid_completion |-> Metric(Successes(o), Cardinality(o)),
                    invalid_trial |-> Metric(WithOutcome(o, "invalid_trial"), Cardinality(o)),
                    incomplete_trial |-> Metric(c, 1),
                    artifacts |-> IF t \in E THEN ArtifactsOf[t] ELSE 0]
    BY DEF TaskMetrics
  <2> HIDE DEF tasks, o, E, c
  <2>2. /\ tasks[t]["valid_completion"] = Metric(Successes(o), Cardinality(o))
        /\ tasks[t]["invalid_trial"] = Metric(WithOutcome(o, "invalid_trial"), Cardinality(o))
        /\ tasks[t]["incomplete_trial"] = Metric(c, 1)
        /\ tasks[t].artifacts = IF t \in E THEN ArtifactsOf[t] ELSE 0
    BY <2>1
  <2>3. \A k, of : Metric(k, of).count = k
    BY DEF Metric
  <2> QED
    BY <2>2, <2>3 DEF o, c
<1>5. ASSUME NEW t \in P
      PROVE  /\ Successes(own(t)) = Cardinality(Cases(E \cap {t}, Arms, Primary))
             /\ WithOutcome(own(t), "invalid_trial")
                   = Cardinality(Cases(E \cap {t}, Arms, Having("invalid_trial")))
  <2>1. CASE t \in E
    <3> DEFINE s == <<t>>
    <3>1. t \in Trials
      BY <1>2
    <3>2. s \in Seq(Trials) /\ ~Repeats(s) /\ Elements(s) = E \cap {t}
      <4>1. Len(s) = 1 /\ s[1] = t /\ s \in Seq(Trials)
        BY <3>1
      <4>2. 1..1 = {1}
        OBVIOUS
      <4> HIDE DEF s
      <4>3. ~Repeats(s)
        BY <4>1 DEF Repeats
      <4>4. Elements(s) = {t}
        BY <4>1, <4>2 DEF Elements
      <4> HIDE DEF E
      <4> QED
        BY <2>1, <4>1, <4>3, <4>4
    <3>3. own(t) = Of(s, Arms)
      BY <2>1
    <3>4. /\ WithOutcome(OfTrials(s, Trials, Arms), "invalid_trial")
                = Cardinality(Cases(Elements(s) \cap Trials, Arms,
                                    Having("invalid_trial")))
          /\ Successes(OfTrials(s, Trials, Arms))
                = Cardinality(Cases(Elements(s) \cap Trials, Arms, Primary))
      <4>1. Arms \in SUBSET Arms
        OBVIOUS
      <4> HIDE DEF s
      <4> QED
        BY <3>2, <4>1, MetricsCount
    <3>5. /\ Of(s, Arms) = OfTrials(s, Trials, Arms)
          /\ Elements(s) \cap Trials = Elements(s)
      <4> HIDE DEF s
      <4> QED
        BY <3>2, AllTrials
    <3> HIDE DEF s, own, E
    <3> QED
      BY <3>2, <3>3, <3>4, <3>5
  <2>2. CASE t \notin E
    <3>1. own(t) = {} /\ E \cap {t} = {}
      BY <2>2
    <3> HIDE DEF own, E
    <3>2. \A R : Cases(E \cap {t}, Arms, R) = {}
      BY <3>1 DEF Cases
    <3> QED
      BY <3>1, <3>2 DEF Successes, WithOutcome
  <2> QED
    BY <2>1, <2>2
<1> HIDE DEF own, E, P
<1>6. Total([t \in P |-> tasks[t]["valid_completion"].count])
         = Cardinality(Cases(E, Arms, Primary))
  <2> DEFINE w == [t \in P |-> tasks[t]["valid_completion"].count]
  <2>1. DOMAIN w = P
    OBVIOUS
  <2>2. \A t \in P : w[t] = Cardinality(Cases(E \cap {t}, Arms, Primary))
    <3> HIDE DEF tasks
    <3> QED
      BY <1>4, <1>5
  <2> HIDE DEF w
  <2> QED
    BY <1>1, <1>2, <2>1, <2>2, CasesByTrial DEF w
<1>7. Total([t \in P |-> tasks[t]["invalid_trial"].count])
         = Cardinality(Cases(E, Arms, Having("invalid_trial")))
  <2> DEFINE w == [t \in P |-> tasks[t]["invalid_trial"].count]
             R == Having("invalid_trial")
  <2>1. DOMAIN w = P
    OBVIOUS
  <2>2. \A t \in P : w[t] = Cardinality(Cases(E \cap {t}, Arms, R))
    <3> HIDE DEF tasks
    <3> QED
      BY <1>4, <1>5
  <2> HIDE DEF w, R
  <2> QED
    BY <1>1, <1>2, <2>1, <2>2, CasesByTrial DEF w, R
<1>8. Total([t \in P |-> tasks[t]["incomplete_trial"].count])
         = Cardinality(MissingPairs(plans, records))
  <2> DEFINE w == [t \in P |-> tasks[t]["incomplete_trial"].count]
             M == MissingPairs(plans, records)
  <2>1. DOMAIN w = P /\ M = P \ E
    BY DEF MissingPairs, P, E
  <2>2. \A t \in P : w[t] = IF t \in M THEN 1 ELSE 0
    <3> HIDE DEF tasks, M
    <3> QED
      BY <1>4, <2>1
  <2> HIDE DEF w, M
  <2>3. M \in SUBSET P
    BY <2>1
  <2> QED
    BY <1>2, <2>1, <2>2, <2>3, TrialsByTrial DEF w, M
<1>9. Total([t \in P |-> tasks[t].artifacts]) = ArtifactCount(records)
  <2> DEFINE w == [t \in P |-> tasks[t].artifacts]
  <2>1. DOMAIN w = P
    OBVIOUS
  <2>2. \A t \in P : w[t] = IF t \in E THEN ArtifactsOf[t] ELSE 0
    <3> HIDE DEF tasks
    <3> QED
      BY <1>4
  <2> HIDE DEF w
  <2> QED
    BY <1>1, <2>1, <2>2, ArtifactsAddUp DEF w, P, E
<1> HIDE DEF tasks
<1> QED
  BY <1>3, <1>6, <1>7, <1>8, <1>9 DEF tasks, E

\* So do the summaries of the categories: a planned trial that is recorded is
\* recorded once, and in its own category.
LEMMA CategoriesAddUp ==
    ASSUME NEW plans, NEW records, Accepted(plans, records)
    PROVE  LET categories == CategoryMetrics(plans, records)
               E == Elements(records)
           IN  /\ \A o \in {"valid_completion", "invalid_trial"} :
                     Total([c \in DOMAIN categories |-> categories[c][o].count])
                        = Cardinality(Cases(E, Arms, Having(o)))
               /\ Total([c \in DOMAIN categories |->
                            categories[c]["incomplete_trial"].count])
                     = Cardinality(MissingPairs(plans, records))
<1> DEFINE categories == CategoryMetrics(plans, records)
           E == Elements(records)
           P == Elements(plans)
           M == MissingPairs(plans, records)
           D == {CategoryOf[t] : t \in P \cup E}
           own(c) == OfTrials(records, Category(c), Arms)
           planned(c) == Cardinality(Positions(plans, Category(c)))
           recorded(c) == Cardinality(Positions(records, Category(c)))
<1>1. /\ plans \in Seq(Trials) /\ ~Repeats(plans)
      /\ records \in Seq(Trials) /\ ~Repeats(records) /\ E \subseteq P
  BY DEF Accepted
<1>2. IsFiniteSet(P) /\ P \subseteq Trials /\ IsFiniteSet(E) /\ E \subseteq Trials
  BY <1>1, PositionsCount, ElementsOf
<1>3. DOMAIN categories = D
  BY DEF CategoryMetrics
<1>4. IsFiniteSet(D)
  <2> DEFINE f == [t \in P |-> CategoryOf[t]]
  <2>1. D = {CategoryOf[t] : t \in P}
    BY <1>1
  <2>2. f \in Surjection(P, D)
    <3> HIDE DEF P, E
    <3> QED
      BY <2>1 DEF Surjection
  <2> HIDE DEF f, D, P
  <2> QED
    BY <1>2, <2>2, FS_Surjection
<1>5. ASSUME NEW c \in D
      PROVE  /\ \A o \in {"valid_completion", "invalid_trial"} :
                   categories[c][o].count = WithOutcome(own(c), o)
             /\ categories[c]["incomplete_trial"].count
                   = IF recorded(c) > planned(c) THEN 0 ELSE planned(c) - recorded(c)
  <2> DEFINE o == own(c)
             p == planned(c)
             k == IF recorded(c) > planned(c) THEN 0 ELSE planned(c) - recorded(c)
  <2>1. categories[c] =
           [valid_completion |-> Metric(WithOutcome(o, "valid_completion"), Cardinality(o)),
            invalid_trial |-> Metric(WithOutcome(o, "invalid_trial"), Cardinality(o)),
            incomplete_trial |-> Metric(k, p)]
    BY DEF CategoryMetrics
  <2> HIDE DEF categories, o, p, k, D
  <2>2. /\ categories[c]["valid_completion"]
              = Metric(WithOutcome(o, "valid_completion"), Cardinality(o))
        /\ categories[c]["invalid_trial"]
              = Metric(WithOutcome(o, "invalid_trial"), Cardinality(o))
        /\ categories[c]["incomplete_trial"] = Metric(k, p)
    BY <2>1
  <2>3. \A n, of : Metric(n, of).count = n
    BY DEF Metric
  <2>4. /\ \A x \in {"valid_completion", "invalid_trial"} :
              categories[c][x].count = WithOutcome(o, x)
        /\ categories[c]["incomplete_trial"].count = k
    BY <2>2, <2>3
  <2> QED
    BY <2>4 DEF o, k
<1>6. ASSUME NEW o \in {"valid_completion", "invalid_trial"}
      PROVE  Total([c \in D |-> categories[c][o].count])
                = Cardinality(Cases(E, Arms, Having(o)))
  <2> DEFINE w == [c \in D |-> categories[c][o].count]
             R == Having(o)
  <2>1. ASSUME NEW c \in D PROVE w[c] = Cardinality(Cases(E \cap Category(c), Arms, R))
    <3>1. \A x : WithOutcome(OfTrials(records, Category(c), Arms), x)
                    = Cardinality(Cases(Elements(records) \cap Category(c), Arms, Having(x)))
      <4>1. Arms \in SUBSET Arms
        OBVIOUS
      <4> DEFINE C == Category(c)
      <4> HIDE DEF categories, D, C
      <4>2. \A x : WithOutcome(OfTrials(records, C, Arms), x)
                      = Cardinality(Cases(Elements(records) \cap C, Arms, Having(x)))
        BY <1>1, <4>1, MetricsCount
      <4> QED
        BY <4>2 DEF C
    <3> HIDE DEF categories, D
    <3> QED
      BY <1>5, <3>1
  <2>2. DOMAIN w = D /\ \A t \in E : CategoryOf[t] \in D
    OBVIOUS
  <2> HIDE DEF w, D, E, R
  <2> QED
    BY <1>2, <1>4, <2>1, <2>2, CasesByCategory DEF w, R
<1>7. Total([c \in D |-> categories[c]["incomplete_trial"].count]) = Cardinality(M)
  <2> DEFINE w == [c \in D |-> categories[c]["incomplete_trial"].count]
  <2>1. M \in SUBSET Trials /\ IsFiniteSet(M) /\ M = P \ E
    <3>1. M = P \ E
      BY DEF MissingPairs
    <3> HIDE DEF M, P, E
    <3> QED
      BY <1>2, <3>1, FS_Difference
  <2>2. ASSUME NEW c \in D PROVE w[c] = Cardinality(M \cap Category(c))
    <3> DEFINE A == P \cap Category(c)
               B == E \cap Category(c)
    <3>1. planned(c) = Cardinality(A) /\ recorded(c) = Cardinality(B)
      <4> HIDE DEF D
      <4> QED
        BY <1>1, PositionsCount
    <3>2. IsFiniteSet(A) /\ IsFiniteSet(B) /\ B \subseteq A
      <4> HIDE DEF D, E, P
      <4> QED
        BY <1>1, <1>2, FS_Subset
    <3>3. M \cap Category(c) = A \ B /\ A \cap B = B
      <4> HIDE DEF D, E, P, M
      <4> QED
        BY <1>1, <2>1
    <3> DEFINE a == Cardinality(A)
               b == Cardinality(B)
    <3> HIDE DEF A, B
    <3>4. a \in Nat /\ b \in Nat /\ b <= a
      BY <3>2, FS_CardinalityType, FS_Subset
    <3>5. Cardinality(A \ B) = a - b
      BY <3>2, <3>3, FS_Difference
    <3> HIDE DEF a, b
    <3>6. w[c] = IF b > a THEN 0 ELSE a - b
      <4> HIDE DEF categories, D, planned, recorded
      <4> QED
        BY <1>5, <3>1 DEF a, b
    <3> HIDE DEF w, M
    <3> QED
      BY <3>3, <3>4, <3>5, <3>6
  <2>3. DOMAIN w = D /\ \A t \in M : CategoryOf[t] \in D
    <3>1. M \subseteq P
      BY <2>1
    <3> HIDE DEF M, P, E, categories
    <3> QED
      BY <3>1
  <2> HIDE DEF w, D, M
  <2> QED
    BY <1>4, <2>1, <2>2, <2>3, TrialsByCategory DEF w
<1> HIDE DEF categories, D
<1> QED
  BY <1>3, <1>6, <1>7 DEF categories, E

LEMMA TwoArms ==
    ASSUME NEW T, IsFiniteSet(T), NEW R
    PROVE  Cardinality(Cases(T, Arms, R))
              = Cardinality(Cases(T, {"pi"}, R)) + Cardinality(Cases(T, {"millforge"}, R))
<1> DEFINE A == Cases(T, {"pi"}, R)
           B == Cases(T, {"millforge"}, R)
<1>1. A \cap B = {}
  BY DEF Cases
<1>2. A \cup B = Cases(T, Arms, R)
  BY DEF Cases, Arms
<1>3. /\ IsFiniteSet(A) /\ Cardinality(A) \in Nat
      /\ IsFiniteSet(B) /\ Cardinality(B) \in Nat
  BY FS_Singleton, CasesCount
<1> HIDE DEF A, B
<1>4. Cardinality(A \cup B) = Cardinality(A) + Cardinality(B) - Cardinality(A \cap B)
  BY <1>3, FS_Union
<1>5. Cardinality(A \cap B) = 0
  BY <1>1, FS_EmptySet
<1>6. Cardinality(A \cup B) = Cardinality(A) + Cardinality(B)
  BY <1>3, <1>4, <1>5
<1> QED
  BY <1>2, <1>6 DEF A, B

\* The pairs and the missing ones are the plan.
LEMMA PairsAddUp ==
    ASSUME NEW plans, NEW records, Accepted(plans, records)
    PROVE  LET pair == Paired(plans, records)
               E == Elements(records)
           IN  /\ pair.left + pair.right = Cardinality(Cases(E, Arms, Primary))
               /\ pair.missing = Cardinality(MissingPairs(plans, records))
               /\ pair.of + Cardinality(MissingPairs(plans, records)) = Len(plans)
<1> DEFINE pair == Paired(plans, records)
           E == Elements(records)
           P == Elements(plans)
           M == MissingPairs(plans, records)
<1>1. /\ plans \in Seq(Trials) /\ ~Repeats(plans)
      /\ records \in Seq(Trials) /\ ~Repeats(records) /\ E \subseteq P
  BY DEF Accepted
<1>2. /\ IsFiniteSet(P) /\ IsFiniteSet(E) /\ P \cap E = E
      /\ Cardinality(Positions(plans, E)) = Cardinality(E)
      /\ Cardinality(P) = Len(plans)
  <2>1. /\ IsFiniteSet(P) /\ IsFiniteSet(E)
        /\ Cardinality(Positions(plans, E)) = Cardinality(P \cap E)
    BY <1>1, PositionsCount
  <2>2. P \cap E = E
    BY <1>1
  <2>3. Cardinality(P) = Len(plans)
    BY <1>1, LengthCounts
  <2> QED
    BY <2>1, <2>2, <2>3
<1>3. ASSUME NEW arm \in Arms
      PROVE  Successes(OfTrials(plans, E, {arm})) = Cardinality(Cases(E, {arm}, Primary))
  <2>1. Successes(OfTrials(plans, E, {arm})) = Cardinality(Cases(P \cap E, {arm}, Primary))
    <3>1. {arm} \in SUBSET Arms
      OBVIOUS
    <3> QED
      BY <1>1, <3>1, MetricsCount
  <2> QED
    BY <1>2, <2>1
<1>4. M = P \ E
  BY DEF MissingPairs
<1>5. Cardinality(E) + Cardinality(M) = Len(plans)
  <2>3. Cardinality(M) = Cardinality(P \ E)
    BY DEF MissingPairs
  <2>4. Cardinality(P \cap E) = Cardinality(E)
    BY <1>2
  <2> HIDE DEF M, E, P
  <2>1. Cardinality(P \ E) = Cardinality(P) - Cardinality(P \cap E)
    BY <1>2, FS_Difference
  <2>2. Cardinality(P) \in Nat /\ Cardinality(E) \in Nat
    BY <1>2, FS_CardinalityType
  <2> QED
    BY <1>2, <2>1, <2>2, <2>3, <2>4
<1>6. pair = [left |-> Successes(OfTrials(plans, E, {"pi"})),
              right |-> Successes(OfTrials(plans, E, {"millforge"})),
              of |-> Cardinality(Positions(plans, E)),
              missing |-> Cardinality(M)]
  BY DEF Paired
<1>7. "pi" \in Arms /\ "millforge" \in Arms
  BY DEF Arms
<1> HIDE DEF pair, E, M, P
<1>8. /\ pair.left = Cardinality(Cases(E, {"pi"}, Primary))
      /\ pair.right = Cardinality(Cases(E, {"millforge"}, Primary))
      /\ pair.of = Cardinality(E) /\ pair.missing = Cardinality(M)
  BY <1>2, <1>3, <1>6, <1>7
<1> QED
  BY <1>2, <1>5, <1>8, TwoArms DEF pair, E, M

\* The rules speak of counts: what is too few for an interval is left
\* undecided, and a closure that was false aborts.
LEMMA RulesAgree ==
    ASSUME NEW plans, NEW records, NEW ledger, Accepted(plans, records)
    PROVE  LET m == PrimaryMetrics(plans, records, ledger)
           IN  /\ FalseClosureRule(m) = "descriptive_only" <=>
                     ~IntervalGiven(m["false_closure"])
               /\ FalseClosureRule(m) = "failed" => AbortRule(m) = "failed"
               /\ TaxonomyCount(records, "capability") <= m["capability_violation"].count
               /\ Cardinality(Cases(Elements(records), Arms, Primary))
                     <= m["valid_completion"].count
<1> DEFINE m == PrimaryMetrics(plans, records, ledger)
           all == Of(records, Arms)
           E == Elements(records)
           c == m["false_closure"].count
           n == m["false_closure"].of
<1>1. records \in Seq(Trials) /\ ~Repeats(records) /\ Len(records) \in Nat
  BY DEF Accepted
<1>2. /\ \A o \in {"valid_completion", "invalid_trial", "false_closure"} :
            m[o].count = WithOutcome(all, o) /\ m[o].of = 2 * Len(records)
      /\ \A o \in {"runtime_failure", "provider_failure"} :
            m[o].count = WithOutcome(all, o) /\ m[o].of = 2 * Len(plans)
      /\ m["artifact_complete"].count = Complete(all)
      /\ m["artifact_complete"].of = 2 * Len(records)
      /\ m["capability_violation"].count = Capable(all)
      /\ m["missing_pair"].count = Cardinality(MissingPairs(plans, records))
      /\ m["pending_trial"].count = Cardinality(Pending(plans, records, ledger))
  BY MetricsAre
<1>3. IsFiniteSet(all)
  BY <1>1, ArmsCount, ResultsCount
<1>4. n \in Nat /\ c \in Nat
  <2>1. WithOutcome(all, "false_closure") \in Nat
    <3> HIDE DEF all
    <3>1. IsFiniteSet({x \in all : x.result.outcome = "false_closure"})
      BY <1>3, FS_Subset
    <3> QED
      BY <3>1, FS_CardinalityType DEF WithOutcome
  <2>2. 2 * Len(records) \in Nat
    BY <1>1
  <2> HIDE DEF m, all
  <2> QED
    BY <1>2, <2>1, <2>2
<1>5. FalseClosureRule(m) = IF n < MinSample THEN "descriptive_only"
                            ELSE IF c = 0 THEN "passed" ELSE "failed"
  BY DEF FalseClosureRule
<1>6. IntervalGiven(m["false_closure"]) <=> n >= MinSample
  BY DEF IntervalGiven
<1>7. FalseClosureRule(m) = "descriptive_only" <=> ~IntervalGiven(m["false_closure"])
  <2> HIDE DEF m, n, c
  <2>1. MinSample \in Nat
    BY ReportAssumption
  <2>2. n < MinSample <=> ~(n >= MinSample)
    BY <1>4, <2>1
  <2> QED
    BY <1>5, <1>6, <2>2
<1>8. FalseClosureRule(m) = "failed" => AbortRule(m) = "failed"
  <2> SUFFICES ASSUME FalseClosureRule(m) = "failed" PROVE AbortRule(m) = "failed"
    OBVIOUS
  <2>1. c # 0
    <3> HIDE DEF m, n, c
    <3> QED
      BY <1>5
  <2>2. c > 0
    <3> HIDE DEF m, n, c
    <3> QED
      BY <1>4, <2>1
  <2> HIDE DEF m
  <2> QED
    BY <2>2 DEF AbortRule
<1>9. TaxonomyCount(records, "capability") <= m["capability_violation"].count
  <2> DEFINE A == {x \in all : "capability" \in x.result.labels}
             B == {x \in all : x.result.capability}
  <2>1. A \subseteq B
    <3> SUFFICES ASSUME NEW x \in all, "capability" \in x.result.labels
                 PROVE  x.result.capability
      OBVIOUS
    <3>1. PICK i \in 1..Len(records), arm \in Arms :
              x = [i |-> i, result |-> ResultOf[records[i]][arm], arm |-> arm]
      BY DEF Of
    <3>2. x.result = ResultOf[records[i]][arm] /\ records[i] \in Trials
      BY <1>1, <3>1
    <3> QED
      BY <3>2, ReportAssumption
  <2>2. TaxonomyCount(records, "capability") = Cardinality(A)
    BY DEF TaxonomyCount, Categorised, FailureLabels
  <2>3. m["capability_violation"].count = Cardinality(B)
    BY <1>2 DEF Capable
  <2>4. IsFiniteSet(B)
    <3> HIDE DEF all
    <3> QED
      BY <1>3, FS_Subset
  <2> HIDE DEF A, B, m
  <2>5. Cardinality(A) <= Cardinality(B)
    BY <2>1, <2>4, FS_Subset
  <2> QED
    BY <2>2, <2>3, <2>5
<1>10. Cardinality(Cases(E, Arms, Primary)) <= m["valid_completion"].count
  <2> DEFINE A == Cases(E, Arms, Primary)
             B == Cases(E, Arms, Having("valid_completion"))
  <2>1. A \subseteq B
    <3>1. \A r \in E \X Arms : r[1] \in Trials /\ r[2] \in Arms
      BY <1>1, ElementsOf
    <3> QED
      BY <3>1, ReportAssumption DEF Cases, Primary, Having
  <2>2. IsFiniteSet(B)
    BY <1>1, PositionsCount, ArmsCount, CasesCount
  <2> HIDE DEF A, B, E
  <2>3. Cardinality(A) <= Cardinality(B)
    BY <2>1, <2>2, FS_Subset
  <2>4. m["valid_completion"].count = Cardinality(B)
    <3>1. Arms \in SUBSET Arms
      OBVIOUS
    <3>2. WithOutcome(OfTrials(records, Trials, Arms), "valid_completion")
             = Cardinality(Cases(Elements(records) \cap Trials, Arms,
                                 Having("valid_completion")))
      BY <1>1, <3>1, MetricsCount
    <3>3. Of(records, Arms) = OfTrials(records, Trials, Arms)
          /\ Elements(records) \cap Trials = Elements(records)
      BY <1>1, AllTrials
    <3>4. m["valid_completion"].count = WithOutcome(all, "valid_completion")
      <4> HIDE DEF m, all
      <4> QED
        BY <1>2
    <3> HIDE DEF m
    <3> QED
      BY <3>2, <3>3, <3>4 DEF B, E
  <2> HIDE DEF m
  <2> QED
    BY <2>3, <2>4 DEF A
<1> HIDE DEF m
<1> QED
  BY <1>7, <1>8, <1>9, <1>10 DEF m, E

\* All of it together.
LEMMA ReportAddsUp ==
    ASSUME NEW plans, NEW records, NEW i, Accepted(plans, records),
           i # None => i.pending \cap Elements(records) = {}
    PROVE  AddsUp(plans, records, i)
<1> DEFINE m == PrimaryMetrics(plans, records, i)
           arms == ArmMetrics(plans, records)
           tasks == TaskMetrics(plans, records)
           categories == CategoryMetrics(plans, records)
           pair == Paired(plans, records)
           E == Elements(records)
           missing == m["missing_pair"].count
           M == Cardinality(MissingPairs(plans, records))
           ByTask(id) == Total([t \in DOMAIN tasks |-> tasks[t][id].count])
           ByCategory(id) == Total([c \in DOMAIN categories |-> categories[c][id].count])
<1>1. /\ records \in Seq(Trials) /\ ~Repeats(records) /\ plans \in Seq(Trials)
      /\ ~Repeats(plans)
  BY DEF Accepted
<1>2. /\ \A o \in {"valid_completion", "invalid_trial", "false_closure"} :
            /\ m[o].count = WithOutcome(Of(records, Arms), o)
            /\ m[o].of = 2 * Len(records)
      /\ \A o \in {"runtime_failure", "provider_failure"} :
            /\ m[o].count = WithOutcome(Of(records, Arms), o)
            /\ m[o].of = 2 * Len(plans)
      /\ m["artifact_complete"].count = Complete(Of(records, Arms))
      /\ m["artifact_complete"].of = 2 * Len(records)
      /\ m["capability_violation"].count = Capable(Of(records, Arms))
      /\ m["missing_pair"].count = Cardinality(MissingPairs(plans, records))
      /\ m["pending_trial"].count = Cardinality(Pending(plans, records, i))
  BY MetricsAre
<1>3. \A o \in {"valid_completion", "invalid_trial"} :
         m[o].count = Cardinality(Cases(E, Arms, Having(o)))
  <2> SUFFICES ASSUME NEW o \in {"valid_completion", "invalid_trial"}
               PROVE  m[o].count = Cardinality(Cases(E, Arms, Having(o)))
    OBVIOUS
  <2>1. Arms \in SUBSET Arms
    OBVIOUS
  <2>2. WithOutcome(OfTrials(records, Trials, Arms), o)
           = Cardinality(Cases(Elements(records) \cap Trials, Arms, Having(o)))
    BY <1>1, <2>1, MetricsCount
  <2>3. Of(records, Arms) = OfTrials(records, Trials, Arms)
        /\ Elements(records) \cap Trials = Elements(records)
    BY <1>1, AllTrials
  <2>4. m[o].count = WithOutcome(Of(records, Arms), o)
    <3> HIDE DEF m
    <3> QED
      BY <1>2
  <2> HIDE DEF m
  <2> QED
    BY <2>2, <2>3, <2>4
<1>4. \A id \in DOMAIN arms["pi"] :
         /\ OfArms(plans, records, id) = m[id].count
         /\ arms["pi"][id].of + arms["millforge"][id].of = m[id].of
  BY ArmsAddUp
<1>5. /\ ByTask("valid_completion") = Cardinality(Cases(E, Arms, Primary))
      /\ ByTask("invalid_trial") = Cardinality(Cases(E, Arms, Having("invalid_trial")))
      /\ ByTask("incomplete_trial") = M
      /\ Total([t \in DOMAIN tasks |-> tasks[t].artifacts]) = ArtifactCount(records)
  BY TasksAddUp
<1>6. /\ \A o \in {"valid_completion", "invalid_trial"} :
            ByCategory(o) = Cardinality(Cases(E, Arms, Having(o)))
      /\ ByCategory("incomplete_trial") = M
  BY CategoriesAddUp
<1>7. /\ pair.left + pair.right = Cardinality(Cases(E, Arms, Primary))
      /\ pair.missing = M
      /\ pair.of + M = Len(plans)
  BY PairsAddUp
<1>8. /\ FalseClosureRule(m) = "descriptive_only" <=> ~IntervalGiven(m["false_closure"])
      /\ FalseClosureRule(m) = "failed" => AbortRule(m) = "failed"
      /\ TaxonomyCount(records, "capability") <= m["capability_violation"].count
      /\ Cardinality(Cases(E, Arms, Primary)) <= m["valid_completion"].count
  BY RulesAgree
<1>9. m["pending_trial"].count <= M
  <2> DEFINE A == Pending(plans, records, i)
             B == MissingPairs(plans, records)
  <2>1. A \subseteq B
    BY DEF Pending, MissingPairs
  <2>2. IsFiniteSet(B)
    <3>1. IsFiniteSet(Elements(plans))
      BY <1>1, PositionsCount
    <3> QED
      BY <3>1, FS_Difference DEF MissingPairs
  <2>3. Cardinality(A) <= Cardinality(B)
    <3> HIDE DEF A, B
    <3> QED
      BY <2>1, <2>2, FS_Subset
  <2>4. m["pending_trial"].count = Cardinality(A)
    BY <1>2
  <2> HIDE DEF m
  <2> QED
    BY <2>3, <2>4
<1>10. missing = M
  BY <1>2
<1> HIDE DEF ByTask, ByCategory, m, M, E
<1>11. /\ ByCategory("valid_completion") = m["valid_completion"].count
       /\ ByCategory("invalid_trial") = m["invalid_trial"].count
       /\ ByTask("invalid_trial") = m["invalid_trial"].count
       /\ ByCategory("incomplete_trial") = missing
       /\ ByTask("incomplete_trial") = missing
       /\ pair.missing = missing /\ pair.of + missing = Len(plans)
       /\ ByTask("valid_completion") = pair.left + pair.right
       /\ ByTask("valid_completion") <= m["valid_completion"].count
  <2> HIDE DEF pair
  <2> QED
    BY <1>3, <1>5, <1>6, <1>7, <1>8, <1>10
<1>12. m["pending_trial"].count <= missing
  BY <1>9, <1>10
<1> HIDE DEF arms, tasks, categories, pair, missing
<1> QED
  BY <1>4, <1>5, <1>8, <1>11, <1>12
     DEF AddsUp, m, arms, tasks, categories, pair, missing, ByTask, ByCategory, OfArms

-----------------------------------------------------------------------------
(***************************************************************************)
(* The reports.                                                            *)
(***************************************************************************)
\* The report counts pairs where the preflight counted trials: it is never
\* the stricter of the two.
LEMMA PreflightAdmits ==
    ASSUME NEW p \in Plans, NEW budget \in Policies, Preflight(p, budget)
    PROVE  Admission(budget, ReportUsage(p)) = "admitted"
<1>1. Len(p) \in Nat
  BY StoreAssumption
<1>2. budget.max \in [Ceilings -> Nat \cup {None}]
  BY ReportAssumption
<1>3. ASSUME NEW c \in Ceilings, budget.max[c] # None
      PROVE  /\ budget.max[c] \in Nat /\ PreflightUsage(p)[c] <= budget.max[c]
             /\ PreflightUsage(p)[c] = IF c = "trials" THEN 2 * Len(p) ELSE 0
             /\ ReportUsage(p)[c] = IF c = "trials" THEN Len(p) ELSE 0
  <2>1. budget.max[c] \in Nat
    BY <1>2, <1>3
  <2>2. /\ PreflightUsage(p)[c] = IF c = "trials" THEN 2 * Len(p) ELSE 0
        /\ ReportUsage(p)[c] = IF c = "trials" THEN Len(p) ELSE 0
    BY DEF PreflightUsage, ReportUsage, NoUsage
  <2>3. ~(PreflightUsage(p)[c] > budget.max[c])
    BY <1>3 DEF Preflight, BudgetValid, Exceeded
  <2> QED
    BY <1>1, <2>1, <2>2, <2>3
<1>4. Exceeded(budget, ReportUsage(p)) = {}
  <2>1. ASSUME NEW c \in Ceilings, budget.max[c] # None
        PROVE  ~(ReportUsage(p)[c] > budget.max[c])
    BY <1>1, <1>3, <2>1
  <2> QED
    BY <2>1 DEF Exceeded
<1> QED
  BY <1>4 DEF Preflight, BudgetValid, Admission

\* A report that is accepted adds up.  One that is made with an index of the
\* same plan, whenever and by whomever, is one of that index: what it calls
\* pending is what is missing.  A budget that let the campaign begin still
\* admits it.
THEOREM AcceptedReportsAddUp == Spec => []ReportsAddUp
<1>1. HonestInv => ReportsAddUp
  <2> SUFFICES ASSUME HonestInv, NEW a \in Runners, NEW b \in Runners,
                      pc[a] = "returned", read[a] # None,
                      pc[b] = "returned", read[b] # None,
                      NEW i \in {read[b], None},
                      ReportAccepted(plan[a], read[a].done, i)
               PROVE  /\ AddsUp(plan[a], read[a].done, i)
                      /\ i = None \/ Elements(plan[b]) = Elements(plan[a]) =>
                            /\ Pending(plan[a], read[a].done, i)
                                  = MissingPairs(plan[a], read[a].done)
                            /\ i # None => Elements(i.done) = Elements(read[a].done)
                      /\ \A budget \in Policies : Preflight(plan[a], budget) =>
                            Admission(budget, ReportUsage(plan[a])) = "admitted"
    BY DEF ReportsAddUp
  <2>1. plan[a] \in Plans
    BY DEF HonestInv, PlaceInv
  <2>2. i # None => i.pending = Elements(plan[b]) \ Elements(i.done)
    BY DEF HonestInv, ReadInv
  <2>3. /\ Elements(read[a].done) \subseteq Elements(plan[a])
        /\ i # None => /\ Elements(i.done) \subseteq Elements(read[a].done)
                       /\ i.pending \cap Elements(read[a].done) = {}
    BY DEF ReportAccepted, InputsAccepted, IndexAgrees
  <2>4. Accepted(plan[a], read[a].done)
    <3>1. read[a] \in Indexes
      BY DEF HonestInv, TypeOK
    <3>2. read[a].done \in Seq(Trials)
      BY <3>1 DEF Indexes
    <3>3. ~Repeats(read[a].done)
      BY DEF HonestInv, ReadInv
    <3> QED
      BY <2>1, <2>3, <3>2, <3>3, StoreAssumption DEF Accepted
  <2>5. AddsUp(plan[a], read[a].done, i)
    BY <2>3, <2>4, ReportAddsUp
  <2> QED
    BY <2>1, <2>2, <2>3, <2>5, PreflightAdmits DEF Pending, MissingPairs
<1> QED
  BY <1>1, Honesty, PTL
=============================================================================
