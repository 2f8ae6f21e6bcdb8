---------------------------- MODULE CampaignStore ----------------------------
(***************************************************************************)
(* The append-only store of an evaluation campaign and the three programs  *)
(* that use it: append_eval_trial_record_to_campaign_store,                *)
(* resume_eval_trial_campaign_store and run_offline_fake_eval_campaign,    *)
(* which is made of the other two.  They run in processes of their own,    *)
(* take no lock, and may die between any two steps.                        *)
(*                                                                         *)
(* A record is its trial: the offline runner is deterministic, so records  *)
(* of the same trial are the same bytes.  write_bytes first truncates; the *)
(* file is torn until it is filled.  A record is appended by one write,    *)
(* which leaves a torn line when it fails.                                 *)
(***************************************************************************)
EXTENDS EvalReports

CONSTANTS
    Runners,      \* processes
    Plans,        \* plan sets: sequences of trials without repetition
    MaxFailures,  \* bound on the failed writes and crashes
    Torn

ASSUME StoreAssumption ==
    /\ \A p \in Plans : p \in Seq(Trials) /\ p # <<>> /\ ~Repeats(p)
    /\ Torn \notin Trials /\ MaxFailures \in Nat

Goals == {"campaign", "append", "resume"}

\* An index, and what is derived from one: the completed records in the
\* order of the log, and the pending plans.
Indexes == [done : Seq(Trials), pending : SUBSET Trials]

ASSUME StoreValues ==
    /\ None \notin Plans \cup Indexes \cup {"ok"}
    /\ Torn \notin Plans \cup Indexes \cup {"ok", None}

VARIABLES
    manifest,   \* manifest.json: None, Torn or "ok"
    planFile,   \* plan.json: None, Torn or a plan set
    log,        \* trials.jsonl: trials, and torn lines
    index,      \* index.json: None, Torn or an index
    reports,    \* the report files: None, Torn or the index they were made of
    evidence,   \* closure_evidence.json, likewise
    pc,         \* runner -> where it stands
    goal,       \* runner -> the function it executes
    plan,       \* runner -> the plan set it was called with
    done,       \* runner -> completed_ids
    appended,   \* runner -> appended_trial_ids is not empty
    read,       \* runner -> the index it has computed
    result,     \* runner -> the index its last campaign returned, or None
    failures,
    alone       \* history: the store was sound when the runner began, and no
                \* other runner has run since

diskVars == <<manifest, planFile, log, index, reports, evidence>>
localVars == <<goal, plan, done, appended, read>>
vars == <<diskVars, pc, localVars, result, failures, alone>>

-----------------------------------------------------------------------------
\* Mutant: the index is made of the plan set instead of the log.
IndexOfPlan(records, p) == [done |-> p, pending |-> {}]

IndexOf(records, p) ==
    [done |-> records, pending |-> Elements(p) \ Elements(records)]

Missing(r) == Elements(plan[r]) \ done[r]

\* The next planned trial that is not completed.
NextTrial(r) ==
    plan[r][CHOOSE i \in 1..Len(plan[r]) :
                /\ plan[r][i] \in Missing(r)
                /\ \A j \in 1..(i - 1) : plan[r][j] \notin Missing(r)]

LogIsWhole == Torn \notin Elements(log)

\* manifest.json and plan.json are absent or what the runner expects.
FilesMatch(p) == manifest \in {None, "ok"} /\ planFile \in {None, p}

Active(r) == pc[r] \notin {"idle", "returned", "refused", "dead"}

\* A store a run of p can go on with.
Sound(p) ==
    /\ FilesMatch(p) /\ LogIsWhole /\ ~Repeats(log)
    /\ Elements(log) \subseteq Elements(p)
    /\ index # Torn
    /\ Elements(p) \subseteq Elements(log) => index \in {None, IndexOf(log, p)}

Goto(r, next) == pc' = [pc EXCEPT ![r] = next]
Refuse(r) == Goto(r, "refused") /\ UNCHANGED <<diskVars, localVars, result>>

-----------------------------------------------------------------------------
(***************************************************************************)
(* A call.  The campaign preflight validates the budget and compares the   *)
(* manifest.                                                               *)
(***************************************************************************)
Enter(r, g, p, completed, next, sound) ==
    /\ ~Active(r)
    /\ Goto(r, next)
    /\ goal' = [goal EXCEPT ![r] = g]
    /\ plan' = [plan EXCEPT ![r] = p]
    /\ done' = [done EXCEPT ![r] = completed]
    /\ appended' = [appended EXCEPT ![r] = FALSE]
    /\ read' = [read EXCEPT ![r] = None]
    /\ result' = [result EXCEPT ![r] = None]
    /\ alone' = [q \in Runners |->
                    q = r /\ sound /\ Sound(p) /\ \A o \in Runners \ {r} : ~Active(o)]
    /\ UNCHANGED <<diskVars, failures>>

Preflight(p, budget) == BudgetValid(budget, PreflightUsage(p))

StartCampaign(r, p, budget) ==
    Enter(r, "campaign", p, {},
          IF Preflight(p, budget) /\ manifest \in {None, "ok"} THEN "reading"
          ELSE "refused", Preflight(p, budget))
StartAppend(r, p, t) ==
    Enter(r, "append", p, Elements(p) \ {t}, "next", TRUE)
StartResume(r, p) ==
    Enter(r, "resume", p, {}, "resuming", TRUE)

\* _read_offline_dry_campaign_record_summaries and the match with the
\* plans.  A whole record without its newline passes here and is refused by
\* the next read of the log: it counts as torn.
ReadRecords(r) ==
    /\ pc[r] = "reading"
    /\ IF LogIsWhole /\ ~Repeats(log) /\ Elements(log) \subseteq Elements(plan[r])
       THEN /\ done' = [done EXCEPT ![r] = Elements(log)]
            /\ Goto(r, "next")
            /\ UNCHANGED <<diskVars, goal, plan, appended, read, result>>
       ELSE Refuse(r)
    /\ UNCHANGED <<failures, alone>>

-----------------------------------------------------------------------------
(***************************************************************************)
(* Append one record.                                                      *)
(***************************************************************************)
CheckStore(r) ==
    /\ pc[r] = "next" /\ Missing(r) # {}
    /\ IF FilesMatch(plan[r]) /\ LogIsWhole /\ NextTrial(r) \notin Elements(log)
       THEN Goto(r, "manifest") /\ UNCHANGED <<diskVars, localVars, result>>
       ELSE Refuse(r)
    /\ UNCHANGED <<failures, alone>>

\* The two immutable files are written when they are absent, by append and
\* by resume.
WriteManifest(r) ==
    /\ pc[r] = "manifest"
    /\ \/ /\ manifest = None
          /\ manifest' = Torn /\ Goto(r, "manifestTorn")
       \/ /\ manifest # None
          /\ Goto(r, "plan") /\ UNCHANGED manifest
    /\ UNCHANGED <<planFile, log, index, reports, evidence, localVars, result,
                   failures, alone>>

FillManifest(r) ==
    /\ pc[r] = "manifestTorn"
    /\ manifest' = "ok" /\ Goto(r, "plan")
    /\ UNCHANGED <<planFile, log, index, reports, evidence, localVars, result,
                   failures, alone>>

AfterPlan(r) == IF goal[r] = "resume" \/ Missing(r) = {} THEN "indexing"
                ELSE "appending"

WritePlan(r) ==
    /\ pc[r] = "plan"
    /\ \/ /\ planFile = None
          /\ planFile' = Torn /\ Goto(r, "planTorn")
       \/ /\ planFile # None
          /\ Goto(r, AfterPlan(r)) /\ UNCHANGED planFile
    /\ UNCHANGED <<manifest, log, index, reports, evidence, localVars, result,
                   failures, alone>>

FillPlan(r) ==
    /\ pc[r] = "planTorn"
    /\ planFile' = plan[r] /\ Goto(r, AfterPlan(r))
    /\ UNCHANGED <<manifest, log, index, reports, evidence, localVars, result,
                   failures, alone>>

AppendRecord(r) ==
    /\ pc[r] = "appending"
    /\ log' = Append(log, NextTrial(r))
    /\ done' = [done EXCEPT ![r] = @ \cup {NextTrial(r)}]
    /\ appended' = [appended EXCEPT ![r] = TRUE]
    /\ Goto(r, IF goal[r] = "append" THEN "returned" ELSE "next")
    /\ UNCHANGED <<manifest, planFile, index, reports, evidence, goal, plan,
                   read, result, failures, alone>>

AppendFails(r) ==
    /\ pc[r] = "appending"
    /\ failures < MaxFailures /\ failures' = failures + 1
    /\ log' = Append(log, Torn)
    /\ Goto(r, "dead")
    /\ alone' = [alone EXCEPT ![r] = FALSE]
    /\ UNCHANGED <<manifest, planFile, index, reports, evidence, localVars,
                   result>>

-----------------------------------------------------------------------------
(***************************************************************************)
(* Resume: reconstruct the index from the log.  A campaign that appended   *)
(* something removes the old index first.                                  *)
(***************************************************************************)
\* Mutant: the old index stays.
UnlinkIndexNever(r) ==
    /\ pc[r] = "next" /\ Missing(r) = {}
    /\ Goto(r, "resuming")
    /\ UNCHANGED <<diskVars, localVars, result, failures, alone>>

UnlinkIndex(r) ==
    /\ pc[r] = "next" /\ Missing(r) = {}
    /\ index' = IF appended[r] THEN None ELSE index
    /\ Goto(r, "resuming")
    /\ UNCHANGED <<manifest, planFile, log, reports, evidence, localVars,
                   result, failures, alone>>

Reconstruct(r) ==
    /\ pc[r] = "resuming"
    /\ IF FilesMatch(plan[r]) /\ LogIsWhole /\ ~Repeats(log)
       THEN /\ read' = [read EXCEPT ![r] = IndexOf(log, plan[r])]
            /\ Goto(r, "manifest")
            /\ UNCHANGED <<diskVars, goal, plan, done, appended, result>>
       ELSE Refuse(r)
    /\ UNCHANGED <<failures, alone>>

AfterIndex(r) == IF goal[r] = "resume" THEN "returned" ELSE "reporting"

\* An index that is there is compared, never replaced.
WriteIndex(r) ==
    /\ pc[r] = "indexing"
    /\ \/ index = None /\ index' = Torn /\ Goto(r, "indexTorn")
       \/ index = read[r] /\ Goto(r, AfterIndex(r)) /\ UNCHANGED index
       \/ index \notin {None, read[r]} /\ Goto(r, "refused") /\ UNCHANGED index
    /\ UNCHANGED <<manifest, planFile, log, reports, evidence, localVars,
                   result, failures, alone>>

FillIndex(r) ==
    /\ pc[r] = "indexTorn"
    /\ index' = read[r] /\ Goto(r, AfterIndex(r))
    /\ UNCHANGED <<manifest, planFile, log, reports, evidence, localVars,
                   result, failures, alone>>

-----------------------------------------------------------------------------
(***************************************************************************)
(* The rest of the campaign: the report of the planned trials and of the   *)
(* index that was read, the closure evidence, the result.                  *)
(***************************************************************************)
WriteReports(r) ==
    /\ pc[r] = "reporting"
    /\ IF ReportAccepted(plan[r], plan[r], read[r])
       THEN reports' = Torn /\ Goto(r, "reportsTorn")
       ELSE Goto(r, "refused") /\ UNCHANGED reports
    /\ UNCHANGED <<manifest, planFile, log, index, evidence, localVars, result,
                   failures, alone>>

FillReports(r) ==
    /\ pc[r] = "reportsTorn"
    /\ reports' = read[r] /\ evidence' = Torn
    /\ Goto(r, "evidenceTorn")
    /\ UNCHANGED <<manifest, planFile, log, index, localVars, result, failures,
                   alone>>

FillEvidence(r) ==
    /\ pc[r] = "evidenceTorn"
    /\ evidence' = read[r]
    /\ result' = [result EXCEPT ![r] = read[r]]
    /\ Goto(r, "returned")
    /\ UNCHANGED <<manifest, planFile, log, index, reports, localVars, failures,
                   alone>>

\* A process dies between two steps, or one of its other writes fails.
Dies(r) ==
    /\ Active(r)
    /\ failures < MaxFailures /\ failures' = failures + 1
    /\ Goto(r, "dead")
    /\ alone' = [alone EXCEPT ![r] = FALSE]
    /\ UNCHANGED <<diskVars, localVars, result>>

-----------------------------------------------------------------------------
Init ==
    /\ manifest = None /\ planFile = None /\ log = <<>> /\ index = None
    /\ reports = None /\ evidence = None
    /\ pc = [r \in Runners |-> "idle"]
    /\ goal = [r \in Runners |-> "campaign"]
    /\ plan = [r \in Runners |-> <<>>]
    /\ done = [r \in Runners |-> {}]
    /\ appended = [r \in Runners |-> FALSE]
    /\ read = [r \in Runners |-> None]
    /\ result = [r \in Runners |-> None]
    /\ failures = 0
    /\ alone = [r \in Runners |-> FALSE]

Start(r) ==
    \E p \in Plans :
        \/ \E budget \in Policies : StartCampaign(r, p, budget)
        \/ StartResume(r, p)
        \/ \E t \in Elements(p) : StartAppend(r, p, t)

Step(r) ==
    \/ ReadRecords(r) \/ CheckStore(r)
    \/ WriteManifest(r) \/ FillManifest(r) \/ WritePlan(r) \/ FillPlan(r)
    \/ AppendRecord(r) \/ AppendFails(r)
    \/ UnlinkIndex(r) \/ Reconstruct(r) \/ WriteIndex(r) \/ FillIndex(r)
    \/ WriteReports(r) \/ FillReports(r) \/ FillEvidence(r)
    \/ Dies(r)

Next == \E r \in Runners : Start(r) \/ Step(r)

Spec == Init /\ [][Next]_vars

-----------------------------------------------------------------------------
(***************************************************************************)
(* Correctness.                                                            *)
(***************************************************************************)
PCs == {"idle", "reading", "next", "manifest", "manifestTorn", "plan",
        "planTorn", "appending", "resuming", "indexing", "indexTorn",
        "reporting", "reportsTorn", "evidenceTorn", "returned", "refused",
        "dead"}

TypeOK ==
    /\ manifest \in {None, Torn, "ok"} /\ planFile \in {None, Torn} \cup Plans
    /\ log \in Seq(Trials \cup {Torn})
    /\ {index, reports, evidence} \subseteq {None, Torn} \cup Indexes
    /\ pc \in [Runners -> PCs] /\ goal \in [Runners -> Goals]
    /\ plan \in [Runners -> Plans \cup {<<>>}]
    /\ done \in [Runners -> SUBSET Trials]
    /\ appended \in [Runners -> BOOLEAN]
    /\ read \in [Runners -> Indexes \cup {None}]
    /\ result \in [Runners -> Indexes \cup {None}]
    /\ failures \in 0..MaxFailures
    /\ alone \in [Runners -> BOOLEAN]

InLog(i) == Len(i.done) <= Len(log) /\ i.done = SubSeq(log, 1, Len(i.done))

\* What a campaign returns names each trial of its plan exactly once, and
\* the log holds these records, in this order and before any other -
\* whoever else has written to the store meanwhile.
ResultIsWhole ==
    \A r \in Runners : result[r] # None =>
        /\ InLog(result[r])
        /\ ~Repeats(result[r].done)
        /\ Elements(result[r].done) = Elements(plan[r])
        /\ result[r].pending = {}

\* An index, a report or a closure evidence that is not torn speaks of
\* records that are in the log.
IndexNeverAhead ==
    \A i \in {index, reports, evidence} \ {None, Torn} :
        InLog(i) /\ Torn \notin Elements(i.done)

\* Nothing a campaign hands on, as a result or in a file, is more than what
\* the log has kept, whoever dies or writes in between.
StoreIsHonest == ResultIsWhole /\ IndexNeverAhead

\* A report can be built of the records and the index of two runners that read
\* the store at different times and for different plans, or of records alone.
\* If it is accepted, its figures add up; an index made for the same plan is
\* the one of these very records, so that what is pending is what is missing;
\* and a budget that the preflight let pass still admits it.
ReportsAddUp ==
    \A a, b \in {r \in Runners : pc[r] = "returned" /\ read[r] # None} :
        \A i \in {read[b], None} :
            LET records == read[a].done IN
            ReportAccepted(plan[a], records, i) =>
                /\ AddsUp(plan[a], records, i)
                /\ i = None \/ Elements(plan[b]) = Elements(plan[a]) =>
                      /\ Pending(plan[a], records, i) = MissingPairs(plan[a], records)
                      /\ i # None => Elements(i.done) = Elements(records)
                /\ \A budget \in Policies : Preflight(plan[a], budget) =>
                      Admission(budget, ReportUsage(plan[a])) = "admitted"

\* A campaign that begins on a sound store, that does not die and that nobody
\* interferes with is never refused, and leaves a sound store behind whose
\* index is the one it returned; a partial index an earlier resume left does
\* not stand in its way.
LoneRunSucceeds ==
    \A r \in Runners : alone[r] =>
        /\ goal[r] = "campaign" => pc[r] # "refused"
        /\ pc[r] = "returned" /\ goal[r] = "campaign" =>
              Sound(plan[r]) /\ index = result[r]
=============================================================================
