----------------------------- MODULE EvalReports -----------------------------
(***************************************************************************)
(* The report of a paired campaign: build_eval_report_payload, of planned  *)
(* trials, the records it is given and, perhaps, a resume index, and the   *)
(* budget that admits the campaign.  Nothing here has state; CampaignStore *)
(* builds reports from what its runners have read.                         *)
(*                                                                         *)
(* A record is its trial, which stands for its plan, its fixture and the   *)
(* results of its two arms.  A metric is a count out of a number; its rate *)
(* follows from them.  Offline records carry no model usage, so the        *)
(* metrics of usage and cost, all zero, are left out, and so are the       *)
(* manual taxonomy, the confounds and the Markdown rendering.              *)
(***************************************************************************)
EXTENDS Naturals, Sequences, FiniteSetsExt

CONSTANTS
    Trials,
    CategoryOf,   \* trial -> task category
    ResultOf,     \* trial -> arm -> scorer result
    ArtifactsOf,  \* trial -> number of artifacts, for the resource metrics
    Policies,     \* budget policies
    MinSample,    \* 30: fewer results are only described
    None

Arms == {"pi", "millforge"}
Outcomes == {"valid_completion", "false_closure", "correctly_blocked",
             "false_blocked", "runtime_failure", "provider_failure",
             "invalid_trial"}
FailureLabels == {"missing", "malformed", "unsupported", "capability",
                  "provider", "infrastructure", "visible"}

Results == [outcome : Outcomes, primary : BOOLEAN, complete : BOOLEAN,
            capability : BOOLEAN, falseSuccess : BOOLEAN,
            labels : SUBSET FailureLabels]

Ceilings == {"spend", "prompt", "completion", "calls", "retries", "seconds",
             "trials"}

ASSUME ReportAssumption ==
    /\ DOMAIN CategoryOf = Trials /\ ArtifactsOf \in [Trials -> Nat]
    /\ ResultOf \in [Trials -> [Arms -> Results]]
    /\ \A t \in Trials, arm \in Arms :
          LET r == ResultOf[t][arm] IN
          /\ r.primary => r.outcome = "valid_completion"
          /\ "capability" \in r.labels => r.capability
    /\ \A b \in Policies :
          b.zeroCost \in BOOLEAN /\ b.max \in [Ceilings -> Nat \cup {None}]
    /\ MinSample \in Nat \ {0} /\ None \notin Nat

Elements(s) == {s[i] : i \in 1..Len(s)}
Repeats(s) == \E i, j \in 1..Len(s) : i < j /\ s[i] = s[j]

-----------------------------------------------------------------------------
(***************************************************************************)
(* The budget of an offline campaign: complete, free of charge, and not    *)
(* exceeded.  The preflight counts the trials of both arms, the report the *)
(* pairs.                                                                  *)
(***************************************************************************)
NoUsage(trials) == [c \in Ceilings |-> IF c = "trials" THEN trials ELSE 0]
PreflightUsage(plans) == NoUsage(2 * Len(plans))
ReportUsage(plans) == NoUsage(Len(plans))

Bounded(b) == \A c \in Ceilings \ {"spend"} : b.max[c] # None
Exceeded(b, usage) == {c \in Ceilings : b.max[c] # None /\ usage[c] > b.max[c]}

BudgetValid(b, usage) ==
    /\ Bounded(b) /\ b.zeroCost /\ b.max["spend"] = 0
    /\ Exceeded(b, usage) = {}

Admission(b, usage) == IF BudgetValid(b, usage) THEN "admitted" ELSE "denied"

-----------------------------------------------------------------------------
(***************************************************************************)
(* The inputs that a report is refused for.  An index comes as the records *)
(* it calls completed and the plans it calls pending.  Nothing is refused  *)
(* for a record that comes twice, nor for a plan the index does not name.  *)
(***************************************************************************)
\* Mutant: records newer than the index are not noticed.
IndexAgreesLoosely(plans, records, index) ==
    /\ Elements(index.done) \subseteq Elements(records)
    /\ index.pending \subseteq Elements(plans)

IndexAgrees(plans, records, index) ==
    /\ Elements(index.done) \subseteq Elements(records)
    /\ index.pending \subseteq Elements(plans)
    /\ index.pending \cap Elements(records) = {}

InputsAccepted(plans, records, index) ==
    /\ plans # <<>> /\ ~Repeats(plans)
    /\ Elements(records) \subseteq Elements(plans)
    /\ index # None => IndexAgrees(plans, records, index)

-----------------------------------------------------------------------------
(***************************************************************************)
(* Metrics.                                                                *)
(***************************************************************************)
Metric(count, of) == [count |-> count, of |-> of]
MetricValid(m) == m.count <= m.of

\* Two groups of metrics, by their identifiers.
Both(f, g) ==
    [id \in DOMAIN f \cup DOMAIN g |-> IF id \in DOMAIN f THEN f[id] ELSE g[id]]

\* The results of the given arms in some records.
Of(records, arms) ==
    {[i |-> i, result |-> ResultOf[records[i]][arm], arm |-> arm] :
        i \in 1..Len(records), arm \in arms}

\* Those that are of the trials T.
OfTrials(records, T, arms) == {x \in Of(records, arms) : records[x.i] \in T}

Positions(s, T) == {i \in 1..Len(s) : s[i] \in T}

\* The sum of a function's values.
Total(f) == MapThenSumSet(LAMBDA x : f[x], DOMAIN f)

WithOutcome(results, outcome) ==
    Cardinality({x \in results : x.result.outcome = outcome})
Successes(results) == Cardinality({x \in results : x.result.primary})
Complete(results) == Cardinality({x \in results : x.result.complete})

MissingPairs(plans, records) == Elements(plans) \ Elements(records)

Pending(plans, records, index) ==
    IF index = None THEN Elements(plans) \ Elements(records)
    ELSE index.pending \cap Elements(plans)

\* _primary_metrics
PrimaryMetrics(plans, records, index) ==
    LET all == Of(records, Arms)
        appended == 2 * Len(records)
        planned == 2 * Len(plans)
        pairs == Len(plans)
        pending == Metric(Cardinality(Pending(plans, records, index)), pairs)
    IN  Both([o \in Outcomes |->
                Metric(WithOutcome(all, o),
                       IF o \in {"runtime_failure", "provider_failure"}
                       THEN planned ELSE appended)],
             [false_success |->
                Metric(Cardinality({x \in all : x.result.falseSuccess}), appended),
              artifact_complete |-> Metric(Complete(all), appended),
              capability_violation |->
                Metric(Cardinality({x \in all : x.result.capability}), appended),
              missing_pair |->
                Metric(Cardinality(MissingPairs(plans, records)), pairs),
              pending_trial |-> pending,
              incomplete_trial |-> pending])

\* _arm_summaries
ArmMetrics(plans, records) ==
    [arm \in Arms |->
        LET own == Of(records, {arm})
        IN  Both([o \in {"valid_completion", "invalid_trial",
                         "runtime_failure", "provider_failure"} |->
                    Metric(WithOutcome(own, o),
                           IF o \in {"runtime_failure", "provider_failure"}
                           THEN Len(plans) ELSE Cardinality(own))],
                 [artifact_complete |-> Metric(Complete(own), Cardinality(own))])]

\* _task_summaries: of two records of a trial, one counts.
TaskMetrics(plans, records) ==
    [t \in Elements(plans) |->
        LET there == t \in Elements(records)
            own == IF there THEN Of(<<t>>, Arms) ELSE {}
        IN  [valid_completion |-> Metric(Successes(own), Cardinality(own)),
             invalid_trial |->
                Metric(WithOutcome(own, "invalid_trial"), Cardinality(own)),
             incomplete_trial |-> Metric(IF there THEN 0 ELSE 1, 1),
             artifacts |-> IF there THEN ArtifactsOf[t] ELSE 0]]

Category(c) == {t \in Trials : CategoryOf[t] = c}

\* _category_summaries: the records count, however often they come.
CategoryMetrics(plans, records) ==
    [c \in {CategoryOf[t] : t \in Elements(plans) \cup Elements(records)} |->
        LET own == OfTrials(records, Category(c), Arms)
            planned == Cardinality(Positions(plans, Category(c)))
            recorded == Cardinality(Positions(records, Category(c)))
        IN  [valid_completion |->
                Metric(WithOutcome(own, "valid_completion"), Cardinality(own)),
             invalid_trial |->
                Metric(WithOutcome(own, "invalid_trial"), Cardinality(own)),
             incomplete_trial |->
                Metric(IF recorded > planned THEN 0 ELSE planned - recorded, planned)]]

\* _paired_comparisons
Paired(plans, records) ==
    LET done == Elements(records)
    IN  [left |-> Successes(OfTrials(plans, done, {"pi"})),
         right |-> Successes(OfTrials(plans, done, {"millforge"})),
         of |-> Cardinality(Positions(plans, done)),
         missing |-> Cardinality(MissingPairs(plans, records))]

\* _resource_usage_metrics
ArtifactCount(records) == Total([i \in 1..Len(records) |-> ArtifactsOf[records[i]]])

-----------------------------------------------------------------------------
(***************************************************************************)
(* Statistics, decision rules and the failure taxonomy.                    *)
(***************************************************************************)
\* A Wilson interval is given, and the summary is more than descriptive.
IntervalGiven(m) == m.of >= MinSample

\* The rule on false closures only describes a small sample.
FalseClosureRule(metrics) ==
    LET m == metrics["false_closure"]
    IN  IF m.of < MinSample THEN "descriptive_only"
        ELSE IF m.count = 0 THEN "passed" ELSE "failed"

\* The abort rule does not: without records it passes.
AbortRule(metrics) ==
    IF \E id \in {"false_closure", "capability_violation", "invalid_trial"} :
          metrics[id].count > 0
    THEN "failed" ELSE "passed"

\* The labels that have a category; a failed visible check has none.
Categorised == FailureLabels \ {"visible"}
TaxonomyCount(records, label) ==
    IF label \notin Categorised THEN 0
    ELSE Cardinality({x \in Of(records, Arms) : label \in x.result.labels})

-----------------------------------------------------------------------------
\* The report is built: its inputs are accepted, and so are its metrics.
ReportAccepted(plans, records, index) ==
    /\ InputsAccepted(plans, records, index)
    /\ LET metrics == PrimaryMetrics(plans, records, index)
       IN  \A id \in DOMAIN metrics : MetricValid(metrics[id])
    /\ LET arms == ArmMetrics(plans, records)
       IN  \A arm \in Arms : \A id \in DOMAIN arms[arm] : MetricValid(arms[arm][id])

-----------------------------------------------------------------------------
(***************************************************************************)
(* What a report of records without repetition says adds up, whatever its  *)
(* summaries count separately.                                             *)
(***************************************************************************)
AddsUp(plans, records, index) ==
    LET metrics == PrimaryMetrics(plans, records, index)
        arms == ArmMetrics(plans, records)
        tasks == TaskMetrics(plans, records)
        categories == CategoryMetrics(plans, records)
        pair == Paired(plans, records)
        ByArm(id) == Total([arm \in Arms |-> arms[arm][id].count])
        ByTask(id) == Total([t \in DOMAIN tasks |-> tasks[t][id].count])
        ByCategory(id) == Total([c \in DOMAIN categories |-> categories[c][id].count])
        missing == metrics["missing_pair"].count
    IN  /\ \A id \in DOMAIN arms["pi"] :
              /\ ByArm(id) = metrics[id].count
              /\ arms["pi"][id].of + arms["millforge"][id].of = metrics[id].of
        /\ ByCategory("valid_completion") = metrics["valid_completion"].count
        /\ ByCategory("invalid_trial") = metrics["invalid_trial"].count
        /\ ByTask("invalid_trial") = metrics["invalid_trial"].count
        /\ ByCategory("incomplete_trial") = missing
        /\ ByTask("incomplete_trial") = missing
        /\ pair.missing = missing /\ pair.of + missing = Len(plans)
        \* tasks and pairs count successes, the others valid completions
        /\ ByTask("valid_completion") = pair.left + pair.right
        /\ ByTask("valid_completion") <= metrics["valid_completion"].count
        /\ Total([t \in DOMAIN tasks |-> tasks[t].artifacts]) = ArtifactCount(records)
        /\ metrics["pending_trial"].count <= missing
        \* what is left undecided is what gets no interval
        /\ FalseClosureRule(metrics) = "descriptive_only" <=>
              ~IntervalGiven(metrics["false_closure"])
        /\ FalseClosureRule(metrics) = "failed" => AbortRule(metrics) = "failed"
        /\ TaxonomyCount(records, "capability") <= metrics["capability_violation"].count
=============================================================================
