--------------------------- MODULE PlanPublication ---------------------------
(***************************************************************************)
(* persist_compile_outputs: a prepared diagnostics report, the plan under  *)
(* its content address, then the committed report, all in one output       *)
(* directory that several compilers write at the same time.                *)
(*                                                                         *)
(* The directory has a current and a durable half: fsync of the directory  *)
(* makes its entries durable, and a power loss leaves any mixture of the   *)
(* two.  The bytes of a file are durable when it gets its name, because    *)
(* the temporary file is fsynced first.                                    *)
(***************************************************************************)
EXTENDS Naturals

CONSTANTS
    Compilers,   \* calls of the compiler that share the output directory
    Requests,    \* request identities
    Plans,       \* compiled plans, each with a destination of its own
    RequestOf,   \* compiler -> the request it serves
    PlanOf,      \* compiler -> the plan it lowered that request to
    Foreign,     \* bytes at a destination that are not the plan's
    MaxRuns,     \* bound on the times a compiler is run
    MaxLosses,   \* bound on the power losses
    None         \* "no value"

ASSUME PublicationAssumption ==
    /\ RequestOf \in [Compilers -> Requests]
    /\ PlanOf \in [Compilers -> Plans]
    /\ MaxRuns \in Nat /\ MaxLosses \in Nat
    /\ Foreign \notin Plans
    /\ None \notin Plans \cup {Foreign}
    /\ None \notin {"published", "reused", "conflict", "error"}

VARIABLES
    pc,          \* where each compiler stands
    stage,       \* which diagnostics report it writes
    publish,     \* its _PublishOutcome.result, or "error"
    unclean,     \* its temporary plan file could not be removed
    result,      \* the HarnessCompileResult it returned
    plans,       \* directory entries of the plans, each half
    reports,     \* directory entries of the reports, each half
    temps,       \* temporary files, <<compiler, run, kind>>
    runs,        \* runs of each compiler so far
    losses       \* power losses so far

callVars == <<stage, publish, unclean, result>>
dirVars == <<plans, reports, temps>>
vars == <<pc, callVars, dirVars, runs, losses>>

-----------------------------------------------------------------------------
Halves == {"current", "durable"}

\* Names in the directory: the plan's content address, and the report
\* addressed by plan digest and request.
Dest(c) == PlanOf[c]
ReportName(c) == <<RequestOf[c], PlanOf[c]>>
ReportNames == Requests \X Plans

Result(status, certainty, report) ==
    [status |-> status, certainty |-> certainty, report |-> report]

\* What the report of a stage says; it is also what the call returns when
\* the last two of them are written.
ReportAt ==
    [prepare    |-> Result("prepared", "absent", "prepared"),
     durability |-> Result("failed", "unknown", "committed"),
     commit     |-> Result("committed", "committed", "committed")]

Stages == DOMAIN ReportAt

\* What the call returns when the report of a stage cannot be written.
ReportFailure ==
    [prepare    |-> Result("failed", "absent", "absent"),
     durability |-> Result("failed", "unknown", "unknown"),
     commit     |-> Result("prepared", "committed", "unknown")]

Init ==
    /\ pc = [c \in Compilers |-> "idle"]
    /\ stage = [c \in Compilers |-> "prepare"]
    /\ publish = [c \in Compilers |-> None]
    /\ unclean = [c \in Compilers |-> FALSE]
    /\ result = [c \in Compilers |-> None]
    /\ \E there \in [Plans -> {None, Foreign}] :
          plans = [h \in Halves |-> there]
    /\ reports = [h \in Halves |-> [r \in ReportNames |-> None]]
    /\ temps = {}
    /\ runs = [c \in Compilers |-> 0]
    /\ losses = 0

Goto(c, label) == pc' = [pc EXCEPT ![c] = label]

Return(c, r) ==
    /\ Goto(c, "returned")
    /\ result' = [result EXCEPT ![c] = r]

\* Write the report of a stage next.
WriteReport(c, s) ==
    /\ Goto(c, "report_temp")
    /\ stage' = [stage EXCEPT ![c] = s]

\* The directory is admitted and still the one that was admitted.
Start(c) ==
    /\ pc[c] \in {"idle", "returned", "dead"}
    /\ runs[c] < MaxRuns
    /\ runs' = [runs EXCEPT ![c] = @ + 1]
    /\ publish' = [publish EXCEPT ![c] = None]
    /\ unclean' = [unclean EXCEPT ![c] = FALSE]
    /\ \/ Return(c, Result("failed", "absent", "absent")) /\ UNCHANGED stage
       \/ /\ WriteReport(c, "prepare")
          /\ result' = [result EXCEPT ![c] = None]
    /\ UNCHANGED <<dirVars, losses>>

(***************************************************************************)
(* _write_diagnostics_report: exclusive temporary file, replace, fsync of  *)
(* the directory.                                                          *)
(***************************************************************************)
\* Temporary names are random: no run meets those of another.
Temp(c, kind) == <<c, runs[c], kind>>

\* The temporary file, if there is one by then, is removed; a failure to
\* remove it is not looked at.
ReportFails(c) ==
    /\ Return(c, ReportFailure[stage[c]])
    /\ temps' \in {temps \ {Temp(c, "report")}}
                  \cup (IF pc[c] = "report_sync" THEN {}
                        ELSE {temps \cup {Temp(c, "report")}})
    /\ UNCHANGED <<stage, publish, unclean, plans, reports, runs, losses>>

WriteReportTemp(c) ==
    /\ pc[c] = "report_temp"
    /\ \/ /\ temps' = temps \cup {Temp(c, "report")}
          /\ Goto(c, "report_replace")
          /\ UNCHANGED <<callVars, plans, reports, runs, losses>>
       \/ ReportFails(c)

\* Mutant: a report that exists is kept.
KeepReport(c) ==
    /\ pc[c] = "report_replace"
    /\ \/ /\ reports' = [reports EXCEPT !["current"][ReportName(c)] =
                            IF @ = None THEN ReportAt[stage[c]] ELSE @]
          /\ temps' = temps \ {Temp(c, "report")}
          /\ Goto(c, "report_sync")
          /\ UNCHANGED <<callVars, plans, runs, losses>>
       \/ ReportFails(c)

ReplaceReport(c) ==
    /\ pc[c] = "report_replace"
    /\ \/ /\ reports' = [reports EXCEPT
                !["current"][ReportName(c)] = ReportAt[stage[c]]]
          /\ temps' = temps \ {Temp(c, "report")}
          /\ Goto(c, "report_sync")
          /\ UNCHANGED <<callVars, plans, runs, losses>>
       \/ ReportFails(c)

\* _fsync_directory.
Sync ==
    /\ plans' = [h \in Halves |-> plans["current"]]
    /\ reports' = [h \in Halves |-> reports["current"]]

SyncReport(c) ==
    /\ pc[c] = "report_sync"
    /\ \/ /\ Sync
          /\ IF stage[c] = "prepare"
             THEN Goto(c, "plan_temp") /\ UNCHANGED result
             ELSE Return(c, ReportAt[stage[c]])
          /\ UNCHANGED <<stage, publish, unclean, temps, runs, losses>>
       \/ ReportFails(c)

(***************************************************************************)
(* The size check and _publish_content_addressed_file.                     *)
(***************************************************************************)
PlanFailure(certainty) == Result("failed", certainty, "prepared")

WritePlanTemp(c) ==
    /\ pc[c] = "plan_temp"
    /\ \/ \* the plan is too large, or its temporary name is taken
          /\ Return(c, PlanFailure("absent"))
          /\ UNCHANGED <<publish, temps>>
       \/ /\ temps' = temps \cup {Temp(c, "plan")}
          /\ Goto(c, "plan_link")
          /\ UNCHANGED <<publish, result>>
       \/ /\ temps' \in {temps, temps \cup {Temp(c, "plan")}}
          /\ publish' = [publish EXCEPT ![c] = "error"]
          /\ Goto(c, "plan_unlink")
          /\ UNCHANGED result
    /\ UNCHANGED <<stage, unclean, plans, reports, runs, losses>>

Linkable(c) == plans["current"][Dest(c)] = None

\* os.link fails if the destination exists; then its bytes are compared, and
\* a destination that cannot be read counts as different.
LinkPlan(c) ==
    /\ pc[c] = "plan_link"
    /\ \/ /\ Linkable(c)
          /\ plans' = [plans EXCEPT !["current"][Dest(c)] = PlanOf[c]]
          /\ publish' = [publish EXCEPT ![c] = "published"]
       \/ /\ ~Linkable(c)
          /\ publish' \in {[publish EXCEPT ![c] = outcome] : outcome \in
                {"conflict"} \cup (IF plans["current"][Dest(c)] = PlanOf[c]
                                   THEN {"reused"} ELSE {})}
          /\ UNCHANGED plans
       \/ /\ publish' = [publish EXCEPT ![c] = "error"]
          /\ UNCHANGED plans
    /\ Goto(c, "plan_unlink")
    /\ UNCHANGED <<stage, unclean, result, reports, temps, runs, losses>>

\* The certainty of a plan that was published but not cleaned up.
\* Mutant: the failure is taken to mean that nothing was published.
UncleanIsAbsent == "absent"
UncleanCertainty == "unknown"

UnlinkPlanTemp(c) ==
    /\ pc[c] = "plan_unlink"
    /\ \E failed \in BOOLEAN :
        /\ temps' = IF failed THEN temps ELSE temps \ {Temp(c, "plan")}
        /\ unclean' = [unclean EXCEPT ![c] = failed]
        /\ IF publish[c] \in {"conflict", "error"}
           THEN Return(c, PlanFailure("absent"))
           ELSE IF failed THEN Return(c, PlanFailure(UncleanCertainty))
           ELSE Goto(c, "confirm") /\ UNCHANGED result
    /\ UNCHANGED <<stage, publish, plans, reports, runs, losses>>

(***************************************************************************)
(* The publication is confirmed: the destination is read again and the     *)
(* directory is fsynced; otherwise the durability report is written.       *)
(***************************************************************************)
Confirm(c) ==
    /\ pc[c] = "confirm"
    /\ \/ /\ plans["current"][Dest(c)] = PlanOf[c]
          /\ Goto(c, "plan_sync") /\ UNCHANGED stage
       \/ WriteReport(c, "durability")
    /\ UNCHANGED <<publish, unclean, result, dirVars, runs, losses>>

SyncPlan(c) ==
    /\ pc[c] = "plan_sync"
    /\ \/ Sync /\ WriteReport(c, "commit")
       \/ WriteReport(c, "durability") /\ UNCHANGED <<plans, reports>>
    /\ UNCHANGED <<publish, unclean, result, temps, runs, losses>>

(***************************************************************************)
(* A compiler dies, or all of them and the machine.                        *)
(***************************************************************************)
Running(c) == pc[c] \notin {"idle", "returned", "dead"}

Kill(c) ==
    /\ Running(c)
    /\ Goto(c, "dead")
    /\ UNCHANGED <<callVars, dirVars, runs, losses>>

\* Each directory entry that is not durable may or may not survive.
Survivors(dir) ==
    {[h \in Halves |-> [n \in DOMAIN dir[h] |-> dir[pick[n]][n]]] :
        pick \in [DOMAIN dir["current"] -> Halves]}

PowerLoss ==
    /\ losses < MaxLosses /\ losses' = losses + 1
    /\ pc' = [c \in Compilers |-> IF Running(c) THEN "dead" ELSE pc[c]]
    /\ plans' \in Survivors(plans)
    /\ reports' \in Survivors(reports)
    /\ temps' \in SUBSET temps
    /\ UNCHANGED <<callVars, runs>>

Step(c) == \/ WriteReportTemp(c) \/ ReplaceReport(c) \/ SyncReport(c)
           \/ WritePlanTemp(c) \/ LinkPlan(c) \/ UnlinkPlanTemp(c)
           \/ Confirm(c) \/ SyncPlan(c)

Done == /\ \A c \in Compilers : ~Running(c) /\ runs[c] = MaxRuns
        /\ UNCHANGED vars

Next == \/ \E c \in Compilers : Start(c) \/ Step(c) \/ Kill(c)
        \/ PowerLoss
        \/ Done

Spec == Init /\ [][Next]_vars

-----------------------------------------------------------------------------
(* Properties.                                                             *)

Results == {ReportAt[s] : s \in Stages} \cup {ReportFailure[s] : s \in Stages}
           \cup {PlanFailure(certainty) : certainty \in {"absent", "unknown"}}

TypeOK ==
    /\ pc \in [Compilers -> {"idle", "report_temp", "report_replace",
                  "report_sync", "plan_temp", "plan_link", "plan_unlink",
                  "confirm", "plan_sync", "returned", "dead"}]
    /\ stage \in [Compilers -> Stages]
    /\ publish \in [Compilers ->
          {None, "published", "reused", "conflict", "error"}]
    /\ unclean \in [Compilers -> BOOLEAN]
    /\ result \in [Compilers -> Results \cup {None}]
    /\ plans \in [Halves -> [Plans -> Plans \cup {None, Foreign}]]
    /\ reports \in [Halves -> [ReportNames -> Results \cup {None}]]
    /\ temps \subseteq Compilers \X (1..MaxRuns) \X {"report", "plan"}
    /\ runs \in [Compilers -> 0..MaxRuns] /\ losses \in 0..MaxLosses

\* A destination only ever holds the bytes it was made with: no publication,
\* failure or crash changes or removes a durable plan, its own or another's.
DurablePlansStay ==
    [][\A p \in Plans : plans["durable"][p] # None =>
           plans'["durable"][p] = plans["durable"][p]
           /\ plans'["current"][p] = plans["durable"][p]]_vars

\* The certainty of a result can be believed: COMMITTED plans survive any
\* crash from then on, and ABSENT means that the call published nothing.
CertaintyIsHonest ==
    \A c \in Compilers : pc[c] = "returned" =>
        /\ result[c].certainty = "committed"
              => plans["durable"][Dest(c)] = PlanOf[c]
        /\ result[c].certainty = "absent" => publish[c] # "published"

\* A report that claims a committed plan is never ahead of the plan, not
\* even in what a crash leaves of the directory.
ReportNeverAhead ==
    \A h \in Halves, r \in ReportNames :
        reports[h][r] # None /\ reports[h][r].certainty = "committed"
            => plans["durable"][r[2]] = r[2]

\* When every compiler of a report returned COMMITTED, so does the report:
\* no late prepared report of one overwrites the committed one of another.
CommittedReportsSettle ==
    \A c \in Compilers :
        (\A d \in Compilers : ReportName(d) = ReportName(c) =>
             pc[d] = "returned" /\ result[d].status = "committed")
        => reports["durable"][ReportName(c)] = ReportAt["commit"]

=============================================================================
