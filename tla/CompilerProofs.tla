--------------------------- MODULE CompilerProofs ---------------------------
(***************************************************************************)
(* What a compile result and a diagnostics report claim is true of the     *)
(* directory, for any number of compilers, plans, requests, runs and power *)
(* losses.  Everything rests on one fact: a durable plan is never changed  *)
(* again, because os.link does not replace a name and a half that survives *)
(* a power loss agrees with the durable one.                               *)
(*                                                                         *)
(* Then that a compiler parses a snapshot of its source, for any number of *)
(* writes of others meanwhile.                                             *)
(***************************************************************************)
EXTENDS PlanPublication, SourceAdmission, SequenceTheorems, TLAPS

Bytes == Plans \cup {None, Foreign}

\* A name holds its own plan, foreign bytes or nothing, and what is durable
\* is also current.
DirInv ==
    /\ plans \in [Halves -> [Plans -> Bytes]]
    /\ \A h \in Halves, p \in Plans : plans[h][p] \in Plans => plans[h][p] = p
    /\ \A p \in Plans : plans["durable"][p] # None =>
          plans["current"][p] = plans["durable"][p]

Reporting == {"report_temp", "report_replace", "report_sync"}

PlanDurable(c) == plans["durable"][Dest(c)] = PlanOf[c]

\* What a call knows where it stands: that it published nothing yet, that its
\* plan is in place, or that it is durable.
CallInv(c) ==
    /\ stage[c] \in Stages
    /\ pc[c] \in Reporting /\ stage[c] = "prepare" => publish[c] = None
    /\ pc[c] \in {"plan_temp", "plan_link"} => publish[c] = None
    /\ pc[c] = "plan_sync" => plans["current"][Dest(c)] = PlanOf[c]
    /\ pc[c] \in Reporting /\ stage[c] = "commit" => PlanDurable(c)
    /\ pc[c] = "returned" =>
          /\ result[c].certainty = "committed" => PlanDurable(c)
          /\ result[c].certainty = "absent" => publish[c] # "published"

\* The variables that hold one value for each compiler or report.
ShapeInv ==
    /\ pc = [c \in Compilers |-> pc[c]]
    /\ stage = [c \in Compilers |-> stage[c]]
    /\ publish = [c \in Compilers |-> publish[c]]
    /\ result = [c \in Compilers |-> result[c]]
    /\ reports \in [Halves -> [ReportNames -> Results \cup {None}]]

IInv ==
    /\ DirInv
    /\ ShapeInv
    /\ \A c \in Compilers : CallInv(c)
    /\ ReportNeverAhead

\* No durable plan changes, and what is durable is current.
PlansStay ==
    \A p \in Plans : plans["durable"][p] # None =>
        plans'["durable"][p] = plans["durable"][p]
        /\ plans'["current"][p] = plans["durable"][p]

\* A plan in place stays in place, but for a power loss.
PlansStand ==
    \A p \in Plans : plans["current"][p] # None =>
        plans'["current"][p] = plans["current"][p]

-----------------------------------------------------------------------------
(* The directory.                                                          *)

\* The two halves.
LEMMA HalfNames == "current" \in Halves /\ "durable" \in Halves
BY DEF Halves

\* Every step keeps the directory in order and the durable plans in place.
LEMMA DirStep ==
    ASSUME DirInv, ShapeInv, [Next]_vars
    PROVE  DirInv' /\ PlansStay
<1> USE PublicationAssumption, HalfNames DEF DirInv, PlansStay, Bytes
<1>1. CASE UNCHANGED plans
  BY <1>1
<1>2. CASE plans' = [h \in Halves |-> plans["current"]]
  BY <1>2
<1>3. ASSUME NEW c \in Compilers, Linkable(c),
             plans' = [plans EXCEPT !["current"][Dest(c)] = PlanOf[c]]
      PROVE  DirInv' /\ PlansStay
  <2>1. PlanOf[c] \in Plans /\ Dest(c) = PlanOf[c]
    BY DEF Dest
  <2>2. plans["durable"][Dest(c)] = None
    BY <1>3, <2>1 DEF Linkable
  <2> QED
    BY <1>3, <2>1, <2>2 DEF Halves
<1>4. CASE plans' \in Survivors(plans)
  <2>1. PICK pick \in [Plans -> Halves] :
          plans' = [h \in Halves |-> [n \in Plans |-> plans[pick[n]][n]]]
    <3>1. /\ DOMAIN plans["current"] = Plans
          /\ \A h \in Halves : DOMAIN plans[h] = Plans
      OBVIOUS
    <3>2. PICK pick \in [DOMAIN plans["current"] -> Halves] :
            plans' = [h \in Halves |-> [n \in DOMAIN plans[h] |-> plans[pick[n]][n]]]
      BY <1>4, Zenon DEF Survivors
    <3> QED
      BY <3>1, <3>2, SMTT(30)
  <2>2. ASSUME NEW n \in Plans
        PROVE  /\ plans[pick[n]][n] \in {plans["current"][n], plans["durable"][n]}
               /\ plans[pick[n]][n] \in Plans \cup {None, Foreign}
               /\ plans[pick[n]][n] \in Plans => plans[pick[n]][n] = n
    BY DEF Halves
  <2>3. \A h \in Halves, n \in Plans : plans'[h][n] = plans[pick[n]][n]
    BY <2>1
  <2>4. plans' \in [Halves -> [Plans -> Plans \cup {None, Foreign}]]
    BY <2>1, <2>2
  <2> QED
    BY <2>2, <2>3, <2>4
<1>5. ASSUME NEW c \in Compilers, Start(c) \/ Step(c) \/ Kill(c)
      PROVE  DirInv' /\ PlansStay
  BY <1>1, <1>2, <1>3, <1>5
     DEF Start, Step, Kill, WriteReportTemp, ReplaceReport, SyncReport, ReportFails,
         WritePlanTemp, LinkPlan, UnlinkPlanTemp, Confirm, SyncPlan, Sync, dirVars
<1> QED
  BY <1>1, <1>4, <1>5 DEF Next, PowerLoss, Done, vars, dirVars

-----------------------------------------------------------------------------
(* The calls.                                                              *)

\* What does not depend on the directory is kept by a step of another call;
\* durable plans stay, and a plan in place stands until power is lost.
LEMMA OtherCall ==
    ASSUME DirInv, PlansStay, PlansStand, NEW d \in Compilers, CallInv(d),
           pc'[d] = pc[d], stage'[d] = stage[d], publish'[d] = publish[d],
           result'[d] = result[d]
    PROVE  CallInv(d)'
<1>1. Dest(d) \in Plans /\ PlanOf[d] \in Plans /\ Dest(d) = PlanOf[d] /\ PlanOf[d] # None
  BY PublicationAssumption DEF Dest
<1> QED
  BY <1>1 DEF CallInv, PlanDurable, PlansStay, PlansStand, Dest

\* The plans of PlanOf, and what the stages report.
LEMMA PlanFacts ==
    ASSUME NEW c \in Compilers
    PROVE  /\ Dest(c) = PlanOf[c] /\ PlanOf[c] \in Plans /\ PlanOf[c] # None
           /\ ReportName(c) = <<RequestOf[c], PlanOf[c]>>
           /\ ReportName(c) \in ReportNames
BY PublicationAssumption DEF Dest, ReportName, ReportNames

\* What the three reports, and the failures to write them, claim.
LEMMA Claims ==
    /\ Stages = {"prepare", "durability", "commit"}
    /\ \A s \in Stages :
          /\ ReportAt[s].certainty = "committed" <=> s = "commit"
          /\ ReportAt[s].certainty = "absent" <=> s = "prepare"
          /\ ReportFailure[s].certainty = "committed" <=> s = "commit"
          /\ ReportFailure[s].certainty = "absent" <=> s = "prepare"
    /\ \A certainty : PlanFailure(certainty).certainty = certainty
BY DEF Stages, ReportAt, ReportFailure, PlanFailure, Result

\* Nothing but a power loss takes a plan away.
LEMMA StandStep ==
    ASSUME DirInv, NEW c \in Compilers, Start(c) \/ Step(c) \/ Kill(c)
    PROVE  PlansStand
<1> USE HalfNames DEF DirInv, Bytes, PlansStand
<1>1. CASE UNCHANGED plans
  BY <1>1
<1>2. CASE plans' = [h \in Halves |-> plans["current"]]
  BY <1>2
<1>3. CASE Linkable(c) /\ plans' = [plans EXCEPT !["current"][Dest(c)] = PlanOf[c]]
  BY <1>3, PlanFacts DEF Linkable
<1> QED
  BY <1>1, <1>2, <1>3
     DEF Start, Step, Kill, WriteReportTemp, ReplaceReport, SyncReport, ReportFails,
         WritePlanTemp, LinkPlan, UnlinkPlanTemp, Confirm, SyncPlan, Sync, dirVars

\* A call steps alone.
LEMMA StepsAlone ==
    ASSUME ShapeInv, NEW c \in Compilers, Start(c) \/ Step(c) \/ Kill(c)
    PROVE  \A d \in Compilers \ {c} :
              /\ pc'[d] = pc[d] /\ stage'[d] = stage[d]
              /\ publish'[d] = publish[d] /\ result'[d] = result[d]
<1> USE DEF ShapeInv, callVars, Goto, Return, WriteReport
<1>1. CASE Start(c) \/ Kill(c)
  BY <1>1 DEF Start, Kill
<1>2. CASE WriteReportTemp(c) \/ ReplaceReport(c) \/ SyncReport(c)
  BY <1>2 DEF WriteReportTemp, ReplaceReport, SyncReport, ReportFails
<1>3. CASE WritePlanTemp(c) \/ LinkPlan(c) \/ UnlinkPlanTemp(c)
  BY <1>3 DEF WritePlanTemp, LinkPlan, UnlinkPlanTemp
<1>4. CASE Confirm(c) \/ SyncPlan(c)
  BY <1>4 DEF Confirm, SyncPlan
<1> QED
  BY <1>1, <1>2, <1>3, <1>4 DEF Step

\* A call keeps what is said of it.
LEMMA OwnCall ==
    ASSUME DirInv, ShapeInv, PlansStay, NEW c \in Compilers, CallInv(c),
           Start(c) \/ Step(c) \/ Kill(c)
    PROVE  CallInv(c)'
<1> USE PlanFacts, Claims, PublicationAssumption, HalfNames
<1> USE DEF ShapeInv, DirInv, Bytes, CallInv, PlanDurable, Reporting, PlansStay,
            callVars, dirVars, Goto, Return, WriteReport, Dest
<1>1. CASE Start(c)
  BY <1>1 DEF Start, Result
<1>2. CASE Kill(c)
  BY <1>2 DEF Kill
<1>3. ASSUME ReportFails(c), pc[c] \in Reporting
      PROVE  CallInv(c)'
  BY <1>3 DEF ReportFails
<1>4. CASE WriteReportTemp(c)
  BY <1>3, <1>4 DEF WriteReportTemp
<1>5. CASE ReplaceReport(c)
  BY <1>3, <1>5 DEF ReplaceReport
<1>6. CASE SyncReport(c)
  BY <1>3, <1>6 DEF SyncReport, Sync
<1>7. CASE WritePlanTemp(c)
  BY <1>7 DEF WritePlanTemp
<1>8. CASE LinkPlan(c)
  BY <1>8 DEF LinkPlan
<1>9. CASE UnlinkPlanTemp(c)
  BY <1>9 DEF UnlinkPlanTemp, UncleanCertainty
<1>10. CASE Confirm(c)
  BY <1>10 DEF Confirm
<1>11. CASE SyncPlan(c)
  BY <1>11 DEF SyncPlan, Sync
<1> QED
  BY <1>1, <1>2, <1>4, <1>5, <1>6, <1>7, <1>8, <1>9, <1>10, <1>11 DEF Step

\* A power loss ends the calls that run; the others claim what is durable.
LEMMA PowerLossCalls ==
    ASSUME DirInv, PlansStay, NEW c \in Compilers, CallInv(c), PowerLoss
    PROVE  CallInv(c)'
<1>1. pc'[c] = IF Running(c) THEN "dead" ELSE pc[c]
  BY DEF PowerLoss
<1>2. /\ stage'[c] = stage[c] /\ publish'[c] = publish[c] /\ result'[c] = result[c]
  BY DEF PowerLoss, callVars
<1> QED
  BY <1>1, <1>2, PlanFacts
     DEF Running, CallInv, PlanDurable, PlansStay, Reporting

-----------------------------------------------------------------------------
(* The reports.                                                            *)

\* A report of either half is one that was current or durable before, or the
\* one that a call writes at its own stage.
LEMMA ReportsFrom ==
    ASSUME ShapeInv, \A c \in Compilers : CallInv(c), [Next]_vars
    PROVE  /\ reports' \in [Halves -> [ReportNames -> Results \cup {None}]]
           /\ \A h \in Halves, r \in ReportNames :
                \/ \E g \in Halves : reports'[h][r] = reports[g][r]
                \/ \E c \in Compilers :
                      /\ r = ReportName(c) /\ pc[c] = "report_replace"
                      /\ reports'[h][r] = ReportAt[stage[c]]
<1> USE HalfNames DEF ShapeInv
<1>1. CASE UNCHANGED reports
  BY <1>1
<1>2. CASE reports' = [h \in Halves |-> reports["current"]]
  BY <1>2
<1>3. ASSUME NEW c \in Compilers, ReplaceReport(c),
             reports' = [reports EXCEPT !["current"][ReportName(c)] = ReportAt[stage[c]]]
      PROVE  /\ reports' \in [Halves -> [ReportNames -> Results \cup {None}]]
             /\ \A h \in Halves, r \in ReportNames :
                  \/ \E g \in Halves : reports'[h][r] = reports[g][r]
                  \/ \E d \in Compilers :
                        /\ r = ReportName(d) /\ pc[d] = "report_replace"
                        /\ reports'[h][r] = ReportAt[stage[d]]
  <2>1. ReportAt[stage[c]] \in Results
    BY DEF CallInv, Results
  <2>2. pc[c] = "report_replace" /\ ReportName(c) \in ReportNames
    BY <1>3, PlanFacts DEF ReplaceReport
  <2> QED
    BY <1>3, <2>1, <2>2
<1>4. CASE reports' \in Survivors(reports)
  <2>1. /\ DOMAIN reports["current"] = ReportNames
        /\ \A h \in Halves : DOMAIN reports[h] = ReportNames
    OBVIOUS
  <2>2. PICK pick \in [DOMAIN reports["current"] -> Halves] :
          reports' = [h \in Halves |-> [n \in DOMAIN reports[h] |-> reports[pick[n]][n]]]
    BY <1>4, Zenon DEF Survivors
  <2> QED
    BY <2>1, <2>2
<1>5. ASSUME NEW c \in Compilers, Start(c) \/ Step(c) \/ Kill(c)
      PROVE  \/ UNCHANGED reports
             \/ reports' = [h \in Halves |-> reports["current"]]
             \/ /\ ReplaceReport(c)
                /\ reports' = [reports EXCEPT
                      !["current"][ReportName(c)] = ReportAt[stage[c]]]
  BY <1>5
     DEF Start, Step, Kill, WriteReportTemp, ReplaceReport, SyncReport, ReportFails,
         WritePlanTemp, LinkPlan, UnlinkPlanTemp, Confirm, SyncPlan, Sync, dirVars
<1> QED
  BY <1>1, <1>2, <1>3, <1>4, <1>5 DEF Next, PowerLoss, Done, vars, dirVars

\* No report gets ahead of its plan.
LEMMA ReportStep ==
    ASSUME IInv, PlansStay, [Next]_vars
    PROVE  ReportNeverAhead'
<1> SUFFICES ASSUME NEW h \in Halves, NEW r \in ReportNames,
                    reports'[h][r] # None, reports'[h][r].certainty = "committed"
             PROVE  plans'["durable"][r[2]] = r[2]
  BY DEF ReportNeverAhead
<1>1. r[2] \in Plans /\ r[2] # None
  BY PublicationAssumption DEF ReportNames
<1>2. plans["durable"][r[2]] = r[2]
  <2>1. CASE \E g \in Halves : reports'[h][r] = reports[g][r]
    BY <2>1 DEF IInv, ReportNeverAhead
  <2>2. ASSUME NEW c \in Compilers, r = ReportName(c), pc[c] = "report_replace",
               reports'[h][r] = ReportAt[stage[c]]
        PROVE  plans["durable"][r[2]] = r[2]
    <3>1. stage[c] = "commit"
      BY <2>2, Claims DEF IInv, CallInv
    <3>2. plans["durable"][Dest(c)] = PlanOf[c]
      BY <2>2, <3>1 DEF IInv, CallInv, PlanDurable, Reporting
    <3> QED
      BY <2>2, <3>2, PlanFacts
  <2> QED
    BY <2>1, <2>2, ReportsFrom DEF IInv
<1> QED
  BY <1>1, <1>2 DEF PlansStay

\* The variables stay functions of the compilers and the reports.
LEMMA ShapeStep ==
    ASSUME IInv, [Next]_vars
    PROVE  ShapeInv'
<1> USE DEF IInv, ShapeInv
<1>1. reports' \in [Halves -> [ReportNames -> Results \cup {None}]]
  BY ReportsFrom
<1>2. ASSUME NEW c \in Compilers, Start(c) \/ Step(c) \/ Kill(c)
      PROVE  ShapeInv'
  <2> USE DEF callVars, Goto, Return, WriteReport
  <2>1. CASE Start(c) \/ Kill(c)
    BY <1>1, <2>1 DEF Start, Kill
  <2>2. CASE WriteReportTemp(c) \/ ReplaceReport(c) \/ SyncReport(c)
    BY <1>1, <2>2 DEF WriteReportTemp, ReplaceReport, SyncReport, ReportFails
  <2>3. CASE WritePlanTemp(c)
    BY <1>1, <2>3 DEF WritePlanTemp
  <2>4. CASE LinkPlan(c)
    BY <1>1, <2>4 DEF LinkPlan
  <2>5. CASE UnlinkPlanTemp(c)
    BY <1>1, <2>5 DEF UnlinkPlanTemp
  <2>6. CASE Confirm(c) \/ SyncPlan(c)
    BY <1>1, <2>6 DEF Confirm, SyncPlan
  <2> QED
    BY <1>2, <2>1, <2>2, <2>3, <2>4, <2>5, <2>6 DEF Step
<1>3. CASE PowerLoss
  BY <1>1, <1>3 DEF PowerLoss, callVars
<1>4. CASE UNCHANGED vars
  BY <1>4 DEF vars, callVars, dirVars
<1> QED
  BY <1>2, <1>3, <1>4 DEF Next, Done

-----------------------------------------------------------------------------
\* Nothing is published at first.
LEMMA InitIInv == Init => IInv
<1> SUFFICES ASSUME Init PROVE IInv
  OBVIOUS
<1>1. PICK there \in [Plans -> {None, Foreign}] : plans = [h \in Halves |-> there]
  BY DEF Init
<1>2. DirInv
  BY <1>1, HalfNames, PublicationAssumption DEF DirInv, Bytes
<1>3. ShapeInv
  BY DEF Init, ShapeInv
<1>4. \A c \in Compilers : CallInv(c)
  BY Claims DEF Init, CallInv, Reporting
<1>5. ReportNeverAhead
  BY DEF Init, ReportNeverAhead
<1> QED
  BY <1>2, <1>3, <1>4, <1>5 DEF IInv

\* The parts of the invariant together.
LEMMA NextIInv == IInv /\ [Next]_vars => IInv' /\ PlansStay
<1> SUFFICES ASSUME IInv, [Next]_vars PROVE IInv' /\ PlansStay
  OBVIOUS
<1>1. DirInv' /\ PlansStay
  BY DirStep DEF IInv
<1>2. ShapeInv' /\ ReportNeverAhead'
  BY <1>1, ShapeStep, ReportStep
<1>3. ASSUME NEW d \in Compilers PROVE CallInv(d)'
  <2>1. ASSUME NEW c \in Compilers, Start(c) \/ Step(c) \/ Kill(c)
        PROVE  CallInv(d)'
    <3>1. CASE d = c
      BY <1>1, <2>1, <3>1, OwnCall DEF IInv
    <3>2. CASE d # c
      BY <1>1, <2>1, <3>2, StandStep, StepsAlone, OtherCall DEF IInv
    <3> QED
      BY <3>1, <3>2
  <2>2. CASE PowerLoss
    BY <1>1, <2>2, PowerLossCalls DEF IInv
  <2>3. CASE UNCHANGED vars
    <3>1. PlansStand
      BY <2>3 DEF vars, dirVars, PlansStand
    <3> QED
      BY <1>1, <2>3, <3>1, OtherCall DEF IInv, vars, callVars
  <2> QED
    BY <2>1, <2>2, <2>3 DEF Next, Done
<1> QED
  BY <1>1, <1>2, <1>3 DEF IInv

-----------------------------------------------------------------------------
\* The inductive invariant holds.
THEOREM Invariance == Spec => []IInv
<1>1. IInv /\ [Next]_vars => IInv'
  BY NextIInv
<1> QED
  BY InitIInv, <1>1, PTL DEF Spec

\* No publication, failure or crash changes or removes a durable plan.
THEOREM DurablePlansNeverChange == Spec => DurablePlansStay
<1>1. IInv /\ [Next]_vars =>
        [\A p \in Plans : plans["durable"][p] # None =>
            plans'["durable"][p] = plans["durable"][p]
            /\ plans'["current"][p] = plans["durable"][p]]_vars
  BY NextIInv DEF PlansStay
<1> QED
  BY <1>1, Invariance, PTL DEF Spec, DurablePlansStay

\* COMMITTED plans are durable and ABSENT ones were not published, at any
\* time after the call returned.
THEOREM CertaintyCanBeBelieved == Spec => []CertaintyIsHonest
<1>1. IInv => CertaintyIsHonest
  BY DEF IInv, CallInv, PlanDurable, CertaintyIsHonest
<1> QED
  BY <1>1, Invariance, PTL

\* A report that claims a committed plan is never ahead of it, in either half
\* of the directory.
THEOREM ReportsFollowPlans == Spec => []ReportNeverAhead
<1>1. IInv => ReportNeverAhead
  BY DEF IInv
<1> QED
  BY <1>1, Invariance, PTL

-----------------------------------------------------------------------------
(* The reports settle.                                                     *)

\* A call that returned COMMITTED, and one that has put its committed report
\* in place but not yet made it durable.
Settled(d) == pc[d] = "returned" /\ result[d].status = "committed"
Replaced(d) == pc[d] = "report_sync" /\ stage[d] = "commit"

Sharing(c) == {d \in Compilers : ReportName(d) = ReportName(c)}

\* The last report put in place is that of a call that is in neither of the two
\* states, or is a committed one.
SettleInv ==
    \A c \in Compilers :
        /\ (\A d \in Sharing(c) : Settled(d) \/ Replaced(d)) =>
              reports["current"][ReportName(c)] = ReportAt["commit"]
        /\ (\A d \in Sharing(c) : Settled(d)) =>
              reports["durable"][ReportName(c)] = ReportAt["commit"]

\* The two halves of what a step of a call makes of the reports.
LEMMA ReportsOfStep ==
    ASSUME ShapeInv, NEW e \in Compilers, Start(e) \/ Step(e) \/ Kill(e)
    PROVE  /\ \A r \in ReportNames \ {ReportName(e)} :
                 reports'["current"][r] = reports["current"][r]
           /\ \A r \in ReportNames :
                 reports'["durable"][r] \in {reports["durable"][r],
                                            reports["current"][r]}
<1> USE HalfNames DEF ShapeInv
<1>1. CASE UNCHANGED reports
  BY <1>1
<1>2. CASE reports' = [h \in Halves |-> reports["current"]]
  BY <1>2
<1>3. CASE reports' = [reports EXCEPT !["current"][ReportName(e)] = ReportAt[stage[e]]]
  BY <1>3
<1> QED
  BY <1>1, <1>2, <1>3
     DEF Start, Step, Kill, WriteReportTemp, ReplaceReport, SyncReport, ReportFails,
         WritePlanTemp, LinkPlan, UnlinkPlanTemp, Confirm, SyncPlan, Sync, dirVars

\* No failure is reported as committed.
LEMMA Statuses ==
    /\ \A s \in Stages : /\ ReportAt[s].status = "committed" <=> s = "commit"
                         /\ ReportFailure[s].status # "committed"
    /\ \A certainty : PlanFailure(certainty).status # "committed"
BY DEF Stages, ReportAt, ReportFailure, PlanFailure, Result

\* A call settles by making durable what it has replaced; and what it replaces
\* at its last stage is the committed report.
LEMMA SettlesBySync ==
    ASSUME ShapeInv, NEW e \in Compilers, CallInv(e), Start(e) \/ Step(e) \/ Kill(e)
    PROVE  /\ Settled(e)' => Replaced(e) /\ reports' = [h \in Halves |-> reports["current"]]
           /\ Replaced(e)' => reports' = [reports EXCEPT
                                 !["current"][ReportName(e)] = ReportAt["commit"]]
<1> USE Statuses, Claims
<1> USE DEF ShapeInv, Settled, Replaced, Goto, Return, WriteReport, callVars
<1>1. CASE Start(e) \/ Kill(e)
  BY <1>1 DEF Start, Kill, Result
<1>2. ASSUME ReportFails(e) PROVE ~Settled(e)' /\ ~Replaced(e)'
  BY <1>2 DEF ReportFails, CallInv
<1>3. CASE WriteReportTemp(e)
  BY <1>2, <1>3 DEF WriteReportTemp
<1>4. CASE ReplaceReport(e)
  BY <1>2, <1>4 DEF ReplaceReport
<1>5. CASE SyncReport(e)
  BY <1>2, <1>5 DEF SyncReport, Sync, CallInv
<1>6. CASE WritePlanTemp(e)
  BY <1>6 DEF WritePlanTemp
<1>7. CASE LinkPlan(e)
  BY <1>7 DEF LinkPlan
<1>8. CASE UnlinkPlanTemp(e)
  BY <1>8 DEF UnlinkPlanTemp
<1>9. CASE Confirm(e) \/ SyncPlan(e)
  BY <1>9 DEF Confirm, SyncPlan
<1> QED
  BY <1>1, <1>3, <1>4, <1>5, <1>6, <1>7, <1>8, <1>9 DEF Step

LEMMA SettleStep ==
    ASSUME IInv, SettleInv, [Next]_vars
    PROVE  SettleInv'
<1> SUFFICES ASSUME NEW c \in Compilers
             PROVE  /\ (\A d \in Sharing(c) : Settled(d)' \/ Replaced(d)') =>
                          reports'["current"][ReportName(c)] = ReportAt["commit"]
                    /\ (\A d \in Sharing(c) : Settled(d)') =>
                          reports'["durable"][ReportName(c)] = ReportAt["commit"]
  BY DEF SettleInv, Sharing, ReportName
<1> DEFINE r == ReportName(c)
<1>1. r \in ReportNames /\ c \in Sharing(c) /\ ShapeInv
  BY PlanFacts DEF Sharing, IInv
<1>2. ASSUME NEW e \in Compilers, Start(e) \/ Step(e) \/ Kill(e)
      PROVE  /\ (\A d \in Sharing(c) : Settled(d)' \/ Replaced(d)') =>
                   reports'["current"][r] = ReportAt["commit"]
             /\ (\A d \in Sharing(c) : Settled(d)') =>
                   reports'["durable"][r] = ReportAt["commit"]
  <2>1. \A d \in Sharing(c) \ {e} : /\ Settled(d)' <=> Settled(d)
                                    /\ Replaced(d)' <=> Replaced(d)
    BY <1>1, <1>2, StepsAlone DEF Sharing, Settled, Replaced
  <2>2. /\ Settled(e)' => Replaced(e) /\ reports' = [h \in Halves |-> reports["current"]]
        /\ Replaced(e)' => reports' = [reports EXCEPT
                              !["current"][ReportName(e)] = ReportAt["commit"]]
    BY <1>1, <1>2, SettlesBySync DEF IInv
  <2>3. CASE e \in Sharing(c)
    <3>1. ReportName(e) = r
      BY <2>3 DEF Sharing
    <3>2. Replaced(e)' => reports'["current"][r] = ReportAt["commit"]
      BY <1>1, <2>2, <3>1, HalfNames DEF ShapeInv
    <3>3. ASSUME Settled(e)', \A d \in Sharing(c) : Settled(d)' \/ Replaced(d)'
          PROVE  /\ reports'["current"][r] = ReportAt["commit"]
                 /\ reports'["durable"][r] = ReportAt["commit"]
      <4>1. reports["current"][r] = ReportAt["commit"]
        BY <2>1, <2>2, <3>3 DEF SettleInv
      <4> QED
        BY <2>2, <3>3, <4>1, HalfNames
    <3> QED
      BY <2>3, <3>2, <3>3
  <2>4. CASE e \notin Sharing(c)
    <3>1. ReportName(e) # r
      BY <1>2, <2>4 DEF Sharing
    <3>2. /\ reports'["current"][r] = reports["current"][r]
          /\ reports'["durable"][r] \in {reports["durable"][r], reports["current"][r]}
      BY <1>1, <1>2, <3>1, ReportsOfStep
    <3> QED
      BY <2>1, <2>4, <3>2 DEF SettleInv
  <2> QED
    BY <2>3, <2>4
<1>3. CASE PowerLoss
  <2>1. \A d \in Sharing(c) : Settled(d)' \/ Replaced(d)' => Settled(d)
    BY <1>3 DEF PowerLoss, Running, callVars, Sharing, Settled, Replaced
  <2>2. \A h \in Halves : reports'[h][r] \in {reports["current"][r], reports["durable"][r]}
    <3>1. /\ DOMAIN reports["current"] = ReportNames
          /\ \A h \in Halves : DOMAIN reports[h] = ReportNames
      BY <1>1, HalfNames DEF ShapeInv
    <3>2. PICK pick \in [DOMAIN reports["current"] -> Halves] :
            reports' = [h \in Halves |->
                           [n \in DOMAIN reports[h] |-> reports[pick[n]][n]]]
      BY <1>3, Zenon DEF PowerLoss, Survivors
    <3>3. pick[r] \in {"current", "durable"}
      BY <1>1, <3>1, <3>2 DEF Halves
    <3>4. \A h \in Halves : reports'[h][r] = reports[pick[r]][r]
      BY <1>1, <3>1, <3>2
    <3> QED
      BY <3>3, <3>4
  <2> QED
    BY <2>1, <2>2, HalfNames DEF SettleInv
<1>4. CASE UNCHANGED vars
  BY <1>4 DEF vars, callVars, dirVars, SettleInv, Settled, Replaced
<1> QED
  BY <1>2, <1>3, <1>4 DEF Next, Done

\* When all calls that share a report returned COMMITTED, the durable report is
\* a committed one, however their writes were interleaved and whatever crashed.
THEOREM CommittedReportsDoSettle == Spec => []CommittedReportsSettle
<1>1. Init => SettleInv
  BY DEF Init, SettleInv, Sharing, Settled, Replaced
<1>2. IInv /\ SettleInv /\ [Next]_vars => SettleInv'
  BY SettleStep
<1>3. SettleInv => CommittedReportsSettle
  BY DEF SettleInv, CommittedReportsSettle, Sharing, Settled
<1> QED
  BY <1>1, <1>2, <1>3, Invariance, PTL DEF Spec

-----------------------------------------------------------------------------
(* Types.                                                                  *)

\* A call has a run of its own, and with it temporary names of its own.
RunInv ==
    /\ runs \in [Compilers -> 0..MaxRuns]
    /\ \A c \in Compilers : pc[c] # "idle" => runs[c] # 0
    /\ temps \subseteq Compilers \X (1..MaxRuns) \X {"report", "plan"}

LEMMA RunStep ==
    ASSUME ShapeInv, RunInv, [Next]_vars
    PROVE  RunInv'
<1> USE PublicationAssumption DEF ShapeInv, RunInv
<1>1. ASSUME NEW c \in Compilers, Start(c) PROVE RunInv'
  BY <1>1 DEF Start, Goto, Return, WriteReport, dirVars
<1>2. ASSUME NEW c \in Compilers, Step(c) \/ Kill(c) PROVE RunInv'
  <2>1. /\ runs' = runs /\ pc[c] # "idle" /\ \A d \in Compilers \ {c} : pc'[d] = pc[d]
        /\ temps' \subseteq temps \cup {Temp(c, "report"), Temp(c, "plan")}
    <3>1. CASE WriteReportTemp(c) \/ ReplaceReport(c) \/ SyncReport(c)
      BY <3>1 DEF WriteReportTemp, ReplaceReport, SyncReport, ReportFails, Goto, Return
    <3>2. CASE WritePlanTemp(c) \/ LinkPlan(c) \/ UnlinkPlanTemp(c)
      BY <3>2 DEF WritePlanTemp, LinkPlan, UnlinkPlanTemp, Goto, Return
    <3>3. CASE Confirm(c) \/ SyncPlan(c) \/ Kill(c)
      BY <3>3 DEF Confirm, SyncPlan, Kill, Running, Goto, WriteReport, dirVars
    <3> QED
      BY <1>2, <3>1, <3>2, <3>3 DEF Step
  <2>2. runs[c] \in 1..MaxRuns
    BY <2>1
  <2>3. {Temp(c, "report"), Temp(c, "plan")}
            \subseteq Compilers \X (1..MaxRuns) \X {"report", "plan"}
    BY <2>2 DEF Temp
  <2>4. \A d \in Compilers : pc'[d] # "idle" => runs'[d] # 0
    BY <2>1, <2>2
  <2> QED
    BY <2>1, <2>3, <2>4
<1>3. CASE PowerLoss
  <2>1. /\ runs' = runs /\ temps' \subseteq temps
        /\ \A c \in Compilers : pc'[c] = IF Running(c) THEN "dead" ELSE pc[c]
    BY <1>3 DEF PowerLoss
  <2>2. \A c \in Compilers : pc'[c] # "idle" => pc[c] # "idle"
    BY <2>1 DEF Running
  <2> QED
    BY <2>1, <2>2
<1>4. CASE UNCHANGED vars
  BY <1>4 DEF vars, dirVars
<1> QED
  BY <1>1, <1>2, <1>3, <1>4 DEF Next, Done

\* What the other variables of a call and the count of power losses may be.
CallTypes ==
    /\ pc \in [Compilers -> {"idle", "report_temp", "report_replace",
                  "report_sync", "plan_temp", "plan_link", "plan_unlink",
                  "confirm", "plan_sync", "returned", "dead"}]
    /\ publish \in [Compilers ->
          {None, "published", "reused", "conflict", "error"}]
    /\ unclean \in [Compilers -> BOOLEAN]
    /\ result \in [Compilers -> Results \cup {None}]
    /\ losses \in 0..MaxLosses

LEMMA TypeStep ==
    ASSUME IInv, CallTypes, [Next]_vars
    PROVE  CallTypes'
<1> USE PublicationAssumption DEF CallTypes, Goto, Return, WriteReport, callVars
<1>1. /\ Result("failed", "absent", "absent") \in Results
      /\ \A s \in Stages : ReportAt[s] \in Results /\ ReportFailure[s] \in Results
      /\ PlanFailure("absent") \in Results /\ PlanFailure("unknown") \in Results
  BY Claims DEF Results, ReportFailure
<1>2. \A c \in Compilers : stage[c] \in Stages
  BY DEF IInv, CallInv
<1>3. ASSUME NEW c \in Compilers, Start(c) \/ Step(c) \/ Kill(c) PROVE CallTypes'
  <2>1. CASE Start(c) \/ Kill(c)
    <3>1. CASE Start(c)
      BY <1>1, <3>1 DEF Start
    <3>2. CASE Kill(c)
      BY <3>2 DEF Kill
    <3> QED
      BY <2>1, <3>1, <3>2
  <2>2. CASE WriteReportTemp(c) \/ ReplaceReport(c) \/ SyncReport(c)
    BY <1>1, <1>2, <2>2 DEF WriteReportTemp, ReplaceReport, SyncReport, ReportFails
  <2>3. CASE WritePlanTemp(c)
    BY <1>1, <2>3 DEF WritePlanTemp
  <2>4. CASE LinkPlan(c)
    BY <1>1, <2>4 DEF LinkPlan
  <2>5. CASE UnlinkPlanTemp(c)
    BY <1>1, <2>5 DEF UnlinkPlanTemp, UncleanCertainty
  <2>6. CASE Confirm(c) \/ SyncPlan(c)
    BY <2>6 DEF Confirm, SyncPlan
  <2> QED
    BY <1>3, <2>1, <2>2, <2>3, <2>4, <2>5, <2>6 DEF Step
<1>4. CASE PowerLoss
  BY <1>4 DEF PowerLoss
<1>5. CASE UNCHANGED vars
  BY <1>5 DEF vars
<1> QED
  BY <1>3, <1>4, <1>5 DEF Next, Done

\* The directory and the calls keep their types; no run uses the temporary name
\* of another.
THEOREM TypesOfPublication == Spec => []TypeOK
<1>1. Init => RunInv /\ CallTypes
  BY PublicationAssumption DEF Init, RunInv, CallTypes
<1>2. IInv /\ RunInv /\ CallTypes /\ [Next]_vars => RunInv' /\ CallTypes'
  BY RunStep, TypeStep DEF IInv
<1>3. IInv /\ RunInv /\ CallTypes => TypeOK
  BY DEF IInv, DirInv, ShapeInv, CallInv, Bytes, RunInv, CallTypes, TypeOK
<1> QED
  BY <1>1, <1>2, <1>3, Invariance, PTL DEF Spec

-----------------------------------------------------------------------------
(***************************************************************************)
(* The source file.  A stamp only grows, so a file that has the stamp it   *)
(* was opened with has not been written since, and what was read of it     *)
(* meanwhile is what it held then.                                         *)
(***************************************************************************)
FileStates == [stamp : Nat, first : Int, rest : Int]

DiskInv ==
    /\ disk = [entry |-> disk.entry, ino |-> disk.ino, files |-> disk.files,
               writer |-> disk.writer, writes |-> disk.writes]
    /\ disk.files \in Seq(FileStates)
    /\ disk.ino \in 1..Len(disk.files)
    /\ disk.writes \in Nat
    /\ disk.writer # NotYet =>
          disk.writer[1] \in 1..Len(disk.files) /\ disk.writer[2] \in Int

\* What was read of the file that was opened is what it held, for as long as
\* its stamp is the same.
Unwritten(file) ==
    /\ seen.handle[2] <= file.stamp
    /\ file.stamp = seen.handle[2] =>
          /\ file.first = seen.atOpen.first /\ file.rest = seen.atOpen.rest
          /\ phase \in {"rest", "restat"} => seen.first = seen.atOpen.first
          /\ phase = "restat" => seen.rest = seen.atOpen.rest

SeenInv ==
    /\ seen = [before |-> seen.before, handle |-> seen.handle, atOpen |-> seen.atOpen,
               first |-> seen.first, rest |-> seen.rest]
    /\ phase = "open" => seen.before[1] \in 1..Len(disk.files)
    /\ phase \in {"read", "rest", "restat"} =>
          /\ seen.handle = <<seen.handle[1], seen.handle[2]>>
          /\ seen.handle[1] \in 1..Len(disk.files) /\ seen.handle[2] \in Nat
          /\ Unwritten(disk.files[seen.handle[1]])

SourceInv == DiskInv /\ SeenInv /\ AdmittedIsSnapshot

\* What other processes do to the files.
Moved ==
    /\ UNCHANGED <<phase, seen>>
    /\ phase \in Admission
    /\ Len(disk.files) <= Len(disk'.files)
    /\ \A i \in 1..Len(disk.files) :
          \/ disk'.files[i] = disk.files[i]
          \/ disk'.files[i].stamp = disk.files[i].stamp + 1

LEMMA FilesMove ==
    ASSUME DiskInv, Replace \/ Link \/ RemoveFile \/ BeginRewrite \/ EndRewrite
    PROVE  DiskInv' /\ Moved
<1> DEFINE N == Len(disk.files)
<1>1. /\ disk = [entry |-> disk.entry, ino |-> disk.ino, files |-> disk.files,
                 writer |-> disk.writer, writes |-> disk.writes]
      /\ disk.files \in Seq(FileStates) /\ disk.ino \in 1..N /\ disk.writes \in Nat
      /\ disk.writer # NotYet => disk.writer[1] \in 1..N /\ disk.writer[2] \in Int
      /\ N \in Nat /\ \A i \in 1..N : disk.files[i] \in FileStates
  BY LenProperties, ElementOfSeq DEF DiskInv
<1>2. CASE Replace
  <2> DEFINE file == File(N + 1)
             more == Append(disk.files, file)
  <2>1. /\ disk' = [entry |-> "file", ino |-> N + 1, files |-> more,
                    writer |-> disk.writer, writes |-> disk.writes + 1]
        /\ UNCHANGED <<phase, seen>> /\ phase \in Admission
    BY <1>1, <1>2 DEF Replace, Disturb
  <2>2. file \in FileStates
    BY <1>1 DEF File, FileStates
  <2> HIDE DEF file
  <2>3. /\ more \in Seq(FileStates) /\ Len(more) = N + 1
        /\ \A i \in 1..N : more[i] = disk.files[i]
    BY <1>1, <2>2
  <2> HIDE DEF more
  <2>4. N + 1 \in 1..(N + 1) /\ \A i \in 1..N : i \in 1..(N + 1)
    BY <1>1
  <2> QED
    BY <1>1, <2>1, <2>3, <2>4 DEF DiskInv, Moved
<1>3. CASE Link \/ RemoveFile
  <2>1. PICK entry :
           /\ disk' = [entry |-> entry, ino |-> disk.ino, files |-> disk.files,
                       writer |-> disk.writer, writes |-> disk.writes + 1]
           /\ UNCHANGED <<phase, seen>> /\ phase \in Admission
    BY <1>1, <1>3 DEF Link, RemoveFile, Disturb
  <2> QED
    BY <1>1, <2>1 DEF DiskInv, Moved
<1>4. ASSUME NEW ino \in 1..N, NEW writer, NEW file \in FileStates, NEW writes \in Nat,
             file.stamp = disk.files[ino].stamp + 1,
             disk' = [entry |-> disk.entry, ino |-> disk.ino,
                      files |-> [disk.files EXCEPT ![ino] = file],
                      writer |-> writer, writes |-> writes],
             writer # NotYet => writer[1] \in 1..N /\ writer[2] \in Int,
             UNCHANGED <<phase, seen>>, phase \in Admission
      PROVE  DiskInv' /\ Moved
  <2> DEFINE rest == [disk.files EXCEPT ![ino] = file]
  <2>1. /\ rest \in Seq(FileStates) /\ Len(rest) = N
        /\ \A i \in 1..N : rest[i] = IF i = ino THEN file ELSE disk.files[i]
    BY <1>1, <1>4, ExceptSeq
  <2> HIDE DEF rest
  <2> QED
    BY <1>1, <1>4, <2>1 DEF DiskInv, Moved, rest
<1>5. CASE BeginRewrite
  <2> DEFINE version == -1 - disk.writes
             file == [stamp |-> disk.files[disk.ino].stamp + 1, first |-> version,
                      rest |-> disk.files[disk.ino].rest]
  <2>1. /\ disk' = [entry |-> disk.entry, ino |-> disk.ino,
                    files |-> [disk.files EXCEPT ![disk.ino] = file],
                    writer |-> <<disk.ino, version>>, writes |-> disk.writes + 1]
        /\ UNCHANGED <<phase, seen>> /\ phase \in Admission
    BY <1>1, <1>5 DEF BeginRewrite, Disturb
  <2>2. file \in FileStates /\ version \in Int /\ disk.writes + 1 \in Nat
        /\ file.stamp = disk.files[disk.ino].stamp + 1
    BY <1>1, SMTT(30) DEF FileStates
  <2> HIDE DEF file
  <2>3. /\ <<disk.ino, version>>[1] \in 1..N
        /\ <<disk.ino, version>>[2] \in Int
    BY <1>1, <2>2
  <2> HIDE DEF version
  <2> QED
    BY <1>1, <1>4, <2>1, <2>2, <2>3
<1>6. CASE EndRewrite
  <2> DEFINE ino == disk.writer[1]
             file == [stamp |-> disk.files[ino].stamp + 1, first |-> disk.files[ino].first,
                      rest |-> disk.writer[2]]
  <2>1. /\ disk' = [entry |-> disk.entry, ino |-> disk.ino,
                    files |-> [disk.files EXCEPT ![ino] = file],
                    writer |-> NotYet, writes |-> disk.writes]
        /\ UNCHANGED <<phase, seen>> /\ phase \in Admission /\ disk.writer # NotYet
    BY <1>1, <1>6 DEF EndRewrite
  <2>2. ino \in 1..N /\ disk.writer[2] \in Int
    BY <1>1, <2>1
  <2> HIDE DEF ino
  <2>3. disk.files[ino] \in FileStates
    BY <1>1, <2>2
  <2>4. file \in FileStates /\ file.stamp = disk.files[ino].stamp + 1
    BY <2>2, <2>3 DEF FileStates
  <2> HIDE DEF file
  <2> QED
    BY <1>1, <1>4, <2>1, <2>2, <2>4
<1> QED
  BY <1>2, <1>3, <1>5, <1>6

\* A file that moved on is no longer the one that was opened.
LEMMA MovedSeen ==
    ASSUME DiskInv, SeenInv, Moved
    PROVE  SeenInv' /\ AdmittedIsSnapshot'
<1>1. Len(disk.files) \in Nat /\ \A i \in 1..Len(disk.files) : disk.files[i].stamp \in Nat
  <2>1. Len(disk.files) \in Nat /\ \A i \in 1..Len(disk.files) : disk.files[i] \in FileStates
    BY LenProperties, ElementOfSeq DEF DiskInv
  <2> QED
    BY <2>1 DEF FileStates
<1>2. UNCHANGED <<phase, seen>> /\ phase # "parse"
  BY DEF Moved, Admission
<1>3. Len(disk'.files) >= Len(disk.files)
      /\ \A i \in 1..Len(disk.files) : i \in 1..Len(disk'.files)
  BY <1>1 DEF Moved
<1>4. CASE phase \in {"read", "rest", "restat"}
  <2> DEFINE ino == seen.handle[1]
  <2>1. ino \in 1..Len(disk.files) /\ seen.handle[2] \in Nat /\ Unwritten(disk.files[ino])
    BY <1>4 DEF SeenInv
  <2>2. disk'.files[ino] = disk.files[ino] \/ disk'.files[ino].stamp = disk.files[ino].stamp + 1
    BY <2>1 DEF Moved
  <2>3. disk.files[ino].stamp \in Nat
    BY <1>1, <2>1
  <2>4. Unwritten(disk.files[ino])' 
    BY <1>2, <2>1, <2>2, <2>3, SMTT(30) DEF Unwritten
  <2> QED
    BY <1>2, <1>3, <1>4, <2>1, <2>4 DEF SeenInv, AdmittedIsSnapshot
<1>5. CASE phase \notin {"read", "rest", "restat"}
  BY <1>2, <1>3, <1>5 DEF SeenInv, AdmittedIsSnapshot
<1> QED
  BY <1>4, <1>5

LEMMA ReadingStep ==
    ASSUME SourceInv, AdmitRoots \/ StatSource \/ OpenSource \/ ReadSource \/ StatAgain
    PROVE  SourceInv'
<1>1. /\ disk.files \in Seq(FileStates) /\ disk.ino \in 1..Len(disk.files)
      /\ Len(disk.files) \in Nat /\ \A i \in 1..Len(disk.files) : disk.files[i] \in FileStates
  BY LenProperties, ElementOfSeq DEF SourceInv, DiskInv
<1>2. seen = [before |-> seen.before, handle |-> seen.handle, atOpen |-> seen.atOpen,
              first |-> seen.first, rest |-> seen.rest]
  BY DEF SourceInv, SeenInv
<1>3. ASSUME UNCHANGED disk PROVE DiskInv'
  BY <1>3 DEF SourceInv, DiskInv
<1>4. CASE phase' \in {"request failed", "lstat"} /\ UNCHANGED <<disk, seen>>
  BY <1>3, <1>4 DEF SourceInv, SeenInv, AdmittedIsSnapshot
<1>5. CASE AdmitRoots
  BY <1>4, <1>5 DEF AdmitRoots, RequestFails
<1>6. CASE StatSource /\ disk.entry = "file"
  <2> DEFINE id == Identity(disk.ino)
  <2>1. /\ seen' = [before |-> id, handle |-> seen.handle, atOpen |-> seen.atOpen,
                    first |-> seen.first, rest |-> seen.rest]
        /\ phase' = "open" /\ UNCHANGED disk
    BY <1>2, <1>6 DEF StatSource
  <2>2. id[1] = disk.ino
    BY <1>1 DEF Identity, Outside
  <2> HIDE DEF id
  <2> QED
    BY <1>1, <1>3, <2>1, <2>2 DEF SourceInv, SeenInv, AdmittedIsSnapshot
<1>7. CASE OpenSource /\ disk.entry # "gone" /\ SameFile(seen.before, PathIdentity)
  <2> DEFINE file == disk.files[disk.ino]
             id == <<disk.ino, file.stamp>>
  <2>1. disk.entry # "link"
    <3>1. seen.before[1] \in 1..Len(disk.files)
      BY <1>7 DEF OpenSource, SourceInv, SeenInv
    <3> QED
      BY <1>1, <1>7, <3>1 DEF SameFile, PathIdentity, Identity, Outside
  <2>2. PathIdentity = id
    BY <1>1, <2>1 DEF PathIdentity, Identity, Outside
  <2>3. /\ seen' = [before |-> seen.before, handle |-> id, atOpen |-> file,
                    first |-> seen.first, rest |-> seen.rest]
        /\ phase' = "read" /\ UNCHANGED disk
    BY <1>2, <1>7, <2>2 DEF OpenSource
  <2>4. file.stamp \in Nat
    BY <1>1 DEF FileStates
  <2> QED
    BY <1>1, <1>3, <2>3, <2>4 DEF SourceInv, SeenInv, Unwritten, AdmittedIsSnapshot
<1>8. ASSUME phase \in {"read", "rest", "restat"}
      PROVE  /\ seen.handle = <<seen.handle[1], seen.handle[2]>>
             /\ seen.handle[1] \in 1..Len(disk.files) /\ seen.handle[2] \in Nat
             /\ Unwritten(disk.files[seen.handle[1]])
  BY <1>8 DEF SourceInv, SeenInv
<1>9. CASE ReadSource /\ phase = "read"
  <2> DEFINE file == disk.files[seen.handle[1]]
  <2>1. /\ seen' = [before |-> seen.before, handle |-> seen.handle, atOpen |-> seen.atOpen,
                    first |-> file.first, rest |-> seen.rest]
        /\ phase' = "rest" /\ UNCHANGED disk
    BY <1>2, <1>9 DEF ReadSource
  <2> QED
    BY <1>3, <1>8, <1>9, <2>1 DEF SourceInv, SeenInv, Unwritten, AdmittedIsSnapshot
<1>10. CASE ReadSource /\ phase = "rest" /\ phase' = "restat"
  <2> DEFINE file == disk.files[seen.handle[1]]
  <2>1. /\ seen' = [before |-> seen.before, handle |-> seen.handle, atOpen |-> seen.atOpen,
                    first |-> seen.first, rest |-> file.rest]
        /\ phase' = "restat" /\ UNCHANGED disk
    BY <1>2, <1>10 DEF ReadSource, RequestFails
  <2> QED
    BY <1>3, <1>8, <1>10, <2>1 DEF SourceInv, SeenInv, Unwritten, AdmittedIsSnapshot
<1>11. CASE StatAgain /\ disk.entry # "gone" /\ SameFile(seen.handle, PathIdentity)
  <2> DEFINE ino == seen.handle[1]
  <2>1. phase = "restat" /\ phase' = "parse" /\ disk' = Quiet /\ UNCHANGED seen
    BY <1>11 DEF StatAgain
  <2>2. ino \in 1..Len(disk.files) /\ Unwritten(disk.files[ino]) /\ ino # Outside
        /\ seen.handle = <<ino, seen.handle[2]>>
    BY <1>1, <1>8, <2>1 DEF Outside
  <2>3. disk.entry # "link" /\ disk.ino = ino /\ seen.handle[2] = disk.files[ino].stamp
    BY <1>1, <1>11, <2>2 DEF SameFile, PathIdentity, Identity, Outside
  <2>4. seen.first = seen.atOpen.first /\ seen.rest = seen.atOpen.rest
    BY <2>1, <2>2, <2>3 DEF Unwritten
  <2>5. AdmittedIsSnapshot'
    BY <2>1, <2>2, <2>4 DEF AdmittedIsSnapshot
  <2>6. DiskInv'
    <3>1. /\ <<File(1)>> \in Seq(FileStates) /\ Len(<<File(1)>>) = 1
      BY DEF File, FileStates
    <3> QED
      BY <2>1, <3>1 DEF DiskInv, Quiet
  <2> QED
    BY <1>2, <2>1, <2>5, <2>6 DEF SourceInv, SeenInv
<1>12. CASE RequestFails
  BY <1>4, <1>12 DEF RequestFails
<1> QED
  BY <1>5, <1>6, <1>7, <1>9, <1>10, <1>11, <1>12
     DEF StatSource, OpenSource, ReadSource, StatAgain

\* Whatever other processes do to the source meanwhile, what reaches the
\* parser is what a file inside source_root held when it was opened.
THEOREM AdmissionsAreSnapshots == AdmissionSpec => []AdmittedIsSnapshot
<1>1. AdmissionInit => SourceInv
  <2>1. /\ <<File(1)>> \in Seq(FileStates) /\ Len(<<File(1)>>) = 1
    BY DEF File, FileStates
  <2> QED
    BY <2>1 DEF AdmissionInit, SourceInv, DiskInv, SeenInv, AdmittedIsSnapshot, Quiet, Unread
<1>2. SourceInv /\ [AdmissionNext]_admissionVars => SourceInv'
  <2> SUFFICES ASSUME SourceInv, [AdmissionNext]_admissionVars PROVE SourceInv'
    OBVIOUS
  <2>1. CASE Replace \/ Link \/ RemoveFile \/ BeginRewrite \/ EndRewrite
    BY <2>1, FilesMove, MovedSeen DEF SourceInv
  <2>2. CASE AdmitRoots \/ StatSource \/ OpenSource \/ ReadSource \/ StatAgain
    BY <2>2, ReadingStep
  <2>3. CASE UNCHANGED admissionVars
    BY <2>3 DEF admissionVars, SourceInv, DiskInv, SeenInv, Unwritten, AdmittedIsSnapshot
  <2> QED
    BY <2>1, <2>2, <2>3 DEF AdmissionNext
<1>3. SourceInv => AdmittedIsSnapshot
  BY DEF SourceInv
<1> QED
  BY <1>1, <1>2, <1>3, PTL DEF AdmissionSpec
=============================================================================
