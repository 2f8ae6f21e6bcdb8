CONSTANTS
    first = first
    second = second
    shared = shared
    plan = plan
    None = None
    Foreign = Foreign
    Compilers <- MCCompilers
    Requests <- OneRequest
    Plans <- MCPlans
    RequestOf <- SameRequest
    PlanOf <- MCPlanOf
    MaxRuns = 2
    MaxLosses = 1
SPECIFICATION Spec
INVARIANTS
    CertaintyIsHonest
    CommittedReportsSettle
