CONSTANTS
    r1 = r1
    r2 = r2
    None = None
    Torn = Torn
    Runners <- MCRunners
    Trials <- MCTrials
    Plans <- MCPlans
    CategoryOf <- MCCategoryOf
    ResultOf <- MCResultOf
    ArtifactsOf <- MCArtifactsOf
    Policies <- MCPolicies
    MinSample = 3
    MaxFailures = 2
SPECIFICATION Spec
SYMMETRY Twins
INVARIANTS
    StoreIsHonest
    LoneRunSucceeds
    ReportsAddUp
