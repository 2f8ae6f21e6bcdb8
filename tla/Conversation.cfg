CONSTANTS
    Policies <- MCPolicies
    Weight <- MCWeight
    MaxBatch = 2
    MaxAnswers = 3
SPECIFICATION ConversationSpec
INVARIANTS
    CompactionKeepsRequestsValid
    RecentStaysWhole
CHECK_DEADLOCK FALSE
