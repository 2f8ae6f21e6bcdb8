--------------------------- MODULE MCConversation ---------------------------
EXTENDS Conversation

\* Budgets at which the first, second and third phase are reached early, or
\* the first one only after a while.
MCPolicies ==
    [keep : 0..2, triggers : {<<4, 4, 4>>, <<6, 8, 10>>}, replay : BOOLEAN]
MCWeight == [size \in Sizes |-> CASE size = "short" -> 1
                                  [] size = "cut" -> 2
                                  [] OTHER -> 4]
=============================================================================
