------------------------- MODULE MCPlanPublication --------------------------
EXTENDS PlanPublication, TLC

CONSTANTS first, second, shared, plan

MCCompilers == {first, second}
MCPlans == {plan}
MCPlanOf == [c \in MCCompilers |-> plan]

\* Two calls for one request, which write the same report.
OneRequest == {shared}
SameRequest == [c \in MCCompilers |-> shared]
=============================================================================
