--------------------------- MODULE MCCampaignStore ---------------------------
EXTENDS CampaignStore, TLC

CONSTANTS r1, r2

\* Two plan sets of one campaign, one of which extends the other.
MCPlans == {<<1>>, <<1, 2>>}
MCTrials == {1, 2}
MCRunners == {r1, r2}
Twins == Permutations(MCRunners)

\* A success, a completion that is none, an invalid trial and a false closure
\* that has also left its envelope.
MCResultOf ==
    LET Result(outcome, primary, complete, capability, falseSuccess, labels) ==
            [outcome |-> outcome, primary |-> primary, complete |-> complete,
             capability |-> capability, falseSuccess |-> falseSuccess,
             labels |-> labels]
    IN  <<[pi |-> Result("valid_completion", TRUE, TRUE, FALSE, FALSE, {}),
           millforge |-> Result("valid_completion", FALSE, FALSE, FALSE, TRUE,
                                {"missing", "unsupported"})],
          [pi |-> Result("invalid_trial", FALSE, TRUE, FALSE, FALSE,
                         {"infrastructure"}),
           millforge |-> Result("false_closure", FALSE, TRUE, TRUE, TRUE,
                                {"capability", "unsupported", "visible"})]>>
MCCategoryOf == <<"coding", "review">>
MCArtifactsOf == <<2, 5>>

\* A policy that is enough for one pair only, one for both, one that does not
\* bound the tokens and one that may cost something.
MCPolicies ==
    LET Policy(zeroCost, spend, tokens, trials) ==
            [zeroCost |-> zeroCost,
             max |-> [c \in Ceilings |->
                CASE c = "spend" -> spend [] c = "trials" -> trials
                  [] c \in {"prompt", "completion"} -> tokens [] OTHER -> 0]]
    IN  {Policy(TRUE, 0, 0, 2), Policy(TRUE, 0, 0, 4), Policy(TRUE, 0, None, 4),
         Policy(FALSE, 1, 0, 4)}
=============================================================================
