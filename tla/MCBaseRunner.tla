---------------------------- MODULE MCBaseRunner ----------------------------
(* Small instance of BaseRunner: hosts that differ in the prompt they      *)
(* compose, in what is wrong with them, or in how far they go.             *)
EXTENDS BaseRunner

Supported ==
    [id |-> "profile", model |-> "model", secret |-> "key", supports |-> ModelNeeds]
NoTree == [native |-> <<>>, fallback |-> <<>>, directories |-> <<>>]

\* The host every other one differs from.
Standard ==
    [supported |-> TRUE, profile |-> Supported, terminals |-> <<1, 2, 3>>,
     system |-> Absent, append |-> Absent, systemFiles |-> <<>>,
     appendFiles |-> <<>>, enabled |-> TRUE, tree |-> NoTree,
     content |-> <<>>, footer |-> 2, 
     asked |-> [id |-> "profile", secret |-> "key"], goal |-> "components"]

Texts == {<<1>>, <<1, 2>>, <<2, 2, 2>>}
Bodies == {<<1, 1>>, <<2, 2, 1, 2, 1, 1, 1>>, <<1, 2, 2, 2, 2, 2, 2, 2>>}
Long == <<2, 2, 2, 2, 2, 2, 2, 2>>

\* Every budget: a body, an appended text, up to three context files.
Budgets ==
    {[Standard EXCEPT !.system = body, !.append = append, !.footer = footer,
                      !.content = texts,
                      !.tree.directories = [i \in DOMAIN texts |-> <<i>>]] :
        body \in Bodies, append \in {Absent} \cup Texts, footer \in {2, 15},
        texts \in UNION {[1..n -> Texts \cup {<<>>}] : n \in 0..3}}

\* Every discovery: two names for each file, read, unreadable or absent.
Discoveries ==
    {[Standard EXCEPT !.content = [i \in 1..2 |-> texts[i]],
                      !.systemFiles = system, !.appendFiles = append,
                      !.tree = tree, !.enabled = enabled] :
        texts \in [1..2 -> {Unreadable, <<>>, <<1>>, Long}],
        system \in {<<>>, <<1, 2>>}, append \in {<<>>, <<Absent, 2>>, <<1>>},
        enabled \in BOOLEAN,
        tree \in [native : {<<>>, <<1, 2>>}, fallback : {<<2>>},
                  directories : {<<>>, <<<<Absent, 1>>, <<1, 2>>>>, <<<<2>>, <<1>>>>}]}

\* Every vocabulary, in any order, and everything wrong with a host.
Vocabularies ==
    {[Standard EXCEPT !.terminals = terminals, !.goal = "runner"] :
        terminals \in {<<>>, <<2>>, <<3, 1>>, <<2, 1, 3>>, <<1, 1>>}}
Unfit ==
    {[Standard EXCEPT !.supported = FALSE],
     [Standard EXCEPT !.profile.supports = {"tool_calls"}],
     [Standard EXCEPT !.asked.id = Other, !.goal = "live"],
     [Standard EXCEPT !.asked.secret = Other, !.goal = "live"]}

MCHosts ==
    Budgets \cup Discoveries \cup Vocabularies \cup Unfit
        \cup {[Standard EXCEPT !.goal = "live"]}
        \cup {[Standard EXCEPT !.terminals = <<3, 1>>, !.goal = "execution"]}
MCDefaultPrompt == <<1, 1, 1>>
=============================================================================
