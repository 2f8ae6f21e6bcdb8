---------------------------- MODULE Conversation ----------------------------
(***************************************************************************)
(* What a session tells the model: the message history that the runner     *)
(* loop and run_inference extend, the tiered compaction applied to it in   *)
(* place before every model call (TieredCompact under ContextManager), and *)
(* the two gates every request passes: the request contract, and for a     *)
(* profile with a replay field the check of the replayed reasoning.        *)
(*                                                                         *)
(* A text is its size class.  Names are left out: a result carries the     *)
(* name of the call it was made for.  When a session gives up, and whether *)
(* a reply tells of success or failure, is GuardedSession's business.      *)
(***************************************************************************)
EXTENDS Naturals, FiniteSets, SequencesExt

CONSTANTS
    Policies,   \* compiled context policies, each with the profile's replay
    Weight,     \* size class -> tokens, by the estimate
    MaxBatch,   \* bound on the tool calls of one answer
    MaxAnswers  \* bound on the answers of a session

Sizes == {"short", "long", "cut"}

\* Step, prerequisite and retry nudges are one type: nothing here tells
\* them apart.
Types == {"system_prompt", "user_input", "tool_call", "tool_result",
          "reasoning", "text_response", "nudge"}

\* keep_recent_iterations, the trigger of each phase in tokens, and whether
\* the profile has a tool_call_replay_field.
ASSUME ConversationAssumption ==
    /\ \A p \in Policies :
          /\ p \in [keep : Nat, triggers : [1..3 -> Nat], replay : BOOLEAN]
          /\ p.triggers[1] <= p.triggers[2] /\ p.triggers[2] <= p.triggers[3]
    /\ Weight \in [Sizes -> Nat]
    /\ MaxBatch \in Nat \ {0} /\ MaxAnswers \in Nat

VARIABLES
    policy,     \* of this session
    messages,   \* the history of the runner, compacted in place
    full,       \* the history as if nothing had been compacted
    phase,      \* "ready", "asked" or "refused"
    iteration,  \* the iteration the runner is at
    attempts,   \* of the current run_inference
    counter,    \* tool_call_counter
    issued,     \* ids the provider has given
    answers     \* of the model so far

historyVars == <<messages, full>>
idVars == <<counter, issued>>
conversationVars == <<policy, historyVars, phase, iteration, attempts, idVars, answers>>

-----------------------------------------------------------------------------
(***************************************************************************)
(* Messages.  An id is one the provider gave or one the runner assigned.   *)
(***************************************************************************)
NoId == <<"none", 0>>
ProviderId(n) == <<"provider", n>>
RunnerId(n) == <<"call", n>>

Message(type, step, size) ==
    [type |-> type, step |-> step, size |-> size,
     calls |-> <<>>, answers |-> NoId, reasoned |-> FALSE]

CallMessage(step, ids, reasoned) ==
    [Message("tool_call", step, "short") EXCEPT
        !.calls = ids, !.reasoned = reasoned]

\* One message of role tool for each call of a batch.
Replies(type, step, ids, size) ==
    [i \in DOMAIN ids |-> [Message(type, step, size) EXCEPT !.answers = ids[i]]]

IsReply(m) == m.answers # NoId
Header == <<Message("system_prompt", 0, "short"), Message("user_input", 0, "short")>>
Body(history) == {i \in DOMAIN history : i > Len(Header)}

-----------------------------------------------------------------------------
(***************************************************************************)
(* Compaction.                                                             *)
(***************************************************************************)
\* The messages at the given places, in their order.
Picked(history, places) ==
    LET place(k) == CHOOSE i \in places :
                        Cardinality({j \in places : j < i}) = k - 1
    IN  [k \in 1..Cardinality(places) |-> history[place(k)]]

\* _estimate_tokens; the reasoning that is replayed counts too.
Tokens(history) ==
    LET sum[i \in 0..Len(history)] ==
            IF i = 0 THEN 0
            ELSE sum[i - 1] + Weight[history[i].size]
                            + (IF history[i].reasoned THEN 1 ELSE 0)
    IN  sum[Len(history)]

Steps(history) == {history[i].step : i \in Body(history)}

\* Mutant: recent messages are counted, not recent iterations.
EligibleEndByMessage(history, keep) ==
    IF Cardinality(Steps(history)) <= keep \/ keep = 0 THEN Len(Header) + 1
    ELSE Len(history) + 1 - keep

\* _find_eligible_end: the first message of the last `keep' iterations, told
\* by step_index; what lies between the header and it may be compacted.
\* With keep = 0, Python's seen_steps[-0] is the first iteration.
EligibleEnd(history, keep) ==
    LET steps == Steps(history)
        cutoff == IF keep = 0 THEN Min(steps)
                  ELSE CHOOSE s \in steps :
                          Cardinality({t \in steps : t >= s}) = keep
    IN  IF Cardinality(steps) <= keep THEN Len(Header) + 1
        ELSE Min({i \in Body(history) : history[i].step >= cutoff})

\* _replay_steps: the eligible iterations with replayed reasoning, and of
\* those the ones whose only calls are all answered, in order.
ReplaySteps(old) ==
    {old[i].step : i \in {j \in DOMAIN old : old[j].calls # <<>> /\ old[j].reasoned}}

CompleteSteps(old) ==
    {s \in ReplaySteps(old) :
        LET own == {i \in DOMAIN old : old[i].step = s}
            callers == {i \in own : old[i].calls # <<>>}
        IN  /\ Cardinality(callers) = 1
            /\ LET at == CHOOSE i \in callers : TRUE
                   replies == Picked(old, {i \in own : i > at /\ IsReply(old[i])})
               IN  [i \in DOMAIN replies |-> replies[i].answers] = old[at].calls}

\* A phase keeps, shortens or drops each message that is eligible.
Cut(m) == IF m.size = "short" THEN m ELSE [m EXCEPT !.size = "cut"]

Phase1(old, replay) ==
    LET replied(m) == m.step \in replay /\ IsReply(m)
        kept == Picked(old, {i \in DOMAIN old :
                                old[i].type = "nudge" => replied(old[i])})
    IN  [i \in DOMAIN kept |->
            IF kept[i].type = "tool_result" \/ replied(kept[i])
            THEN Cut(kept[i]) ELSE kept[i]]

\* Mutant: the answers of a replayed iteration are dropped like any other.
DropByTypeAlone(old, replay, complete, dropped) ==
    Picked(old, {i \in DOMAIN old :
                    old[i].step \notin complete /\ old[i].type \notin dropped})

\* A complete iteration goes as a whole, an incomplete one stays as a whole.
DropUnlessReplayed(old, replay, complete, dropped) ==
    Picked(old, {i \in DOMAIN old :
                    /\ old[i].step \notin complete
                    /\ old[i].step \in replay \/ old[i].type \notin dropped})

\* TieredCompact.compact: each phase is applied to the history itself.
Compacted(history) ==
    LET end == EligibleEnd(history, policy.keep)
        old == SubSeq(history, Len(Header) + 1, end - 1)
        recent == SubSeq(history, end, Len(history))
        replay == ReplaySteps(old)
        complete == CompleteSteps(old)
        after(part) == Header \o part \o recent
        first == after(Phase1(old, replay))
        second == after(DropUnlessReplayed(old, replay, complete,
                                           {"nudge", "tool_result"}))
        third == after(DropUnlessReplayed(old, replay, complete,
                        {"nudge", "tool_result", "reasoning", "text_response"}))
    IN  IF Tokens(history) < policy.triggers[1] THEN history
        ELSE IF Tokens(first) < policy.triggers[2] THEN first
        ELSE IF Tokens(second) < policy.triggers[3] THEN second
        ELSE third

-----------------------------------------------------------------------------
(***************************************************************************)
(* The request.                                                            *)
(***************************************************************************)
Spoken == [kind |-> "assistant", calls |-> <<>>, answers |-> NoId, reasoned |-> FALSE]

\* to_api_dict and _model_message_from_private.
Wire(m) ==
    [kind |-> CASE IsReply(m) -> "tool"
                [] m.type \in {"tool_call", "text_response"} -> "assistant"
                [] m.type = "system_prompt" -> "system"
                [] OTHER -> "user",
     calls |-> m.calls, answers |-> m.answers, reasoned |-> m.reasoned]

\* fold_and_serialize: reasoning becomes the text of the calls after it, or
\* else a message of its own.
Request(history) ==
    LET thought(i) == i \in DOMAIN history /\ history[i].type = "reasoning"
        part(i) ==
            IF thought(i) THEN IF i = Len(history) THEN <<Spoken>> ELSE <<>>
            ELSE IF thought(i - 1) /\ history[i].calls = <<>>
              THEN <<Spoken, Wire(history[i])>>
            ELSE <<Wire(history[i])>>
    IN  FlattenSeq([i \in DOMAIN history |-> part(i)])

\* Where each call of a request is: <<message, place in its calls>>.
CallSites(request) ==
    UNION {{<<i, j>> : j \in DOMAIN request[i].calls} : i \in DOMAIN request}
CallAt(request, site) == request[site[1]].calls[site[2]]

CallIdsUnique(request) ==
    \A a, b \in CallSites(request) : CallAt(request, a) = CallAt(request, b) => a = b

\* ModelCompletionRequest._request_invariants.
ContractAccepts(request) ==
    /\ CallIdsUnique(request)
    /\ \A i \in DOMAIN request : request[i].kind = "tool" =>
          /\ \E site \in CallSites(request) :
                site[1] < i /\ CallAt(request, site) = request[i].answers
          /\ \A j \in 1..(i - 1) : request[j].answers # request[i].answers

\* _validate_reasoning_replay_history: calls come with their reasoning, and
\* their results follow at once and in order.
ReplayAccepts(request) ==
    /\ CallIdsUnique(request)
    /\ \A i \in DOMAIN request : request[i].calls # <<>> =>
          /\ request[i].reasoned
          /\ \A j \in DOMAIN request[i].calls :
                /\ i + j <= Len(request)
                /\ request[i + j].answers = request[i].calls[j]
    /\ \A i \in DOMAIN request : request[i].kind = "tool" =>
          \E site \in CallSites(request) : site[1] + site[2] = i

Accepted(request) ==
    /\ ContractAccepts(request)
    /\ IF policy.replay THEN ReplayAccepts(request)
       ELSE \A i \in DOMAIN request : ~request[i].reasoned

-----------------------------------------------------------------------------
(***************************************************************************)
(* One model call after another.                                           *)
(***************************************************************************)
\* maybe_compact, fold_and_serialize, and the request contract with the
\* backend's body builder behind it.
Send(history) ==
    /\ messages' = history
    /\ phase' = IF Accepted(Request(history)) THEN "asked" ELSE "refused"

Ask ==
    /\ phase = "ready"
    /\ Send(Compacted(messages))
    /\ UNCHANGED <<policy, full, iteration, attempts, idVars, answers>>

\* Every answer extends the history.
Extend(new, step, tries) ==
    /\ phase = "asked" /\ answers < MaxAnswers
    /\ messages' = messages \o new
    /\ full' = full \o new
    /\ iteration' = step
    /\ attempts' = tries
    /\ phase' = "ready"
    /\ answers' = answers + 1
    /\ UNCHANGED policy

\* No call in the text: it goes back with a nudge, under the index of the
\* iteration before.
AnswerText ==
    /\ Extend(<<Message("text_response", iteration, "short"),
                Message("nudge", iteration, "short")>>,
              iteration, attempts + 1)
    /\ UNCHANGED idVars

\* The calls of an answer, and what they leave of the two counters.  A
\* provider gives new ids or one it has given before; reasoning is admitted
\* only under a replay field, and is then required.
Batch(ids, reasoned, given, assigned) ==
    [ids |-> ids, reasoned |-> reasoned, issued |-> given, counter |-> assigned]

ProviderBatches ==
    {Batch([i \in 1..n |-> ProviderId(issued + i)], policy.replay,
           issued + n, counter) : n \in 1..MaxBatch}
    \cup {Batch(<<ProviderId(k)>>, policy.replay, issued, counter) : k \in 1..issued}

\* Calls rescued from a text get their ids from the runner.
RescuedBatches ==
    {Batch([i \in 1..n |-> RunnerId(counter + i)], FALSE, issued, counter + n) :
        n \in 1..MaxBatch}

\* The answer with its calls, after the text beside them if there is one,
\* and the replies the runner appends to it.
AnswerCalls(batch, texts, step, tries, type, size) ==
    /\ Extend(texts \o <<CallMessage(step, batch.ids, batch.reasoned)>>
                    \o Replies(type, step, batch.ids, size),
              step, tries)
    /\ issued' = batch.issued /\ counter' = batch.counter

Aside(step) == {<<>>, <<Message("reasoning", step, "short")>>}

\* An unknown tool, or arguments that are no object: answered inside
\* run_inference, under the index of the iteration before.
AnswerDefective ==
    \E batch \in ProviderBatches, texts \in Aside(iteration) :
        AnswerCalls(batch, texts, iteration, attempts + 1,
                    "nudge", "short")

\* A valid answer ends run_inference; its attempts are iterations too.
Valid == iteration + attempts + 1

\* A step or prerequisite the enforcer misses.
AnswerEnforced ==
    \/ \E batch \in ProviderBatches, texts \in Aside(Valid) :
          AnswerCalls(batch, texts, Valid, 0, "nudge", "short")
    \/ \E batch \in RescuedBatches :
          AnswerCalls(batch, <<>>, Valid, 0, "nudge", "short")

AnswerExecuted ==
    \/ \E batch \in ProviderBatches, texts \in Aside(Valid) :
       \E size \in {"short", "long"} :
          AnswerCalls(batch, texts, Valid, 0, "tool_result", size)
    \/ \E batch \in RescuedBatches, size \in {"short", "long"} :
          AnswerCalls(batch, <<>>, Valid, 0, "tool_result", size)

-----------------------------------------------------------------------------
ConversationInit ==
    /\ policy \in Policies
    /\ messages = Header /\ full = Header
    /\ phase = "ready"
    /\ iteration = 0 /\ attempts = 0
    /\ counter = 0 /\ issued = 0 /\ answers = 0

ConversationNext == Ask \/ AnswerText \/ AnswerDefective \/ AnswerEnforced \/ AnswerExecuted

ConversationSpec == ConversationInit /\ [][ConversationNext]_conversationVars

-----------------------------------------------------------------------------
(***************************************************************************)
(* Correctness.                                                            *)
(***************************************************************************)
\* Compaction never costs the session its request: one that is refused
\* would have been refused with the whole history, too.  A replayed
\* iteration must therefore go as a whole or stay as a whole, although its
\* index may be shared with failed attempts that came after it
\* (strategies.py:22-62).
CompactionKeepsRequestsValid ==
    phase = "refused" => ~Accepted(Request(full))

\* strategies.py:158-161, "keep_recent controls how many recent loop
\* iterations (...) are fully preserved": what is sent has the system
\* prompt, the user's input and every message of the last iterations as
\* they were, however often the history was compacted before.
RecentStaysWhole ==
    LET recent == {s \in Steps(full) :
                      Cardinality({t \in Steps(full) : t >= s}) <= policy.keep}
        tail(history) ==
            LET places == {i \in Body(history) : history[i].step \in recent}
            IN  IF places = {} THEN <<>>
                ELSE SubSeq(history, Min(places), Len(history))
    IN  /\ SubSeq(messages, 1, Len(Header)) = Header
        /\ tail(messages) = tail(full)
=============================================================================
