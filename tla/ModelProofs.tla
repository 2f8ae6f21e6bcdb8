----------------------------- MODULE ModelProofs -----------------------------
(***************************************************************************)
(* The model's side of a session, for any number of its parts: a model     *)
(* call and the close of its runner, and then the conversation that the    *)
(* calls carry.                                                            *)
(***************************************************************************)
EXTENDS ModelClient, Conversation, NaturalLemmas, SequenceTheorems

-----------------------------------------------------------------------------
(***************************************************************************)
(* Model calls.  They do not touch each other, so the inductive invariant  *)
(* is one formula for each call, which says what its suspension point      *)
(* tells about its tasks and its outcome, and one for the close.           *)
(***************************************************************************)
\* Before its tasks exist a call is told to nobody; until it enters a
\* clean-up nothing is decided.
Waiting == {"first_wait", "second_wait", "handoff"}

CallInv(c) ==
    /\ pc[c] \in {"idle", "executing"} =>
          /\ transport[c] = "none" /\ waiter[c] = "none"
          /\ interrupts[c] = 0 /\ ~interrupted[c]
    /\ pc[c] \in {"idle", "executing"} \cup Waiting => outcome[c] = None
    /\ pc[c] = "on_cancel" => outcome[c] = "interrupted"
    /\ pc[c] = "handoff" => TransportDone(c)
    /\ pc[c] = "ended" => ~interrupted[c] /\ OwnedDone(c)
    /\ interrupts[c] > 0 => interrupted[c] \/ outcome[c] = "interrupted"

CloseInv ==
    /\ closeTask \in {"none", "created"} => ~clientClosed /\ closes = 0
    /\ closeTask \notin {"none", "created"} => clientClosed /\ closes = 1
    /\ \A k \in Closers :
          /\ closer[k] # "idle" => closeTask # "none"
          /\ closer[k] = "returned" => closeTask = "closed"

IInv == TypeOK /\ (\A c \in Calls : CallInv(c)) /\ CloseInv

-----------------------------------------------------------------------------
\* Every step keeps the types.
LEMMA TypeStep ==
    ASSUME TypeOK, CloseInv, [Next]_vars
    PROVE  TypeOK'
<1> USE ModelClientAssumption DEF TypeOK, Outcomes, TransportStates, WaiterStates
<1> USE DEF vars, taskVars, worldVars, closeVars, Goto, Decide
<1>1. ASSUME NEW c \in Calls, Resume(c)
      PROVE  TypeOK'
  <2>1. CASE Execute(c)
    BY <2>1 DEF Execute
  <2>2. CASE Complete(c)
    BY <2>2 DEF Complete
  <2> USE DEF EnterCleanup, CancelOwned, CancelTask
  <2>3. CASE FirstWait(c)
    BY <2>3, ZenonT(90) DEF FirstWait, OnCancel, Cancels, Expires, HandOff, TakeResult
  <2>4. CASE SecondWait(c)
    BY <2>4, ZenonT(90) DEF SecondWait, OnCancel, Cancels, Expires, HandOff, TakeResult
  <2>5. CASE Settle(c)
    BY <2>5, ZenonT(90) DEF Settle, OnCancel, Cancels, Expires, TakeResult
  <2>6. CASE LeaveOnCancel(c)
    BY <2>6 DEF LeaveOnCancel
  <2>7. CASE Finish(c)
    BY <2>7 DEF Finish
  <2> QED
    BY <1>1, <2>1, <2>2, <2>3, <2>4, <2>5, <2>6, <2>7 DEF Resume
<1>2. ASSUME NEW c \in Calls, Tasks(c)
      PROVE  TypeOK'
  BY <1>2 DEF Tasks, SendStarts, SendEnds, WaiterStarts, WaiterEnds,
              TransportBecomes, WaiterBecomes
<1>3. ASSUME NEW c \in Calls, Outside(c)
      PROVE  TypeOK'
  <2>1. CASE CancelToken(c) \/ DeadlinePasses(c)
    BY <2>1 DEF CancelToken, DeadlinePasses
  <2>2. CASE Interrupt(c)
    BY <2>2 DEF Interrupt
  <2> QED
    BY <1>3, <2>1, <2>2 DEF Outside
<1>4. CASE Close
  <2>1. CASE CloseStarts
    BY <2>1 DEF CloseStarts, CloseInv
  <2>2. CASE CloseEnds
    BY <2>2 DEF CloseEnds
  <2> QED
    BY <1>4, <2>1, <2>2 DEF Close
<1>5. ASSUME NEW k \in Closers, Aclose(k) \/ CloseReturns(k) \/ CloseInterrupted(k)
      PROVE  TypeOK'
  BY <1>5 DEF Aclose, CloseReturns, CloseInterrupted
<1>6. CASE UNCHANGED vars
  BY <1>6
<1> QED
  BY <1>1, <1>2, <1>3, <1>4, <1>5, <1>6 DEF Next, Done

\* A step of one call keeps what the invariant says of every call.
LEMMA CallStep ==
    ASSUME IInv, NEW c \in Calls, Resume(c) \/ Tasks(c) \/ Outside(c),
           NEW d \in Calls
    PROVE  CallInv(d)'
<1> USE ModelClientAssumption DEF Outcomes
<1> USE DEF IInv, CallInv, Waiting, TypeOK, OwnedDone, TransportDone, WaiterDone,
            Ended, Goto, Decide, taskVars, worldVars, closeVars
<1>1. CASE Execute(c)
  BY <1>1 DEF Execute
<1>2. CASE Complete(c)
  BY <1>2 DEF Complete
<1>3. CASE FirstWait(c)
  BY <1>3 DEF FirstWait, OnCancel, Cancels, Expires, HandOff, TakeResult, Current,
              EnterCleanup, CancelOwned, CancelTask
<1>4. CASE SecondWait(c)
  BY <1>4 DEF SecondWait, OnCancel, Cancels, Expires, HandOff, TakeResult, Current,
              EnterCleanup, CancelOwned, CancelTask
<1>5. CASE Settle(c)
  BY <1>5 DEF Settle, OnCancel, Cancels, Expires, TakeResult, Current,
              EnterCleanup, CancelOwned, CancelTask
<1>6. CASE LeaveOnCancel(c)
  BY <1>6 DEF LeaveOnCancel, EnterCleanup, CancelOwned, CancelTask
<1>7. CASE Finish(c)
  BY <1>7 DEF Finish
<1>8. CASE Tasks(c)
  BY <1>8 DEF Tasks, SendStarts, SendEnds, WaiterStarts, WaiterEnds,
              TransportBecomes, WaiterBecomes
<1>9. CASE Outside(c)
  BY <1>9 DEF Outside, CancelToken, DeadlinePasses, Interrupt
<1> QED
  BY <1>1, <1>2, <1>3, <1>4, <1>5, <1>6, <1>7, <1>8, <1>9 DEF Resume

\* A step of the close, and no step of a call, changes what it is about.
LEMMA CloseStep ==
    ASSUME CloseInv, TypeOK, [Next]_vars
    PROVE  CloseInv'
<1> USE DEF CloseInv, TypeOK, vars, taskVars, worldVars, closeVars
<1>1. CASE UNCHANGED closeVars
  BY <1>1
<1>2. CASE Close
  BY <1>2 DEF Close, CloseStarts, CloseEnds
<1>3. ASSUME NEW k \in Closers, Aclose(k) \/ CloseReturns(k) \/ CloseInterrupted(k)
      PROVE  CloseInv'
  BY <1>3 DEF Aclose, CloseReturns, CloseInterrupted
<1>4. ASSUME NEW c \in Calls, Resume(c) \/ Tasks(c) \/ Outside(c)
      PROVE  UNCHANGED closeVars
  BY <1>4 DEF Resume, Tasks, Outside, Execute, Complete, FirstWait, SecondWait,
     Settle, LeaveOnCancel, Finish, SendStarts, SendEnds, WaiterStarts, WaiterEnds,
     CancelToken, DeadlinePasses, Interrupt
<1> QED
  BY <1>1, <1>2, <1>3, <1>4 DEF Next, Done

\* What is left alone by the close stays true of the calls.
LEMMA OtherStep ==
    ASSUME IInv, NEW d \in Calls,
           UNCHANGED <<pc, taskVars, worldVars, outcome>>
    PROVE  CallInv(d)'
BY DEF IInv, CallInv, Waiting, OwnedDone, TransportDone, WaiterDone, Ended,
       taskVars, worldVars

\* No call has begun.
LEMMA InitIInv == Init => IInv
<1> SUFFICES ASSUME Init PROVE IInv
  OBVIOUS
<1>1. TypeOK
  <2>1. /\ cancelled \in [Calls -> BOOLEAN] /\ expired \in [Calls -> BOOLEAN]
        /\ watched \in [Calls -> BOOLEAN] /\ interrupted \in [Calls -> BOOLEAN]
    BY DEF Init
  <2>2. /\ pc \in [Calls -> {"idle"}]
        /\ transport \in [Calls -> TransportStates]
        /\ waiter \in [Calls -> WaiterStates]
        /\ interrupts \in [Calls -> 0..MaxInterrupts]
        /\ outcome \in [Calls -> {None}]
    BY ModelClientAssumption DEF Init, TransportStates, WaiterStates
  <2>3. /\ closed \in BOOLEAN /\ clientClosed \in BOOLEAN
        /\ closeTask = "none" /\ closes = 0
        /\ closer \in [Closers -> {"idle"}]
    BY DEF Init
  <2> QED
    BY <2>1, <2>2, <2>3 DEF TypeOK
<1>2. CloseInv
  BY DEF Init, CloseInv
<1>3. ASSUME NEW c \in Calls PROVE CallInv(c)
  BY DEF Init, CallInv, Waiting, OwnedDone, TransportDone, WaiterDone, Ended
<1> QED
  BY <1>1, <1>2, <1>3 DEF IInv

\* The parts of the invariant together.
LEMMA NextIInv == IInv /\ [Next]_vars => IInv'
<1> SUFFICES ASSUME IInv, [Next]_vars PROVE IInv'
  OBVIOUS
<1>1. TypeOK' /\ CloseInv'
  BY TypeStep, CloseStep DEF IInv
<1>2. ASSUME NEW d \in Calls PROVE CallInv(d)'
  <2>1. ASSUME NEW c \in Calls, Resume(c) \/ Tasks(c) \/ Outside(c)
        PROVE  CallInv(d)'
    BY <2>1, CallStep
  <2>2. ASSUME Close \/ (\E k \in Closers :
                  Aclose(k) \/ CloseReturns(k) \/ CloseInterrupted(k))
        PROVE  CallInv(d)'
    BY <2>2, OtherStep DEF Close, CloseStarts, CloseEnds, Aclose, CloseReturns,
       CloseInterrupted, taskVars, worldVars
  <2>3. CASE UNCHANGED vars
    BY <2>3, OtherStep DEF vars
  <2> QED
    BY <2>1, <2>2, <2>3 DEF Next, Done
<1> QED
  BY <1>1, <1>2 DEF IInv

-----------------------------------------------------------------------------
\* The inductive invariant holds: where a call is suspended tells what its
\* tasks and its outcome can be.
THEOREM Invariance == Spec => []IInv
<1> QED
  BY InitIInv, NextIInv, PTL DEF Spec

\* The variables of every call and of the close have their types.
THEOREM ClientTypeCorrect == Spec => []TypeOK
<1>1. IInv => TypeOK
  BY DEF IInv
<1> QED
  BY <1>1, Invariance, PTL

\* No call leaves a task of _send_with_cancellation behind.
THEOREM NothingIsOrphaned == Spec => []NothingOrphaned
<1>1. IInv => NothingOrphaned
  BY DEF IInv, CallInv, NothingOrphaned
<1> QED
  BY <1>1, Invariance, PTL

\* A cancellation of the caller always reaches it.
THEOREM CancellationReachesCaller == Spec => []CancellationIsNeverLost
<1>1. IInv => CancellationIsNeverLost
  BY DEF IInv, CallInv, CancellationIsNeverLost
<1> QED
  BY <1>1, Invariance, PTL

\* aclose returns when the one close of the HTTP client is over.
THEOREM CloseIsOnce == Spec => []CloseMeansClosed
<1>1. IInv => CloseMeansClosed
  BY DEF IInv, CloseInv, CloseMeansClosed
<1> QED
  BY <1>1, Invariance, PTL

\* Only a settled transport, an uncancelled token and an open deadline let a
\* result through.
THEOREM OnlyCurrentAnswers == Spec => AnswersAreCurrent
<1>1. IInv /\ Next => \A c \in Calls : TakesCurrent(c)
  <2> SUFFICES ASSUME IInv, Next, NEW d \in Calls PROVE TakesCurrent(d)
    OBVIOUS
  <2> USE ModelClientAssumption DEF Outcomes, IInv, TypeOK, Decide, TakesCurrent
  <2>1. CASE outcome'[d] = outcome[d]
    BY <2>1
  <2>2. ASSUME NEW c \in Calls, Resume(c) \/ Tasks(c) \/ Outside(c)
        PROVE  TakesCurrent(d)
    <3>1. CASE Execute(c) \/ Complete(c)
      BY <3>1 DEF Execute, Complete
    <3> USE DEF CallInv, Current, Cancels, Expires, EnterCleanup, TakeResult
    <3>2. CASE FirstWait(c)
      BY <3>2 DEF FirstWait, OnCancel, HandOff
    <3>3. CASE SecondWait(c)
      BY <3>3 DEF SecondWait, OnCancel, HandOff
    <3>4. CASE Settle(c)
      BY <3>4 DEF Settle, OnCancel
    <3>5. CASE LeaveOnCancel(c) \/ Finish(c)
      BY <3>5 DEF LeaveOnCancel, Finish
    <3>6. CASE Tasks(c) \/ Outside(c)
      BY <3>6 DEF Tasks, Outside, SendStarts, SendEnds, WaiterStarts, WaiterEnds,
         CancelToken, DeadlinePasses, Interrupt
    <3> QED
      BY <2>2, <3>1, <3>2, <3>3, <3>4, <3>5, <3>6 DEF Resume
  <2>3. ASSUME Close \/ (\E k \in Closers :
                  Aclose(k) \/ CloseReturns(k) \/ CloseInterrupted(k))
        PROVE  TakesCurrent(d)
    BY <2>3 DEF Close, CloseStarts, CloseEnds, Aclose, CloseReturns, CloseInterrupted
  <2> QED
    BY <2>2, <2>3 DEF Next, Done, vars
<1>2. IInv /\ [Next]_vars => [\A c \in Calls : TakesCurrent(c)]_vars
  BY <1>1
<1> QED
  BY <1>2, Invariance, PTL DEF Spec, AnswersAreCurrent

-----------------------------------------------------------------------------
(***************************************************************************)
(* The conversation.  However often the history was compacted, it and the  *)
(* whole history are the header, something of earlier iterations, and one  *)
(* and the same end, which is exactly what is recent.                      *)
(***************************************************************************)
Ids == {"none", "provider", "call"} \X Nat

Said == [type : Types, step : Nat, size : Sizes, calls : Seq(Ids), answers : Ids,
         reasoned : BOOLEAN]

StepsOf(seq) == {seq[i].step : i \in DOMAIN seq}

\* The steps compaction must leave alone.
Recent == {s \in Steps(full) : Cardinality({t \in Steps(full) : t >= s}) <= policy.keep}

\* The two histories end alike, and what ends them alike is what is recent.
EndAlike ==
    \E a, b, t \in Seq(Said) :
        /\ messages = Header \o a \o t
        /\ full = Header \o b \o t
        /\ StepsOf(a) \cap Recent = {} /\ StepsOf(b) \cap Recent = {}
        /\ StepsOf(t) \subseteq Recent

\* The iterations of the whole history are in their order.
InSequence ==
    /\ \A i, j \in Body(full) : i <= j => full[i].step <= full[j].step
    /\ \A s \in Steps(full) : s <= iteration

ConversationInv ==
    /\ policy \in Policies
    /\ iteration \in Nat /\ attempts \in Nat /\ counter \in Nat /\ issued \in Nat
    /\ messages \in Seq(Said) /\ full \in Seq(Said)
    /\ EndAlike /\ InSequence
    /\ Steps(messages) \subseteq Steps(full)

\* What is picked from a history was in it.
LEMMA PickedAreThere ==
    ASSUME NEW S, NEW history \in Seq(S), NEW places, places \subseteq DOMAIN history
    PROVE  /\ Picked(history, places) \in Seq(S)
           /\ \A k \in DOMAIN Picked(history, places) :
                 \E i \in places : Picked(history, places)[k] = history[i]
<1> DEFINE n == Cardinality(places)
           place(k) == CHOOSE i \in places :
                          Cardinality({j \in places : j < i}) = k - 1
<1>1. DOMAIN history = 1..Len(history) /\ Len(history) \in Nat
  BY LenProperties
<1>2. IsFiniteSet(places) /\ n \in Nat /\ places \subseteq Nat
  <2>1. IsFiniteSet(1..Len(history))
    BY <1>1, FS_Interval
  <2> QED
    BY <1>1, <2>1, FS_Subset, FS_CardinalityType
<1>3. ASSUME NEW k \in 1..n PROVE place(k) \in places
  <2>1. k - 1 \in 0..(n - 1)
    BY <1>2
  <2>2. \E i \in places : Cardinality(Below(places, i)) = k - 1
    BY <1>2, <2>1, Ranks
  <2> QED
    BY <2>2 DEF Below
<1> HIDE DEF place
<1>4. Picked(history, places) = [k \in 1..n |-> history[place(k)]]
  BY DEF Picked, place
<1>5. \A k \in 1..n : history[place(k)] \in S
  <2> TAKE k \in 1..n
  <2>1. place(k) \in DOMAIN history
    BY <1>3
  <2> QED
    BY <1>1, <2>1, ElementOfSeq
<1> QED
  <2> HIDE DEF n
  <2> QED
    BY <1>2, <1>3, <1>4, <1>5

\* A phase keeps some of the messages, of the iterations they were said in.
LEMMA PhasesOnlyDrop ==
    ASSUME NEW old \in Seq(Said), NEW replay, NEW complete, NEW dropped
    PROVE  /\ Phase1(old, replay) \in Seq(Said)
           /\ StepsOf(Phase1(old, replay)) \subseteq StepsOf(old)
           /\ DropUnlessReplayed(old, replay, complete, dropped) \in Seq(Said)
           /\ StepsOf(DropUnlessReplayed(old, replay, complete, dropped))
                 \subseteq StepsOf(old)
<1>1. ASSUME NEW places, places \subseteq DOMAIN old
      PROVE  /\ Picked(old, places) \in Seq(Said)
             /\ StepsOf(Picked(old, places)) \subseteq StepsOf(old)
  BY <1>1, PickedAreThere DEF StepsOf
<1>2. \A m \in Said : Cut(m) \in Said /\ Cut(m).step = m.step
  BY DEF Cut, Said, Sizes
<1>3. /\ Phase1(old, replay) \in Seq(Said)
      /\ StepsOf(Phase1(old, replay)) \subseteq StepsOf(old)
  <2> DEFINE replied(m) == m.step \in replay /\ IsReply(m)
             places == {i \in DOMAIN old : old[i].type = "nudge" => replied(old[i])}
             kept == Picked(old, places)
             new(i) == IF kept[i].type = "tool_result" \/ replied(kept[i])
                       THEN Cut(kept[i]) ELSE kept[i]
  <2>1. Phase1(old, replay) = [i \in DOMAIN kept |-> new(i)]
    BY DEF Phase1
  <2>2. kept \in Seq(Said) /\ StepsOf(kept) \subseteq StepsOf(old)
    BY <1>1
  <2>3. \A i \in DOMAIN kept : kept[i] \in Said
    BY <2>2
  <2> HIDE DEF kept
  <2>4. \A i \in DOMAIN kept : new(i) \in Said /\ new(i).step = kept[i].step
    BY <1>2, <2>3
  <2> HIDE DEF new
  <2>5. DOMAIN kept = 1..Len(kept) /\ Len(kept) \in Nat
    BY <2>2
  <2>6. [i \in DOMAIN kept |-> new(i)] \in Seq(Said)
    BY <2>4, <2>5
  <2>7. StepsOf([i \in DOMAIN kept |-> new(i)]) \subseteq StepsOf(kept)
    BY <2>4 DEF StepsOf
  <2> QED
    BY <2>1, <2>2, <2>6, <2>7
<1>4. DropUnlessReplayed(old, replay, complete, dropped) =
         Picked(old, {i \in DOMAIN old :
                         /\ old[i].step \notin complete
                         /\ old[i].step \in replay \/ old[i].type \notin dropped})
  BY DEF DropUnlessReplayed
<1> QED
  BY <1>1, <1>3, <1>4

LEMMA HeaderIsShort == Len(Header) = 2 /\ Header \in Seq(Said)
<1>1. Header = <<Header[1], Header[2]>>
  BY DEF Header
<1>2. /\ Message("system_prompt", 0, "short") \in Said
      /\ Message("user_input", 0, "short") \in Said
  BY DEF Message, Said, Types, Sizes, Ids, NoId
<1> QED
  BY <1>1, <1>2 DEF Header

\* A history with a header in front: its steps are those of the rest.
LEMMA StepsBehindHeader ==
    ASSUME NEW rest \in Seq(Said)
    PROVE  /\ Header \o rest \in Seq(Said)
           /\ Len(Header \o rest) = 2 + Len(rest)
           /\ Body(Header \o rest) = 3..(2 + Len(rest))
           /\ \A i \in 3..(2 + Len(rest)) : (Header \o rest)[i] = rest[i - 2]
           /\ Steps(Header \o rest) = StepsOf(rest)
           /\ SubSeq(Header \o rest, 1, Len(Header)) = Header
<1> DEFINE h == Header \o rest
<1>1. h \in Seq(Said) /\ Len(h) = 2 + Len(rest) /\ Len(rest) \in Nat
      /\ DOMAIN h = 1..(2 + Len(rest)) /\ DOMAIN rest = 1..Len(rest)
  <2>1. Len(rest) \in Nat /\ DOMAIN rest = 1..Len(rest)
    BY LenProperties
  <2>2. h \in Seq(Said) /\ Len(h) = Len(Header) + Len(rest)
    <3> HIDE DEF h
    <3>1. Header \in Seq(Said)
      BY HeaderIsShort
    <3> QED
      BY <3>1, ConcatProperties DEF h
  <2>3. DOMAIN h = 1..Len(h)
    BY <2>2, LenProperties
  <2> HIDE DEF h
  <2> QED
    BY <2>1, <2>2, <2>3, HeaderIsShort
<1>2. \A i \in 3..(2 + Len(rest)) : h[i] = rest[i - 2]
  BY <1>1, HeaderIsShort, ConcatProperties
<1>3. Body(h) = 3..(2 + Len(rest))
  BY <1>1, HeaderIsShort DEF Body
<1>4. Steps(h) = StepsOf(rest)
  <2>1. ASSUME NEW i \in DOMAIN rest PROVE rest[i].step \in Steps(h)
    <3>1. i + 2 \in 3..(2 + Len(rest)) /\ (i + 2) - 2 = i
      BY <1>1
    <3>2. h[i + 2] = rest[i]
      BY <1>2, <3>1
    <3> HIDE DEF h
    <3> QED
      BY <1>3, <3>1, <3>2 DEF Steps
  <2>2. ASSUME NEW i \in Body(h) PROVE h[i].step \in StepsOf(rest)
    <3>1. i - 2 \in DOMAIN rest /\ h[i] = rest[i - 2]
      BY <1>1, <1>2, <1>3
    <3> HIDE DEF h
    <3> QED
      BY <3>1 DEF StepsOf
  <2> HIDE DEF h
  <2> QED
    BY <2>1, <2>2 DEF Steps, StepsOf
<1>5. SubSeq(h, 1, Len(Header)) = Header
  BY HeaderIsShort, <1>1, ConcatProperties, SubSeqProperties
<1> QED
  BY <1>1, <1>2, <1>3, <1>4, <1>5

LEMMA StepsOfTwo ==
    ASSUME NEW a \in Seq(Said), NEW b \in Seq(Said)
    PROVE  a \o b \in Seq(Said) /\ StepsOf(a \o b) = StepsOf(a) \cup StepsOf(b)
<1>1. /\ a \o b \in Seq(Said) /\ Len(a \o b) = Len(a) + Len(b)
      /\ \A i \in 1..Len(a) : (a \o b)[i] = a[i]
      /\ \A i \in 1..Len(b) : (a \o b)[Len(a) + i] = b[i]
      /\ Len(a) \in Nat /\ Len(b) \in Nat
      /\ DOMAIN a = 1..Len(a) /\ DOMAIN b = 1..Len(b)
      /\ DOMAIN (a \o b) = 1..(Len(a) + Len(b))
  BY ConcatProperties, LenProperties
<1>2. StepsOf(a \o b) \subseteq StepsOf(a) \cup StepsOf(b)
  <2> SUFFICES ASSUME NEW i \in 1..(Len(a) + Len(b))
               PROVE  (a \o b)[i].step \in StepsOf(a) \cup StepsOf(b)
    BY <1>1 DEF StepsOf
  <2>1. CASE i <= Len(a)
    BY <1>1, <2>1 DEF StepsOf
  <2>2. CASE i > Len(a)
    <3>1. i - Len(a) \in 1..Len(b) /\ Len(a) + (i - Len(a)) = i
      BY <1>1, <2>2
    <3>2. (a \o b)[i] = b[i - Len(a)]
      BY <1>1, <3>1
    <3> QED
      BY <1>1, <3>1, <3>2 DEF StepsOf
  <2> QED
    BY <1>1, <2>1, <2>2
<1>3. StepsOf(a) \subseteq StepsOf(a \o b)
  <2> SUFFICES ASSUME NEW i \in 1..Len(a) PROVE a[i].step \in StepsOf(a \o b)
    BY <1>1 DEF StepsOf
  <2>1. i \in DOMAIN (a \o b) /\ (a \o b)[i] = a[i]
    BY <1>1
  <2> QED
    BY <2>1 DEF StepsOf
<1>4. StepsOf(b) \subseteq StepsOf(a \o b)
  <2> SUFFICES ASSUME NEW i \in 1..Len(b) PROVE b[i].step \in StepsOf(a \o b)
    BY <1>1 DEF StepsOf
  <2>1. Len(a) + i \in DOMAIN (a \o b) /\ (a \o b)[Len(a) + i] = b[i]
    BY <1>1
  <2> QED
    BY <2>1 DEF StepsOf
<1> QED
  BY <1>1, <1>2, <1>3, <1>4

\* Messages of one index.
LEMMA SaidHere ==
    ASSUME NEW step, NEW new \in Seq({m \in Said : m.step = step})
    PROVE  new \in Seq(Said) /\ \A i \in 1..Len(new) : new[i].step = step
<1> DEFINE Here == {m \in Said : m.step = step}
<1>1. Here \subseteq Said /\ \A m \in Here : m.step = step
  OBVIOUS
<1> HIDE DEF Here
<1>2. new \in Seq(Here)
  BY DEF Here
<1>3. \A i \in 1..Len(new) : new[i] \in Here
  BY <1>2, ElementOfSeq
<1>4. new \in Seq(Said)
  BY <1>1, <1>2
<1> QED
  BY <1>1, <1>3, <1>4

\* The iterations of a history are those of its parts.
LEMMA HistoryStepsOf ==
    ASSUME NEW a \in Seq(Said), NEW t \in Seq(Said)
    PROVE  /\ Header \o a \o t \in Seq(Said)
           /\ Steps(Header \o a \o t) = StepsOf(a) \cup StepsOf(t)
<1> DEFINE at == a \o t
<1>1. at \in Seq(Said) /\ StepsOf(at) = StepsOf(a) \cup StepsOf(t)
  BY StepsOfTwo
<1>2. Header \o a \o t = Header \o at
  BY HeaderIsShort, ConcatAssociative
<1> HIDE DEF at
<1>3. Header \o at \in Seq(Said) /\ Steps(Header \o at) = StepsOf(at)
  BY <1>1, StepsBehindHeader
<1> QED
  BY <1>1, <1>2, <1>3

\* The iterations of a history are finitely many numbers.
LEMMA StepsAreFinite ==
    ASSUME NEW history \in Seq(Said)
    PROVE  Steps(history) \subseteq Nat /\ IsFiniteSet(Steps(history))
<1>1. DOMAIN history = 1..Len(history) /\ Len(history) \in Nat
      /\ \A i \in DOMAIN history : history[i] \in Said
  BY LenProperties, ElementOfSeq
<1>2. Body(history) \subseteq 1..Len(history)
  BY <1>1 DEF Body
<1>3. Steps(history) \subseteq Nat
  BY <1>1, <1>2 DEF Steps, Said
<1>4. IsFiniteSet(Body(history))
  <2>1. IsFiniteSet(1..Len(history))
    BY <1>1, FS_Interval
  <2> QED
    BY <1>2, <2>1, FS_Subset
<1>5. [i \in Body(history) |-> history[i].step] \in Surjection(Body(history), Steps(history))
  BY DEF Surjection, Steps
<1> QED
  BY <1>3, <1>4, <1>5, FS_Surjection

\* A history behind its header, cut in its middle part.
LEMMA HistoryCut ==
    ASSUME NEW a \in Seq(Said), NEW t \in Seq(Said), NEW e \in 1..(Len(a) + 1),
           NEW whole, whole = Header \o a \o t
    PROVE  /\ SubSeq(a, 1, e - 1) \in Seq(Said) /\ SubSeq(a, e, Len(a)) \in Seq(Said)
           /\ SubSeq(whole, 3, e + 1) = SubSeq(a, 1, e - 1)
           /\ SubSeq(whole, e + 2, Len(whole)) = SubSeq(a, e, Len(a)) \o t
<1> DEFINE h == Header
<1>0. h \in Seq(Said) /\ Len(h) = 2
  BY HeaderIsShort
<1> HIDE DEF h
<1> DEFINE all == h \o a \o t
           start == SubSeq(a, 1, e - 1)
           rest == SubSeq(a, e, Len(a))
           left == SubSeq(all, Len(h) + 1, Len(h) + e - 1)
           right == SubSeq(all, Len(h) + e, Len(all))
<1>1. Len(h) \in Nat /\ Len(a) \in Nat /\ Len(t) \in Nat
  BY <1>0, LenProperties
<1>2. /\ h \o a \in Seq(Said) /\ Len(h \o a) = Len(h) + Len(a)
      /\ \A i \in 1..Len(h) + Len(a) :
            (h \o a)[i] = IF i <= Len(h) THEN h[i] ELSE a[i - Len(h)]
  BY <1>0, ConcatProperties
<1>3. /\ all \in Seq(Said) /\ Len(all) = Len(h) + Len(a) + Len(t)
      /\ \A i \in 1..Len(h) + Len(a) + Len(t) :
            all[i] = IF i <= Len(h) + Len(a) THEN (h \o a)[i]
                     ELSE t[i - (Len(h) + Len(a))]
  <2> DEFINE ha == h \o a
  <2> HIDE DEF ha
  <2>1. /\ ha \o t \in Seq(Said) /\ Len(ha \o t) = Len(ha) + Len(t)
        /\ \A i \in 1..Len(ha) + Len(t) :
              (ha \o t)[i] = IF i <= Len(ha) THEN ha[i] ELSE t[i - Len(ha)]
    BY <1>2, ConcatProperties DEF ha
  <2> QED
    BY <1>2, <2>1 DEF ha
<1>4. /\ \A i \in 1..Len(a) : all[Len(h) + i] = a[i]
      /\ \A i \in 1..Len(t) : all[Len(h) + Len(a) + i] = t[i]
  <2> HIDE DEF all
  <2>1. ASSUME NEW i \in 1..Len(a) PROVE all[Len(h) + i] = a[i]
    <3>1. Len(h) + i \in 1..Len(h) + Len(a) /\ ~(Len(h) + i <= Len(h))
          /\ Len(h) + i - Len(h) = i
      BY <1>1
    <3> QED
      BY <1>1, <1>2, <1>3, <3>1
  <2>2. ASSUME NEW i \in 1..Len(t) PROVE all[Len(h) + Len(a) + i] = t[i]
    <3>1. /\ Len(h) + Len(a) + i \in 1..Len(h) + Len(a) + Len(t)
          /\ ~(Len(h) + Len(a) + i <= Len(h) + Len(a))
          /\ Len(h) + Len(a) + i - (Len(h) + Len(a)) = i
      BY <1>1
    <3> QED
      BY <1>1, <1>3, <3>1
  <2> QED
    BY <2>1, <2>2
<1> HIDE DEF all
<1>5. /\ \A i \in 1..Len(a) : a[i] \in Said
      /\ \A i \in 1..Len(t) : t[i] \in Said
      /\ \A i \in 1..Len(h) + Len(a) + Len(t) : all[i] \in Said
  BY <1>3, ElementOfSeq
<1>6. /\ start \in Seq(Said) /\ Len(start) = e - 1
      /\ \A i \in 1..(e - 1) : start[i] = a[i]
  <2>1. \A i \in 1..(e - 1) : a[i] \in Said
    BY <1>1, <1>5
  <2>2. /\ SubSeq(a, 1, e - 1) \in Seq(Said)
        /\ Len(SubSeq(a, 1, e - 1)) = IF 1 <= e - 1 THEN (e - 1) - 1 + 1 ELSE 0
        /\ \A i \in 1..((e - 1) - 1 + 1) : SubSeq(a, 1, e - 1)[i] = a[1 + i - 1]
    BY <2>1, SubSeqProperties
  <2> QED
    BY <1>1, <2>2
<1>7. /\ rest \in Seq(Said) /\ Len(rest) = Len(a) + 1 - e
      /\ \A i \in 1..(Len(a) + 1 - e) : rest[i] = a[e + i - 1]
  <2>1. \A i \in e..Len(a) : a[i] \in Said
    BY <1>1, <1>5
  <2>2. /\ SubSeq(a, e, Len(a)) \in Seq(Said)
        /\ Len(SubSeq(a, e, Len(a))) = IF e <= Len(a) THEN Len(a) - e + 1 ELSE 0
        /\ \A i \in 1..(Len(a) - e + 1) : SubSeq(a, e, Len(a))[i] = a[e + i - 1]
    BY <1>1, <2>1, SubSeqProperties
  <2> QED
    BY <1>1, <2>2
<1> HIDE DEF start, rest
<1>8. left = start
  <2> DEFINE m == Len(h) + 1
             n == Len(h) + e - 1
  <2>1. /\ m \in Int /\ n \in Int /\ n - m + 1 = e - 1 /\ (m <= n <=> 0 < e - 1)
        /\ \A i \in m..n : i \in 1..Len(h) + Len(a) + Len(t)
    BY <1>1
  <2> HIDE DEF m, n
  <2>2. \A i \in m..n : all[i] \in Said
    BY <1>5, <2>1
  <2>3. /\ SubSeq(all, m, n) \in Seq(Said)
        /\ Len(SubSeq(all, m, n)) = IF m <= n THEN n - m + 1 ELSE 0
        /\ \A i \in 1..(n - m + 1) : SubSeq(all, m, n)[i] = all[m + i - 1]
    BY <2>1, <2>2, SubSeqProperties
  <2>4. left \in Seq(Said) /\ Len(left) = e - 1
    BY <2>1, <2>3 DEF m, n
  <2>5. ASSUME NEW i \in 1..(e - 1) PROVE left[i] = start[i]
    <3>1. left[i] = all[m + i - 1]
      BY <2>1, <2>3 DEF m, n
    <3>2. m + i - 1 = Len(h) + i /\ i \in 1..Len(a)
      BY <1>1 DEF m
    <3> QED
      BY <1>4, <1>6, <3>1, <3>2
  <2> HIDE DEF left
  <2> QED
    BY <1>6, <2>4, <2>5, SeqEqual
<1>9. right = rest \o t
  <2> DEFINE m == Len(h) + e
             n == Len(h) + Len(a) + Len(t)
             k == Len(a) + 1 - e
  <2>1. /\ m \in Int /\ n \in Int /\ n - m + 1 = k + Len(t)
        /\ k \in Nat /\ (m <= n <=> 0 < k + Len(t))
        /\ \A i \in m..n : i \in 1..Len(h) + Len(a) + Len(t)
    BY <1>1
  <2>2. right = SubSeq(all, m, n)
    BY <1>3
  <2>3. /\ rest \o t \in Seq(Said) /\ Len(rest \o t) = k + Len(t)
        /\ \A i \in 1..(k + Len(t)) :
              (rest \o t)[i] = IF i <= k THEN rest[i] ELSE t[i - k]
    <3>1. Len(rest) = k
      BY <1>7
    <3> HIDE DEF k
    <3> QED
      BY <1>7, <3>1, ConcatProperties
  <2> HIDE DEF m, n, k, right
  <2>4. \A i \in m..n : all[i] \in Said
    BY <1>5, <2>1
  <2>5. /\ SubSeq(all, m, n) \in Seq(Said)
        /\ Len(SubSeq(all, m, n)) = IF m <= n THEN n - m + 1 ELSE 0
        /\ \A i \in 1..(n - m + 1) : SubSeq(all, m, n)[i] = all[m + i - 1]
    BY <2>1, <2>4, SubSeqProperties
  <2>6. right \in Seq(Said) /\ Len(right) = k + Len(t)
    BY <1>1, <2>1, <2>2, <2>5
  <2>7. ASSUME NEW i \in 1..(k + Len(t)) PROVE right[i] = (rest \o t)[i]
    <3>1. right[i] = all[m + i - 1] /\ i \in Nat
      BY <1>1, <2>1, <2>2, <2>5
    <3>2. CASE i <= k
      <4>1. m + i - 1 = Len(h) + (e + i - 1) /\ e + i - 1 \in 1..Len(a)
            /\ i \in 1..(Len(a) + 1 - e)
        BY <1>1, <3>2 DEF m, k
      <4> QED
        BY <1>4, <1>7, <2>3, <3>1, <3>2, <4>1
    <3>3. CASE ~(i <= k)
      <4>1. m + i - 1 = Len(h) + Len(a) + (i - k) /\ i - k \in 1..Len(t)
        BY <1>1, <2>1, <3>1, <3>3 DEF m, k
      <4> QED
        BY <1>4, <2>3, <3>1, <3>3, <4>1
    <3> QED
      BY <3>2, <3>3
  <2> DEFINE other == rest \o t
  <2> HIDE DEF other
  <2>8. other \in Seq(Said) /\ Len(other) = k + Len(t)
        /\ \A i \in 1..(k + Len(t)) : right[i] = other[i]
    BY <2>3, <2>7 DEF other
  <2>9. right = other
    BY <2>6, <2>8, SeqEqual
  <2> QED
    BY <2>9 DEF other
<1>10. Len(h) + 1 = 3 /\ Len(h) + e - 1 = e + 1 /\ Len(h) + e = e + 2
  BY <1>0, <1>1
<1>11. all = whole
  BY DEF all, h
<1> QED
  BY <1>3, <1>6, <1>7, <1>8, <1>9, <1>10, <1>11 DEF start, rest

\* Four parts, of which the header is the first, put together in another order.
LEMMA HistoryParts ==
    ASSUME NEW part \in Seq(Said), NEW rest \in Seq(Said), NEW t \in Seq(Said)
    PROVE  Header \o part \o (rest \o t) = Header \o (part \o rest) \o t
<1> DEFINE h == Header
           hp == h \o part
<1>0. h \in Seq(Said)
  BY HeaderIsShort
<1> HIDE DEF h
<1>1. hp \in Seq(Said) /\ part \o rest \in Seq(Said)
  BY <1>0, ConcatProperties
<1>2. hp \o rest = h \o (part \o rest)
  BY <1>0, ConcatAssociative
<1> HIDE DEF hp
<1>3. (hp \o rest) \o t = hp \o (rest \o t)
  BY <1>1, ConcatAssociative
<1> QED
  BY <1>2, <1>3 DEF hp, h

LEMMA HistoryTwo ==
    ASSUME NEW a \in Seq(Said), NEW t \in Seq(Said)
    PROVE  Header \o a \o t = Header \o (a \o t)
BY HeaderIsShort, ConcatAssociative

LEMMA HistoryRest ==
    ASSUME NEW a \in Seq(Said), NEW t \in Seq(Said), NEW new \in Seq(Said)
    PROVE  Header \o a \o t \o new = Header \o a \o (t \o new)
<1> DEFINE ha == Header \o a
<1>1. ha \in Seq(Said)
  BY HeaderIsShort, ConcatProperties
<1> HIDE DEF ha
<1>2. (ha \o t) \o new = ha \o (t \o new)
  BY <1>1, ConcatAssociative
<1> QED
  BY <1>2 DEF ha

\* A stretch of a history has no other iterations than the history.
LEMMA StepsOfStretch ==
    ASSUME NEW a \in Seq(Said), NEW m \in 1..(Len(a) + 1), NEW n \in 0..Len(a)
    PROVE  SubSeq(a, m, n) \in Seq(Said) /\ StepsOf(SubSeq(a, m, n)) \subseteq StepsOf(a)
<1>1. Len(a) \in Nat /\ DOMAIN a = 1..Len(a) /\ \A i \in m..n : a[i] \in Said
  <2>1. Len(a) \in Nat /\ DOMAIN a = 1..Len(a)
    BY LenProperties
  <2> QED
    BY <2>1, ElementOfSeq
<1>2. /\ SubSeq(a, m, n) \in Seq(Said)
      /\ Len(SubSeq(a, m, n)) = IF m <= n THEN n - m + 1 ELSE 0
      /\ \A i \in 1..(n - m + 1) : SubSeq(a, m, n)[i] = a[m + i - 1]
  <2>1. m \in Int /\ n \in Int
    BY <1>1
  <2> QED
    BY <1>1, <2>1, SubSeqProperties
<1> DEFINE part == SubSeq(a, m, n)
<1> HIDE DEF part
<1>3. DOMAIN part = 1..Len(part)
  BY <1>2, LenProperties DEF part
<1>4. ASSUME NEW i \in DOMAIN part PROVE part[i].step \in StepsOf(a)
  <2>1. i \in 1..(n - m + 1) /\ m + i - 1 \in 1..Len(a)
    BY <1>1, <1>2, <1>3 DEF part
  <2>2. part[i] = a[m + i - 1]
    BY <1>2, <2>1 DEF part
  <2> QED
    BY <1>1, <2>1, <2>2 DEF StepsOf
<1> QED
  BY <1>2, <1>4 DEF StepsOf, part

\* How many numbers of a set are not below one of them.
LEMMA FromOn ==
    ASSUME NEW S, S \subseteq Nat, IsFiniteSet(S), NEW x \in Nat
    PROVE  /\ IsFiniteSet({y \in S : y >= x})
           /\ Cardinality({y \in S : y >= x}) \in Nat
           /\ Cardinality({y \in S : y >= x}) = Cardinality(S) - Cardinality(Below(S, x))
<1> DEFINE on == {y \in S : y >= x}
           below == Below(S, x)
<1>1. on \subseteq S /\ below \subseteq S /\ on \cap below = {} /\ on \cup below = S
  <2>1. \A y \in S : (y >= x /\ ~(y < x)) \/ (~(y >= x) /\ y < x)
    OBVIOUS
  <2> QED
    BY <2>1 DEF Below
<1> HIDE DEF on, below
<1>2. /\ IsFiniteSet(on) /\ IsFiniteSet(below)
      /\ Cardinality(on) \in Nat /\ Cardinality(below) \in Nat
  BY <1>1, FS_Subset, FS_CardinalityType
<1>3. Cardinality(S) = Cardinality(on) + Cardinality(below) /\ Cardinality(S) \in Nat
  <2>1. Cardinality(on \cup below)
           = Cardinality(on) + Cardinality(below) - Cardinality(on \cap below)
    BY <1>2, FS_Union
  <2>2. Cardinality(on \cap below) = 0
    BY <1>1, FS_EmptySet
  <2>3. Cardinality(S) = Cardinality(on) + Cardinality(below) - 0
    BY <1>1, <2>1, <2>2
  <2> QED
    BY <1>2, <2>3
<1> QED
  BY <1>2, <1>3 DEF on, below

\* A compaction of a history whose last part is recent leaves this part alone,
\* and makes something of what lies between the header and it.
LEMMA CompactedKeepsRecent ==
    ASSUME ConversationInv,
           NEW a \in Seq(Said), NEW t \in Seq(Said),
           messages = Header \o a \o t, StepsOf(t) \subseteq Recent
    PROVE  \E c \in Seq(Said) : /\ Compacted(messages) = Header \o c \o t
                                /\ StepsOf(c) \subseteq StepsOf(a)
<1> DEFINE keep == policy.keep
           steps == Steps(messages)
           n == Len(messages)
           end == EligibleEnd(messages, keep)
           q == 3 + Len(a)
<1>1. keep \in Nat /\ messages \in Seq(Said) /\ full \in Seq(Said)
  BY ConversationAssumption DEF ConversationInv
<1>2. /\ Len(a) \in Nat /\ Len(t) \in Nat
      /\ a \o t \in Seq(Said) /\ Len(a \o t) = Len(a) + Len(t)
      /\ messages = Header \o (a \o t)
      /\ \A i \in 1..Len(a) + Len(t) :
            (a \o t)[i] = IF i <= Len(a) THEN a[i] ELSE t[i - Len(a)]
  BY HeaderIsShort, ConcatProperties, LenProperties, ConcatAssociative
<1>3. /\ n = 2 + Len(a) + Len(t) /\ Body(messages) = 3..n
      /\ \A i \in 3..n : messages[i] = (a \o t)[i - 2]
      /\ steps = StepsOf(a \o t)
  <2> DEFINE at == a \o t
  <2> HIDE DEF at
  <2>1. /\ at \in Seq(Said) /\ Len(at) = Len(a) + Len(t) /\ messages = Header \o at
    BY <1>2 DEF at
  <2>2. /\ Len(messages) = 2 + Len(at) /\ Body(messages) = 3..(2 + Len(at))
        /\ \A i \in 3..(2 + Len(at)) : messages[i] = at[i - 2]
        /\ Steps(messages) = StepsOf(at)
    BY <2>1, StepsBehindHeader
  <2>3. 2 + Len(at) = 2 + Len(a) + Len(t)
    BY <1>2, <2>1
  <2> QED
    BY <2>2, <2>3 DEF at
<1>4. /\ steps \subseteq Nat /\ IsFiniteSet(steps)
      /\ Steps(full) \subseteq Nat /\ IsFiniteSet(Steps(full))
      /\ steps \subseteq Steps(full)
      /\ Cardinality(steps) \in Nat
  BY <1>1, StepsAreFinite, FS_CardinalityType DEF ConversationInv
<1> HIDE DEF steps, n
<1>sizes. n \in Nat /\ q \in Nat /\ q = n + 1 - Len(t)
  BY <1>2, <1>3
<1>5. end \in 3..q
  <2> DEFINE cutoff == IF keep = 0 THEN Min(steps)
                       ELSE CHOOSE s \in steps :
                               Cardinality({x \in steps : x >= s}) = keep
             late == {i \in Body(messages) : messages[i].step >= cutoff}
  <2>1. CASE Cardinality(steps) <= keep
    <3>1. end = Len(Header) + 1
      BY <2>1 DEF EligibleEnd, steps
    <3> QED
      BY <1>2, <3>1, HeaderIsShort
  <2>2. CASE ~(Cardinality(steps) <= keep)
    <3>1. end = Min(late)
      BY <2>2 DEF EligibleEnd, steps
    <3>2. cutoff \in steps /\ (keep # 0 => Cardinality({x \in steps : x >= cutoff}) = keep)
      <4>1. CASE keep = 0
        <5>1. steps # {}
          BY <1>1, <1>4, <2>2, FS_EmptySet
        <5>2. \E x \in steps : \A y \in steps : x <= y
          BY <1>4, <5>1, LeastNatural
        <5> QED
          BY <4>1, <5>2 DEF Min
      <4>2. CASE keep # 0
        <5>1. Cardinality(steps) - keep \in 0..(Cardinality(steps) - 1)
          BY <1>1, <1>4, <2>2, <4>2
        <5>2. PICK x \in steps : Cardinality(Below(steps, x)) = Cardinality(steps) - keep
          BY <1>4, <5>1, Ranks
        <5>3. Cardinality({y \in steps : y >= x}) = keep
          <6>1. Cardinality({y \in steps : y >= x})
                   = Cardinality(steps) - Cardinality(Below(steps, x))
            BY <1>4, FromOn
          <6> QED
            BY <1>1, <1>4, <5>2, <6>1
        <5> QED
          BY <4>2, <5>3
      <4> QED
        BY <4>1, <4>2
    <3> HIDE DEF cutoff
    <3>3. late # {} /\ late \subseteq 3..n
      <4>1. PICK i \in Body(messages) : messages[i].step = cutoff
        BY <3>2 DEF Steps, steps
      <4>2. cutoff >= cutoff
        BY <1>4, <3>2
      <4> QED
        BY <1>3, <4>1, <4>2
    <3>4. Min(late) \in late /\ \A i \in late : Min(late) <= i
      <4>1. late \subseteq Nat
        BY <1>2, <1>3, <3>3
      <4> HIDE DEF late
      <4>2. \E i \in late : \A j \in late : i <= j
        BY <3>3, <4>1, LeastNatural
      <4> QED
        BY <4>2 DEF Min
    <3>5. CASE t = <<>>
      <4>1. Len(t) = 0
        BY <3>5
      <4>2. Min(late) \in 3..n
        BY <3>3, <3>4
      <4>3. end \in 3..n
        BY <3>1, <4>2
      <4> HIDE DEF end, q
      <4> QED
        BY <1>sizes, <4>1, <4>3
    <3>6. CASE t # <<>>
      <4>1. /\ Len(t) >= 1 /\ DOMAIN t = 1..Len(t) /\ 1 \in DOMAIN t
        BY <1>2, <3>6, EmptySeq, LenProperties
      <4>2. q \in 3..n /\ q - 2 \in 1..Len(a) + Len(t) /\ ~(q - 2 <= Len(a))
            /\ q - 2 - Len(a) = 1
        BY <1>2, <1>3, <4>1
      <4>3. messages[q] = t[1]
        BY <1>2, <1>3, <4>2
      <4>4. t[1].step \in Recent
        BY <4>1 DEF StepsOf
      <4> DEFINE x == t[1].step
                 ahead == {y \in Steps(full) : y >= x}
                 kept == {y \in steps : y >= cutoff}
      <4>5. /\ x \in Steps(full) /\ x \in Nat /\ Cardinality(ahead) <= keep
        BY <1>4, <4>4 DEF Recent
      <4>6. IsFiniteSet(ahead) /\ x \in ahead /\ Cardinality(ahead) \in Nat
        <5>1. x >= x
          BY <4>5
        <5> HIDE DEF x
        <5> QED
          BY <1>4, <4>5, <5>1, FromOn
      <4>7. keep # 0
        <5>1. ahead # {}
          BY <4>6
        <5>2. Cardinality(ahead) # 0
          BY <4>6, <5>1, FS_EmptySet
        <5> QED
          BY <1>1, <4>5, <4>6, <5>2
      <4>8. x >= cutoff
        <5> SUFFICES ASSUME x < cutoff PROVE FALSE
          BY <1>4, <3>2, <4>5
        <5> HIDE DEF x
        <5>1. kept \subseteq ahead /\ x \notin kept
          <6>1. cutoff \in Nat
            BY <1>4, <3>2
          <6>2. ASSUME NEW y \in steps, y >= cutoff PROVE y >= x /\ y # x /\ y \in Steps(full)
            <7>1. y \in Nat
              BY <1>4
            <7> QED
              BY <1>4, <4>5, <6>1, <6>2, <7>1
          <6> QED
            BY <6>2
        <5>2. Cardinality(kept) = keep
          BY <3>2, <4>7
        <5> HIDE DEF ahead, kept
        <5>3. Cardinality(kept) < Cardinality(ahead)
          <6>1. IsFiniteSet(kept) /\ Cardinality(kept) <= Cardinality(ahead)
                /\ (Cardinality(kept) = Cardinality(ahead) => kept = ahead)
                /\ Cardinality(kept) \in Nat
            BY <4>6, <5>1, FS_Subset, FS_CardinalityType
          <6> QED
            BY <4>6, <5>1, <6>1
        <5> QED
          BY <1>1, <4>5, <4>6, <5>2, <5>3
      <4>9. q \in late
        BY <1>3, <4>2, <4>3, <4>8
      <4>10. Min(late) \in 3..n /\ Min(late) <= q
        BY <3>3, <3>4, <4>9
      <4> HIDE DEF late
      <4> QED
        BY <1>2, <1>3, <3>1, <4>10
    <3> QED
      BY <3>5, <3>6
  <2> QED
    BY <2>1, <2>2
<1> DEFINE old == SubSeq(messages, Len(Header) + 1, end - 1)
           recent == SubSeq(messages, end, n)
           start == SubSeq(a, 1, end - 3)
           rest == SubSeq(a, end - 2, Len(a))
<1> HIDE DEF end
<1>6. end - 2 \in 1..(Len(a) + 1) /\ end - 3 \in 0..Len(a)
      /\ Len(Header) + 1 = 3 /\ 2 + (end - 2) = end /\ end - 2 - 1 = end - 3
      /\ 2 + (end - 2) - 1 = end - 1
  BY <1>2, <1>5, HeaderIsShort
<1>7. old = start /\ recent = rest \o t
      /\ start \in Seq(Said) /\ rest \in Seq(Said)
  <2> DEFINE e == end - 2
             all == messages
  <2> HIDE DEF e
  <2>1. e \in 1..(Len(a) + 1)
    BY <1>6 DEF e
  <2>2. /\ SubSeq(a, 1, e - 1) \in Seq(Said) /\ SubSeq(a, e, Len(a)) \in Seq(Said)
        /\ SubSeq(all, 3, e + 1) = SubSeq(a, 1, e - 1)
        /\ SubSeq(all, e + 2, Len(all)) = SubSeq(a, e, Len(a)) \o t
    BY <2>1, HistoryCut, ZenonT(40)
  <2>3. e + 1 = end - 1 /\ e + 2 = end /\ e - 1 = end - 3
    BY <1>2, <1>5 DEF e
  <2> QED
    BY <2>2, <2>3, <1>6 DEF e, n
<1>8. /\ StepsOf(start) \subseteq StepsOf(a) /\ StepsOf(rest) \subseteq StepsOf(a)
  <2>1. Len(a) \in 0..Len(a) /\ 1 \in 1..(Len(a) + 1)
    BY <1>2
  <2> QED
    BY <1>6, <2>1, StepsOfStretch
<1>9. ASSUME NEW part \in Seq(Said), StepsOf(part) \subseteq StepsOf(start)
      PROVE  /\ part \o rest \in Seq(Said) /\ StepsOf(part \o rest) \subseteq StepsOf(a)
             /\ Header \o part \o recent = Header \o (part \o rest) \o t
  <2>1. part \o rest \in Seq(Said) /\ StepsOf(part \o rest) = StepsOf(part) \cup StepsOf(rest)
    BY <1>7, StepsOfTwo
  <2>2. Header \o part \o (rest \o t) = Header \o (part \o rest) \o t
    <3>1. Header \in Seq(Said) /\ rest \in Seq(Said)
      BY <1>7, HeaderIsShort
    <3> HIDE DEF rest
    <3> QED
      BY <3>1, HistoryParts, ZenonT(40)
  <2> QED
    BY <1>7, <1>8, <1>9, <2>1, <2>2
<1> DEFINE replay == ReplaySteps(old)
           complete == CompleteSteps(old)
           quiet == {"nudge", "tool_result"}
           mute == {"nudge", "tool_result", "reasoning", "text_response"}
           part1 == Phase1(old, replay)
           part2 == DropUnlessReplayed(old, replay, complete, quiet)
           part3 == DropUnlessReplayed(old, replay, complete, mute)
<1>10. Compacted(messages) \in
          {messages} \cup {Header \o part \o recent : part \in {part1, part2, part3}}
  <2> HIDE DEF old, recent
  <2> QED
    BY DEF Compacted, old, recent, end, n
<1>11. \A part \in {part1, part2, part3} :
          part \in Seq(Said) /\ StepsOf(part) \subseteq StepsOf(start)
  <2>1. old \in Seq(Said) /\ old = start
    BY <1>7
  <2> HIDE DEF start, old
  <2> QED
    <3>1. /\ part1 \in Seq(Said) /\ StepsOf(part1) \subseteq StepsOf(old)
          /\ part2 \in Seq(Said) /\ StepsOf(part2) \subseteq StepsOf(old)
          /\ part3 \in Seq(Said) /\ StepsOf(part3) \subseteq StepsOf(old)
      <4> HIDE DEF replay, complete, quiet, mute
      <4> QED
        BY <2>1, PhasesOnlyDrop
    <3> HIDE DEF part1, part2, part3
    <3> QED
      BY <2>1, <3>1
<1>12. CASE Compacted(messages) = messages
  BY <1>12
<1>13. CASE \E part \in {part1, part2, part3} : Compacted(messages) = Header \o part \o recent
  <2>1. PICK part \in {part1, part2, part3} : Compacted(messages) = Header \o part \o recent
    BY <1>13
  <2> HIDE DEF part1, part2, part3, recent, rest, start
  <2>2. /\ part \o rest \in Seq(Said) /\ StepsOf(part \o rest) \subseteq StepsOf(a)
        /\ Header \o part \o recent = Header \o (part \o rest) \o t
    BY <1>9, <1>11
  <2> QED
    BY <2>1, <2>2
<1> QED
  BY <1>10, <1>12, <1>13

\* From the first message of an iteration in U on, all are.
TurnsOnce(u, U) == \A i, j \in 1..Len(u) : i <= j /\ u[i].step \in U => u[j].step \in U

\* What comes before them, and they.
Splits(u, U) ==
    \E t1, t2 \in Seq(Said) : /\ u = t1 \o t2
                              /\ StepsOf(t1) \cap U = {} /\ StepsOf(t2) \subseteq U

\* Where the recent iterations begin, a history that is in its order splits.
LEMMA Split ==
    ASSUME NEW u \in Seq(Said), NEW U, TurnsOnce(u, U)
    PROVE  Splits(u, U)
<1>1. Len(u) \in Nat /\ DOMAIN u = 1..Len(u) /\ \A i \in 1..Len(u) : u[i] \in Said
  BY LenProperties, ElementOfSeq
<1> DEFINE T == {i \in 1..(Len(u) + 1) : i <= Len(u) => u[i].step \in U}
<1>2. PICK e \in T : \A i \in T : e <= i
  <2>1. Len(u) + 1 \in T /\ T \subseteq Nat
    BY <1>1
  <2> HIDE DEF T
  <2> QED
    BY <2>1, LeastNatural
<1>3. e \in 1..(Len(u) + 1)
  BY <1>2
<1>4. \A i \in 1..Len(u) : IF i < e THEN u[i].step \notin U ELSE u[i].step \in U
  <2> TAKE i \in 1..Len(u)
  <2>1. i < e => u[i].step \notin U
    BY <1>1, <1>2, <1>3
  <2>2. ~(i < e) => u[i].step \in U
    BY <1>1, <1>2, <1>3 DEF TurnsOnce
  <2> QED
    BY <2>1, <2>2
<1> DEFINE t1 == SubSeq(u, 1, e - 1)
           t2 == SubSeq(u, e, Len(u))
<1>5. /\ t1 \in Seq(Said) /\ Len(t1) = e - 1 /\ DOMAIN t1 = 1..(e - 1)
      /\ \A i \in 1..(e - 1) : t1[i] = u[i]
  <2>1. \A i \in 1..(e - 1) : u[i] \in Said
    BY <1>1, <1>3
  <2>2. /\ SubSeq(u, 1, e - 1) \in Seq(Said)
        /\ Len(SubSeq(u, 1, e - 1)) = IF 1 <= e - 1 THEN (e - 1) - 1 + 1 ELSE 0
        /\ \A i \in 1..((e - 1) - 1 + 1) : SubSeq(u, 1, e - 1)[i] = u[1 + i - 1]
    BY <1>3, <2>1, SubSeqProperties
  <2> HIDE DEF T
  <2>3. t1 \in Seq(Said) /\ Len(t1) = e - 1 /\ \A i \in 1..(e - 1) : t1[i] = u[i]
    BY <1>1, <1>3, <2>2
  <2> HIDE DEF t1
  <2> QED
    BY <2>3, LenProperties
<1>6. /\ t2 \in Seq(Said) /\ Len(t2) = Len(u) + 1 - e /\ DOMAIN t2 = 1..(Len(u) + 1 - e)
      /\ \A i \in 1..(Len(u) + 1 - e) : t2[i] = u[e + i - 1]
  <2>1. \A i \in e..Len(u) : u[i] \in Said
    BY <1>1, <1>3
  <2>2. /\ SubSeq(u, e, Len(u)) \in Seq(Said)
        /\ Len(SubSeq(u, e, Len(u))) = IF e <= Len(u) THEN Len(u) - e + 1 ELSE 0
        /\ \A i \in 1..(Len(u) - e + 1) : SubSeq(u, e, Len(u))[i] = u[e + i - 1]
    BY <1>1, <1>3, <2>1, SubSeqProperties
  <2> HIDE DEF T
  <2>3. /\ t2 \in Seq(Said) /\ Len(t2) = Len(u) + 1 - e
        /\ \A i \in 1..(Len(u) + 1 - e) : t2[i] = u[e + i - 1]
    BY <1>1, <1>3, <2>2
  <2> HIDE DEF t2
  <2> QED
    BY <2>3, LenProperties
<1> HIDE DEF T, t1, t2
<1>7. u = t1 \o t2
  <2> DEFINE k == e - 1
             both == t1 \o t2
  <2>1. k \in Nat /\ e = k + 1 /\ Len(u) = k + Len(t2) /\ Len(t1) = k /\ Len(t2) \in Nat
    <3>1. Len(t2) = Len(u) + 1 - e /\ Len(t1) = e - 1
      BY <1>5, <1>6
    <3> QED
      BY <1>1, <1>3, <3>1
  <2>2. /\ both \in Seq(Said) /\ Len(both) = k + Len(t2)
        /\ \A i \in 1..(k + Len(t2)) : both[i] = IF i <= k THEN t1[i] ELSE t2[i - k]
    <3> HIDE DEF k
    <3> QED
      BY <1>5, <1>6, <2>1, ConcatProperties
  <2> HIDE DEF k, both
  <2>3. ASSUME NEW i \in 1..Len(u) PROVE u[i] = both[i]
    <3>1. CASE i <= k
      BY <1>5, <2>1, <2>2, <2>3, <3>1
    <3>2. CASE ~(i <= k)
      <4>1. i - k \in 1..Len(t2) /\ e + (i - k) - 1 = i
        BY <2>1, <2>3, <3>2
      <4>2. t2[i - k] = u[i]
        BY <1>6, <4>1
      <4> QED
        BY <2>1, <2>2, <2>3, <3>2, <4>2
    <3> QED
      BY <3>1, <3>2
  <2>4. Len(u) = Len(both)
    BY <2>1, <2>2
  <2> QED
    BY <2>2, <2>3, <2>4, SeqEqual DEF both
<1>8. StepsOf(t1) \cap U = {}
  <2>1. \A i \in 1..(e - 1) : t1[i].step \notin U
    BY <1>1, <1>3, <1>4, <1>5
  <2> QED
    BY <1>5, <2>1 DEF StepsOf
<1>9. StepsOf(t2) \subseteq U
  <2> SUFFICES ASSUME NEW i \in 1..(Len(u) + 1 - e) PROVE t2[i].step \in U
    BY <1>6 DEF StepsOf
  <2>1. e + i - 1 \in 1..Len(u) /\ ~(e + i - 1 < e)
    BY <1>1, <1>3
  <2> QED
    BY <1>4, <1>6, <2>1
<1> QED
  BY <1>5, <1>6, <1>7, <1>8, <1>9 DEF Splits

\* A history from the first message of an iteration in U on.
TailFrom(history, U) ==
    LET places == {i \in Body(history) : history[i].step \in U}
    IN  IF places = {} THEN <<>> ELSE SubSeq(history, Min(places), Len(history))

\* What is recent of a history is its last part.
LEMMA TailIs ==
    ASSUME NEW a \in Seq(Said), NEW t \in Seq(Said), NEW U,
           NEW history, history = Header \o a \o t,
           StepsOf(a) \cap U = {}, StepsOf(t) \subseteq U
    PROVE  TailFrom(history, U) = t
<1> DEFINE places == {i \in Body(history) : history[i].step \in U}
           at == a \o t
           q == 3 + Len(a)
           n == 2 + Len(a) + Len(t)
<1>0. TailFrom(history, U) =
         IF places = {} THEN <<>> ELSE SubSeq(history, Min(places), Len(history))
  BY DEF TailFrom
<1>1. /\ Len(a) \in Nat /\ Len(t) \in Nat /\ at \in Seq(Said) /\ Len(at) = Len(a) + Len(t)
      /\ DOMAIN a = 1..Len(a) /\ DOMAIN t = 1..Len(t)
      /\ \A i \in 1..Len(a) + Len(t) : at[i] = IF i <= Len(a) THEN a[i] ELSE t[i - Len(a)]
  BY ConcatProperties, LenProperties
<1>2. history = Header \o at
  BY HeaderIsShort, ConcatAssociative
<1> HIDE DEF at
<1>3. /\ Body(history) = 3..n /\ Len(history) = n
      /\ \A i \in 3..n : history[i] = at[i - 2]
  <2>1. /\ Len(Header \o at) = 2 + Len(at) /\ Body(Header \o at) = 3..(2 + Len(at))
        /\ \A i \in 3..(2 + Len(at)) : (Header \o at)[i] = at[i - 2]
    BY <1>1, StepsBehindHeader
  <2>2. 2 + Len(at) = n
    BY <1>1
  <2> QED
    BY <1>2, <2>1, <2>2
<1>4. places = q..n
  <2>1. ASSUME NEW i \in 3..n PROVE history[i].step \in U <=> i >= q
    <3>1. CASE i < q
      <4>1. i - 2 \in 1..Len(a) /\ i - 2 \in 1..Len(a) + Len(t) /\ i - 2 <= Len(a)
        BY <1>1, <3>1
      <4>2. history[i] = a[i - 2]
        BY <1>1, <1>3, <4>1
      <4>3. history[i].step \in StepsOf(a)
        BY <1>1, <4>1, <4>2 DEF StepsOf
      <4>4. ~(i >= q)
        BY <1>1, <2>1, <3>1
      <4> QED
        BY <4>3, <4>4
    <3>2. CASE i >= q
      <4>1. i - 2 \in 1..Len(a) + Len(t) /\ ~(i - 2 <= Len(a)) /\ i - 2 - Len(a) \in 1..Len(t)
        BY <1>1, <3>2
      <4>2. history[i] = t[i - 2 - Len(a)]
        BY <1>1, <1>3, <4>1
      <4>3. history[i].step \in StepsOf(t)
        BY <1>1, <4>1, <4>2 DEF StepsOf
      <4> QED
        BY <3>2, <4>3
    <3>3. i < q \/ i >= q
      BY <1>1, <2>1
    <3> HIDE DEF q
    <3> QED
      BY <3>1, <3>2, <3>3
  <2>2. places = {i \in 3..n : i >= q}
    BY <1>3, <2>1
  <2>3. {i \in 3..n : i >= q} = q..n
    BY <1>1
  <2> QED
    BY <2>2, <2>3
<1>5. CASE t = <<>>
  <2>1. Len(t) = 0
    BY <1>5
  <2>2. q..n = {}
    BY <1>1, <2>1
  <2> QED
    BY <1>0, <1>4, <1>5, <2>2
<1>6. CASE t # <<>>
  <2>1. Len(t) >= 1
    BY <1>1, <1>6, EmptySeq
  <2>2. q \in q..n /\ \A i \in q..n : q <= i
    BY <1>1, <2>1
  <2>3. Min(places) = q /\ places # {}
    <3>1. \A x \in q..n : (\A i \in q..n : x <= i) => x = q
      BY <1>1, <2>2
    <3> QED
      BY <1>4, <2>2, <3>1 DEF Min
  <2> DEFINE e == Len(a) + 1
  <2>4. e \in 1..(Len(a) + 1) /\ e + 2 = q
    BY <1>1
  <2>5. SubSeq(a, e, Len(a)) = <<>>
    BY <1>1, SubSeqEmpty
  <2> HIDE DEF e, q, n
  <2>6. SubSeq(history, e + 2, Len(history)) = SubSeq(a, e, Len(a)) \o t
    BY <2>4, HistoryCut, ZenonT(40)
  <2>7. <<>> \o t = t
    BY ConcatEmptySeq
  <2> QED
    BY <1>0, <2>3, <2>4, <2>5, <2>6, <2>7
<1> QED
  BY <1>5, <1>6

\* At the start there is the header, and nothing else.
LEMMA ConversationInvInit == ConversationInit => ConversationInv
<1> SUFFICES ASSUME ConversationInit PROVE ConversationInv
  OBVIOUS
<1>1. <<>> \in Seq(Said) /\ StepsOf(<<>>) = {} /\ Header = Header \o <<>> \o <<>>
  BY EmptySeq, ConcatEmptySeq, HeaderIsShort DEF StepsOf
<1>2. Body(Header) = {} /\ Steps(Header) = {}
  BY HeaderIsShort, LenProperties DEF Body, Steps
<1>3. EndAlike
  BY <1>1 DEF EndAlike, ConversationInit
<1>4. InSequence
  BY <1>2 DEF InSequence, ConversationInit
<1> QED
  BY <1>2, <1>3, <1>4, HeaderIsShort DEF ConversationInv, ConversationInit

\* A compaction keeps the histories ending alike.
LEMMA AskStep == ConversationInv /\ Ask => ConversationInv'
<1> SUFFICES ASSUME ConversationInv, Ask PROVE ConversationInv'
  OBVIOUS
<1>1. /\ messages' = Compacted(messages)
      /\ policy' = policy /\ full' = full /\ iteration' = iteration
      /\ attempts' = attempts /\ counter' = counter /\ issued' = issued
  BY DEF Ask, Send, idVars
<1>2. Recent' = Recent
  BY <1>1 DEF Recent
<1>3. PICK a, b, t \in Seq(Said) :
         /\ messages = Header \o a \o t
         /\ full = Header \o b \o t
         /\ StepsOf(a) \cap Recent = {} /\ StepsOf(b) \cap Recent = {}
         /\ StepsOf(t) \subseteq Recent
  BY DEF ConversationInv, EndAlike
<1>4. PICK c \in Seq(Said) :
         Compacted(messages) = Header \o c \o t /\ StepsOf(c) \subseteq StepsOf(a)
  BY <1>3, CompactedKeepsRecent
<1>5. EndAlike'
  <2>1. StepsOf(c) \cap Recent = {}
    BY <1>3, <1>4
  <2> QED
    BY <1>1, <1>2, <1>3, <1>4, <2>1 DEF EndAlike
<1>6. InSequence'
  BY <1>1 DEF ConversationInv, InSequence
<1>7. messages' \in Seq(Said) /\ Steps(messages') \subseteq Steps(messages)
  <2>1. Header \o c \o t \in Seq(Said) /\ Steps(Header \o c \o t) = StepsOf(c) \cup StepsOf(t)
    BY HistoryStepsOf
  <2>2. Steps(Header \o a \o t) = StepsOf(a) \cup StepsOf(t)
    BY HistoryStepsOf
  <2> QED
    BY <1>1, <1>3, <1>4, <2>1, <2>2
<1> QED
  BY <1>1, <1>5, <1>6, <1>7 DEF ConversationInv

\* So does what is said at an iteration not before the last.
LEMMA ExtendStep ==
    ASSUME ConversationInv, NEW new \in Seq(Said), NEW step \in Nat, step >= iteration,
           NEW tries \in Nat, \A i \in 1..Len(new) : new[i].step = step,
           Extend(new, step, tries), counter' \in Nat, issued' \in Nat
    PROVE  ConversationInv'
<1>1. /\ messages' = messages \o new /\ full' = full \o new
      /\ policy' = policy /\ iteration' = step /\ attempts' = tries
  BY DEF Extend
<1>2. PICK a, b, t \in Seq(Said) :
         /\ messages = Header \o a \o t
         /\ full = Header \o b \o t
         /\ StepsOf(a) \cap Recent = {} /\ StepsOf(b) \cap Recent = {}
         /\ StepsOf(t) \subseteq Recent
  BY DEF ConversationInv, EndAlike
<1>3. /\ messages \in Seq(Said) /\ full \in Seq(Said)
      /\ Steps(messages) \subseteq Steps(full) /\ iteration \in Nat
      /\ policy \in Policies
      /\ \A i, j \in Body(full) : i <= j => full[i].step <= full[j].step
      /\ \A s \in Steps(full) : s <= iteration
  BY DEF ConversationInv, InSequence
<1>4. /\ Steps(full) = StepsOf(b) \cup StepsOf(t)
      /\ Steps(messages) = StepsOf(a) \cup StepsOf(t)
  BY <1>2, HistoryStepsOf
<1> DEFINE u == t \o new
<1>5. /\ u \in Seq(Said) /\ StepsOf(u) = StepsOf(t) \cup StepsOf(new)
      /\ messages' = Header \o a \o u /\ full' = Header \o b \o u
  <2>1. u \in Seq(Said) /\ StepsOf(u) = StepsOf(t) \cup StepsOf(new)
    BY StepsOfTwo
  <2>2. Header \o a \o t \o new = Header \o a \o u
    BY HistoryRest
  <2>3. Header \o b \o t \o new = Header \o b \o u
    BY HistoryRest
  <2> HIDE DEF u
  <2> QED
    BY <1>1, <1>2, <2>1, <2>2, <2>3
<1> HIDE DEF u
<1>6. /\ messages' \in Seq(Said) /\ full' \in Seq(Said)
      /\ Steps(full') = StepsOf(b) \cup StepsOf(u)
      /\ Steps(messages') = StepsOf(a) \cup StepsOf(u)
  BY <1>5, HistoryStepsOf
<1>7. /\ Steps(full) \subseteq Steps(full') /\ Steps(full') \subseteq Nat
      /\ IsFiniteSet(Steps(full')) /\ Steps(full') = Steps(full) \cup StepsOf(new)
  BY <1>4, <1>5, <1>6, StepsAreFinite
<1>8. \A s \in StepsOf(new) : s = step
  <2>1. DOMAIN new = 1..Len(new)
    BY LenProperties
  <2> QED
    BY <2>1 DEF StepsOf
<1>9. InSequence'
  <2>1. \A s \in Steps(full') : s <= step
    BY <1>3, <1>7, <1>8
  <2>2. ASSUME NEW i \in Body(full'), NEW j \in Body(full'), i <= j
        PROVE  full'[i].step <= full'[j].step
    <3>1. /\ Len(full) \in Nat /\ Len(new) \in Nat
          /\ DOMAIN full = 1..Len(full) /\ DOMAIN full' = 1..Len(full) + Len(new)
          /\ \A k \in 1..Len(full) + Len(new) :
                full'[k] = IF k <= Len(full) THEN full[k] ELSE new[k - Len(full)]
      <4>1. Len(full) \in Nat /\ Len(new) \in Nat /\ DOMAIN full = 1..Len(full)
        BY <1>3, LenProperties
      <4>2. /\ Len(full \o new) = Len(full) + Len(new)
            /\ \A k \in 1..Len(full) + Len(new) :
                  (full \o new)[k] = IF k <= Len(full) THEN full[k] ELSE new[k - Len(full)]
        BY <1>3, ConcatProperties
      <4>3. DOMAIN full' = 1..Len(full')
        BY <1>6, LenProperties
      <4> QED
        BY <1>1, <4>1, <4>2, <4>3
    <3>2. i \in 3..Len(full) + Len(new) /\ j \in 3..Len(full) + Len(new)
      BY <3>1, HeaderIsShort DEF Body
    <3>3. CASE j <= Len(full)
      <4>1. i \in Body(full) /\ j \in Body(full)
        BY <2>2, <3>1, <3>2, <3>3, HeaderIsShort, SMTT(30) DEF Body
      <4>2. full'[i] = full[i] /\ full'[j] = full[j]
        BY <2>2, <3>1, <3>2, <3>3
      <4> QED
        BY <1>3, <2>2, <4>1, <4>2
    <3>4. CASE ~(j <= Len(full))
      <4>1. j - Len(full) \in 1..Len(new) /\ full'[j] = new[j - Len(full)]
        BY <3>1, <3>2, <3>4
      <4>2. full'[j].step = step
        BY <4>1
      <4>3. full'[i].step \in Steps(full')
        BY DEF Steps
      <4> QED
        BY <2>1, <4>2, <4>3
    <3> QED
      BY <3>3, <3>4
  <2> QED
    BY <1>1, <2>1, <2>2 DEF InSequence
<1> DEFINE ahead(S, s) == {x \in S : x >= s}
           U == {s \in Steps(full') : Cardinality(ahead(Steps(full'), s)) <= policy.keep}
<1>10. Recent' = U
  BY <1>1 DEF Recent
<1>11. ASSUME NEW s \in Steps(full), s \in U PROVE s \in Recent
  <2>1. /\ ahead(Steps(full), s) \subseteq ahead(Steps(full'), s)
        /\ s \in Nat /\ policy.keep \in Nat
    BY <1>3, <1>7, ConversationAssumption
  <2>2. /\ IsFiniteSet(ahead(Steps(full'), s)) /\ Cardinality(ahead(Steps(full'), s)) \in Nat
    BY <1>7, <2>1, FromOn
  <2>3. /\ Cardinality(ahead(Steps(full), s)) <= Cardinality(ahead(Steps(full'), s))
        /\ Cardinality(ahead(Steps(full), s)) \in Nat
    <3> HIDE DEF ahead
    <3> QED
      BY <2>1, <2>2, FS_Subset, FS_CardinalityType
  <2>4. Cardinality(ahead(Steps(full'), s)) <= policy.keep
    BY <1>11
  <2>5. Cardinality(ahead(Steps(full), s)) <= policy.keep
    <3> HIDE DEF ahead
    <3> QED
      BY <2>1, <2>2, <2>3, <2>4
  <2> QED
    BY <2>5 DEF Recent
<1> HIDE DEF U
<1>12. ASSUME NEW r \in U, NEW s \in Steps(full'), r <= s PROVE s \in U
  <2>1. /\ ahead(Steps(full'), s) \subseteq ahead(Steps(full'), r)
        /\ s \in Nat /\ r \in Nat /\ r \in Steps(full') /\ policy.keep \in Nat
    <3>1. r \in Steps(full') /\ policy.keep \in Nat
      BY <1>3, ConversationAssumption DEF U
    <3>2. s \in Nat /\ r \in Nat
      BY <1>7, <3>1
    <3>3. ASSUME NEW x \in Steps(full'), x >= s PROVE x >= r
      <4>1. x \in Nat
        BY <1>7
      <4> QED
        BY <1>12, <3>2, <3>3, <4>1
    <3> QED
      BY <3>1, <3>2, <3>3
  <2>2. /\ IsFiniteSet(ahead(Steps(full'), r)) /\ Cardinality(ahead(Steps(full'), r)) \in Nat
    BY <1>7, <2>1, FromOn
  <2>3. /\ Cardinality(ahead(Steps(full'), s)) <= Cardinality(ahead(Steps(full'), r))
        /\ Cardinality(ahead(Steps(full'), s)) \in Nat
    <3> HIDE DEF ahead
    <3> QED
      BY <2>1, <2>2, FS_Subset, FS_CardinalityType
  <2>4. Cardinality(ahead(Steps(full'), r)) <= policy.keep
    BY DEF U
  <2>5. Cardinality(ahead(Steps(full'), s)) <= policy.keep
    <3> HIDE DEF ahead
    <3> QED
      BY <2>1, <2>2, <2>3, <2>4
  <2> QED
    BY <2>5 DEF U
<1>13. ASSUME NEW i \in 1..Len(u), NEW j \in 1..Len(u), i <= j, u[i].step \in U
       PROVE  u[j].step \in U
  <2>1. /\ Len(b) \in Nat /\ Len(u) \in Nat
        /\ b \o u \in Seq(Said) /\ Len(b \o u) = Len(b) + Len(u)
        /\ full' = Header \o (b \o u)
        /\ \A k \in 1..Len(b) + Len(u) :
              (b \o u)[k] = IF k <= Len(b) THEN b[k] ELSE u[k - Len(b)]
    <3>1. Len(b) \in Nat /\ Len(u) \in Nat
      BY <1>5, LenProperties
    <3>2. /\ b \o u \in Seq(Said) /\ Len(b \o u) = Len(b) + Len(u)
          /\ \A k \in 1..Len(b) + Len(u) :
                (b \o u)[k] = IF k <= Len(b) THEN b[k] ELSE u[k - Len(b)]
      BY <1>5, ConcatProperties
    <3>3. Header \o b \o u = Header \o (b \o u)
      BY <1>5, HistoryTwo
    <3> QED
      BY <1>5, <3>1, <3>2, <3>3
  <2> DEFINE bu == b \o u
             p(k) == 2 + Len(b) + k
  <2>2. /\ Body(full') = 3..(2 + Len(bu)) /\ \A k \in 3..(2 + Len(bu)) : full'[k] = bu[k - 2]
    <3> HIDE DEF bu
    <3>1. bu \in Seq(Said) /\ full' = Header \o bu
      BY <2>1 DEF bu
    <3> QED
      BY <3>1, StepsBehindHeader
  <2>3. ASSUME NEW k \in 1..Len(u) PROVE p(k) \in Body(full') /\ full'[p(k)] = u[k]
    <3>1. /\ p(k) \in 3..(2 + Len(bu)) /\ p(k) - 2 \in 1..Len(b) + Len(u)
          /\ ~(p(k) - 2 <= Len(b)) /\ p(k) - 2 - Len(b) = k
      BY <2>1
    <3> HIDE DEF p
    <3> QED
      BY <2>1, <2>2, <3>1
  <2>4. p(i) <= p(j)
    BY <1>13, <2>1
  <2> HIDE DEF p
  <2>5. u[i].step <= u[j].step
    BY <1>9, <2>3, <2>4 DEF InSequence
  <2>6. u[j].step \in Steps(full')
    <3>1. full'[p(j)].step \in Steps(full')
      BY <2>3 DEF Steps
    <3> QED
      BY <2>3, <3>1
  <2> QED
    BY <1>12, <1>13, <2>5, <2>6
<1>14. PICK t1, t2 \in Seq(Said) :
          /\ u = t1 \o t2 /\ StepsOf(t1) \cap U = {} /\ StepsOf(t2) \subseteq U
  <2>1. TurnsOnce(u, U)
    BY <1>13 DEF TurnsOnce
  <2>2. u \in Seq(Said)
    BY <1>5
  <2>3. Splits(u, U)
    BY <2>1, <2>2, Split
  <2> QED
    BY <2>3 DEF Splits
<1>15. /\ messages' = Header \o (a \o t1) \o t2 /\ full' = Header \o (b \o t1) \o t2
  <2>0. \A p, r, s \in Seq(Said) : Header \o p \o (r \o s) = Header \o (p \o r) \o s
    BY ONLY HistoryParts
  <2>parts. a \in Seq(Said) /\ b \in Seq(Said) /\ t1 \in Seq(Said) /\ t2 \in Seq(Said)
    OBVIOUS
  <2>1. Header \o a \o (t1 \o t2) = Header \o (a \o t1) \o t2
    BY ONLY <2>0, <2>parts, ZenonT(60)
  <2>2. Header \o b \o (t1 \o t2) = Header \o (b \o t1) \o t2
    BY ONLY <2>0, <2>parts, ZenonT(60)
  <2> QED
    BY <1>5, <1>14, <2>1, <2>2
<1>16. /\ a \o t1 \in Seq(Said) /\ b \o t1 \in Seq(Said)
       /\ StepsOf(a \o t1) \cap U = {} /\ StepsOf(b \o t1) \cap U = {}
  <2>1. /\ a \o t1 \in Seq(Said) /\ StepsOf(a \o t1) = StepsOf(a) \cup StepsOf(t1)
        /\ b \o t1 \in Seq(Said) /\ StepsOf(b \o t1) = StepsOf(b) \cup StepsOf(t1)
    BY StepsOfTwo
  <2>2. StepsOf(a) \subseteq Steps(full) /\ StepsOf(b) \subseteq Steps(full)
    BY <1>3, <1>4
  <2>3. StepsOf(a) \cap U = {} /\ StepsOf(b) \cap U = {}
    BY <1>2, <1>11, <2>2
  <2> QED
    BY <1>14, <2>1, <2>3
<1>17. EndAlike'
  <2> DEFINE a1 == a \o t1
             b1 == b \o t1
  <2> HIDE DEF a1, b1
  <2>1. /\ a1 \in Seq(Said) /\ b1 \in Seq(Said)
        /\ messages' = Header \o a1 \o t2 /\ full' = Header \o b1 \o t2
        /\ StepsOf(a1) \cap Recent' = {} /\ StepsOf(b1) \cap Recent' = {}
        /\ StepsOf(t2) \subseteq Recent'
    BY <1>10, <1>14, <1>15, <1>16 DEF a1, b1
  <2> QED
    BY <2>1 DEF EndAlike
<1>18. Steps(messages') \subseteq Steps(full')
  BY <1>3, <1>4, <1>6, <1>7
<1> QED
  BY <1>1, <1>3, <1>6, <1>9, <1>17, <1>18 DEF ConversationInv

\* The ids of a batch, and the counters it leaves.
BatchTyped(batch) ==
    batch.ids \in Seq(Ids) /\ batch.reasoned \in BOOLEAN
    /\ batch.issued \in Nat /\ batch.counter \in Nat

LEMMA BatchesAreTyped ==
    ASSUME ConversationInv, NEW batch \in ProviderBatches \cup RescuedBatches
    PROVE  BatchTyped(batch)
<1>1. issued \in Nat /\ counter \in Nat /\ MaxBatch \in Nat /\ policy.replay \in BOOLEAN
  BY ConversationAssumption DEF ConversationInv
<1>2. ASSUME NEW n \in 1..MaxBatch
      PROVE  /\ [i \in 1..n |-> ProviderId(issued + i)] \in Seq(Ids)
             /\ [i \in 1..n |-> RunnerId(counter + i)] \in Seq(Ids)
             /\ issued + n \in Nat /\ counter + n \in Nat
  <2>1. n \in Nat
    BY <1>1
  <2>2. \A i \in 1..n : ProviderId(issued + i) \in Ids /\ RunnerId(counter + i) \in Ids
    BY <1>1, <2>1 DEF ProviderId, RunnerId, Ids
  <2> HIDE DEF ProviderId, RunnerId
  <2> QED
    BY <1>1, <2>1, <2>2
<1>3. ASSUME NEW k \in 1..issued PROVE <<ProviderId(k)>> \in Seq(Ids)
  <2>1. ProviderId(k) \in Ids
    BY <1>1 DEF ProviderId, Ids
  <2> HIDE DEF ProviderId
  <2> QED
    BY <2>1
<1>4. CASE batch \in ProviderBatches
  <2>1. CASE \E n \in 1..MaxBatch :
                batch = Batch([i \in 1..n |-> ProviderId(issued + i)], policy.replay,
                              issued + n, counter)
    <3>1. PICK n \in 1..MaxBatch :
             batch = Batch([i \in 1..n |-> ProviderId(issued + i)], policy.replay,
                           issued + n, counter)
      BY <2>1
    <3> DEFINE ids == [i \in 1..n |-> ProviderId(issued + i)]
    <3>2. batch = Batch(ids, policy.replay, issued + n, counter)
          /\ ids \in Seq(Ids) /\ issued + n \in Nat
      BY <1>2, <3>1
    <3> HIDE DEF ids
    <3> QED
      BY <1>1, <3>2 DEF Batch, BatchTyped
  <2>2. CASE \E k \in 1..issued :
                batch = Batch(<<ProviderId(k)>>, policy.replay, issued, counter)
    BY <1>1, <1>3, <2>2 DEF Batch, BatchTyped
  <2> QED
    BY <1>4, <2>1, <2>2 DEF ProviderBatches
<1>5. CASE batch \in RescuedBatches
  <2>1. PICK n \in 1..MaxBatch :
           batch = Batch([i \in 1..n |-> RunnerId(counter + i)], FALSE, issued, counter + n)
    BY <1>5 DEF RescuedBatches
  <2> DEFINE ids == [i \in 1..n |-> RunnerId(counter + i)]
  <2>2. batch = Batch(ids, FALSE, issued, counter + n)
        /\ ids \in Seq(Ids) /\ counter + n \in Nat
    BY <1>2, <2>1
  <2> HIDE DEF ids
  <2> QED
    BY <1>1, <2>2 DEF Batch, BatchTyped
<1> QED
  BY <1>4, <1>5

\* What the runner says of a batch, all under one index.
LEMMA CallsStep ==
    ASSUME ConversationInv, NEW batch \in ProviderBatches \cup RescuedBatches,
           NEW step \in Nat, step >= iteration, NEW texts \in Aside(step),
           NEW tries \in Nat, NEW type \in {"nudge", "tool_result"}, NEW size \in Sizes,
           AnswerCalls(batch, texts, step, tries, type, size)
    PROVE  ConversationInv'
<1> DEFINE call == <<CallMessage(step, batch.ids, batch.reasoned)>>
           replies == Replies(type, step, batch.ids, size)
           new == texts \o call \o replies
           Here == {m \in Said : m.step = step}
<1>1. BatchTyped(batch)
  BY BatchesAreTyped
<1>2. texts \in Seq(Here)
  <2>1. Message("reasoning", step, "short") \in Here
    BY DEF Message, Said, Types, Sizes, Ids, NoId
  <2>2. texts = <<>> \/ texts = <<Message("reasoning", step, "short")>>
    BY DEF Aside
  <2> HIDE DEF Here
  <2>3. CASE texts = <<>>
    BY <2>3
  <2>4. CASE texts = <<Message("reasoning", step, "short")>>
    BY <2>1, <2>4
  <2> QED
    BY <2>2, <2>3, <2>4
<1>3. call \in Seq(Here)
  <2>1. CallMessage(step, batch.ids, batch.reasoned) \in Here
    BY <1>1 DEF CallMessage, Message, Said, Types, Sizes, Ids, NoId, BatchTyped
  <2> HIDE DEF Here
  <2> QED
    BY <2>1
<1>4. replies \in Seq(Here)
  <2>1. /\ DOMAIN batch.ids = 1..Len(batch.ids) /\ Len(batch.ids) \in Nat
        /\ \A i \in 1..Len(batch.ids) : batch.ids[i] \in Ids
    BY <1>1, LenProperties, ElementOfSeq DEF BatchTyped
  <2>2. \A id \in Ids : [Message(type, step, size) EXCEPT !.answers = id] \in Here
    <3> SUFFICES ASSUME NEW id \in Ids
                 PROVE  [Message(type, step, size) EXCEPT !.answers = id] \in Here
      OBVIOUS
    <3> DEFINE m == Message(type, step, size)
    <3>1. m \in Said /\ m.step = step
      BY DEF Message, Said, Types, Ids, NoId
    <3> HIDE DEF m
    <3>2. [m EXCEPT !.answers = id] \in Said /\ [m EXCEPT !.answers = id].step = step
      BY <3>1 DEF Said
    <3> QED
      BY <3>2 DEF m
  <2> DEFINE reply(i) == [Message(type, step, size) EXCEPT !.answers = batch.ids[i]]
  <2>3. \A i \in 1..Len(batch.ids) : reply(i) \in Here
    BY <2>1, <2>2
  <2>4. replies = [i \in 1..Len(batch.ids) |-> reply(i)]
    BY <2>1 DEF Replies
  <2> HIDE DEF reply, Here, replies
  <2> QED
    BY <2>1, <2>3, <2>4
<1> HIDE DEF call, replies, Here
<1>5. new \in Seq(Here)
  <2>1. texts \o call \in Seq(Here)
    BY <1>2, <1>3, ConcatProperties
  <2> QED
    BY <1>4, <2>1, ConcatProperties
<1>6. Extend(new, step, tries) /\ issued' = batch.issued /\ counter' = batch.counter
  BY DEF AnswerCalls, call, replies
<1> HIDE DEF new
<1>7. new \in Seq(Said) /\ \A i \in 1..Len(new) : new[i].step = step
  BY <1>5, SaidHere DEF Here
<1> QED
  BY <1>1, <1>6, <1>7, ExtendStep DEF BatchTyped

\* Every step keeps the histories ending alike.
LEMMA ConversationInvNext == ConversationInv /\ [ConversationNext]_conversationVars => ConversationInv'
<1> SUFFICES ASSUME ConversationInv, [ConversationNext]_conversationVars
             PROVE  ConversationInv'
  OBVIOUS
<1>1. iteration \in Nat /\ attempts \in Nat /\ counter \in Nat /\ issued \in Nat
      /\ Valid \in Nat /\ Valid >= iteration /\ attempts + 1 \in Nat /\ iteration >= iteration
      /\ <<>> \in Aside(Valid)
  BY DEF ConversationInv, Valid, Aside
<1>2. CASE Ask
  BY <1>2, AskStep
<1>3. CASE AnswerText
  <2> DEFINE text == Message("text_response", iteration, "short")
             nudge == Message("nudge", iteration, "short")
  <2>1. text \in Said /\ nudge \in Said /\ text.step = iteration /\ nudge.step = iteration
    BY <1>1 DEF Message, Said, Types, Sizes, Ids, NoId
  <2>2. /\ Extend(<<text, nudge>>, iteration, attempts + 1)
        /\ counter' \in Nat /\ issued' \in Nat
    BY <1>1, <1>3 DEF AnswerText, idVars
  <2> HIDE DEF text, nudge
  <2> DEFINE new == <<text, nudge>>
  <2>3. new \in Seq(Said) /\ \A i \in 1..Len(new) : new[i].step = iteration
    BY <2>1
  <2> HIDE DEF new
  <2>4. Extend(new, iteration, attempts + 1)
    BY <2>2 DEF new
  <2> QED
    BY <1>1, <2>2, <2>3, <2>4, ExtendStep
<1>4. CASE AnswerDefective
  <2>1. PICK batch \in ProviderBatches : \E texts \in Aside(iteration) :
           AnswerCalls(batch, texts, iteration, attempts + 1, "nudge", "short")
    BY <1>4 DEF AnswerDefective
  <2>2. PICK texts \in Aside(iteration) :
           AnswerCalls(batch, texts, iteration, attempts + 1, "nudge", "short")
    BY <2>1
  <2> QED
    BY <1>1, <2>2, CallsStep DEF Sizes
<1>5. CASE AnswerEnforced
  <2>1. PICK batch \in ProviderBatches \cup RescuedBatches : \E texts \in Aside(Valid) :
           AnswerCalls(batch, texts, Valid, 0, "nudge", "short")
    BY <1>1, <1>5 DEF AnswerEnforced
  <2>2. PICK texts \in Aside(Valid) :
           AnswerCalls(batch, texts, Valid, 0, "nudge", "short")
    BY <2>1
  <2> QED
    BY <1>1, <2>2, CallsStep DEF Sizes
<1>6. CASE AnswerExecuted
  <2>1. PICK batch \in ProviderBatches \cup RescuedBatches :
           \E texts \in Aside(Valid), size \in {"short", "long"} :
              AnswerCalls(batch, texts, Valid, 0, "tool_result", size)
    BY <1>1, <1>6 DEF AnswerExecuted
  <2>2. PICK texts \in Aside(Valid), size \in {"short", "long"} :
           AnswerCalls(batch, texts, Valid, 0, "tool_result", size)
    BY <2>1
  <2>3. size \in Sizes
    BY DEF Sizes
  <2> QED
    BY <1>1, <2>2, <2>3, CallsStep
<1>7. CASE UNCHANGED conversationVars
  BY <1>7 DEF conversationVars, historyVars, idVars, ConversationInv, EndAlike, InSequence, Recent
<1> QED
  BY <1>2, <1>3, <1>4, <1>5, <1>6, <1>7 DEF ConversationNext

\* The two histories end alike at every step of a conversation.
THEOREM ConversationInductive == ConversationSpec => []ConversationInv
<1> QED
  BY ConversationInvInit, ConversationInvNext, PTL DEF ConversationSpec

\* What the model is sent has the header and, whole and unchanged, everything
\* of the last iterations the policy protects, after any number of compactions.
THEOREM RecentIsKept == ConversationSpec => []RecentStaysWhole
<1>1. ConversationInv => RecentStaysWhole
  <2> SUFFICES ASSUME ConversationInv PROVE RecentStaysWhole
    OBVIOUS
  <2>1. PICK a, b, t \in Seq(Said) :
           /\ messages = Header \o a \o t
           /\ full = Header \o b \o t
           /\ StepsOf(a) \cap Recent = {} /\ StepsOf(b) \cap Recent = {}
           /\ StepsOf(t) \subseteq Recent
    BY DEF ConversationInv, EndAlike
  <2>2. TailFrom(messages, Recent) = t
    BY <2>1, TailIs
  <2>3. TailFrom(full, Recent) = t
    BY <2>1, TailIs
  <2>4. SubSeq(messages, 1, Len(Header)) = Header
    <3> DEFINE at == a \o t
    <3>1. at \in Seq(Said) /\ messages = Header \o at
      BY <2>1, ConcatProperties, HistoryTwo
    <3> HIDE DEF at
    <3> QED
      BY <3>1, StepsBehindHeader
  <2> QED
    BY <2>2, <2>3, <2>4 DEF RecentStaysWhole, Recent, TailFrom
<1> QED
  BY <1>1, ConversationInductive, PTL

-----------------------------------------------------------------------------
(***************************************************************************)
(* What a history must be like for a request of it to be accepted, said of *)
(* the history itself.                                                     *)
(***************************************************************************)
\* Only calls come with reasoning, and only nudges and results answer them.
Told(m, replay) ==
    /\ m.calls # <<>> => m.type = "tool_call" /\ ~IsReply(m)
    /\ \A j \in DOMAIN m.calls : m.calls[j] # NoId
    /\ IsReply(m) => m.type \in {"nudge", "tool_result"}
    /\ m.reasoned => m.calls # <<>> /\ replay

GivenIds(h) == UNION {{h[i].calls[j] : j \in DOMAIN h[i].calls} : i \in DOMAIN h}

\* No id is given to two calls.
Unique(h) ==
    \A a, b \in DOMAIN h : \A j \in DOMAIN h[a].calls, k \in DOMAIN h[b].calls :
        h[a].calls[j] = h[b].calls[k] => a = b /\ j = k

\* Each reply is to a call before it, and no two are to one.
Backed(h) ==
    \A i \in DOMAIN h : IsReply(h[i]) =>
        \E c \in DOMAIN h : c < i /\ \E j \in DOMAIN h[c].calls : h[c].calls[j] = h[i].answers

Once(h) ==
    \A i, k \in DOMAIN h : IsReply(h[i]) /\ h[i].answers = h[k].answers => i = k

\* The replies to a call follow it, in order and under its index, and there
\* are no others.
Followed(h) ==
    \A c \in DOMAIN h : \A j \in DOMAIN h[c].calls :
        /\ c + j \in DOMAIN h
        /\ h[c + j].answers = h[c].calls[j] /\ h[c + j].step = h[c].step

Sited(h) ==
    \A i \in DOMAIN h : IsReply(h[i]) =>
        \E c \in DOMAIN h : c < i /\ i - c \in DOMAIN h[c].calls

Reasoned(h) == \A c \in DOMAIN h : h[c].calls # <<>> => h[c].reasoned

\* What can spoil the whole history, and what must not spoil the other.
Good(h, replay) == Unique(h) /\ (replay => Reasoned(h))

Fine(h, replay) ==
    /\ Unique(h) /\ Backed(h) /\ Once(h)
    /\ replay => Reasoned(h) /\ Followed(h) /\ Sited(h)

-----------------------------------------------------------------------------
\* A history that another one is taken of, in order; a text may be cut.
Alike(m, n) ==
    /\ m.type = n.type /\ m.step = n.step /\ m.calls = n.calls
    /\ m.answers = n.answers /\ m.reasoned = n.reasoned

Sieved(h, f, g) ==
    /\ f \in [DOMAIN g -> DOMAIN h]
    /\ \A i, k \in DOMAIN g : i < k => f[i] < f[k]
    /\ \A k \in DOMAIN g : Alike(g[k], h[f[k]])

Stays(f, i) == \E k \in DOMAIN f : f[k] = i

\* Calls stay or, under a replay field, stay and go with their replies.
Respects(h, f, replay) ==
    IF replay
    THEN \A c \in DOMAIN h : \A j \in DOMAIN h[c].calls : Stays(f, c) <=> Stays(f, c + j)
    ELSE \A c \in DOMAIN h : h[c].calls # <<>> => Stays(f, c)

\* The places of a sieve are in the order of the messages taken.
LEMMA SieveOrder ==
    ASSUME NEW h \in Seq(Said), NEW g \in Seq(Said), NEW f, Sieved(h, f, g)
    PROVE  /\ DOMAIN h = 1..Len(h) /\ DOMAIN g = 1..Len(g)
           /\ Len(h) \in Nat /\ Len(g) \in Nat /\ DOMAIN f = DOMAIN g
           /\ \A k \in DOMAIN g : f[k] \in DOMAIN h
           /\ \A i, k \in DOMAIN g : f[i] < f[k] => i < k
           /\ \A i, k \in DOMAIN g : f[i] = f[k] => i = k
<1>1. /\ DOMAIN h = 1..Len(h) /\ DOMAIN g = 1..Len(g)
      /\ Len(h) \in Nat /\ Len(g) \in Nat
  BY LenProperties
<1>2. /\ DOMAIN f = DOMAIN g /\ \A k \in DOMAIN g : f[k] \in DOMAIN h
      /\ \A i, k \in DOMAIN g : i < k => f[i] < f[k]
  BY DEF Sieved
<1>3. \A i, k \in DOMAIN g : f[i] < f[k] => i < k
  <2> SUFFICES ASSUME NEW i \in 1..Len(g), NEW k \in 1..Len(g), f[i] < f[k], ~(i < k)
               PROVE  FALSE
    BY <1>1
  <2>1. f[i] \in Nat /\ f[k] \in Nat
    BY <1>1, <1>2
  <2>2. i = k \/ k < i
    BY <1>1
  <2> QED
    BY <1>1, <1>2, <2>1, <2>2
<1>4. \A i, k \in DOMAIN g : f[i] = f[k] => i = k
  <2> SUFFICES ASSUME NEW i \in 1..Len(g), NEW k \in 1..Len(g), f[i] = f[k], i # k
               PROVE  FALSE
    BY <1>1
  <2>1. f[i] \in Nat /\ f[k] \in Nat
    BY <1>1, <1>2
  <2>2. i < k \/ k < i
    BY <1>1
  <2> QED
    BY <1>1, <1>2, <2>1, <2>2
<1> QED
  BY <1>1, <1>2, <1>3, <1>4

\* Where a call stays with its replies, they follow it as before.
LEMMA RepliesStayBehind ==
    ASSUME NEW h \in Seq(Said), NEW g \in Seq(Said), NEW f, Sieved(h, f, g),
           Followed(h), Respects(h, f, TRUE),
           NEW c \in DOMAIN g, NEW j \in DOMAIN g[c].calls
    PROVE  c + j \in DOMAIN g /\ f[c + j] = f[c] + j
<1> DEFINE n == Len(g[c].calls)
           P == {i \in 0..n : c + i \in DOMAIN g /\ f[c + i] = f[c] + i}
<1>1. /\ DOMAIN h = 1..Len(h) /\ DOMAIN g = 1..Len(g)
      /\ Len(h) \in Nat /\ Len(g) \in Nat /\ DOMAIN f = DOMAIN g
      /\ \A k \in DOMAIN g : f[k] \in DOMAIN h
      /\ \A i, k \in DOMAIN g : f[i] < f[k] => i < k
      /\ \A i, k \in DOMAIN g : i < k => f[i] < f[k]
  BY SieveOrder DEF Sieved
<1>2. g[c].calls = h[f[c]].calls /\ g[c] \in Said
  BY ElementOfSeq, <1>1 DEF Sieved, Alike
<1>3. n \in Nat /\ DOMAIN g[c].calls = 1..n
  BY <1>2, LenProperties DEF Said
<1> HIDE DEF n
<1>4. 0 \in P
  BY <1>1, <1>3
<1>5. ASSUME NEW i \in 1..n, i - 1 \in P PROVE i \in P
  <2>1. c + (i - 1) \in DOMAIN g /\ f[c + (i - 1)] = f[c] + (i - 1)
    BY <1>5
  <2>2. i \in DOMAIN h[f[c]].calls /\ f[c] \in DOMAIN h
    BY <1>1, <1>2, <1>3
  <2>3. Stays(f, f[c])
    BY <1>1 DEF Stays
  <2>4. PICK k \in DOMAIN g : f[k] = f[c] + i
    BY <1>1, <2>2, <2>3 DEF Respects, Stays
  <2>5. f[c] \in Nat /\ c \in Nat /\ k \in Nat /\ i \in Nat
    BY <1>1, <1>3
  <2>6. f[c + (i - 1)] < f[k]
    BY <2>1, <2>4, <2>5
  <2>7. c + (i - 1) < k
    BY <1>1, <2>1, <2>6
  <2>8. ~(c + i < k)
    <3> SUFFICES ASSUME c + i < k PROVE FALSE
      OBVIOUS
    <3>1. c + i \in DOMAIN g /\ c + (i - 1) < c + i
      BY <1>1, <2>5
    <3>2. f[c + (i - 1)] < f[c + i] /\ f[c + i] < f[k] /\ f[c + i] \in Nat
      BY <1>1, <2>1, <3>1
    <3> QED
      BY <2>1, <2>4, <2>5, <3>2
  <2>9. k = c + i
    <3>1. \A x, y, z \in Nat : x + (z - 1) < y /\ ~(x + z < y) => y = x + z
      OBVIOUS
    <3> QED
      BY <2>5, <2>7, <2>8, <3>1
  <2> QED
    BY <1>3, <2>4, <2>9
<1> HIDE DEF P
<1>6. 0..n \subseteq P
  BY <1>3, <1>4, <1>5, CountUp
<1>7. j \in 0..n
  BY <1>3
<1> QED
  BY <1>6, <1>7 DEF P

\* A sieve that respects the calls of a history leaves it fine.
LEMMA SieveKeeps ==
    ASSUME NEW h \in Seq(Said), NEW g \in Seq(Said), NEW f, Sieved(h, f, g),
           NEW replay \in BOOLEAN, Fine(h, replay), Respects(h, f, replay)
    PROVE  Fine(g, replay)
<1>1. /\ DOMAIN h = 1..Len(h) /\ DOMAIN g = 1..Len(g)
      /\ Len(h) \in Nat /\ Len(g) \in Nat /\ DOMAIN f = DOMAIN g
      /\ \A k \in DOMAIN g : f[k] \in DOMAIN h
      /\ \A i, k \in DOMAIN g : f[i] < f[k] => i < k
      /\ \A i, k \in DOMAIN g : f[i] = f[k] => i = k
  BY SieveOrder
<1>2. \A k \in DOMAIN g : /\ g[k].calls = h[f[k]].calls /\ g[k].answers = h[f[k]].answers
                          /\ g[k].step = h[f[k]].step /\ g[k].reasoned = h[f[k]].reasoned
                          /\ IsReply(g[k]) <=> IsReply(h[f[k]])
  BY DEF Sieved, Alike, IsReply
<1>3. Unique(g)
  BY <1>1, <1>2 DEF Fine, Unique
<1>4. Once(g)
  BY <1>1, <1>2 DEF Fine, Once
<1>5. CASE replay
  <2>1. Reasoned(g)
    BY <1>1, <1>2, <1>5 DEF Fine, Reasoned
  <2>2. Followed(h) /\ Sited(h) /\ Respects(h, f, TRUE)
    BY <1>5 DEF Fine
  <2>3. \A c \in DOMAIN g : \A j \in DOMAIN g[c].calls :
           c + j \in DOMAIN g /\ f[c + j] = f[c] + j
    BY <2>2, RepliesStayBehind, ZenonT(40)
  <2>4. Followed(g)
    BY <1>1, <1>2, <2>2, <2>3, SMTT(30) DEF Followed
  <2>5. Sited(g)
    <3> SUFFICES ASSUME NEW i \in DOMAIN g, IsReply(g[i])
                 PROVE  \E c \in DOMAIN g : c < i /\ i - c \in DOMAIN g[c].calls
      BY DEF Sited
    <3>1. PICK c \in DOMAIN h : c < f[i] /\ f[i] - c \in DOMAIN h[c].calls
      BY <1>1, <1>2, <2>2 DEF Sited
    <3>2. c \in Nat /\ f[i] \in Nat /\ i \in Nat /\ c + (f[i] - c) = f[i]
      BY <1>1
    <3>3. Stays(f, c)
      <4>1. Stays(f, f[i])
        BY <1>1 DEF Stays
      <4>2. Stays(f, c) <=> Stays(f, c + (f[i] - c))
        BY <2>2, <3>1 DEF Respects
      <4> QED
        BY <3>2, <4>1, <4>2
    <3>4. PICK k \in DOMAIN g : f[k] = c
      BY <1>1, <3>3 DEF Stays
    <3> DEFINE j == f[i] - c
    <3>5. j \in DOMAIN g[k].calls /\ c + j = f[i]
      BY <1>2, <3>1, <3>2, <3>4
    <3> HIDE DEF j
    <3>6. k + j \in DOMAIN g /\ f[k + j] = f[i]
      BY <2>3, <3>4, <3>5
    <3>7. k + j = i
      BY <1>1, <3>6
    <3>8. k < i
      BY <1>1, <3>1, <3>4
    <3>9. k \in Nat /\ j \in Int
      BY <1>1, <3>2 DEF j
    <3>10. i - k = j
      BY <3>7, <3>9
    <3> QED
      BY <3>5, <3>8, <3>10
  <2>6. Backed(g)
    <3> SUFFICES ASSUME NEW i \in DOMAIN g, IsReply(g[i])
                 PROVE  \E c \in DOMAIN g :
                           c < i /\ \E j \in DOMAIN g[c].calls : g[c].calls[j] = g[i].answers
      BY DEF Backed
    <3>1. PICK c \in DOMAIN g : c < i /\ i - c \in DOMAIN g[c].calls
      BY <2>5 DEF Sited
    <3>2. c + (i - c) = i
      BY <1>1
    <3>3. g[i].answers = g[c].calls[i - c]
      BY <2>4, <3>1, <3>2 DEF Followed
    <3> QED
      BY <3>1, <3>3
  <2> QED
    BY <1>3, <1>4, <2>1, <2>4, <2>5, <2>6 DEF Fine
<1>6. CASE ~replay
  <2>1. Backed(g)
    <3> SUFFICES ASSUME NEW i \in DOMAIN g, IsReply(g[i])
                 PROVE  \E c \in DOMAIN g :
                           c < i /\ \E j \in DOMAIN g[c].calls : g[c].calls[j] = g[i].answers
      BY DEF Backed
    <3>1. PICK c \in DOMAIN h :
             c < f[i] /\ \E j \in DOMAIN h[c].calls : h[c].calls[j] = h[f[i]].answers
      BY <1>1, <1>2 DEF Fine, Backed
    <3>2. h[c].calls # <<>>
      BY <3>1
    <3>3. PICK k \in DOMAIN g : f[k] = c
      BY <1>1, <1>6, <3>2 DEF Respects, Stays
    <3> QED
      BY <1>1, <1>2, <3>1, <3>3
  <2> QED
    BY <1>3, <1>4, <1>6, <2>1 DEF Fine
<1> QED
  BY <1>5, <1>6

\* A sieve tells no message of another kind, and no id that was not given.
LEMMA SieveTells ==
    ASSUME NEW h \in Seq(Said), NEW g \in Seq(Said), NEW f, Sieved(h, f, g),
           NEW replay, \A i \in DOMAIN h : Told(h[i], replay)
    PROVE  /\ \A k \in DOMAIN g : Told(g[k], replay)
           /\ GivenIds(g) \subseteq GivenIds(h)
<1>1. \A k \in DOMAIN g : f[k] \in DOMAIN h
  BY DEF Sieved
<1>2. \A k \in DOMAIN g : Alike(g[k], h[f[k]])
  BY DEF Sieved
<1>3. \A k \in DOMAIN g : Told(g[k], replay)
  BY <1>1, <1>2 DEF Alike, Told, IsReply
<1>4. GivenIds(g) \subseteq GivenIds(h)
  BY <1>1, <1>2 DEF Alike, GivenIds
<1> QED
  BY <1>3, <1>4

\* The messages at some places of a history are a sieve of it.
LEMMA PickedSieves ==
    ASSUME NEW h \in Seq(Said), NEW places, places \subseteq DOMAIN h
    PROVE  \E f : Sieved(h, f, Picked(h, places)) /\ \A i : Stays(f, i) <=> i \in places
<1> DEFINE n == Cardinality(places)
           place(k) == CHOOSE i \in places :
                          Cardinality({j \in places : j < i}) = k - 1
           f == [k \in 1..n |-> place(k)]
           g == Picked(h, places)
<1>1. DOMAIN h = 1..Len(h) /\ Len(h) \in Nat
  BY LenProperties
<1>2. IsFiniteSet(places) /\ n \in Nat /\ places \subseteq Nat
  <2>1. IsFiniteSet(1..Len(h))
    BY <1>1, FS_Interval
  <2> QED
    BY <1>1, <2>1, FS_Subset, FS_CardinalityType
<1>3. ASSUME NEW k \in 1..n
      PROVE  place(k) \in places /\ Cardinality(Below(places, place(k))) = k - 1
  <2>1. k - 1 \in 0..(n - 1)
    BY <1>2
  <2>2. \E i \in places : Cardinality(Below(places, i)) = k - 1
    BY <1>2, <2>1, Ranks
  <2> QED
    BY <2>2 DEF Below
<1>4. g = [k \in 1..n |-> h[place(k)]]
  BY DEF Picked
<1> HIDE DEF place, n
<1>5. ASSUME NEW i \in 1..n, NEW k \in 1..n, i < k PROVE place(i) < place(k)
  <2> SUFFICES ASSUME ~(place(i) < place(k)) PROVE FALSE
    OBVIOUS
  <2>1. place(i) \in Nat /\ place(k) \in Nat
    BY <1>2, <1>3
  <2>2. Below(places, place(k)) \subseteq Below(places, place(i))
    <3>1. ASSUME NEW x \in places, x < place(k) PROVE x < place(i)
      <4>1. x \in Nat
        BY <1>2
      <4> QED
        BY <2>1, <3>1, <4>1
    <3> QED
      BY <3>1 DEF Below
  <2>3. IsFiniteSet(Below(places, place(i)))
    BY <1>2, FS_Subset DEF Below
  <2>4. Cardinality(Below(places, place(k))) <= Cardinality(Below(places, place(i)))
    BY <2>2, <2>3, FS_Subset
  <2>5. k - 1 <= i - 1
    BY <1>3, <2>4
  <2> QED
    BY <1>2, <1>5, <2>5
<1>6. ASSUME NEW i \in places PROVE \E k \in 1..n : place(k) = i
  <2> DEFINE k == Cardinality(Below(places, i)) + 1
  <2>1. Cardinality(Below(places, i)) \in 0..(n - 1)
    BY <1>2, Ranks DEF n
  <2>2. k \in 1..n /\ k - 1 = Cardinality(Below(places, i))
    BY <1>2, <2>1
  <2> HIDE DEF k
  <2>3. Cardinality(Below(places, place(k))) = Cardinality(Below(places, i))
    BY <1>3, <2>2
  <2>4. place(k) = i
    BY <1>2, <1>3, <2>2, <2>3, Ranks
  <2> QED
    BY <2>2, <2>4
<1>7. DOMAIN g = 1..n /\ DOMAIN f = 1..n /\ \A k \in 1..n : g[k] = h[f[k]] /\ f[k] = place(k)
  BY <1>4
<1>8. \A k \in 1..n : f[k] \in DOMAIN h
  BY <1>3, <1>7
<1> HIDE DEF g
<1>9. Sieved(h, f, g)
  <2>1. f \in [DOMAIN g -> DOMAIN h]
    BY <1>7, <1>8
  <2> HIDE DEF f
  <2> QED
    BY <1>5, <1>7, <2>1 DEF Sieved, Alike
<1> HIDE DEF f
<1>10. \A i : Stays(f, i) <=> i \in places
  BY <1>3, <1>6, <1>7 DEF Stays
<1> QED
  BY <1>9, <1>10 DEF g

\* Under a replay field, every call comes with its reasoning and its replies.
Whole(h, replay) == replay => Reasoned(h) /\ Followed(h)

IsSieve(h, g, replay) ==
    \E f : Sieved(h, f, g) /\ (Whole(h, replay) => Respects(h, f, replay))

\* A phase is a sieve that respects the calls.
LEMMA PhasesSieve ==
    ASSUME NEW old \in Seq(Said), NEW replay, \A i \in DOMAIN old : Told(old[i], replay),
           NEW complete, ~replay => complete = {},
           NEW dropped, "tool_call" \notin dropped
    PROVE  /\ IsSieve(old, Phase1(old, ReplaySteps(old)), replay)
           /\ IsSieve(old, DropUnlessReplayed(old, ReplaySteps(old), complete, dropped), replay)
<1> DEFINE steps == ReplaySteps(old)
<1>1. \A c \in DOMAIN old : old[c].calls # <<>> /\ old[c].reasoned => old[c].step \in steps
  BY DEF ReplaySteps
<1> HIDE DEF steps
<1>calls. \A c \in DOMAIN old : \A j \in DOMAIN old[c].calls : old[c].calls # <<>>
  OBVIOUS
<1>2. ASSUME NEW f, NEW places, \A i : Stays(f, i) <=> i \in places,
             \A c \in DOMAIN old : ~replay /\ old[c].calls # <<>> => c \in places,
             replay /\ Reasoned(old) /\ Followed(old) =>
                \A c \in DOMAIN old : \A j \in DOMAIN old[c].calls : c \in places <=> c + j \in places
      PROVE  Whole(old, replay) => Respects(old, f, replay)
  BY <1>2 DEF Whole, Respects
<1>3. IsSieve(old, DropUnlessReplayed(old, steps, complete, dropped), replay)
  <2> DEFINE places == {i \in DOMAIN old :
                          /\ old[i].step \notin complete
                          /\ old[i].step \in steps \/ old[i].type \notin dropped}
  <2>1. PICK f : Sieved(old, f, Picked(old, places)) /\ \A i : Stays(f, i) <=> i \in places
    BY PickedSieves
  <2>2. \A c \in DOMAIN old : ~replay /\ old[c].calls # <<>> => c \in places
    BY DEF Told
  <2>3. ASSUME Reasoned(old), Followed(old), NEW c \in DOMAIN old, NEW j \in DOMAIN old[c].calls
        PROVE  c \in places <=> c + j \in places
    <3>1. old[c].step \in steps /\ c + j \in DOMAIN old /\ old[c + j].step = old[c].step
      BY <1>1, <2>3 DEF Reasoned, Followed
    <3> QED
      BY <3>1
  <2> HIDE DEF places
  <2>4. Whole(old, replay) => Respects(old, f, replay)
    BY <1>2, <2>1, <2>2, <2>3
  <2> QED
    BY <2>1, <2>4 DEF IsSieve, DropUnlessReplayed, places
<1>4. IsSieve(old, Phase1(old, steps), replay)
  <2> DEFINE replied(m) == m.step \in steps /\ IsReply(m)
             places == {i \in DOMAIN old : old[i].type = "nudge" => replied(old[i])}
             kept == Picked(old, places)
             new(i) == IF kept[i].type = "tool_result" \/ replied(kept[i])
                       THEN Cut(kept[i]) ELSE kept[i]
             g == [i \in DOMAIN kept |-> new(i)]
  <2>1. PICK f : Sieved(old, f, kept) /\ \A i : Stays(f, i) <=> i \in places
    BY PickedSieves
  <2>2. \A c \in DOMAIN old : ~replay /\ old[c].calls # <<>> => c \in places
    BY DEF Told
  <2>3. ASSUME Reasoned(old), Followed(old), NEW c \in DOMAIN old, NEW j \in DOMAIN old[c].calls
        PROVE  c \in places <=> c + j \in places
    <3>1. old[c].step \in steps /\ c + j \in DOMAIN old /\ old[c + j].step = old[c].step
          /\ old[c + j].answers = old[c].calls[j]
      BY <1>1, <2>3 DEF Reasoned, Followed
    <3>2. old[c].type = "tool_call" /\ old[c].calls[j] # NoId
      BY DEF Told
    <3> QED
      BY <3>1, <3>2 DEF IsReply
  <2>4. Phase1(old, steps) = g
    BY DEF Phase1
  <2>5. kept \in Seq(Said)
    BY PickedAreThere
  <2>6. DOMAIN g = DOMAIN kept /\ \A i \in DOMAIN kept : g[i] = new(i)
    OBVIOUS
  <2> HIDE DEF places, kept, g
  <2>7. \A m \in Said : Alike(Cut(m), m) /\ Alike(m, m)
    BY DEF Cut, Said, Alike
  <2>8. \A i \in DOMAIN kept : Alike(g[i], kept[i])
    <3> TAKE i \in DOMAIN kept
    <3>1. kept[i] \in Said
      BY <2>5
    <3> QED
      BY <2>6, <2>7, <3>1
  <2>9. Sieved(old, f, g)
    BY <2>1, <2>6, <2>8 DEF Sieved, Alike
  <2>10. Whole(old, replay) => Respects(old, f, replay)
    BY <1>2, <2>1, <2>2, <2>3
  <2> QED
    BY <2>4, <2>9, <2>10 DEF IsSieve
<1> QED
  BY <1>3, <1>4 DEF steps

\* The iteration at which the recent part begins is not one of the old part.
LEMMA EndIsBorder ==
    ASSUME NEW h \in Seq(Said), Len(h) >= 2, NEW keep \in Nat,
           NEW e, e = EligibleEnd(h, keep)
    PROVE  /\ e \in 3..(Len(h) + 1)
           /\ \A i \in 3..(e - 1) : e \in DOMAIN h /\ h[i].step # h[e].step
<1> DEFINE steps == Steps(h)
           cutoff == IF keep = 0 THEN Min(steps)
                     ELSE CHOOSE s \in steps : Cardinality({x \in steps : x >= s}) = keep
           late == {i \in Body(h) : h[i].step >= cutoff}
<1>1. /\ DOMAIN h = 1..Len(h) /\ Len(h) \in Nat /\ Body(h) = 3..Len(h)
      /\ steps \subseteq Nat /\ IsFiniteSet(steps) /\ Cardinality(steps) \in Nat
  <2>1. DOMAIN h = 1..Len(h) /\ Len(h) \in Nat
    BY LenProperties
  <2>2. Body(h) = 3..Len(h)
    BY <2>1, HeaderIsShort DEF Body
  <2> QED
    BY <2>1, <2>2, StepsAreFinite, FS_CardinalityType
<1>2. CASE Cardinality(steps) <= keep
  <2>1. e = 3
    BY <1>2, HeaderIsShort DEF EligibleEnd
  <2> QED
    BY <1>1, <2>1
<1>3. CASE ~(Cardinality(steps) <= keep)
  <2>1. e = Min(late)
    BY <1>3 DEF EligibleEnd
  <2>2. cutoff \in steps
    <3>1. CASE keep = 0
      <4>1. steps # {}
        BY <1>1, <1>3, FS_EmptySet
      <4> HIDE DEF steps
      <4>2. \E x \in steps : \A y \in steps : x <= y
        BY <1>1, <4>1, LeastNatural
      <4> QED
        BY <3>1, <4>2 DEF Min
    <3>2. CASE keep # 0
      <4> HIDE DEF steps
      <4>1. Cardinality(steps) - keep \in 0..(Cardinality(steps) - 1)
        BY <1>1, <1>3, <3>2
      <4>2. PICK x \in steps : Cardinality(Below(steps, x)) = Cardinality(steps) - keep
        BY <1>1, <4>1, Ranks
      <4>3. Cardinality({y \in steps : y >= x}) = Cardinality(steps) - Cardinality(Below(steps, x))
        BY <1>1, FromOn
      <4>4. Cardinality({y \in steps : y >= x}) = keep
        BY <1>1, <4>2, <4>3
      <4> QED
        BY <3>2, <4>4
    <3> QED
      BY <3>1, <3>2
  <2> HIDE DEF cutoff
  <2>3. late # {} /\ late \subseteq 3..Len(h)
    <3>1. PICK i \in Body(h) : h[i].step = cutoff
      BY <2>2 DEF Steps
    <3>2. cutoff >= cutoff
      BY <1>1, <2>2
    <3> QED
      BY <1>1, <3>1, <3>2
  <2>4. e \in late /\ \A i \in late : e <= i
    <3>1. late \subseteq Nat
      BY <1>1, <2>3
    <3> HIDE DEF late
    <3>2. \E i \in late : \A j \in late : i <= j
      BY <2>3, <3>1, LeastNatural
    <3> QED
      BY <2>1, <3>2 DEF Min
  <2>5. e \in 3..Len(h) /\ h[e].step >= cutoff
    BY <2>3, <2>4
  <2>6. ASSUME NEW i \in 3..(e - 1) PROVE e \in DOMAIN h /\ h[i].step # h[e].step
    <3>1. i \in Body(h) /\ ~(e <= i)
      BY <1>1, <2>5
    <3>2. ~(h[i].step >= cutoff)
      BY <2>4, <3>1
    <3> QED
      BY <1>1, <2>5, <3>2
  <2> HIDE DEF late
  <2> QED
    BY <1>1, <2>5, <2>6
<1> QED
  BY <1>2, <1>3

\* The old part of a history.
LEMMA OldPart ==
    ASSUME NEW h \in Seq(Said), NEW e \in 3..(Len(h) + 1), NEW old, old = SubSeq(h, 3, e - 1)
    PROVE  /\ old \in Seq(Said) /\ DOMAIN old = 1..(e - 3)
           /\ \A i \in 1..(e - 3) : old[i] = h[i + 2]
<1>1. Len(h) \in Nat /\ \A i \in 3..(e - 1) : h[i] \in Said
  <2>1. Len(h) \in Nat /\ DOMAIN h = 1..Len(h)
    BY LenProperties
  <2> QED
    BY <2>1, ElementOfSeq
<1>2. /\ old \in Seq(Said)
      /\ Len(old) = IF 3 <= e - 1 THEN (e - 1) - 3 + 1 ELSE 0
      /\ \A i \in 1..((e - 1) - 3 + 1) : old[i] = h[3 + i - 1]
  <2>1. 3 \in Int /\ e - 1 \in Int
    BY <1>1
  <2> DEFINE n == e - 1
  <2> HIDE DEF n
  <2>2. /\ SubSeq(h, 3, n) \in Seq(Said)
        /\ Len(SubSeq(h, 3, n)) = IF 3 <= n THEN n - 3 + 1 ELSE 0
        /\ \A i \in 1..(n - 3 + 1) : SubSeq(h, 3, n)[i] = h[3 + i - 1]
    <3>1. n \in Int /\ \A i \in 3..n : h[i] \in Said
      BY <1>1, <2>1 DEF n
    <3> QED
      BY <3>1, SubSeqProperties
  <2> QED
    BY <2>2 DEF n
<1>3. (e - 1) - 3 + 1 = e - 3 /\ Len(old) = e - 3
  BY <1>1, <1>2
<1>4. DOMAIN old = 1..(e - 3)
  BY <1>2, <1>3, LenProperties
<1>5. \A i \in 1..(e - 3) : 3 + i - 1 = i + 2
  BY <1>1
<1> QED
  BY <1>2, <1>3, <1>4, <1>5

\* A history whose old part, up to e, is another.
Replaced(g, h, n, e, part, m) ==
    /\ g \in Seq(Said) /\ m \in Nat /\ n \in Nat
    /\ DOMAIN g = 1..(m + n + 3 - e)
    /\ \A k \in 1..2 : g[k] = h[k]
    /\ \A k \in 3..(2 + m) : g[k] = part[k - 2]
    /\ \A k \in (3 + m)..(m + n + 3 - e) : g[k] = h[k + e - 3 - m]

LEMMA NewHistory ==
    ASSUME NEW h \in Seq(Said), NEW n, n = Len(h), n >= 2,
           NEW e \in 3..(n + 1), NEW part \in Seq(Said),
           h[1] = Header[1], h[2] = Header[2],
           NEW g, g = Header \o part \o SubSeq(h, e, n),
           NEW m, m = Len(part)
    PROVE  Replaced(g, h, n, e, part, m)
<1> DEFINE t == SubSeq(h, e, n)
           hp == Header \o part
<1>1. /\ n \in Nat /\ m \in Nat /\ DOMAIN h = 1..n
      /\ Header \in Seq(Said) /\ Len(Header) = 2
  BY LenProperties, HeaderIsShort
<1>2. /\ t \in Seq(Said) /\ Len(t) = n + 1 - e
      /\ \A i \in 1..(n + 1 - e) : t[i] = h[e + i - 1]
  <2>1. \A i \in e..n : h[i] \in Said
    BY <1>1, ElementOfSeq
  <2>2. e \in Int /\ n \in Int /\ e <= n + 1
    BY <1>1
  <2>3. /\ t \in Seq(Said) /\ Len(t) = IF e <= n THEN n - e + 1 ELSE 0
        /\ \A i \in 1..(n - e + 1) : t[i] = h[e + i - 1]
    BY <2>1, <2>2, SubSeqProperties
  <2>4. n - e + 1 = n + 1 - e /\ (~(e <= n) => n + 1 - e = 0)
    BY <1>1, <2>2
  <2> HIDE DEF t
  <2> QED
    BY <2>3, <2>4
<1> HIDE DEF t
<1>3. /\ hp \in Seq(Said) /\ Len(hp) = 2 + m
      /\ \A i \in 1..(2 + m) : hp[i] = IF i <= 2 THEN Header[i] ELSE part[i - 2]
  <2> DEFINE hd == Header
  <2> HIDE DEF hd
  <2>1. /\ hd \o part \in Seq(Said) /\ Len(hd \o part) = Len(hd) + Len(part)
        /\ \A i \in 1..(Len(hd) + Len(part)) :
              (hd \o part)[i] = IF i <= Len(hd) THEN hd[i] ELSE part[i - Len(hd)]
    BY <1>1, ConcatProperties DEF hd
  <2>2. Len(hd) = 2
    BY <1>1 DEF hd
  <2> QED
    BY <2>1, <2>2 DEF hd
<1> HIDE DEF hp
<1>4. /\ g \in Seq(Said) /\ Len(g) = Len(hp) + Len(t)
      /\ \A i \in 1..(Len(hp) + Len(t)) :
            g[i] = IF i <= Len(hp) THEN hp[i] ELSE t[i - Len(hp)]
  <2>1. g = hp \o t
    BY DEF hp, t
  <2>2. hp \in Seq(Said) /\ t \in Seq(Said)
    BY <1>2, <1>3
  <2>3. /\ hp \o t \in Seq(Said) /\ Len(hp \o t) = Len(hp) + Len(t)
        /\ \A i \in 1..(Len(hp) + Len(t)) :
              (hp \o t)[i] = IF i <= Len(hp) THEN hp[i] ELSE t[i - Len(hp)]
    BY ONLY <2>2, ConcatProperties
  <2> QED
    BY <2>1, <2>3
<1>5. Len(hp) + Len(t) = m + n + 3 - e
  BY <1>1, <1>2, <1>3
<1>6. DOMAIN g = 1..(m + n + 3 - e)
  BY <1>4, <1>5, LenProperties
<1>7. /\ m \in Nat /\ n \in Nat /\ e \in 3..(n + 1)
  BY <1>1
<1>8. ASSUME NEW k \in 1..2 PROVE g[k] = h[k]
  <2>1. k \in 1..(m + n + 3 - e) /\ k <= 2 + m /\ k <= 2 /\ k \in 1..(2 + m)
    BY <1>7
  <2>2. g[k] = Header[k]
    BY <1>3, <1>4, <1>5, <2>1
  <2>3. k = 1 \/ k = 2
    OBVIOUS
  <2> QED
    BY <2>2, <2>3
<1>9. ASSUME NEW k \in 3..(2 + m) PROVE g[k] = part[k - 2]
  <2>1. k \in 1..(m + n + 3 - e) /\ k <= 2 + m /\ ~(k <= 2) /\ k \in 1..(2 + m)
    BY <1>7
  <2> QED
    BY <1>3, <1>4, <1>5, <2>1
<1>10. ASSUME NEW k \in (3 + m)..(m + n + 3 - e) PROVE g[k] = h[k + e - 3 - m]
  <2>1. k \in 1..(m + n + 3 - e) /\ ~(k <= 2 + m)
        /\ k - (2 + m) \in 1..(n + 1 - e) /\ e + (k - (2 + m)) - 1 = k + e - 3 - m
    BY <1>7
  <2> QED
    BY <1>2, <1>3, <1>4, <1>5, <2>1
<1> QED
  BY <1>4, <1>6, <1>7, <1>8, <1>9, <1>10 DEF Replaced

\* If a part is a sieve of the old part, the history with it is one of the
\* history; replies do not cross the border.
LEMMA SieveOfHistory ==
    ASSUME NEW h \in Seq(Said), NEW e \in 3..(Len(h) + 1), NEW part \in Seq(Said),
           Len(h) >= 2, h[1] = Header[1], h[2] = Header[2],
           NEW old, old = SubSeq(h, 3, e - 1), NEW replay \in BOOLEAN,
           IsSieve(old, part, replay),
           \A i \in 3..(e - 1) : e \in DOMAIN h /\ h[i].step # h[e].step
    PROVE  IsSieve(h, Header \o part \o SubSeq(h, e, Len(h)), replay)
<1> DEFINE n == Len(h)
           m == Len(part)
           g == Header \o part \o SubSeq(h, e, Len(h))
<1>1. /\ old \in Seq(Said) /\ DOMAIN old = 1..(e - 3)
      /\ \A i \in 1..(e - 3) : old[i] = h[i + 2]
  BY OldPart
<1>new. /\ g = Header \o part \o SubSeq(h, e, n) /\ m = Len(part) /\ n = Len(h)
        /\ n >= 2 /\ e \in 3..(n + 1)
  OBVIOUS
<1> HIDE DEF n, m, g
<1>2. /\ g \in Seq(Said) /\ m \in Nat /\ n \in Nat
      /\ DOMAIN g = 1..(m + n + 3 - e)
      /\ \A k \in 1..2 : g[k] = h[k]
      /\ \A k \in 3..(2 + m) : g[k] = part[k - 2]
      /\ \A k \in (3 + m)..(m + n + 3 - e) : g[k] = h[k + e - 3 - m]
  <2>1. Replaced(g, h, n, e, part, m)
    BY <1>new, NewHistory
  <2> QED
    BY <2>1 DEF Replaced
<1>3. DOMAIN h = 1..n /\ DOMAIN part = 1..m /\ e \in 3..(n + 1) /\ n >= 2
  BY <1>new, LenProperties
<1>4. PICK fp : Sieved(old, fp, part) /\ (Whole(old, replay) => Respects(old, fp, replay))
  BY DEF IsSieve
<1>5. /\ DOMAIN fp = 1..m /\ \A k \in 1..m : fp[k] \in 1..(e - 3)
      /\ \A i, k \in 1..m : i < k => fp[i] < fp[k]
      /\ \A k \in 1..m : Alike(part[k], old[fp[k]])
  BY <1>1, <1>3, <1>4 DEF Sieved
<1> DEFINE N == m + n + 3 - e
           fk(k) == IF k <= 2 THEN k
                    ELSE IF k <= 2 + m THEN 2 + fp[k - 2] ELSE k + e - 3 - m
           f == [k \in 1..N |-> fk(k)]
<1>6. \A k \in 1..N : /\ k <= 2 => fk(k) = k /\ g[k] = h[k]
                      /\ ~(k <= 2) /\ k <= 2 + m =>
                            /\ k - 2 \in 1..m /\ fp[k - 2] \in 1..(e - 3)
                            /\ fk(k) = 2 + fp[k - 2] /\ fk(k) \in 3..(e - 1)
                            /\ Alike(g[k], h[fk(k)])
                      /\ ~(k <= 2 + m) => /\ fk(k) = k + e - 3 - m /\ fk(k) \in e..n
                                          /\ g[k] = h[fk(k)]
  <2> TAKE k \in 1..N
  <2>1. CASE k <= 2
    <3>1. k \in 1..2 /\ k <= 2 + m
      BY <1>2, <2>1
    <3> QED
      BY <1>2, <2>1, <3>1
  <2>2. CASE ~(k <= 2) /\ k <= 2 + m
    <3>1. k \in 3..(2 + m) /\ k - 2 \in 1..m
      BY <1>2, <1>3, <2>2
    <3>2. fp[k - 2] \in 1..(e - 3) /\ fk(k) = 2 + fp[k - 2]
      BY <1>5, <2>2, <3>1
    <3>3. fk(k) \in 3..(e - 1)
      <4>1. \A x \in 1..(e - 3) : 2 + x \in 3..(e - 1)
        BY <1>3
      <4> HIDE DEF fk
      <4> QED
        BY <3>2, <4>1
    <3>4. old[fp[k - 2]] = h[fk(k)]
      <4>1. \A x \in 1..(e - 3) : x + 2 = 2 + x
        BY <1>3
      <4> HIDE DEF fk
      <4> QED
        BY <1>1, <3>2, <4>1
    <3>5. g[k] = part[k - 2]
      BY <1>2, <3>1
    <3> HIDE DEF fk
    <3> QED
      BY <1>5, <2>2, <3>1, <3>2, <3>3, <3>4, <3>5
  <2>3. CASE ~(k <= 2 + m)
    <3>1. k \in (3 + m)..N /\ ~(k <= 2) /\ k + e - 3 - m \in e..n
      BY <1>2, <1>3, <2>3, SMTT(30)
    <3> QED
      BY <1>2, <2>3, <3>1
  <2> HIDE DEF fk
  <2> QED
    BY <2>1, <2>2, <2>3, <1>2, <1>3
<1> HIDE DEF fk
<1>7. \A k \in 1..N : fk(k) \in 1..n /\ Alike(g[k], h[fk(k)])
  <2> TAKE k \in 1..N
  <2>1. \A x : Alike(x, x)
    BY DEF Alike
  <2>a. \A a, b \in Int : a <= b + 1 /\ a >= 3 =>
           (\A x \in 3..(a - 1) : x \in 1..b) /\ (\A x \in a..b : x \in 1..b)
    OBVIOUS
  <2>b. e \in Int /\ n \in Int /\ e <= n + 1 /\ e >= 3
    BY <1>2, <1>3
  <2>0. (\A x \in 3..(e - 1) : x \in 1..n) /\ (\A x \in e..n : x \in 1..n)
    BY <2>a, <2>b
  <2>2. CASE k <= 2
    <3>1. fk(k) = k /\ g[k] = h[k]
      BY <1>6, <2>2
    <3>2. k \in 1..n
      BY <1>3, <2>2, <2>b
    <3> QED
      BY <2>1, <3>1, <3>2
  <2>3. CASE ~(k <= 2) /\ k <= 2 + m
    <3>1. fk(k) \in 3..(e - 1) /\ Alike(g[k], h[fk(k)])
      BY <1>6, <2>3
    <3> QED
      BY <2>0, <3>1
  <2>4. CASE ~(k <= 2 + m)
    <3>1. fk(k) \in e..n /\ g[k] = h[fk(k)]
      BY <1>6, <2>4
    <3> QED
      BY <2>0, <2>1, <3>1
  <2> QED
    BY <2>2, <2>3, <2>4
<1>8. \A i, k \in 1..N : i < k => fk(i) < fk(k)
  <2> SUFFICES ASSUME NEW i \in 1..N, NEW k \in 1..N, i < k PROVE fk(i) < fk(k)
    OBVIOUS
  <2>1. i \in Nat /\ k \in Nat
    BY <1>2, <1>3
  <2>2. CASE k <= 2
    BY <1>6, <2>1, <2>2
  <2>3. CASE ~(k <= 2) /\ k <= 2 + m
    <3>1. CASE i <= 2
      BY <1>3, <1>6, <2>1, <2>3, <3>1
    <3>2. CASE ~(i <= 2)
      <4>1. i <= 2 + m
        BY <1>2, <2>1, <2>3
      <4>2. i - 2 \in 1..m /\ k - 2 \in 1..m /\ i - 2 < k - 2
        BY <1>6, <2>1, <2>3, <3>2, <4>1
      <4>3. fp[i - 2] < fp[k - 2]
        BY <1>5, <4>2
      <4>4. fk(i) = 2 + fp[i - 2] /\ fk(k) = 2 + fp[k - 2]
            /\ fp[i - 2] \in 1..(e - 3) /\ fp[k - 2] \in 1..(e - 3)
        BY <1>6, <2>3, <3>2, <4>1
      <4>5. \A x, y \in 1..(e - 3) : x < y => 2 + x < 2 + y
        BY <1>3
      <4> QED
        BY <4>3, <4>4, <4>5
    <3> QED
      BY <3>1, <3>2
  <2>4. CASE ~(k <= 2 + m)
    <3>1. fk(k) = k + e - 3 - m /\ fk(k) \in e..n
      BY <1>6, <2>4
    <3>2. CASE i <= 2
      BY <1>3, <1>6, <2>1, <3>1, <3>2
    <3>3. CASE ~(i <= 2) /\ i <= 2 + m
      <4>1. fk(i) \in 3..(e - 1)
        BY <1>6, <3>3
      <4> QED
        BY <1>3, <3>1, <4>1
    <3>4. CASE ~(i <= 2 + m)
      <4>1. fk(i) = i + e - 3 - m
        BY <1>6, <3>4
      <4>2. i + e - 3 - m < k + e - 3 - m
        BY <1>2, <1>3, <2>1
      <4> QED
        BY <3>1, <4>1, <4>2
    <3> QED
      BY <3>2, <3>3, <3>4
  <2> QED
    BY <2>2, <2>3, <2>4
<1>9. DOMAIN f = 1..N /\ \A k \in 1..N : f[k] = fk(k)
  OBVIOUS
<1>10. f \in [1..N -> 1..n]
  BY <1>7
<1> HIDE DEF f
<1>11. DOMAIN g = 1..N
  BY <1>2
<1> HIDE DEF N
<1>12. Sieved(h, f, g)
  BY <1>3, <1>7, <1>8, <1>9, <1>10, <1>11 DEF Sieved
<1>13. \A i \in 1..n : /\ i <= 2 \/ i >= e => Stays(f, i)
                       /\ i \in 3..(e - 1) => (Stays(f, i) <=> Stays(fp, i - 2))
  <2> SUFFICES ASSUME NEW i \in 1..n
               PROVE  /\ i <= 2 \/ i >= e => Stays(f, i)
                      /\ i \in 3..(e - 1) => (Stays(f, i) <=> Stays(fp, i - 2))
    OBVIOUS
  <2>1. ASSUME i <= 2 PROVE Stays(f, i)
    <3>1. i \in 1..N
      BY <1>2, <1>3, <2>1 DEF N
    <3>2. fk(i) = i
      BY <1>6, <2>1, <3>1 DEF N
    <3> QED
      BY <1>9, <3>1, <3>2 DEF Stays
  <2>2. ASSUME i >= e PROVE Stays(f, i)
    <3> DEFINE k == i + 3 + m - e
    <3>1. k \in 1..N /\ ~(k <= 2 + m) /\ k + e - 3 - m = i
      BY <1>2, <1>3, <2>2 DEF N
    <3> HIDE DEF k
    <3>2. fk(k) = i
      BY <1>6, <3>1 DEF N
    <3> QED
      BY <1>9, <3>1, <3>2 DEF Stays
  <2>3. ASSUME i \in 3..(e - 1), Stays(fp, i - 2) PROVE Stays(f, i)
    <3>1. PICK x \in 1..m : fp[x] = i - 2
      BY <1>5, <2>3 DEF Stays
    <3> DEFINE k == x + 2
    <3>2. k \in 1..N /\ ~(k <= 2) /\ k <= 2 + m /\ k - 2 = x
      BY <1>2, <1>3 DEF N
    <3> HIDE DEF k
    <3>3. fk(k) = 2 + fp[x]
      BY <1>6, <3>2 DEF N
    <3>4. 2 + (i - 2) = i
      OBVIOUS
    <3> QED
      BY <1>9, <3>1, <3>2, <3>3, <3>4 DEF Stays
  <2>4. ASSUME i \in 3..(e - 1), Stays(f, i) PROVE Stays(fp, i - 2)
    <3>1. PICK k \in 1..N : fk(k) = i
      BY <1>9, <2>4 DEF Stays
    <3>2. CASE k <= 2
      BY <1>3, <1>6, <2>4, <3>1, <3>2 DEF N
    <3>3. CASE ~(k <= 2 + m)
      <4>1. i \in e..n
        BY <1>6, <3>1, <3>3 DEF N
      <4> QED
        BY <1>3, <2>4, <4>1
    <3>4. CASE ~(k <= 2) /\ k <= 2 + m
      <4>1. k - 2 \in 1..m /\ fp[k - 2] \in 1..(e - 3) /\ i = 2 + fp[k - 2]
        BY <1>6, <3>1, <3>4 DEF N
      <4>2. \A x \in 1..(e - 3) : i = 2 + x => i - 2 = x
        BY <1>3
      <4>3. fp[k - 2] = i - 2
        BY <4>1, <4>2
      <4> QED
        BY <1>5, <4>1, <4>3 DEF Stays
    <3> QED
      BY <3>2, <3>3, <3>4
  <2> QED
    BY <2>1, <2>2, <2>3, <2>4
<1>14. ASSUME Whole(h, replay), NEW c \in 1..n, NEW j \in DOMAIN h[c].calls, replay, c < e
       PROVE  c + j < e
  <2>1. c \in 3..(e - 1)
    <3>1. h[1].calls = <<>> /\ h[2].calls = <<>>
      BY DEF Header, Message
    <3>2. c # 1 /\ c # 2
      BY <3>1
    <3> QED
      BY <1>3, <1>14, <3>2
  <2>2. h[c] \in Said
    BY <1>3, ElementOfSeq DEF n
  <2>3. DOMAIN h[c].calls = 1..Len(h[c].calls) /\ Len(h[c].calls) \in Nat
    BY <2>2, LenProperties DEF Said
  <2> SUFFICES ASSUME ~(c + j < e) PROVE FALSE
    OBVIOUS
  <2>4. e - c \in DOMAIN h[c].calls
    BY <1>3, <2>1, <2>3
  <2>5. c + (e - c) = e
    BY <1>3
  <2>6. h[e].step = h[c].step
    BY <1>3, <1>14, <2>4, <2>5 DEF Whole, Followed
  <2> QED
    BY <2>1, <2>6
<1>15. ASSUME Whole(h, replay) PROVE Respects(h, f, replay)
  <2>1. CASE replay
    <3> SUFFICES ASSUME NEW c \in 1..n, NEW j \in DOMAIN h[c].calls
                 PROVE  Stays(f, c) <=> Stays(f, c + j)
      BY <1>3, <2>1 DEF Respects
    <3>1. c + j \in 1..n /\ j \in Nat /\ j > 0
      <4>1. h[c] \in Said
        BY <1>3, ElementOfSeq DEF n
      <4>2. DOMAIN h[c].calls = 1..Len(h[c].calls) /\ Len(h[c].calls) \in Nat
        BY <4>1, LenProperties DEF Said
      <4>3. j \in Nat /\ j > 0
        BY <4>2
      <4> QED
        BY <1>3, <1>15, <2>1, <4>3 DEF Whole, Followed
    <3>2. CASE c >= e
      <4>1. c + j >= e
        BY <1>3, <3>1, <3>2
      <4> QED
        BY <1>13, <3>1, <3>2, <4>1
    <3>3. CASE c < e
      <4>1. c + j < e
        BY <1>14, <1>15, <2>1, <3>3
      <4>2. c # 1 /\ c # 2
        <5>1. h[1].calls = <<>> /\ h[2].calls = <<>>
          BY DEF Header, Message
        <5> QED
          BY <5>1
      <4>3. c \in 3..(e - 1) /\ c + j \in 3..(e - 1) /\ c - 2 \in 1..(e - 3)
            /\ (c - 2) + j = (c + j) - 2 /\ c - 2 + 2 = c
        BY <1>3, <3>1, <3>3, <4>1, <4>2
      <4>4. Whole(old, replay)
        <5>1. Reasoned(h) /\ Followed(h)
          BY <1>15, <2>1 DEF Whole
        <5>2. \A i \in 1..(e - 3) : i + 2 \in 1..n
          <6>1. \A a, b \in Int : a <= b + 1 => \A i \in 1..(a - 3) : i + 2 \in 1..b
            OBVIOUS
          <6>2. e \in Int /\ n \in Int /\ e <= n + 1
            BY <1>2, <1>3
          <6> QED
            BY <6>1, <6>2
        <5>3. Reasoned(old)
          BY <1>1, <1>3, <5>1, <5>2 DEF Reasoned
        <5>4. ASSUME NEW d \in 1..(e - 3), NEW l \in DOMAIN old[d].calls
              PROVE  /\ d + l \in 1..(e - 3)
                     /\ old[d + l].answers = old[d].calls[l] /\ old[d + l].step = old[d].step
          <6>1. d + 2 \in 1..n /\ d + 2 < e /\ old[d] = h[d + 2] /\ l \in DOMAIN h[d + 2].calls
            BY <1>1, <1>3, <5>2
          <6>2. (d + 2) + l < e
            BY <1>14, <1>15, <2>1, <6>1
          <6>3. /\ (d + 2) + l \in DOMAIN h
                /\ h[(d + 2) + l].answers = h[d + 2].calls[l]
                /\ h[(d + 2) + l].step = h[d + 2].step
            BY <1>3, <5>1, <6>1 DEF Followed
          <6>4. l \in Nat
            <7>1. h[d + 2] \in Said
              BY <1>3, <6>1, ElementOfSeq DEF n
            <7>2. DOMAIN h[d + 2].calls = 1..Len(h[d + 2].calls) /\ Len(h[d + 2].calls) \in Nat
              BY <7>1, LenProperties DEF Said
            <7> QED
              BY <6>1, <7>2
          <6>5. d + l \in 1..(e - 3) /\ (d + l) + 2 = (d + 2) + l
            BY <1>3, <6>2, <6>4
          <6>6. old[d + l] = h[(d + 2) + l]
            BY <1>1, <6>5
          <6> QED
            BY <6>1, <6>3, <6>5, <6>6
        <5>5. Followed(old)
          BY <1>1, <5>4 DEF Followed
        <5> QED
          BY <5>3, <5>5 DEF Whole
      <4>5. Respects(old, fp, TRUE)
        BY <1>4, <2>1, <4>4
      <4>6. old[c - 2] = h[c] /\ c - 2 \in DOMAIN old
        BY <1>1, <4>3
      <4>7. Stays(fp, c - 2) <=> Stays(fp, (c - 2) + j)
        BY <4>5, <4>6 DEF Respects
      <4> QED
        BY <1>13, <3>1, <4>3, <4>7
    <3>4. c >= e \/ c < e
      BY <1>3
    <3> QED
      BY <3>2, <3>3, <3>4
  <2>2. CASE ~replay
    <3> SUFFICES ASSUME NEW c \in 1..n, h[c].calls # <<>> PROVE Stays(f, c)
      BY <1>3, <2>2 DEF Respects
    <3>1. CASE c \in 3..(e - 1)
      <4>1. c - 2 \in 1..(e - 3) /\ c - 2 + 2 = c
        BY <1>3, <3>1
      <4>2. old[c - 2] = h[c] /\ c - 2 \in DOMAIN old
        BY <1>1, <4>1
      <4>3. Respects(old, fp, FALSE)
        BY <1>4, <2>2 DEF Whole
      <4>4. Stays(fp, c - 2)
        BY <4>2, <4>3 DEF Respects
      <4> QED
        BY <1>13, <3>1, <4>4
    <3>2. CASE c \notin 3..(e - 1)
      <4>1. c <= 2 \/ c >= e
        BY <1>3, <3>2
      <4> QED
        BY <1>13, <4>1
    <3> QED
      BY <3>1, <3>2
  <2> QED
    BY <2>1, <2>2
<1> QED
  BY <1>12, <1>15 DEF IsSieve, g

\* A history is a sieve of itself.
LEMMA SieveOfItself ==
    ASSUME NEW h \in Seq(Said), NEW replay
    PROVE  IsSieve(h, h, replay)
<1> DEFINE f == [i \in DOMAIN h |-> i]
<1>1. DOMAIN h = 1..Len(h) /\ Len(h) \in Nat
  BY LenProperties
<1>2. Sieved(h, f, h)
  BY <1>1 DEF Sieved, Alike
<1>3. \A i \in DOMAIN h : Stays(f, i)
  BY DEF Stays
<1>4. Whole(h, replay) => Respects(h, f, replay)
  <2>1. ASSUME Followed(h), NEW c \in DOMAIN h, NEW j \in DOMAIN h[c].calls
        PROVE  c + j \in DOMAIN h
    BY <2>1 DEF Followed
  <2> HIDE DEF f
  <2> QED
    BY <1>3, <2>1 DEF Whole, Respects
<1> QED
  BY <1>2, <1>4 DEF IsSieve

\* Compaction takes a sieve of the history of the runner.
LEMMA CompactedSieve ==
    ASSUME ConversationInv, \A i \in DOMAIN messages : Told(messages[i], policy.replay)
    PROVE  Compacted(messages) \in Seq(Said) /\ IsSieve(messages, Compacted(messages), policy.replay)
<1> DEFINE h == messages
           replay == policy.replay
           keep == policy.keep
           n == Len(h)
           end == EligibleEnd(h, keep)
           old == SubSeq(h, Len(Header) + 1, end - 1)
           recent == SubSeq(h, end, n)
           steps == ReplaySteps(old)
           complete == CompleteSteps(old)
           quiet == {"nudge", "tool_result"}
           mute == {"nudge", "tool_result", "reasoning", "text_response"}
           part1 == Phase1(old, steps)
           part2 == DropUnlessReplayed(old, steps, complete, quiet)
           part3 == DropUnlessReplayed(old, steps, complete, mute)
<1>1. keep \in Nat /\ replay \in BOOLEAN /\ h \in Seq(Said)
  BY ConversationAssumption DEF ConversationInv
<1>2. Len(Header) = 2 /\ Header \in Seq(Said)
  BY HeaderIsShort
<1>3. n >= 2 /\ h[1] = Header[1] /\ h[2] = Header[2]
  <2>1. PICK a, b, t \in Seq(Said) : messages = Header \o a \o t
    BY DEF ConversationInv, EndAlike
  <2> DEFINE at == a \o t
  <2>2. at \in Seq(Said) /\ messages = Header \o at
    BY <2>1, ConcatProperties, HistoryTwo
  <2> HIDE DEF at
  <2>3. /\ Len(messages) = Len(Header) + Len(at) /\ Len(at) \in Nat
        /\ \A i \in 1..(Len(Header) + Len(at)) :
              messages[i] = IF i <= Len(Header) THEN Header[i] ELSE at[i - Len(Header)]
    BY <1>2, <2>2, ConcatProperties, LenProperties
  <2>4. 1 \in 1..(2 + Len(at)) /\ 2 \in 1..(2 + Len(at))
    BY <2>3
  <2>5. \A i \in 1..(2 + Len(at)) :
              messages[i] = IF i <= 2 THEN Header[i] ELSE at[i - 2]
    BY <1>2, <2>3
  <2>6. h[1] = Header[1]
    BY <2>4, <2>5
  <2>7. h[2] = Header[2]
    BY <2>4, <2>5
  <2> QED
    BY <1>2, <2>3, <2>6, <2>7
<1>4. end \in 3..(n + 1) /\ \A i \in 3..(end - 1) : end \in DOMAIN h /\ h[i].step # h[end].step
  <2> HIDE DEF keep, h, end
  <2>1. n >= 2 /\ end = EligibleEnd(h, keep)
    BY <1>3 DEF end
  <2> QED
    BY <1>1, <2>1, EndIsBorder
<1>5. Compacted(messages) \in
          {messages} \cup {Header \o part \o recent : part \in {part1, part2, part3}}
  <2> HIDE DEF old, recent
  <2> QED
    BY DEF Compacted, old, recent, end, n
<1> HIDE DEF end, n
<1>6. old = SubSeq(h, 3, end - 1)
  BY <1>2
<1> HIDE DEF old
<1>7. /\ old \in Seq(Said) /\ DOMAIN old = 1..(end - 3)
      /\ \A i \in 1..(end - 3) : old[i] = h[i + 2]
  <2> HIDE DEF h
  <2> QED
    BY <1>1, <1>4, <1>6, OldPart DEF n
<1>8. \A i \in DOMAIN old : Told(old[i], replay)
  <2>1. \A x, y \in Int : x <= y + 1 => \A i \in 1..(x - 3) : i + 2 \in 1..y
    OBVIOUS
  <2>2. end \in Int /\ n \in Int /\ end <= n + 1 /\ DOMAIN h = 1..n
    BY <1>1, <1>4, LenProperties DEF n
  <2>3. \A i \in 1..(end - 3) : i + 2 \in DOMAIN h
    BY <2>1, <2>2
  <2> QED
    BY <1>7, <2>3
<1>9. ~replay => complete = {}
  <2> SUFFICES ASSUME ~replay PROVE complete = {}
    OBVIOUS
  <2>1. steps = {}
    BY <1>8 DEF ReplaySteps, Told
  <2> QED
    BY <2>1 DEF CompleteSteps
<1> HIDE DEF complete
<1>10. \A part \in {part1, part2, part3} : part \in Seq(Said) /\ IsSieve(old, part, replay)
  <2>1. "tool_call" \notin quiet /\ "tool_call" \notin mute
    OBVIOUS
  <2> HIDE DEF quiet, mute, replay
  <2>2. IsSieve(old, part1, replay) /\ IsSieve(old, part2, replay)
    BY <1>7, <1>8, <1>9, <2>1, PhasesSieve
  <2>3. IsSieve(old, part3, replay)
    BY <1>7, <1>8, <1>9, <2>1, PhasesSieve
  <2>4. part1 \in Seq(Said) /\ part2 \in Seq(Said)
    BY <1>7, PhasesOnlyDrop
  <2>5. part3 \in Seq(Said)
    BY <1>7, PhasesOnlyDrop
  <2> HIDE DEF part1, part2, part3
  <2> QED
    BY <2>2, <2>3, <2>4, <2>5
<1>11. CASE Compacted(messages) = messages
  BY <1>1, <1>11, SieveOfItself
<1>12. CASE \E part \in {part1, part2, part3} : Compacted(messages) = Header \o part \o recent
  <2>1. PICK part \in {part1, part2, part3} : Compacted(messages) = Header \o part \o recent
    BY <1>12
  <2>2. part \in Seq(Said) /\ IsSieve(old, part, replay)
    BY <1>10
  <2> HIDE DEF part1, part2, part3, h, replay
  <2>3. IsSieve(h, Header \o part \o SubSeq(h, end, Len(h)), replay)
    <3>1. /\ Len(h) >= 2 /\ end \in 3..(Len(h) + 1)
          /\ \A i \in 3..(end - 1) : end \in DOMAIN h /\ h[i].step # h[end].step
      BY <1>3, <1>4 DEF n
    <3> QED
      BY <1>1, <1>3, <1>6, <2>2, <3>1, SieveOfHistory
  <2>4. Header \o part \o recent \in Seq(Said)
    <3>1. recent \in Seq(Said)
      <4>1. DOMAIN h = 1..n /\ n \in Int /\ end \in Int /\ end >= 1
        BY <1>1, <1>4, LenProperties DEF n
      <4>2. \A i \in end..n : h[i] \in Said
        <5>1. \A x, y \in Int : x >= 1 => \A i \in x..y : i \in 1..y
          OBVIOUS
        <5>2. \A i \in end..n : i \in 1..n
          BY <4>1, <5>1
        <5> QED
          BY <1>1, <4>1, <5>2, ElementOfSeq DEF n
      <4> QED
        BY <4>1, <4>2, SubSeqProperties
    <3> HIDE DEF recent
    <3>2. Header \o part \in Seq(Said)
      BY <1>2, <2>2, ConcatProperties
    <3> DEFINE hp == Header \o part
    <3> HIDE DEF hp
    <3> QED
      BY <3>1, <3>2, ConcatProperties DEF hp
  <2> QED
    BY <2>1, <2>3, <2>4 DEF n, h, replay
<1> QED
  BY <1>5, <1>11, <1>12

\* Where the parts of a flattened sequence end, and what stands there.
Spread(seqs, m, L, r) ==
    /\ \A i \in 0..m : L[i] \in Nat
    /\ L[0] = 0 /\ \A i \in 1..m : L[i] = L[i - 1] + Len(seqs[i])
    /\ DOMAIN r = 1..L[m]
    /\ \A i \in 1..m : \A j \in 1..Len(seqs[i]) : r[L[i - 1] + j] = seqs[i][j]
    /\ \A p \in 1..L[m] :
          \E i \in 1..m : \E j \in 1..Len(seqs[i]) : p = L[i - 1] + j

\* Flattening is what its recursion says.
LEMMA FlattenRuns ==
    ASSUME NEW seqs, Len(seqs) \in Nat, Len(seqs) > 0
    PROVE  \E fl : /\ FlattenSeq(seqs) = fl[Len(seqs)]
                   /\ \A i \in 1..Len(seqs) : fl[i] = IF i = 1 THEN seqs[i] ELSE fl[i - 1] \o seqs[i]
<1> DEFINE n == Len(seqs)
           Runs(f, m) == f = [i \in 1..m |-> IF i = 1 THEN seqs[i] ELSE f[i - 1] \o seqs[i]]
           P == {m \in 0..n : m = 0 \/ \E f : Runs(f, m)}
<1>1. 0 \in P
  OBVIOUS
<1>2. ASSUME NEW m \in 1..n, m - 1 \in P PROVE m \in P
  <2>1. CASE m = 1
    <3>1. Runs([i \in 1..1 |-> seqs[1]], 1)
      OBVIOUS
    <3> HIDE DEF Runs
    <3>2. \E f : Runs(f, m)
      BY <2>1, <3>1
    <3> QED
      BY <3>2
  <2>2. CASE m # 1
    <3>1. PICK f : Runs(f, m - 1)
      <4> HIDE DEF Runs
      <4>1. m - 1 # 0
        BY <2>2
      <4> QED
        BY <1>2, <4>1
    <3>2. m - 1 \in 1..(m - 1)
      BY <2>2
    <3>3. Runs([i \in 1..m |-> IF i = m THEN f[m - 1] \o seqs[m] ELSE f[i]], m)
      <4> DEFINE g == [i \in 1..m |-> IF i = m THEN f[m - 1] \o seqs[m] ELSE f[i]]
      <4>1. \A i \in 1..(m - 1) : g[i] = f[i] /\ i \in 1..m
        OBVIOUS
      <4>2. ASSUME NEW i \in 1..m
            PROVE  g[i] = IF i = 1 THEN seqs[i] ELSE g[i - 1] \o seqs[i]
        <5>1. CASE i = m
          BY <2>2, <3>2, <4>1, <5>1
        <5>2. CASE i # m
          <6>1. i \in 1..(m - 1) /\ (i # 1 => i - 1 \in 1..(m - 1))
            BY <5>2
          <6> QED
            BY <3>1, <4>1, <6>1
        <5> QED
          BY <5>1, <5>2
      <4>3. g = [i \in 1..m |-> g[i]]
        OBVIOUS
      <4> HIDE DEF g
      <4> QED
        BY <4>2, <4>3 DEF g
    <3> HIDE DEF Runs
    <3> QED
      BY <3>3
  <2> QED
    BY <2>1, <2>2
<1>3. \E f : Runs(f, n)
  <2>1. 0..n \subseteq P
    <3> HIDE DEF P, n
    <3>1. \A m \in 1..n : m - 1 \in P => m \in P
      BY <1>2
    <3>2. n \in Nat
      BY DEF n
    <3> QED
      BY <1>1, <3>1, <3>2, CountUp
  <2> HIDE DEF Runs
  <2>2. n \in 0..n /\ n # 0
    OBVIOUS
  <2> HIDE DEF n
  <2>3. n \in P
    <3> HIDE DEF P
    <3> QED
      BY <2>1, <2>2
  <2> QED
    BY <2>2, <2>3
<1>4. FlattenSeq(seqs) = (CHOOSE f : Runs(f, n))[n]
  BY DEF FlattenSeq
<1>5. PICK fl : fl = CHOOSE f : Runs(f, n)
  OBVIOUS
<1>6. Runs(fl, n)
  <2> HIDE DEF Runs
  <2> QED
    BY <1>3, <1>5
<1>7. \A i \in 1..n : fl[i] = IF i = 1 THEN seqs[i] ELSE fl[i - 1] \o seqs[i]
  BY <1>6
<1>8. FlattenSeq(seqs) = fl[n]
  <2> HIDE DEF Runs
  <2> QED
    BY <1>4, <1>5
<1> QED
  BY <1>7, <1>8

LEMMA FlattenSpread ==
    ASSUME NEW S, NEW seqs \in Seq(Seq(S)), Len(seqs) > 0
    PROVE  /\ FlattenSeq(seqs) \in Seq(S)
           /\ \E L : Spread(seqs, Len(seqs), L, FlattenSeq(seqs))
<1> DEFINE n == Len(seqs)
<1>1. n \in Nat /\ n > 0 /\ \A i \in 1..n : seqs[i] \in Seq(S)
  BY LenProperties, ElementOfSeq
<1>2. PICK fl : /\ FlattenSeq(seqs) = fl[n]
                /\ \A i \in 1..n : fl[i] = IF i = 1 THEN seqs[i] ELSE fl[i - 1] \o seqs[i]
  BY <1>1, FlattenRuns
<1> HIDE DEF n
<1> DEFINE F(m) == IF m = 0 THEN <<>> ELSE fl[m]
           L == [m \in 0..n |-> Len(F(m))]
           P == {m \in 0..n : F(m) \in Seq(S) /\ Spread(seqs, m, L, F(m))}
<1>3. ASSUME NEW m \in 1..n, F(m - 1) \in Seq(S) PROVE F(m) = F(m - 1) \o seqs[m]
  <2>1. CASE m = 1
    <3>1. <<>> \o seqs[1] = seqs[1]
      BY <1>1, ConcatEmptySeq
    <3> QED
      BY <1>1, <1>2, <2>1, <3>1
  <2>2. CASE m # 1
    <3>1. m - 1 # 0 /\ m # 0
      BY <2>2
    <3> QED
      BY <1>2, <2>2, <3>1
  <2> QED
    BY <2>1, <2>2
<1>4. F(0) = <<>>
  OBVIOUS
<1> HIDE DEF F
<1>5. \A m \in 0..n : L[m] = Len(F(m))
  OBVIOUS
<1> HIDE DEF L
<1>6. 0 \in P
  <2>1. F(0) \in Seq(S) /\ L[0] = 0 /\ DOMAIN F(0) = 1..0
    <3>1. <<>> \in Seq(S) /\ Len(<<>>) = 0
      BY EmptySeq
    <3>2. F(0) \in Seq(S) /\ Len(F(0)) = 0
      BY <1>4, <3>1
    <3>3. DOMAIN F(0) = 1..0
      BY <3>2, LenProperties
    <3>4. 0 \in 0..n
      BY <1>1
    <3> QED
      BY <1>5, <3>2, <3>3, <3>4
  <2>2. Spread(seqs, 0, L, F(0))
    BY <2>1 DEF Spread
  <2> QED
    BY <1>1, <2>1, <2>2
<1>7. ASSUME NEW m \in 1..n, m - 1 \in P PROVE m \in P
  <2> DEFINE k == m - 1
             r == F(k)
             new == seqs[m]
  <2>1. /\ r \in Seq(S) /\ Spread(seqs, k, L, r)
        /\ k \in 0..n /\ m \in 0..n /\ k \in Nat /\ m = k + 1
    BY <1>1, <1>7
  <2>2. new \in Seq(S) /\ F(m) = r \o new
    BY <1>1, <1>3, <2>1
  <2>3. L[k] = Len(r)
    BY <1>5, <2>1
  <2> HIDE DEF r, new
  <2> DEFINE g == r \o new
  <2>4. /\ g \in Seq(S) /\ Len(g) = Len(r) + Len(new) /\ DOMAIN g = 1..(Len(r) + Len(new))
        /\ \A i \in 1..(Len(r) + Len(new)) :
              g[i] = IF i <= Len(r) THEN r[i] ELSE new[i - Len(r)]
        /\ Len(r) \in Nat /\ Len(new) \in Nat
    BY <2>1, <2>2, ConcatProperties, LenProperties
  <2> HIDE DEF g
  <2>5. L[m] = L[k] + Len(new) /\ L[k] \in Nat /\ L[m] \in Nat
    <3>1. F(m) = g
      BY <2>2 DEF g
    <3>2. L[m] = Len(g)
      BY <1>5, <2>1, <3>1
    <3> QED
      BY <2>3, <2>4, <3>2
  <2> HIDE DEF k
  <2>6. /\ \A i \in 0..k : L[i] \in Nat
        /\ L[0] = 0 /\ \A i \in 1..k : L[i] = L[i - 1] + Len(seqs[i])
        /\ DOMAIN r = 1..L[k]
        /\ \A i \in 1..k : \A j \in 1..Len(seqs[i]) : r[L[i - 1] + j] = seqs[i][j]
        /\ \A p \in 1..L[k] :
              \E i \in 1..k : \E j \in 1..Len(seqs[i]) : p = L[i - 1] + j
    BY <2>1 DEF Spread
  <2>7. /\ (\A i \in 0..m : i \in 0..k \/ i = m) /\ (\A i \in 1..m : i \in 1..k \/ i = m)
        /\ (\A i \in 1..k : i \in 1..m) /\ m \in 1..m /\ m - 1 = k
    BY <2>1
  <2>8. \A i \in 0..m : L[i] \in Nat
    BY <2>5, <2>6, <2>7
  <2>9. \A i \in 1..m : L[i] = L[i - 1] + Len(seqs[i])
    BY <2>5, <2>6, <2>7 DEF new
  <2>10. DOMAIN g = 1..L[m]
    BY <2>3, <2>4, <2>5
  <2>11. ASSUME NEW i \in 1..m, NEW j \in 1..Len(seqs[i]) PROVE g[L[i - 1] + j] = seqs[i][j]
    <3>1. CASE i = m
      <4>1. j \in 1..Len(new) /\ L[i - 1] = Len(r)
        BY <2>3, <2>7, <3>1 DEF new
      <4>2. Len(r) + j \in 1..(Len(r) + Len(new)) /\ ~(Len(r) + j <= Len(r))
            /\ (Len(r) + j) - Len(r) = j
        BY <2>4, <4>1
      <4>3. g[Len(r) + j] = new[j]
        BY <2>4, <4>2
      <4> QED
        BY <3>1, <4>1, <4>3 DEF new
    <3>2. CASE i \in 1..k
      <4>1. r[L[i - 1] + j] = seqs[i][j] /\ L[i - 1] + j \in DOMAIN r
        <5>1. i - 1 \in 0..k
          BY <2>1, <3>2
        <5>2. Len(seqs[i]) \in Nat /\ L[i - 1] \in Nat /\ L[i] = L[i - 1] + Len(seqs[i])
          <6>1. seqs[i] \in Seq(S)
            BY <1>1, <2>1, <3>2
          <6> QED
            BY <2>6, <3>2, <5>1, <6>1, LenProperties
        <5>3. \A x \in 0..k : i <= x => L[i] <= L[x]
          <6> DEFINE Q == {x \in 0..k : i <= x => L[i] <= L[x]}
          <6>1. 0 \in Q
            BY <2>1, <3>2
          <6>2. ASSUME NEW x \in 1..k, x - 1 \in Q PROVE x \in Q
            <7>1. /\ L[x] = L[x - 1] + Len(seqs[x]) /\ Len(seqs[x]) \in Nat
                  /\ L[x - 1] \in Nat /\ L[i] \in Nat /\ L[x] \in Nat
              <8>1. x - 1 \in 0..k /\ x \in 1..n /\ x \in 0..k /\ i \in 0..k
                BY <1>1, <2>1, <3>2
              <8>2. seqs[x] \in Seq(S)
                BY <1>1, <8>1
              <8> QED
                BY <2>6, <8>1, <8>2, LenProperties
            <7>2. CASE i = x
              BY <2>1, <7>1, <7>2
            <7>3. CASE i # x
              <8>1. i <= x => i <= x - 1
                BY <2>1, <3>2, <7>3
              <8>2. i <= x => L[i] <= L[x - 1]
                BY <6>2, <8>1
              <8>3. L[x - 1] <= L[x]
                BY <7>1
              <8>4. x \in 0..k
                BY <2>1
              <8> QED
                BY <7>1, <8>2, <8>3, <8>4
            <7> QED
              BY <7>2, <7>3
          <6>3. 0..k \subseteq Q
            <7> HIDE DEF Q
            <7>1. \A x \in 1..k : x - 1 \in Q => x \in Q
              BY <6>2
            <7> QED
              BY <2>1, <6>1, <7>1, CountUp
          <6> QED
            BY <6>3
        <5>4. k \in 0..k /\ i <= k
          BY <2>1, <3>2
        <5>5. L[i] <= L[k]
          BY <5>3, <5>4
        <5>6. L[i - 1] + j \in 1..L[k]
          <6>1. \A x, y, z \in Nat : x + y <= z => \A w \in 1..y : x + w \in 1..z
            OBVIOUS
          <6>2. L[i - 1] + Len(seqs[i]) <= L[k]
            BY <5>2, <5>5
          <6> QED
            BY <2>5, <5>2, <6>1, <6>2
        <5> QED
          BY <2>6, <3>2, <5>6
      <4>2. L[i - 1] + j \in 1..Len(r)
        BY <2>3, <2>6, <4>1
      <4>3. L[i - 1] + j \in 1..(Len(r) + Len(new)) /\ L[i - 1] + j <= Len(r)
        <5>1. \A x, y \in Nat : \A z \in 1..x : z \in 1..(x + y) /\ z <= x
          OBVIOUS
        <5> QED
          BY <2>4, <4>2, <5>1
      <4> QED
        BY <2>4, <4>1, <4>3
    <3> QED
      BY <2>7, <3>1, <3>2
  <2>12. ASSUME NEW p \in 1..L[m]
         PROVE  \E i \in 1..m : \E j \in 1..Len(seqs[i]) : p = L[i - 1] + j
    <3>1. CASE p \in 1..L[k]
      BY <2>6, <2>7, <3>1
    <3>2. CASE p \notin 1..L[k]
      <4> DEFINE j == p - L[k]
      <4>1. j \in 1..Len(new) /\ p = L[k] + j
        BY <2>4, <2>5, <3>2
      <4> HIDE DEF j
      <4> QED
        BY <2>7, <4>1 DEF new
    <3> QED
      BY <3>1, <3>2
  <2>13. Spread(seqs, m, L, g)
    BY <2>6, <2>8, <2>9, <2>10, <2>11, <2>12 DEF Spread
  <2> QED
    BY <2>1, <2>2, <2>4, <2>13 DEF g
<1>8. n \in P
  <2> HIDE DEF P
  <2>1. \A m \in 1..n : m - 1 \in P => m \in P
    BY <1>7
  <2>2. 0..n \subseteq P
    BY <1>1, <1>6, <2>1, CountUp
  <2> QED
    BY <1>1, <2>2
<1>9. F(n) = FlattenSeq(seqs)
  BY <1>1, <1>2 DEF F
<1> HIDE DEF P
<1>10. FlattenSeq(seqs) \in Seq(S) /\ Spread(seqs, n, L, FlattenSeq(seqs))
  BY <1>8, <1>9 DEF P
<1> QED
  BY <1>10 DEF n

\* Where the messages of a history, its reasoning aside, stand in a request
\* of it: in order, and side by side when they are so in the history.
Heard(m) == m.type # "reasoning"

Laid(h, at, r) ==
    /\ Len(r) \in Nat /\ DOMAIN r = 1..Len(r)
    /\ \A i \in DOMAIN h : Heard(h[i]) => at[i] \in DOMAIN r /\ r[at[i]] = Wire(h[i])
    /\ \A i, k \in DOMAIN h : Heard(h[i]) /\ Heard(h[k]) /\ i < k => at[i] < at[k]
    /\ \A i \in DOMAIN h : i + 1 \in DOMAIN h /\ Heard(h[i]) /\ Heard(h[i + 1]) =>
          at[i + 1] = at[i] + 1
    /\ \A p \in DOMAIN r : \/ r[p] = Spoken
                           \/ \E i \in DOMAIN h : Heard(h[i]) /\ at[i] = p

LEMMA RequestLaid ==
    ASSUME NEW h \in Seq(Said), Len(h) > 0
    PROVE  \E at : Laid(h, at, Request(h))
<1> DEFINE n == Len(h)
           thought(i) == i \in DOMAIN h /\ h[i].type = "reasoning"
           part(i) == IF thought(i) THEN IF i = Len(h) THEN <<Spoken>> ELSE <<>>
                      ELSE IF thought(i - 1) /\ h[i].calls = <<>>
                        THEN <<Spoken, Wire(h[i])>>
                      ELSE <<Wire(h[i])>>
           seqs == [i \in DOMAIN h |-> part(i)]
           S == {Spoken} \cup {Wire(h[i]) : i \in DOMAIN h}
           r == FlattenSeq(seqs)
<1>1. n \in Nat /\ n > 0 /\ DOMAIN h = 1..n
  BY LenProperties
<1>2. Request(h) = r
  BY DEF Request
<1>3. \A i \in 1..n : /\ Heard(h[i]) => part(i) = <<Wire(h[i])>> \/ part(i) = <<Spoken, Wire(h[i])>>
                      /\ ~Heard(h[i]) => part(i) = <<Spoken>> \/ part(i) = <<>>
                      /\ i - 1 \in 1..n /\ Heard(h[i - 1]) /\ Heard(h[i]) =>
                            part(i) = <<Wire(h[i])>>
  BY <1>1 DEF Heard
<1>4. Spoken \in S /\ \A i \in 1..n : Wire(h[i]) \in S
  BY <1>1
<1> HIDE DEF S, part
<1>5. ASSUME NEW i \in 1..n PROVE part(i) \in Seq(S)
  <2>1. \A x \in S : <<x>> \in Seq(S) /\ <<Spoken, x>> \in Seq(S) /\ <<>> \in Seq(S)
    BY <1>4
  <2> QED
    BY <1>3, <1>4, <2>1
<1>6. seqs \in Seq(Seq(S)) /\ Len(seqs) = n /\ \A i \in 1..n : seqs[i] = part(i)
  <2>1. seqs = [i \in 1..n |-> part(i)]
    BY <1>1
  <2> HIDE DEF n, seqs
  <2> QED
    BY <1>1, <1>5, <2>1
<1> HIDE DEF seqs, n
<1>7. r \in Seq(S) /\ \E L : Spread(seqs, n, L, r)
  BY <1>1, <1>6, FlattenSpread
<1>8. PICK L : Spread(seqs, n, L, r)
  BY <1>7
<1> HIDE DEF r
<1>9. /\ \A i \in 0..n : L[i] \in Nat
      /\ L[0] = 0 /\ \A i \in 1..n : L[i] = L[i - 1] + Len(part(i))
      /\ DOMAIN r = 1..L[n]
      /\ \A i \in 1..n : \A j \in 1..Len(part(i)) : r[L[i - 1] + j] = part(i)[j]
      /\ \A p \in 1..L[n] :
            \E i \in 1..n : \E j \in 1..Len(part(i)) : p = L[i - 1] + j
  <2>1. /\ \A i \in 0..n : L[i] \in Nat
        /\ L[0] = 0 /\ \A i \in 1..n : L[i] = L[i - 1] + Len(seqs[i])
        /\ DOMAIN r = 1..L[n]
        /\ \A i \in 1..n : \A j \in 1..Len(seqs[i]) : r[L[i - 1] + j] = seqs[i][j]
        /\ \A p \in 1..L[n] :
              \E i \in 1..n : \E j \in 1..Len(seqs[i]) : p = L[i - 1] + j
    BY <1>8 DEF Spread
  <2> QED
    BY <1>6, <2>1
<1>10. Len(r) \in Nat /\ DOMAIN r = 1..Len(r)
  BY <1>7, LenProperties
<1>11. \A i \in 1..n :
          /\ Heard(h[i]) => /\ Len(part(i)) \in 1..2 /\ part(i)[Len(part(i))] = Wire(h[i])
                            /\ \A j \in 1..Len(part(i)) : j # Len(part(i)) => part(i)[j] = Spoken
          /\ ~Heard(h[i]) => /\ Len(part(i)) \in 0..1
                             /\ \A j \in 1..Len(part(i)) : part(i)[j] = Spoken
          /\ i - 1 \in 1..n /\ Heard(h[i - 1]) /\ Heard(h[i]) => Len(part(i)) = 1
  <2> TAKE i \in 1..n
  <2>1. CASE part(i) = <<Wire(h[i])>>
    <3>1. Len(part(i)) = 1 /\ part(i)[1] = Wire(h[i])
      BY <2>1
    <3>2. Heard(h[i]) \/ Wire(h[i]) = Spoken
      <4>1. ~Heard(h[i]) => part(i) = <<Spoken>>
        <5>1. <<Wire(h[i])>> # <<>>
          OBVIOUS
        <5> QED
          BY <1>3, <2>1, <5>1
      <4>2. <<Wire(h[i])>> = <<Spoken>> => Wire(h[i]) = Spoken
        OBVIOUS
      <4> QED
        BY <2>1, <4>1, <4>2
    <3> QED
      BY <3>1, <3>2
  <2>2. CASE part(i) = <<Spoken, Wire(h[i])>>
    <3>1. Len(part(i)) = 2 /\ part(i)[1] = Spoken /\ part(i)[2] = Wire(h[i])
      BY <2>2
    <3>2. Heard(h[i])
      <4>1. <<Spoken, Wire(h[i])>> # <<>> /\ <<Spoken, Wire(h[i])>> # <<Spoken>>
        OBVIOUS
      <4> QED
        BY <1>3, <2>2, <4>1
    <3>3. ~(i - 1 \in 1..n /\ Heard(h[i - 1]))
      <4>1. part(i) # <<Wire(h[i])>>
        BY <2>2
      <4> QED
        BY <1>3, <3>2, <4>1
    <3>4. \A j \in 1..2 : j = 1 \/ j = 2
      OBVIOUS
    <3> QED
      BY <3>1, <3>2, <3>3, <3>4
  <2>3. CASE ~Heard(h[i]) /\ part(i) = <<Spoken>>
    BY <2>3
  <2>4. CASE ~Heard(h[i]) /\ part(i) = <<>>
    BY <2>4
  <2> QED
    BY <1>3, <2>1, <2>2, <2>3, <2>4
<1>12. \A i, k \in 0..n : i <= k => L[i] <= L[k]
  <2> SUFFICES ASSUME NEW i \in 0..n PROVE \A k \in 0..n : i <= k => L[i] <= L[k]
    OBVIOUS
  <2> DEFINE Q == {k \in 0..n : i <= k => L[i] <= L[k]}
  <2>1. 0 \in Q
    <3>1. i <= 0 => i = 0
      BY <1>1
    <3> QED
      BY <1>1, <1>9, <3>1
  <2>2. ASSUME NEW k \in 1..n, k - 1 \in Q PROVE k \in Q
    <3>1. k - 1 \in 0..n /\ k \in 0..n /\ i \in Nat /\ k \in Nat
      BY <1>1
    <3>2. L[k - 1] \in Nat /\ L[k] \in Nat /\ L[i] \in Nat /\ L[k] = L[k - 1] + Len(part(k))
          /\ Len(part(k)) \in Nat
      <4>1. Len(part(k)) \in Nat
        BY <1>5, LenProperties
      <4> QED
        BY <1>9, <3>1, <4>1
    <3>3. CASE i = k
      BY <3>1, <3>2, <3>3
    <3>4. CASE i # k
      <4>1. i <= k => i <= k - 1
        BY <3>1, <3>4
      <4>2. i <= k => L[i] <= L[k - 1]
        BY <2>2, <4>1
      <4>3. L[k - 1] <= L[k]
        BY <3>2
      <4> QED
        BY <3>1, <3>2, <4>2, <4>3
    <3> QED
      BY <3>3, <3>4
  <2>3. 0..n \subseteq Q
    <3> HIDE DEF Q
    <3>1. \A k \in 1..n : k - 1 \in Q => k \in Q
      BY <2>2
    <3> QED
      BY <1>1, <2>1, <3>1, CountUp
  <2> QED
    BY <2>3
<1>13. ASSUME NEW i \in 1..n, Heard(h[i])
       PROVE  /\ L[i] \in DOMAIN r /\ r[L[i]] = Wire(h[i]) /\ L[i - 1] < L[i]
              /\ L[i] \in Nat /\ L[i - 1] \in Nat
  <2>1. i - 1 \in 0..n /\ i \in 0..n /\ n \in 0..n /\ i <= n
    BY <1>1
  <2>2. /\ Len(part(i)) \in 1..2 /\ part(i)[Len(part(i))] = Wire(h[i])
        /\ L[i] = L[i - 1] + Len(part(i)) /\ L[i] \in Nat /\ L[i - 1] \in Nat
        /\ L[i] <= L[n] /\ L[n] \in Nat
    BY <1>9, <1>11, <1>12, <1>13, <2>1
  <2>3. L[i] \in 1..L[n] /\ L[i - 1] < L[i]
    <3>1. \A x, y, z \in Nat : \A len \in 1..2 :
             y = x + len /\ y <= z => y \in 1..z /\ x < y
      OBVIOUS
    <3> QED
      BY <2>2, <3>1
  <2>4. Len(part(i)) \in 1..Len(part(i))
    <3>1. \A len \in 1..2 : len \in 1..len
      OBVIOUS
    <3> QED
      BY <2>2, <3>1
  <2>5. r[L[i]] = Wire(h[i])
    BY <1>9, <2>2, <2>4
  <2> QED
    BY <1>9, <2>2, <2>3, <2>5
<1>14. ASSUME NEW i \in 1..n, NEW k \in 1..n, Heard(h[i]), Heard(h[k]), i < k
       PROVE  L[i] < L[k]
  <2>1. i \in 0..n /\ k - 1 \in 0..n /\ i <= k - 1
    BY <1>1, <1>14
  <2>2. L[i] <= L[k - 1] /\ L[k - 1] < L[k] /\ L[i] \in Nat /\ L[k - 1] \in Nat /\ L[k] \in Nat
    BY <1>9, <1>12, <1>13, <1>14, <2>1
  <2> QED
    BY <2>2
<1>15. ASSUME NEW i \in 1..n, i + 1 \in 1..n, Heard(h[i]), Heard(h[i + 1])
       PROVE  L[i + 1] = L[i] + 1
  <2>1. (i + 1) - 1 = i
    BY <1>1
  <2>2. Len(part(i + 1)) = 1
    BY <1>11, <1>15, <2>1
  <2> QED
    BY <1>9, <1>15, <2>1, <2>2
<1>16. ASSUME NEW p \in DOMAIN r, r[p] # Spoken
       PROVE  \E i \in 1..n : Heard(h[i]) /\ L[i] = p
  <2>1. PICK i \in 1..n : \E j \in 1..Len(part(i)) : p = L[i - 1] + j
    BY <1>9
  <2>2. PICK j \in 1..Len(part(i)) : p = L[i - 1] + j
    BY <2>1
  <2>3. part(i)[j] # Spoken
    BY <1>9, <1>16, <2>2
  <2>4. Heard(h[i]) /\ j = Len(part(i))
    BY <1>11, <2>3
  <2> QED
    BY <1>9, <2>2, <2>4
<1>17. Laid(h, L, r)
  BY <1>1, <1>10, <1>13, <1>14, <1>15, <1>16 DEF Laid
<1> QED
  BY <1>2, <1>17

\* What a request shows of a message.
LEMMA WireTells ==
    ASSUME NEW m \in Said, NEW replay, Told(m, replay)
    PROVE  /\ Wire(m).calls = m.calls /\ Wire(m).answers = m.answers
           /\ Wire(m).reasoned = m.reasoned
           /\ Wire(m).kind = "tool" <=> IsReply(m)
           /\ m.calls # <<>> => Heard(m)
           /\ IsReply(m) => Heard(m)
<1>1. Wire(m).calls = m.calls /\ Wire(m).answers = m.answers /\ Wire(m).reasoned = m.reasoned
  BY DEF Wire
<1>2. CASE IsReply(m)
  <2>1. m.type \in {"nudge", "tool_result"}
    BY <1>2 DEF Told
  <2>2. ~(m.type \in {"tool_call", "text_response"}) /\ m.type # "system_prompt"
    BY <2>1
  <2>3. Wire(m).kind = "tool"
    BY <1>2, <2>2 DEF Wire
  <2> QED
    BY <1>1, <1>2, <2>1, <2>3 DEF Heard, Told
<1>3. CASE ~IsReply(m)
  <2>1. Wire(m).kind # "tool"
    <3>1. CASE m.type \in {"tool_call", "text_response"}
      <4>1. m.type # "system_prompt"
        BY <3>1
      <4> QED
        BY <1>3, <3>1, <4>1 DEF Wire
    <3>2. CASE m.type = "system_prompt"
      <4>1. ~(m.type \in {"tool_call", "text_response"})
        BY <3>2
      <4> QED
        BY <1>3, <3>2, <4>1 DEF Wire
    <3>3. CASE ~(m.type \in {"tool_call", "text_response"}) /\ m.type # "system_prompt"
      BY <1>3, <3>3 DEF Wire
    <3> QED
      BY <3>1, <3>2, <3>3
  <2> QED
    BY <1>1, <1>3, <2>1 DEF Heard, Told
<1> QED
  BY <1>2, <1>3

\* What an accepted request shows of the history.
LEMMA AcceptedIsGood ==
    ASSUME NEW h \in Seq(Said), Len(h) > 0, \A i \in DOMAIN h : Told(h[i], policy.replay),
           Accepted(Request(h))
    PROVE  Good(h, policy.replay)
<1> DEFINE r == Request(h)
           replay == policy.replay
<1>1. PICK at : Laid(h, at, r)
  BY RequestLaid
<1>2. DOMAIN h = 1..Len(h) /\ Len(h) \in Nat /\ \A i \in DOMAIN h : h[i] \in Said
  BY LenProperties, ElementOfSeq
<1>3. \A i \in DOMAIN h :
         /\ Wire(h[i]).calls = h[i].calls /\ Wire(h[i]).reasoned = h[i].reasoned
         /\ h[i].calls # <<>> => Heard(h[i])
  BY <1>2, WireTells
<1>4. Accepted(r)
  OBVIOUS
<1> HIDE DEF r
<1>5. ASSUME NEW i \in DOMAIN h, h[i].calls # <<>>
      PROVE  at[i] \in DOMAIN r /\ r[at[i]].calls = h[i].calls /\ r[at[i]].reasoned = h[i].reasoned
  BY <1>1, <1>3, <1>5 DEF Laid
<1>6. Unique(h)
  <2> SUFFICES ASSUME NEW a \in DOMAIN h, NEW b \in DOMAIN h,
                      NEW j \in DOMAIN h[a].calls, NEW k \in DOMAIN h[b].calls,
                      h[a].calls[j] = h[b].calls[k]
               PROVE  a = b /\ j = k
    BY DEF Unique
  <2>1. h[a].calls # <<>> /\ h[b].calls # <<>>
    OBVIOUS
  <2>2. <<at[a], j>> \in CallSites(r) /\ <<at[b], k>> \in CallSites(r)
    BY <1>5, <2>1 DEF CallSites
  <2>3. CallAt(r, <<at[a], j>>) = CallAt(r, <<at[b], k>>)
    BY <1>5, <2>1 DEF CallAt
  <2>4. <<at[a], j>> = <<at[b], k>>
    BY <1>4, <2>2, <2>3 DEF Accepted, ContractAccepts, CallIdsUnique
  <2>5. at[a] = at[b] /\ j = k
    BY <2>4
  <2>6. a = b
    <3> SUFFICES ASSUME a # b PROVE FALSE
      OBVIOUS
    <3>1. a < b \/ b < a
      BY <1>2
    <3>2. at[a] < at[b] \/ at[b] < at[a]
      BY <1>1, <1>3, <2>1, <3>1 DEF Laid
    <3>3. at[a] \in Nat
      BY <1>1, <1>5, <2>1 DEF Laid
    <3> QED
      BY <2>5, <3>2, <3>3
  <2> QED
    BY <2>5, <2>6
<1>7. replay => Reasoned(h)
  <2> SUFFICES ASSUME replay, NEW c \in DOMAIN h, h[c].calls # <<>> PROVE h[c].reasoned
    BY DEF Reasoned
  <2>1. at[c] \in DOMAIN r /\ r[at[c]].calls # <<>> /\ r[at[c]].reasoned = h[c].reasoned
    BY <1>5
  <2> QED
    BY <1>4, <2>1 DEF Accepted, ReplayAccepts
<1> QED
  BY <1>6, <1>7 DEF Good

\* A fine history makes a request that is accepted.
LEMMA FineIsAccepted ==
    ASSUME NEW h \in Seq(Said), Len(h) > 0, \A i \in DOMAIN h : Told(h[i], policy.replay),
           Fine(h, policy.replay)
    PROVE  Accepted(Request(h))
<1> DEFINE r == Request(h)
           replay == policy.replay
<1>1. PICK at : Laid(h, at, r)
  BY RequestLaid
<1> HIDE DEF r, replay
<1>2. DOMAIN h = 1..Len(h) /\ Len(h) \in Nat /\ \A i \in DOMAIN h : h[i] \in Said
  BY LenProperties, ElementOfSeq
<1>3. \A i \in DOMAIN h :
         /\ Wire(h[i]).calls = h[i].calls /\ Wire(h[i]).reasoned = h[i].reasoned
         /\ Wire(h[i]).answers = h[i].answers /\ (Wire(h[i]).kind = "tool" <=> IsReply(h[i]))
         /\ h[i].calls # <<>> => Heard(h[i])
         /\ IsReply(h[i]) => Heard(h[i])
  BY <1>2, WireTells
<1>4. Len(r) \in Nat /\ DOMAIN r = 1..Len(r)
  BY <1>1 DEF Laid
<1>5. \A i \in DOMAIN h : Heard(h[i]) => at[i] \in DOMAIN r /\ r[at[i]] = Wire(h[i])
  BY <1>1 DEF Laid
<1>6. \A i, k \in DOMAIN h : Heard(h[i]) /\ Heard(h[k]) /\ i < k => at[i] < at[k]
  BY <1>1 DEF Laid
<1>7. Spoken.calls = <<>> /\ Spoken.kind # "tool" /\ Spoken.answers = NoId /\ ~Spoken.reasoned
  BY DEF Spoken
<1>8. \A p \in DOMAIN r : \/ r[p] = Spoken
                          \/ \E i \in DOMAIN h : Heard(h[i]) /\ at[i] = p /\ r[p] = Wire(h[i])
  BY <1>1, <1>5 DEF Laid
<1>9. Unique(h) /\ Backed(h) /\ Once(h) /\ (replay => Reasoned(h) /\ Followed(h) /\ Sited(h))
  BY DEF Fine, replay
<1>10. ASSUME NEW p \in DOMAIN r, NEW j \in DOMAIN r[p].calls
       PROVE  \E i \in DOMAIN h : /\ Heard(h[i]) /\ at[i] = p
                                  /\ j \in DOMAIN h[i].calls /\ r[p].calls[j] = h[i].calls[j]
  <2>1. r[p] # Spoken
    BY <1>7, <1>10
  <2> QED
    BY <1>3, <1>8, <2>1
<1>11. CallIdsUnique(r)
  <2> SUFFICES ASSUME NEW a \in CallSites(r), NEW b \in CallSites(r), CallAt(r, a) = CallAt(r, b)
               PROVE  a = b
    BY DEF CallIdsUnique
  <2>a. PICK p \in DOMAIN r : \E j \in DOMAIN r[p].calls : a = <<p, j>>
    BY DEF CallSites
  <2>1. PICK j \in DOMAIN r[p].calls : a = <<p, j>>
    BY <2>a
  <2>b. PICK q \in DOMAIN r : \E k \in DOMAIN r[q].calls : b = <<q, k>>
    BY DEF CallSites
  <2>2. PICK k \in DOMAIN r[q].calls : b = <<q, k>>
    BY <2>b
  <2>3. r[p].calls[j] = r[q].calls[k]
    BY <2>1, <2>2 DEF CallAt
  <2>4. PICK c \in DOMAIN h : /\ at[c] = p /\ j \in DOMAIN h[c].calls
                              /\ r[p].calls[j] = h[c].calls[j]
    BY <1>10, <2>1
  <2>5. PICK d \in DOMAIN h : /\ at[d] = q /\ k \in DOMAIN h[d].calls
                              /\ r[q].calls[k] = h[d].calls[k]
    BY <1>10, <2>2
  <2>6. c = d /\ j = k
    <3>1. h[c].calls[j] = h[d].calls[k] /\ j \in DOMAIN h[c].calls /\ k \in DOMAIN h[d].calls
      BY <2>3, <2>4, <2>5
    <3>2. Unique(h)
      BY <1>9
    <3> QED
      BY <3>1, <3>2 DEF Unique
  <2> QED
    BY <2>1, <2>2, <2>4, <2>5, <2>6
<1>12. ASSUME NEW p \in DOMAIN r, r[p].kind = "tool"
       PROVE  \E i \in DOMAIN h : /\ Heard(h[i]) /\ IsReply(h[i]) /\ at[i] = p
                                  /\ r[p].answers = h[i].answers
  BY <1>3, <1>7, <1>8, <1>12
<1>13. ASSUME NEW c \in DOMAIN h, NEW j \in DOMAIN h[c].calls
       PROVE  /\ Heard(h[c]) /\ at[c] \in DOMAIN r /\ r[at[c]].calls = h[c].calls
              /\ <<at[c], j>> \in CallSites(r)
              /\ CallAt(r, <<at[c], j>>) = h[c].calls[j]
  <2>1. h[c].calls # <<>>
    OBVIOUS
  <2>2. Heard(h[c]) /\ at[c] \in DOMAIN r /\ r[at[c]].calls = h[c].calls
    BY <1>3, <1>5, <2>1
  <2> QED
    BY <2>2 DEF CallSites, CallAt
<1>14. ContractAccepts(r)
  <2> SUFFICES ASSUME NEW p \in DOMAIN r, r[p].kind = "tool"
               PROVE  /\ \E site \in CallSites(r) :
                            site[1] < p /\ CallAt(r, site) = r[p].answers
                      /\ \A q \in 1..(p - 1) : r[q].answers # r[p].answers
    BY <1>11 DEF ContractAccepts
  <2>1. PICK i \in DOMAIN h : /\ Heard(h[i]) /\ IsReply(h[i]) /\ at[i] = p
                              /\ r[p].answers = h[i].answers
    BY <1>12
  <2>2. PICK c \in DOMAIN h :
           c < i /\ \E j \in DOMAIN h[c].calls : h[c].calls[j] = h[i].answers
    BY <1>9, <2>1 DEF Backed
  <2>3. PICK j \in DOMAIN h[c].calls : h[c].calls[j] = h[i].answers
    BY <2>2
  <2>4. /\ <<at[c], j>> \in CallSites(r) /\ CallAt(r, <<at[c], j>>) = r[p].answers
        /\ at[c] < p
    BY <1>6, <1>13, <2>1, <2>2, <2>3
  <2>5. \E site \in CallSites(r) : site[1] < p /\ CallAt(r, site) = r[p].answers
    <3> DEFINE site == <<at[c], j>>
    <3>1. site \in CallSites(r) /\ site[1] < p /\ CallAt(r, site) = r[p].answers
      BY <2>4
    <3> HIDE DEF site
    <3> QED
      BY <3>1
  <2>6. ASSUME NEW q \in 1..(p - 1), r[q].answers = r[p].answers PROVE FALSE
    <3>1. q \in DOMAIN r /\ q # p
      BY <1>4
    <3>2. r[q].answers # NoId
      BY <2>1, <2>6 DEF IsReply
    <3>3. PICK k \in DOMAIN h : at[k] = q /\ r[q] = Wire(h[k])
      BY <1>7, <1>8, <3>1, <3>2
    <3>4. h[i].answers = h[k].answers
      BY <1>3, <2>1, <2>6, <3>3
    <3>5. i = k
      BY <1>9, <2>1, <3>4 DEF Once
    <3> QED
      BY <2>1, <3>1, <3>3, <3>5
  <2> QED
    BY <2>5, <2>6
<1>15. ASSUME ~replay PROVE Accepted(r)
  <2>1. ASSUME NEW p \in DOMAIN r PROVE ~r[p].reasoned
    <3>1. \A i \in DOMAIN h : ~h[i].reasoned
      BY <1>15 DEF Told, replay
    <3> QED
      BY <1>3, <1>7, <1>8, <3>1
  <2> QED
    BY <1>14, <1>15, <2>1 DEF Accepted, replay
<1>16. ASSUME replay PROVE Accepted(r)
  <2>1. Reasoned(h) /\ Followed(h) /\ Sited(h)
    BY <1>9, <1>16
  <2>2. ASSUME NEW c \in DOMAIN h, NEW j \in DOMAIN h[c].calls
        PROVE  /\ c + j \in DOMAIN h /\ at[c + j] = at[c] + j
               /\ IsReply(h[c + j]) /\ h[c + j].answers = h[c].calls[j]
    <3> DEFINE n == Len(h[c].calls)
               P == {i \in 0..n : at[c + i] = at[c] + i}
    <3>1. n \in Nat /\ DOMAIN h[c].calls = 1..n
      <4>1. h[c] \in Said
        BY <1>2
      <4> QED
        BY <4>1, LenProperties DEF Said
    <3> HIDE DEF n
    <3>2. h[c].calls # <<>> /\ Heard(h[c]) /\ at[c] \in Nat /\ c \in Nat
      <4>1. Heard(h[c]) /\ at[c] \in DOMAIN r
        BY <1>13
      <4>2. h[c].calls # <<>>
        OBVIOUS
      <4>3. at[c] \in Nat /\ c \in Nat
        BY <1>2, <1>4, <4>1
      <4> QED
        BY <4>1, <4>2, <4>3
    <3>3. ASSUME NEW i \in 1..n
          PROVE  c + i \in DOMAIN h /\ IsReply(h[c + i]) /\ h[c + i].answers = h[c].calls[i]
                 /\ Heard(h[c + i])
      <4>1. c + i \in DOMAIN h /\ h[c + i].answers = h[c].calls[i]
        BY <2>1, <3>1 DEF Followed
      <4>2. h[c].calls[i] # NoId
        BY <3>1 DEF Told
      <4> QED
        BY <1>3, <4>1, <4>2 DEF IsReply
    <3>4. 0 \in P
      BY <3>1, <3>2
    <3>5. ASSUME NEW i \in 1..n, i - 1 \in P PROVE i \in P
      <4> DEFINE b == c + (i - 1)
      <4>1. b + 1 = c + i /\ i \in 0..n /\ i \in Nat
        BY <3>1, <3>2
      <4>2. b \in DOMAIN h /\ Heard(h[b])
        <5>1. CASE i = 1
          <6>1. b = c
            BY <3>2, <5>1
          <6> QED
            BY <3>2, <6>1
        <5>2. CASE i # 1
          <6>1. i - 1 \in 1..n
            BY <3>1, <5>2
          <6> QED
            BY <3>3, <6>1
        <5> QED
          BY <5>1, <5>2
      <4>3. at[b] = at[c] + (i - 1)
        BY <3>5
      <4> HIDE DEF b
      <4>4. b + 1 \in DOMAIN h /\ Heard(h[b + 1])
        BY <3>3, <4>1
      <4>5. at[b + 1] = at[b] + 1
        BY <1>1, <4>2, <4>4 DEF Laid
      <4>6. at[c + i] = at[c] + i
        BY <3>2, <4>1, <4>3, <4>5
      <4> QED
        BY <4>1, <4>6
    <3>6. 0..n \subseteq P
      <4> HIDE DEF P
      <4>1. \A i \in 1..n : i - 1 \in P => i \in P
        BY <3>5
      <4> QED
        BY <3>1, <3>4, <4>1, CountUp
    <3>7. j \in 1..n /\ j \in P
      <4>1. j \in 1..n /\ j \in 0..n
        BY <3>1
      <4> QED
        BY <3>6, <4>1
    <3> QED
      BY <3>3, <3>7
  <2>3. ASSUME NEW p \in DOMAIN r, r[p].calls # <<>>
        PROVE  /\ r[p].reasoned
               /\ \A j \in DOMAIN r[p].calls :
                     p + j <= Len(r) /\ r[p + j].answers = r[p].calls[j]
    <3>1. PICK c \in DOMAIN h : at[c] = p /\ r[p] = Wire(h[c])
      BY <1>7, <1>8, <2>3
    <3>2. r[p].calls = h[c].calls /\ r[p].reasoned = h[c].reasoned
      BY <1>3, <3>1
    <3>3. r[p].reasoned
      BY <2>1, <2>3, <3>2 DEF Reasoned
    <3>4. ASSUME NEW j \in DOMAIN r[p].calls
          PROVE  p + j <= Len(r) /\ r[p + j].answers = r[p].calls[j]
      <4>1. /\ c + j \in DOMAIN h /\ at[c + j] = p + j
            /\ IsReply(h[c + j]) /\ h[c + j].answers = h[c].calls[j]
        BY <2>2, <3>1, <3>2
      <4>2. p + j \in DOMAIN r /\ r[p + j] = Wire(h[c + j])
        BY <1>3, <1>5, <4>1
      <4>3. r[p + j].answers = r[p].calls[j]
        BY <1>3, <3>2, <4>1, <4>2
      <4> QED
        BY <1>4, <4>2, <4>3
    <3> QED
      BY <3>3, <3>4
  <2>4. ASSUME NEW p \in DOMAIN r, r[p].kind = "tool"
        PROVE  \E site \in CallSites(r) : site[1] + site[2] = p
    <3>1. PICK i \in DOMAIN h : IsReply(h[i]) /\ at[i] = p
      BY <1>12, <2>4
    <3>2. PICK c \in DOMAIN h : c < i /\ i - c \in DOMAIN h[c].calls
      BY <2>1, <3>1 DEF Sited
    <3> DEFINE j == i - c
               site == <<at[c], j>>
    <3>3. c + j = i /\ j \in DOMAIN h[c].calls
      BY <1>2, <3>2
    <3> HIDE DEF j
    <3>4. site \in CallSites(r)
      BY <1>13, <3>3
    <3>5. site[1] + site[2] = p
      BY <2>2, <3>1, <3>3
    <3> HIDE DEF site
    <3> QED
      BY <3>4, <3>5
  <2>5. ReplayAccepts(r)
    BY <1>11, <2>3, <2>4 DEF ReplayAccepts
  <2> QED
    BY <1>14, <1>16, <2>5 DEF Accepted, replay
<1> QED
  BY <1>15, <1>16 DEF r

-----------------------------------------------------------------------------
\* A history and what an answer adds to it.
Joined(g, h, new) ==
    /\ g \in Seq(Said)
    /\ Len(h) \in Nat /\ Len(new) \in Nat
    /\ DOMAIN h = 1..Len(h) /\ DOMAIN new = 1..Len(new)
    /\ DOMAIN g = 1..(Len(h) + Len(new))
    /\ \A i \in DOMAIN h : i \in DOMAIN g /\ g[i] = h[i]
    /\ \A i \in DOMAIN new : Len(h) + i \in DOMAIN g /\ g[Len(h) + i] = new[i]
    /\ \A i \in DOMAIN g : i \in DOMAIN h \/ \E k \in DOMAIN new : i = Len(h) + k

LEMMA JoinedIs ==
    ASSUME NEW h \in Seq(Said), NEW new \in Seq(Said)
    PROVE  Joined(h \o new, h, new)
<1> DEFINE g == h \o new
           n == Len(h)
           m == Len(new)
<1>1. /\ g \in Seq(Said) /\ Len(g) = n + m /\ n \in Nat /\ m \in Nat
      /\ DOMAIN h = 1..n /\ DOMAIN new = 1..m /\ DOMAIN g = 1..(n + m)
      /\ \A i \in 1..(n + m) : g[i] = IF i <= n THEN h[i] ELSE new[i - n]
  BY ConcatProperties, LenProperties
<1> HIDE DEF g, n, m
<1>2. ASSUME NEW i \in 1..n PROVE i \in 1..(n + m) /\ g[i] = h[i]
  <2>1. i \in 1..(n + m) /\ i <= n
    BY <1>1
  <2> QED
    BY <1>1, <2>1
<1>3. ASSUME NEW i \in 1..m PROVE n + i \in 1..(n + m) /\ g[n + i] = new[i]
  <2>1. n + i \in 1..(n + m) /\ ~(n + i <= n) /\ (n + i) - n = i
    BY <1>1
  <2> QED
    BY <1>1, <2>1
<1>4. ASSUME NEW i \in 1..(n + m), i \notin 1..n PROVE \E k \in 1..m : i = n + k
  <2>1. i - n \in 1..m /\ i = n + (i - n)
    BY <1>1, <1>4
  <2> QED
    BY <2>1
<1> QED
  BY <1>1, <1>2, <1>3, <1>4 DEF Joined, g, n, m

LEMMA JoinedTells ==
    ASSUME NEW g, NEW h, NEW new, Joined(g, h, new), NEW replay,
           \A i \in DOMAIN h : Told(h[i], replay), \A i \in DOMAIN new : Told(new[i], replay)
    PROVE  /\ \A i \in DOMAIN g : Told(g[i], replay)
           /\ GivenIds(g) = GivenIds(h) \cup GivenIds(new)
<1>1. \A i \in DOMAIN g : Told(g[i], replay)
  BY DEF Joined
<1>2. GivenIds(g) \subseteq GivenIds(h) \cup GivenIds(new)
  <2> SUFFICES ASSUME NEW i \in DOMAIN g, NEW j \in DOMAIN g[i].calls
               PROVE  g[i].calls[j] \in GivenIds(h) \cup GivenIds(new)
    BY DEF GivenIds
  <2> QED
    BY DEF Joined, GivenIds
<1>3. GivenIds(h) \subseteq GivenIds(g)
  BY DEF Joined, GivenIds
<1>4. GivenIds(new) \subseteq GivenIds(g)
  <2> SUFFICES ASSUME NEW i \in DOMAIN new, NEW j \in DOMAIN new[i].calls
               PROVE  new[i].calls[j] \in GivenIds(g)
    BY DEF GivenIds
  <2>1. Len(h) + i \in DOMAIN g /\ g[Len(h) + i] = new[i]
    BY DEF Joined
  <2> QED
    BY <2>1 DEF GivenIds
<1> QED
  BY <1>1, <1>2, <1>3, <1>4

\* A good history was good before the answer, and the answer is apart from it.
Apart(h, new, replay) ==
    /\ Unique(new) /\ GivenIds(h) \cap GivenIds(new) = {}
    /\ replay => Reasoned(new)

LEMMA JoinedGood ==
    ASSUME NEW g, NEW h, NEW new, Joined(g, h, new), NEW replay, Good(g, replay)
    PROVE  Good(h, replay) /\ Apart(h, new, replay)
<1> DEFINE n == Len(h)
<1>1. /\ n \in Nat /\ DOMAIN h = 1..n /\ DOMAIN new = 1..Len(new) /\ Len(new) \in Nat
      /\ \A i \in DOMAIN h : i \in DOMAIN g /\ g[i] = h[i]
      /\ \A i \in DOMAIN new : n + i \in DOMAIN g /\ g[n + i] = new[i]
  BY DEF Joined
<1> HIDE DEF n
<1>2. Unique(g) /\ (replay => Reasoned(g))
  BY DEF Good
<1>3. Unique(h)
  BY <1>1, <1>2 DEF Unique
<1>4. Unique(new)
  <2> SUFFICES ASSUME NEW a \in DOMAIN new, NEW b \in DOMAIN new,
                      NEW j \in DOMAIN new[a].calls, NEW k \in DOMAIN new[b].calls,
                      new[a].calls[j] = new[b].calls[k]
               PROVE  a = b /\ j = k
    BY DEF Unique
  <2>1. n + a \in DOMAIN g /\ n + b \in DOMAIN g /\ g[n + a] = new[a] /\ g[n + b] = new[b]
    BY <1>1
  <2>2. n + a = n + b /\ j = k
    BY <1>2, <2>1 DEF Unique
  <2> QED
    BY <1>1, <2>2
<1>5. GivenIds(h) \cap GivenIds(new) = {}
  <2> SUFFICES ASSUME NEW x \in GivenIds(h), x \in GivenIds(new) PROVE FALSE
    OBVIOUS
  <2>1. PICK a \in DOMAIN h : \E j \in DOMAIN h[a].calls : x = h[a].calls[j]
    BY DEF GivenIds
  <2>2. PICK b \in DOMAIN new : \E k \in DOMAIN new[b].calls : x = new[b].calls[k]
    BY DEF GivenIds
  <2>3. a \in DOMAIN g /\ n + b \in DOMAIN g /\ g[a] = h[a] /\ g[n + b] = new[b]
    BY <1>1
  <2>4. a = n + b
    <3>1. PICK j \in DOMAIN h[a].calls : x = h[a].calls[j]
      BY <2>1
    <3>2. PICK k \in DOMAIN new[b].calls : x = new[b].calls[k]
      BY <2>2
    <3>3. /\ j \in DOMAIN g[a].calls /\ k \in DOMAIN g[n + b].calls
          /\ g[a].calls[j] = g[n + b].calls[k]
      BY <2>3, <3>1, <3>2
    <3> QED
      BY <1>2, <2>3, <3>3 DEF Unique
  <2> QED
    BY <1>1, <2>4
<1>6. ASSUME replay PROVE Reasoned(h) /\ Reasoned(new)
  <2>1. Reasoned(h)
    BY <1>1, <1>2, <1>6 DEF Reasoned
  <2>2. Reasoned(new)
    <3> SUFFICES ASSUME NEW a \in DOMAIN new, new[a].calls # <<>> PROVE new[a].reasoned
      BY DEF Reasoned
    <3>1. n + a \in DOMAIN g /\ g[n + a] = new[a]
      BY <1>1
    <3> QED
      BY <1>2, <1>6, <3>1 DEF Reasoned
  <2> QED
    BY <2>1, <2>2
<1> QED
  BY <1>3, <1>4, <1>5, <1>6 DEF Good, Apart

\* An answer that is apart from a fine history leaves it fine.
LEMMA JoinedFine ==
    ASSUME NEW g, NEW h, NEW new, Joined(g, h, new), NEW replay, Fine(h, replay),
           Apart(h, new, replay), Followed(new), Sited(new),
           \A i \in DOMAIN h : Told(h[i], replay), \A i \in DOMAIN new : Told(new[i], replay)
    PROVE  Fine(g, replay)
<1> DEFINE n == Len(h)
<1>1. /\ n \in Nat /\ DOMAIN h = 1..n /\ DOMAIN new = 1..Len(new) /\ Len(new) \in Nat
      /\ \A i \in DOMAIN h : i \in DOMAIN g /\ g[i] = h[i]
      /\ \A i \in DOMAIN new : n + i \in DOMAIN g /\ g[n + i] = new[i]
      /\ \A i \in DOMAIN g : i \in DOMAIN h \/ \E k \in DOMAIN new : i = n + k
  BY DEF Joined
<1> HIDE DEF n
<1>2. /\ Unique(h) /\ Backed(h) /\ Once(h)
      /\ Unique(new) /\ GivenIds(h) \cap GivenIds(new) = {}
  BY DEF Fine, Apart
<1>ids. /\ \A a \in DOMAIN h : \A j \in DOMAIN h[a].calls : h[a].calls[j] \in GivenIds(h)
        /\ \A a \in DOMAIN new : \A j \in DOMAIN new[a].calls :
              new[a].calls[j] \in GivenIds(new)
  BY DEF GivenIds
<1>3. Unique(g)
  <2> SUFFICES ASSUME NEW a \in DOMAIN g, NEW b \in DOMAIN g,
                      NEW j \in DOMAIN g[a].calls, NEW k \in DOMAIN g[b].calls,
                      g[a].calls[j] = g[b].calls[k]
               PROVE  a = b /\ j = k
    BY DEF Unique
  <2>1. CASE a \in DOMAIN h /\ b \in DOMAIN h
    BY <1>1, <1>2, <2>1 DEF Unique
  <2>2. ASSUME NEW c \in DOMAIN new, a = n + c, NEW d \in DOMAIN new, b = n + d
        PROVE  a = b /\ j = k
    <3>1. g[a] = new[c] /\ g[b] = new[d]
      BY <1>1, <2>2
    <3>2. c = d /\ j = k
      BY <1>2, <3>1 DEF Unique
    <3> QED
      BY <2>2, <3>2
  <2>3. ASSUME a \in DOMAIN h, NEW d \in DOMAIN new, b = n + d PROVE FALSE
    <3>1. g[a] = h[a] /\ g[b] = new[d]
      BY <1>1, <2>3
    <3>2. h[a].calls[j] \in GivenIds(h) /\ new[d].calls[k] \in GivenIds(new)
      BY <1>ids, <2>3, <3>1
    <3> QED
      BY <1>2, <3>1, <3>2
  <2>4. ASSUME b \in DOMAIN h, NEW c \in DOMAIN new, a = n + c PROVE FALSE
    <3>1. g[b] = h[b] /\ g[a] = new[c]
      BY <1>1, <2>4
    <3>2. h[b].calls[k] \in GivenIds(h) /\ new[c].calls[j] \in GivenIds(new)
      BY <1>ids, <2>4, <3>1
    <3> QED
      BY <1>2, <3>1, <3>2
  <2> QED
    BY <1>1, <2>1, <2>2, <2>3, <2>4
<1>4. ASSUME NEW i \in DOMAIN new, IsReply(new[i])
      PROVE  \E c \in DOMAIN new : /\ c < i /\ i - c \in DOMAIN new[c].calls
                                   /\ new[i].answers = new[c].calls[i - c]
  <2>1. PICK c \in DOMAIN new : c < i /\ i - c \in DOMAIN new[c].calls
    BY <1>4 DEF Sited
  <2>2. c + (i - c) = i
    BY <1>1
  <2>3. new[c + (i - c)].answers = new[c].calls[i - c]
    BY <2>1 DEF Followed
  <2> QED
    BY <2>1, <2>2, <2>3
<1>5. Backed(g)
  <2> SUFFICES ASSUME NEW i \in DOMAIN g, IsReply(g[i])
               PROVE  \E c \in DOMAIN g :
                         c < i /\ \E j \in DOMAIN g[c].calls : g[c].calls[j] = g[i].answers
    BY DEF Backed
  <2>1. CASE i \in DOMAIN h
    BY <1>1, <1>2, <2>1 DEF Backed
  <2>2. ASSUME NEW k \in DOMAIN new, i = n + k
        PROVE  \E c \in DOMAIN g :
                  c < i /\ \E j \in DOMAIN g[c].calls : g[c].calls[j] = g[i].answers
    <3>1. g[i] = new[k] /\ IsReply(new[k])
      BY <1>1, <2>2
    <3>2. PICK c \in DOMAIN new : /\ c < k /\ k - c \in DOMAIN new[c].calls
                                  /\ new[k].answers = new[c].calls[k - c]
      BY <1>4, <3>1
    <3>3. n + c \in DOMAIN g /\ g[n + c] = new[c] /\ n + c < i
      BY <1>1, <2>2, <3>2
    <3> QED
      BY <3>1, <3>2, <3>3
  <2> QED
    BY <1>1, <2>1, <2>2
<1>6. Once(g)
  <2>1. \A i \in DOMAIN h : IsReply(h[i]) => h[i].answers \in GivenIds(h)
    BY <1>2, <1>ids DEF Backed
  <2>2. \A i \in DOMAIN new : IsReply(new[i]) => new[i].answers \in GivenIds(new)
    BY <1>4, <1>ids
  <2> SUFFICES ASSUME NEW i \in DOMAIN g, NEW k \in DOMAIN g,
                      IsReply(g[i]), g[i].answers = g[k].answers
               PROVE  i = k
    BY DEF Once
  <2>3. IsReply(g[k])
    BY DEF IsReply
  <2>4. CASE i \in DOMAIN h /\ k \in DOMAIN h
    BY <1>1, <1>2, <2>4 DEF Once
  <2>5. ASSUME NEW a \in DOMAIN new, i = n + a, NEW b \in DOMAIN new, k = n + b
        PROVE  i = k
    <3>1. g[i] = new[a] /\ g[k] = new[b]
      BY <1>1, <2>5
    <3>2. PICK c \in DOMAIN new : /\ c < a /\ a - c \in DOMAIN new[c].calls
                                  /\ new[a].answers = new[c].calls[a - c]
      BY <1>4, <3>1
    <3>3. PICK d \in DOMAIN new : /\ d < b /\ b - d \in DOMAIN new[d].calls
                                  /\ new[b].answers = new[d].calls[b - d]
      BY <1>4, <2>3, <3>1
    <3>4. c = d /\ a - c = b - d
      BY <1>2, <3>1, <3>2, <3>3 DEF Unique
    <3> QED
      BY <1>1, <2>5, <3>4
  <2>6. ASSUME i \in DOMAIN h, NEW b \in DOMAIN new, k = n + b PROVE FALSE
    <3>1. g[i] = h[i] /\ g[k] = new[b]
      BY <1>1, <2>6
    <3> QED
      BY <1>2, <2>1, <2>2, <2>3, <2>6, <3>1
  <2>7. ASSUME k \in DOMAIN h, NEW a \in DOMAIN new, i = n + a PROVE FALSE
    <3>1. g[k] = h[k] /\ g[i] = new[a]
      BY <1>1, <2>7
    <3> QED
      BY <1>2, <2>1, <2>2, <2>3, <2>7, <3>1
  <2> QED
    BY <1>1, <2>4, <2>5, <2>6, <2>7
<1>7. ASSUME replay PROVE Reasoned(g) /\ Followed(g) /\ Sited(g)
  <2>1. Reasoned(h) /\ Followed(h) /\ Sited(h) /\ Reasoned(new)
    BY <1>7 DEF Fine, Apart
  <2>2. Reasoned(g)
    <3> SUFFICES ASSUME NEW c \in DOMAIN g, g[c].calls # <<>> PROVE g[c].reasoned
      BY DEF Reasoned
    <3>1. CASE c \in DOMAIN h
      BY <1>1, <2>1, <3>1 DEF Reasoned
    <3>2. ASSUME NEW k \in DOMAIN new, c = n + k PROVE g[c].reasoned
      <4>1. g[c] = new[k]
        BY <1>1, <3>2
      <4> QED
        BY <2>1, <4>1 DEF Reasoned
    <3> QED
      BY <1>1, <3>1, <3>2
  <2>3. Followed(g)
    <3> SUFFICES ASSUME NEW c \in DOMAIN g, NEW j \in DOMAIN g[c].calls
                 PROVE  /\ c + j \in DOMAIN g
                        /\ g[c + j].answers = g[c].calls[j] /\ g[c + j].step = g[c].step
      BY DEF Followed
    <3>1. CASE c \in DOMAIN h
      BY <1>1, <2>1, <3>1 DEF Followed
    <3>2. ASSUME NEW k \in DOMAIN new, c = n + k
          PROVE  /\ c + j \in DOMAIN g
                 /\ g[c + j].answers = g[c].calls[j] /\ g[c + j].step = g[c].step
      <4>1. g[c] = new[k]
        BY <1>1, <3>2
      <4>2. /\ k + j \in DOMAIN new
            /\ new[k + j].answers = new[k].calls[j] /\ new[k + j].step = new[k].step
        BY <4>1 DEF Followed
      <4>3. n + (k + j) \in DOMAIN g /\ g[n + (k + j)] = new[k + j]
        BY <1>1, <4>2
      <4>4. j \in Nat
        <5>2. g \in Seq(Said)
          BY DEF Joined
        <5>3. g[c] \in Said
          BY <5>2, ElementOfSeq, LenProperties
        <5>4. DOMAIN g[c].calls = 1..Len(g[c].calls) /\ Len(g[c].calls) \in Nat
          BY <5>3, LenProperties DEF Said
        <5> QED
          BY <5>4
      <4>5. n + (k + j) = c + j
        BY <1>1, <3>2, <4>4
      <4> QED
        BY <4>1, <4>2, <4>3, <4>5
    <3> QED
      BY <1>1, <3>1, <3>2
  <2>4. Sited(g)
    <3> SUFFICES ASSUME NEW i \in DOMAIN g, IsReply(g[i])
                 PROVE  \E c \in DOMAIN g : c < i /\ i - c \in DOMAIN g[c].calls
      BY DEF Sited
    <3>1. CASE i \in DOMAIN h
      BY <1>1, <2>1, <3>1 DEF Sited
    <3>2. ASSUME NEW k \in DOMAIN new, i = n + k
          PROVE  \E c \in DOMAIN g : c < i /\ i - c \in DOMAIN g[c].calls
      <4>1. PICK c \in DOMAIN new : c < k /\ k - c \in DOMAIN new[c].calls
        BY <1>1, <1>4, <3>2
      <4>2. n + c \in DOMAIN g /\ g[n + c] = new[c] /\ n + c < i /\ i - (n + c) = k - c
        BY <1>1, <3>2, <4>1
      <4> QED
        BY <4>1, <4>2
    <3> QED
      BY <1>1, <3>1, <3>2
  <2> QED
    BY <2>2, <2>3, <2>4
<1> QED
  BY <1>3, <1>5, <1>6, <1>7 DEF Fine

-----------------------------------------------------------------------------
(***************************************************************************)
(* The inductive invariant of requests: if the whole history is good, what *)
(* compaction has left of it is fine.                                      *)
(***************************************************************************)
RequestInv ==
    /\ \A i \in DOMAIN full : Told(full[i], policy.replay)
    /\ \A i \in DOMAIN messages : Told(messages[i], policy.replay)
    /\ GivenIds(messages) \subseteq GivenIds(full)
    /\ Good(full, policy.replay) => Fine(messages, policy.replay)
    /\ CompactionKeepsRequestsValid

LEMMA RequestInvInit == ConversationInit => RequestInv
<1> SUFFICES ASSUME ConversationInit PROVE RequestInv
  OBVIOUS
<1>1. messages = Header /\ full = Header /\ phase = "ready"
  BY DEF ConversationInit
<1>2. DOMAIN Header = 1..2 /\ \A i \in 1..2 : Header[i].calls = <<>> /\ Header[i].answers = NoId
                                              /\ ~Header[i].reasoned
  BY DEF Header, Message
<1>3. \A i \in DOMAIN Header : ~IsReply(Header[i]) /\ Header[i].calls = <<>>
  BY <1>2 DEF IsReply
<1>4. \A i \in DOMAIN Header : Told(Header[i], policy.replay)
  BY <1>2, <1>3 DEF Told
<1>5. Unique(Header) /\ Backed(Header) /\ Once(Header)
  BY <1>3 DEF Unique, Backed, Once
<1>6. Reasoned(Header) /\ Followed(Header) /\ Sited(Header)
  BY <1>3 DEF Reasoned, Followed, Sited
<1>7. Fine(Header, policy.replay)
  BY <1>5, <1>6 DEF Fine
<1> QED
  BY <1>1, <1>4, <1>7 DEF RequestInv, CompactionKeepsRequestsValid

\* What is asked of the model is a fine history if the whole one is good.
LEMMA RequestAsk == ConversationInv /\ RequestInv /\ Ask => RequestInv'
<1> SUFFICES ASSUME ConversationInv, RequestInv, Ask PROVE RequestInv'
  OBVIOUS
<1> DEFINE new == Compacted(messages)
           replay == policy.replay
<1>1. /\ messages' = new /\ policy' = policy /\ full' = full
      /\ phase' = IF Accepted(Request(new)) THEN "asked" ELSE "refused"
  BY DEF Ask, Send
<1>2. /\ \A i \in DOMAIN full : Told(full[i], replay)
      /\ \A i \in DOMAIN messages : Told(messages[i], replay)
      /\ GivenIds(messages) \subseteq GivenIds(full)
      /\ Good(full, replay) => Fine(messages, replay)
  BY DEF RequestInv
<1>3. new \in Seq(Said) /\ IsSieve(messages, new, replay)
  BY <1>2, CompactedSieve
<1>4. messages \in Seq(Said) /\ full \in Seq(Said) /\ replay \in BOOLEAN
  BY ConversationAssumption DEF ConversationInv
<1> HIDE DEF new
<1>5. PICK f : Sieved(messages, f, new) /\ (Whole(messages, replay) => Respects(messages, f, replay))
  BY <1>3 DEF IsSieve
<1>6. (\A i \in DOMAIN new : Told(new[i], replay)) /\ GivenIds(new) \subseteq GivenIds(messages)
  BY <1>2, <1>3, <1>4, <1>5, SieveTells
<1>7. ASSUME Good(full, replay) PROVE Fine(new, replay)
  <2>1. Fine(messages, replay)
    BY <1>2, <1>7
  <2>2. Whole(messages, replay)
    BY <2>1 DEF Fine, Whole
  <2> QED
    BY <1>3, <1>4, <1>5, <2>1, <2>2, SieveKeeps
<1>8. Len(full) > 0 /\ Len(new) > 0
  <2>1. PICK a, b, t \in Seq(Said) :
           messages = Header \o a \o t /\ full = Header \o b \o t
    BY DEF ConversationInv, EndAlike
  <2>2. ConversationInv'
    BY AskStep
  <2>3. PICK c, d, u \in Seq(Said) : messages' = Header \o c \o u
    BY <2>2 DEF ConversationInv, EndAlike
  <2>4. ASSUME NEW x \in Seq(Said), NEW y \in Seq(Said) PROVE Len(Header \o x \o y) > 0
    <3> DEFINE xy == x \o y
    <3>1. xy \in Seq(Said) /\ Header \o x \o y = Header \o xy
      BY ConcatProperties, HistoryTwo
    <3> HIDE DEF xy
    <3>2. Len(Header \o xy) = 2 + Len(xy) /\ Len(xy) \in Nat
      BY <3>1, StepsBehindHeader, LenProperties
    <3> QED
      BY <3>1, <3>2
  <2>5. Len(Header \o b \o t) > 0 /\ Len(Header \o c \o u) > 0
    BY <2>4
  <2> QED
    BY <1>1, <2>1, <2>3, <2>5
<1>9. ASSUME phase' = "refused", Accepted(Request(full)) PROVE FALSE
  <2>1. Good(full, replay)
    BY <1>2, <1>4, <1>8, <1>9, AcceptedIsGood
  <2>2. Fine(new, replay)
    BY <1>7, <2>1
  <2>3. Accepted(Request(new))
    BY <1>3, <1>6, <1>8, <2>2, FineIsAccepted
  <2> QED
    BY <1>1, <1>9, <2>3
<1>10. CompactionKeepsRequestsValid'
  <2>1. phase' = "refused" => ~Accepted(Request(full))
    BY <1>9
  <2>2. Accepted(Request(full))' <=> Accepted(Request(full))
    BY <1>1 DEF Accepted
  <2> QED
    BY <2>1, <2>2 DEF CompactionKeepsRequestsValid
<1> QED
  BY <1>1, <1>2, <1>6, <1>7, <1>10 DEF RequestInv

\* An answer: its calls are followed by their replies, and nothing else is.
LEMMA RequestExtend ==
    ASSUME ConversationInv, RequestInv, NEW new \in Seq(Said), NEW step, NEW tries,
           Extend(new, step, tries), Followed(new), Sited(new),
           \A i \in DOMAIN new : Told(new[i], policy.replay)
    PROVE  RequestInv'
<1> DEFINE replay == policy.replay
           g == messages \o new
           h == full \o new
<1>1. /\ messages' = g /\ full' = h /\ policy' = policy /\ phase' = "ready"
  BY DEF Extend
<1>2. /\ \A i \in DOMAIN full : Told(full[i], replay)
      /\ \A i \in DOMAIN messages : Told(messages[i], replay)
      /\ GivenIds(messages) \subseteq GivenIds(full)
      /\ Good(full, replay) => Fine(messages, replay)
  BY DEF RequestInv
<1>3. messages \in Seq(Said) /\ full \in Seq(Said)
  BY DEF ConversationInv
<1>4. Joined(g, messages, new) /\ Joined(h, full, new)
  BY <1>3, JoinedIs
<1> HIDE DEF g, h, replay
<1>5. \A i \in DOMAIN new : Told(new[i], replay)
  BY DEF replay
<1>6. /\ \A i \in DOMAIN g : Told(g[i], replay)
      /\ GivenIds(g) = GivenIds(messages) \cup GivenIds(new)
  BY <1>2, <1>4, <1>5, JoinedTells
<1>7. /\ \A i \in DOMAIN h : Told(h[i], replay)
      /\ GivenIds(h) = GivenIds(full) \cup GivenIds(new)
  BY <1>2, <1>4, <1>5, JoinedTells
<1>8. ASSUME Good(h, replay) PROVE Fine(g, replay)
  <2>1. Good(full, replay) /\ Apart(full, new, replay)
    BY <1>4, <1>8, JoinedGood
  <2>2. Apart(messages, new, replay)
    BY <1>2, <2>1 DEF Apart
  <2>3. Fine(messages, replay)
    BY <1>2, <2>1
  <2> QED
    BY <1>2, <1>4, <1>5, <2>2, <2>3, JoinedFine
<1>9. CompactionKeepsRequestsValid'
  BY <1>1 DEF CompactionKeepsRequestsValid
<1> QED
  BY <1>1, <1>2, <1>6, <1>7, <1>8, <1>9 DEF RequestInv, replay

\* The messages of an answer with calls.
LEMMA BatchesAreGiven ==
    ASSUME ConversationInv, NEW batch \in ProviderBatches \cup RescuedBatches
    PROVE  /\ batch.ids # <<>> /\ \A j \in DOMAIN batch.ids : batch.ids[j] # NoId
           /\ batch.reasoned => policy.replay
<1>1. issued \in Nat /\ counter \in Nat /\ MaxBatch \in Nat
  BY ConversationAssumption DEF ConversationInv
<1>2. \A n \in Nat : ProviderId(n) # NoId /\ RunnerId(n) # NoId
  BY DEF ProviderId, RunnerId, NoId
<1>3. ASSUME NEW n \in 1..MaxBatch, NEW ids,
             \/ ids = [i \in 1..n |-> ProviderId(issued + i)]
             \/ ids = [i \in 1..n |-> RunnerId(counter + i)]
      PROVE  ids # <<>> /\ \A j \in DOMAIN ids : ids[j] # NoId
  <2>1. n \in Nat /\ 1 \in 1..n
    BY <1>1
  <2>2. \A i \in 1..n : issued + i \in Nat /\ counter + i \in Nat
    BY <1>1, <2>1
  <2>3. DOMAIN ids = 1..n /\ \A j \in DOMAIN ids : ids[j] # NoId
    BY <1>2, <1>3, <2>2
  <2>4. 1 \in DOMAIN ids
    BY <2>1, <2>3
  <2> QED
    BY <2>3, <2>4
<1>4. CASE \E n \in 1..MaxBatch :
              batch = Batch([i \in 1..n |-> ProviderId(issued + i)], policy.replay,
                            issued + n, counter)
  <2>1. PICK n \in 1..MaxBatch :
           batch = Batch([i \in 1..n |-> ProviderId(issued + i)], policy.replay,
                         issued + n, counter)
    BY <1>4
  <2> DEFINE ids == [i \in 1..n |-> ProviderId(issued + i)]
  <2>2. ids # <<>> /\ \A j \in DOMAIN ids : ids[j] # NoId
    BY <1>3
  <2>3. batch.ids = ids /\ batch.reasoned = policy.replay
    BY <2>1 DEF Batch
  <2> HIDE DEF ids
  <2> QED
    BY <2>2, <2>3
<1>5. CASE \E k \in 1..issued :
              batch = Batch(<<ProviderId(k)>>, policy.replay, issued, counter)
  <2>1. PICK k \in 1..issued :
           batch = Batch(<<ProviderId(k)>>, policy.replay, issued, counter)
    BY <1>5
  <2>2. batch.ids = <<ProviderId(k)>> /\ batch.reasoned = policy.replay /\ k \in Nat
    BY <1>1, <2>1 DEF Batch
  <2> QED
    BY <1>2, <2>2
<1>6. CASE \E n \in 1..MaxBatch :
              batch = Batch([i \in 1..n |-> RunnerId(counter + i)], FALSE, issued, counter + n)
  <2>1. PICK n \in 1..MaxBatch :
           batch = Batch([i \in 1..n |-> RunnerId(counter + i)], FALSE, issued, counter + n)
    BY <1>6
  <2> DEFINE ids == [i \in 1..n |-> RunnerId(counter + i)]
  <2>2. ids # <<>> /\ \A j \in DOMAIN ids : ids[j] # NoId
    BY <1>3
  <2>3. batch.ids = ids /\ batch.reasoned = FALSE
    BY <2>1 DEF Batch
  <2> HIDE DEF ids
  <2> QED
    BY <2>2, <2>3
<1> QED
  BY <1>4, <1>5, <1>6 DEF ProviderBatches, RescuedBatches

LEMMA RequestCalls ==
    ASSUME ConversationInv, RequestInv, NEW batch \in ProviderBatches \cup RescuedBatches,
           NEW step \in Nat, NEW texts \in Aside(step),
           NEW tries, NEW type \in {"nudge", "tool_result"}, NEW size \in Sizes,
           AnswerCalls(batch, texts, step, tries, type, size)
    PROVE  RequestInv'
<1> DEFINE ids == batch.ids
           n == Len(ids)
           text == Message("reasoning", step, "short")
           call == CallMessage(step, ids, batch.reasoned)
           reply(j) == [Message(type, step, size) EXCEPT !.answers = ids[j]]
           replies == Replies(type, step, ids, size)
           new == texts \o <<call>> \o replies
           q == Len(texts)
<1>1. /\ ids \in Seq(Ids) /\ batch.reasoned \in BOOLEAN
      /\ ids # <<>> /\ \A j \in DOMAIN ids : ids[j] # NoId
      /\ batch.reasoned => policy.replay
  BY BatchesAreTyped, BatchesAreGiven DEF BatchTyped
<1>2. n \in Nat /\ DOMAIN ids = 1..n /\ \A j \in 1..n : ids[j] \in Ids
  BY <1>1, LenProperties, ElementOfSeq
<1>3. /\ text \in Said /\ text.calls = <<>> /\ text.answers = NoId /\ ~text.reasoned
  BY DEF Message, Said, Types, Sizes, Ids, NoId
<1>4. /\ call \in Said /\ call.calls = ids /\ call.answers = NoId /\ call.step = step
      /\ call.type = "tool_call" /\ call.reasoned = batch.reasoned
  BY <1>1 DEF CallMessage, Message, Said, Types, Sizes, Ids, NoId
<1>5. \A j \in 1..n : /\ reply(j) \in Said /\ reply(j).calls = <<>> /\ reply(j).answers = ids[j]
                      /\ reply(j).step = step /\ reply(j).type = type /\ ~reply(j).reasoned
  <2> DEFINE m == Message(type, step, size)
  <2>1. /\ m \in Said /\ m.calls = <<>> /\ m.step = step /\ m.type = type /\ ~m.reasoned
    BY DEF Message, Said, Types, Ids, NoId
  <2>2. \A j : reply(j) = [m EXCEPT !.answers = ids[j]]
    OBVIOUS
  <2> HIDE DEF m, reply
  <2>3. ASSUME NEW id \in Ids
        PROVE  LET w == [m EXCEPT !.answers = id] IN
               /\ w \in Said /\ w.calls = <<>> /\ w.answers = id
               /\ w.step = step /\ w.type = type /\ ~w.reasoned
    BY <2>1 DEF Said
  <2> QED
    BY <1>2, <2>2, <2>3
<1>6. replies = [j \in 1..n |-> reply(j)]
  BY <1>2 DEF Replies
<1>7. Extend(new, step, tries)
  BY DEF AnswerCalls
<1> HIDE DEF ids, n, text, call, reply, replies
<1>8. replies \in Seq(Said) /\ Len(replies) = n /\ \A j \in 1..n : replies[j] = reply(j)
  BY <1>2, <1>5, <1>6
<1>9. /\ texts \in Seq(Said) /\ q \in Nat
      /\ \A i \in 1..q : texts[i] = text
  <2>1. texts = <<>> \/ texts = <<text>>
    BY DEF Aside, text
  <2> HIDE DEF text
  <2>2. CASE texts = <<>>
    BY <2>2
  <2>3. CASE texts = <<text>>
    <3>1. <<text>> \in Seq(Said) /\ Len(<<text>>) = 1 /\ <<text>>[1] = text
      BY <1>3
    <3>2. \A i \in 1..1 : i = 1
      OBVIOUS
    <3> QED
      BY <2>3, <3>1, <3>2
  <2> QED
    BY <2>1, <2>2, <2>3
<1> HIDE DEF q
<1> DEFINE front == texts \o <<call>>
<1>10. /\ front \in Seq(Said) /\ Len(front) = q + 1 /\ front[q + 1] = call
       /\ \A i \in 1..q : front[i] = text
  <2>1. <<call>> \in Seq(Said) /\ Len(<<call>>) = 1 /\ <<call>>[1] = call
    BY <1>4
  <2> DEFINE one == <<call>>
  <2> HIDE DEF one
  <2>2. /\ texts \o one \in Seq(Said) /\ Len(texts \o one) = Len(texts) + Len(one)
        /\ \A i \in 1..(Len(texts) + Len(one)) :
              (texts \o one)[i] = IF i <= Len(texts) THEN texts[i] ELSE one[i - Len(texts)]
    BY <1>9, <2>1, ConcatProperties DEF one
  <2>3. /\ texts \o one \in Seq(Said) /\ Len(texts \o one) = q + 1
        /\ \A i \in 1..(q + 1) :
              (texts \o one)[i] = IF i <= q THEN texts[i] ELSE one[i - q]
    BY <2>1, <2>2 DEF one, q
  <2>4. q + 1 \in 1..(q + 1) /\ ~(q + 1 <= q) /\ (q + 1) - q = 1
        /\ \A i \in 1..q : i \in 1..(q + 1) /\ i <= q
    BY <1>9
  <2>5. (texts \o one)[q + 1] = call
    BY <2>1, <2>3, <2>4 DEF one
  <2>6. \A i \in 1..q : (texts \o one)[i] = text
    BY <1>9, <2>3, <2>4
  <2> QED
    BY <2>3, <2>5, <2>6 DEF one
<1> HIDE DEF front
<1>11. Joined(new, front, replies)
  BY <1>8, <1>10, JoinedIs DEF front
<1> HIDE DEF new
<1>12. /\ new \in Seq(Said) /\ DOMAIN new = 1..(q + 1 + n)
       /\ \A i \in 1..q : new[i] = text
       /\ new[q + 1] = call
       /\ \A j \in 1..n : new[q + 1 + j] = reply(j)
  <2>1. /\ DOMAIN front = 1..(q + 1) /\ DOMAIN replies = 1..n
        /\ \A i \in DOMAIN front : new[i] = front[i]
        /\ \A j \in DOMAIN replies : new[Len(front) + j] = replies[j]
        /\ new \in Seq(Said) /\ DOMAIN new = 1..(Len(front) + Len(replies))
    BY <1>8, <1>10, <1>11 DEF Joined
  <2>2. q + 1 \in 1..(q + 1) /\ \A i \in 1..q : i \in 1..(q + 1)
    BY <1>9
  <2> QED
    BY <1>8, <1>10, <2>1, <2>2
<1>13. \A i \in DOMAIN new : \/ i \in 1..q \/ i = q + 1
                             \/ \E j \in 1..n : i = q + 1 + j
  <2>1. \A x, y \in Nat : \A i \in 1..(x + 1 + y) :
           \/ i \in 1..x \/ i = x + 1 \/ (i - (x + 1) \in 1..y /\ i = x + 1 + (i - (x + 1)))
    OBVIOUS
  <2>2. \A i \in 1..(q + 1 + n) :
           \/ i \in 1..q \/ i = q + 1 \/ (i - (q + 1) \in 1..n /\ i = q + 1 + (i - (q + 1)))
    BY <1>2, <1>9, <2>1
  <2> QED
    BY <1>12, <2>2
<1>14. \A i \in DOMAIN new : new[i].calls # <<>> => i = q + 1
  BY <1>3, <1>5, <1>12, <1>13
<1>15. \A i \in DOMAIN new : IsReply(new[i]) => \E j \in 1..n : i = q + 1 + j
  BY <1>3, <1>4, <1>12, <1>13 DEF IsReply
<1>16. ASSUME NEW i \in DOMAIN new PROVE Told(new[i], policy.replay)
  <2>1. CASE i \in 1..q
    <3>1. new[i] = text
      BY <1>12, <2>1
    <3> QED
      BY <1>3, <3>1 DEF Told, IsReply
  <2>2. CASE i = q + 1
    <3>1. new[i] = call
      BY <1>12, <2>2
    <3> QED
      BY <1>1, <1>4, <3>1 DEF Told, IsReply, ids
  <2>3. ASSUME NEW j \in 1..n, i = q + 1 + j PROVE Told(new[i], policy.replay)
    <3>1. new[i] = reply(j)
      BY <1>12, <2>3
    <3> QED
      BY <1>5, <3>1 DEF Told
  <2> QED
    BY <1>13, <2>1, <2>2, <2>3
<1>17. Followed(new)
  <2> SUFFICES ASSUME NEW c \in DOMAIN new, NEW j \in DOMAIN new[c].calls
               PROVE  /\ c + j \in DOMAIN new
                      /\ new[c + j].answers = new[c].calls[j] /\ new[c + j].step = new[c].step
    BY DEF Followed
  <2>1. c = q + 1
    BY <1>14
  <2>2. new[c] = call /\ j \in 1..n /\ new[c].calls = ids
    BY <1>2, <1>4, <1>12, <2>1
  <2>3. q + 1 + j \in 1..(q + 1 + n)
    BY <1>2, <1>9, <2>2
  <2> QED
    BY <1>4, <1>5, <1>12, <2>1, <2>2, <2>3
<1>18. Sited(new)
  <2> SUFFICES ASSUME NEW i \in DOMAIN new, IsReply(new[i])
               PROVE  \E c \in DOMAIN new : c < i /\ i - c \in DOMAIN new[c].calls
    BY DEF Sited
  <2>1. PICK j \in 1..n : i = q + 1 + j
    BY <1>15
  <2>2. q + 1 \in 1..(q + 1 + n) /\ q + 1 < i /\ i - (q + 1) = j
    BY <1>2, <1>9, <2>1
  <2>3. j \in DOMAIN new[q + 1].calls
    BY <1>2, <1>4, <1>12
  <2> QED
    BY <1>12, <2>2, <2>3
<1> QED
  BY <1>7, <1>12, <1>16, <1>17, <1>18, RequestExtend

LEMMA RequestInvNext ==
    ConversationInv /\ RequestInv /\ [ConversationNext]_conversationVars => RequestInv'
<1> SUFFICES ASSUME ConversationInv, RequestInv, [ConversationNext]_conversationVars
             PROVE  RequestInv'
  OBVIOUS
<1>1. iteration \in Nat /\ Valid \in Nat /\ <<>> \in Aside(Valid)
  BY DEF ConversationInv, Valid, Aside
<1>2. CASE Ask
  BY <1>2, RequestAsk
<1>3. CASE AnswerText
  <2> DEFINE text == Message("text_response", iteration, "short")
             nudge == Message("nudge", iteration, "short")
  <2>1. /\ text \in Said /\ nudge \in Said
        /\ text.calls = <<>> /\ text.answers = NoId /\ ~text.reasoned
        /\ nudge.calls = <<>> /\ nudge.answers = NoId /\ ~nudge.reasoned
    BY <1>1 DEF Message, Said, Types, Sizes, Ids, NoId
  <2> HIDE DEF text, nudge
  <2> DEFINE new == <<text, nudge>>
  <2>2. Extend(new, iteration, attempts + 1)
    BY <1>3 DEF AnswerText, text, nudge
  <2>3. /\ new \in Seq(Said)
        /\ \A i \in DOMAIN new : new[i].calls = <<>> /\ ~IsReply(new[i]) /\ ~new[i].reasoned
    BY <2>1 DEF IsReply
  <2> HIDE DEF new
  <2>4. Followed(new) /\ Sited(new) /\ \A i \in DOMAIN new : Told(new[i], policy.replay)
    BY <2>3 DEF Followed, Sited, Told
  <2> QED
    BY <2>2, <2>3, <2>4, RequestExtend
<1>4. CASE AnswerDefective
  <2>1. PICK batch \in ProviderBatches : \E texts \in Aside(iteration) :
           AnswerCalls(batch, texts, iteration, attempts + 1, "nudge", "short")
    BY <1>4 DEF AnswerDefective
  <2>2. PICK texts \in Aside(iteration) :
           AnswerCalls(batch, texts, iteration, attempts + 1, "nudge", "short")
    BY <2>1
  <2> QED
    BY <1>1, <2>2, RequestCalls DEF Sizes
<1>5. CASE AnswerEnforced
  <2>1. PICK batch \in ProviderBatches \cup RescuedBatches : \E texts \in Aside(Valid) :
           AnswerCalls(batch, texts, Valid, 0, "nudge", "short")
    BY <1>1, <1>5 DEF AnswerEnforced
  <2>2. PICK texts \in Aside(Valid) :
           AnswerCalls(batch, texts, Valid, 0, "nudge", "short")
    BY <2>1
  <2> QED
    BY <1>1, <2>2, RequestCalls DEF Sizes
<1>6. CASE AnswerExecuted
  <2>1. PICK batch \in ProviderBatches \cup RescuedBatches :
           \E texts \in Aside(Valid), size \in {"short", "long"} :
              AnswerCalls(batch, texts, Valid, 0, "tool_result", size)
    BY <1>1, <1>6 DEF AnswerExecuted
  <2>2. PICK texts \in Aside(Valid), size \in {"short", "long"} :
           AnswerCalls(batch, texts, Valid, 0, "tool_result", size)
    BY <2>1
  <2>3. size \in Sizes
    BY DEF Sizes
  <2> QED
    BY <1>1, <2>2, <2>3, RequestCalls
<1>7. CASE UNCHANGED conversationVars
  <2>1. messages' = messages /\ full' = full /\ policy' = policy /\ phase' = phase
    BY <1>7 DEF conversationVars, historyVars
  <2>2. Accepted(Request(full))' <=> Accepted(Request(full))
    BY <2>1 DEF Accepted
  <2> QED
    BY <2>1, <2>2 DEF RequestInv, CompactionKeepsRequestsValid
<1> QED
  BY <1>2, <1>3, <1>4, <1>5, <1>6, <1>7 DEF ConversationNext

\* A request that is refused after any number of compactions would have been
\* refused with the whole history, too.
THEOREM RequestsStayValid == ConversationSpec => []CompactionKeepsRequestsValid
<1>1. ConversationInv /\ RequestInv /\ [ConversationNext]_conversationVars
         => (ConversationInv /\ RequestInv)'
  BY ConversationInvNext, RequestInvNext
<1>2. ConversationInit => ConversationInv /\ RequestInv
  BY ConversationInvInit, RequestInvInit
<1>3. ConversationInv /\ RequestInv => CompactionKeepsRequestsValid
  BY DEF RequestInv
<1> QED
  BY <1>1, <1>2, <1>3, PTL DEF ConversationSpec
=============================================================================
