----------------------- MODULE FileMutationLockProofs -----------------------
(***************************************************************************)
(* The safety properties of FileMutationLock for any number of threads,    *)
(* paths and calls.  The lock is sound because the registry is: the entry  *)
(* of a call stays registered under the call's key until the call leaves,  *)
(* which holds because users counts the calls exactly.                     *)
(***************************************************************************)
EXTENDS FileMutationLock, FiniteSetTheorems, TLAPS

\* An entry is registered under one key.
RegistryInjective ==
    \A j, k \in Keys : registry[j] = registry[k] /\ registry[k] # None => j = k

\* A call inside holds the lock of its entry.
OwnerExact ==
    \A t \in Threads : pc[t] \in Inside => owner[entry[t]] = t

\* Files do not go away, and with coherent paths the key of a call is the
\* file it changes.
KeyIsTarget ==
    /\ Existing \subseteq files
    /\ Coherent => \A t \in Threads : pc[t] # "idle" => key[t] = Target(t)

IInv ==
    /\ TypeOK
    /\ UsersCounted
    /\ EntryOutlivesUsers
    /\ RegistryInjective
    /\ RegistryExact
    /\ OwnerExact
    /\ KeyIsTarget
    /\ ReadStaysCurrent

-----------------------------------------------------------------------------
\* Two calls with the same key share the entry of that key, and its lock has
\* one owner.
LEMMA ExclusionFromOwners ==
    ASSUME TypeOK, EntryOutlivesUsers, OwnerExact
    PROVE  KeyExclusion
BY DEF TypeOK, EntryOutlivesUsers, OwnerExact, KeyExclusion, Inside, Registered

\* The users of an entry are a finite set of threads.
LEMMA UsersFinite == \A e \in Entries : IsFiniteSet(UsersOf(e))
<1> SUFFICES ASSUME NEW e \in Entries PROVE IsFiniteSet(UsersOf(e))
  OBVIOUS
<1> UsersOf(e) \subseteq Threads
  BY DEF UsersOf
<1> QED
  BY FS_Subset, LockAssumption

\* An entry somebody uses has a positive count.
LEMMA UsedIsCounted ==
    ASSUME UsersCounted, NEW e \in Entries, NEW t \in UsersOf(e)
    PROVE  users[e] # 0
BY UsersFinite, FS_EmptySet DEF UsersCounted

\* And an entry with a zero count is not used.
LEMMA UncountedIsUnused ==
    ASSUME UsersCounted, NEW e \in Entries, users[e] = 0
    PROVE  UsersOf(e) = {}
BY UsersFinite, FS_EmptySet DEF UsersCounted

-----------------------------------------------------------------------------
\* Initially nothing is registered and nobody is inside.
LEMMA InitIInv == Init => IInv
<1> SUFFICES ASSUME Init PROVE IInv
  OBVIOUS
<1>1. TypeOK
  BY LockAssumption DEF Init, TypeOK, Registered, Inside
<1>2. UsersCounted
  <2> SUFFICES ASSUME NEW e \in Entries
               PROVE  users[e] = Cardinality(UsersOf(e))
    BY DEF UsersCounted
  <2>1. UsersOf(e) = {}
    BY DEF UsersOf, Init, Registered, Inside
  <2> QED
    BY <2>1, FS_EmptySet DEF Init
<1>3. EntryOutlivesUsers /\ RegistryInjective /\ RegistryExact /\ OwnerExact
  BY DEF Init, EntryOutlivesUsers, RegistryInjective, RegistryExact, OwnerExact,
         Registered, Inside
<1>4. KeyIsTarget /\ ReadStaysCurrent
  BY DEF Init, KeyIsTarget, ReadStaysCurrent
<1> QED
  BY <1>1, <1>2, <1>3, <1>4 DEF IInv

-----------------------------------------------------------------------------
(* Steps that only move a call along: they change neither the registry nor *)
(* who is counted.                                                         *)

Uncounting(t) ==
    /\ UNCHANGED <<callVars, registry, users>>
    /\ pc[t] \in Registered /\ pc'[t] \in Registered
    /\ \A s \in Threads : s # t => pc'[s] = pc[s]

\* The registry part of the invariant survives such a step.
LEMMA MovePreservesRegistry ==
    ASSUME TypeOK, UsersCounted, EntryOutlivesUsers, RegistryInjective,
           RegistryExact, NEW t \in Threads, Uncounting(t)
    PROVE  UsersCounted' /\ EntryOutlivesUsers' /\ RegistryInjective'
           /\ RegistryExact'
<1>1. \A s \in Threads : pc'[s] \in Registered <=> pc[s] \in Registered
  BY DEF Uncounting
<1>2. \A e \in Entries : UsersOf(e)' = UsersOf(e)
  BY <1>1 DEF UsersOf, Uncounting, callVars
<1>3. UsersCounted'
  BY <1>2 DEF UsersCounted, Uncounting
<1>4. EntryOutlivesUsers' /\ RegistryExact'
  BY <1>1 DEF EntryOutlivesUsers, RegistryExact, Uncounting, callVars
<1>5. RegistryInjective'
  BY DEF RegistryInjective, Uncounting
<1> QED
  BY <1>3, <1>4, <1>5

\* A call registers: its entry gets one more user, and it is the entry that
\* is registered under the key afterwards.
LEMMA RegisterPreserves ==
    ASSUME IInv, NEW t \in Threads, Register(t)
    PROVE  UsersCounted' /\ EntryOutlivesUsers' /\ RegistryInjective'
           /\ RegistryExact'
<1> USE DEF IInv
<1>1. PICK e \in Entries :
        /\ Use(t, e)
        /\ entry' = [entry EXCEPT ![t] = e]
        /\ registry' = [registry EXCEPT ![key[t]] = e]
        /\ Counted(t, e)
  BY DEF Register
<1>2. /\ pc[t] = "keyed" /\ pc' = [pc EXCEPT ![t] = "queued"]
      /\ key[t] \in Keys /\ key' = key
  BY LockAssumption DEF Register, Goto, TypeOK
<1>3. e # None
  BY LockAssumption
<1>4. \A s \in Threads : pc'[s] \in Registered <=> pc[s] \in Registered \/ s = t
  BY <1>2 DEF TypeOK, Registered, Inside
<1>5. t \notin UsersOf(e)
  BY <1>2 DEF UsersOf, Registered, Inside
<1>6. UsersCounted'
  <2> SUFFICES ASSUME NEW d \in Entries
               PROVE  users'[d] = Cardinality(UsersOf(d)')
    BY DEF UsersCounted
  <2>1. CASE d # e
    <3>1. UsersOf(d)' = UsersOf(d)
      BY <1>1, <1>2, <1>4, <2>1 DEF UsersOf, TypeOK, Registered, Inside
    <3>2. users'[d] = users[d]
      BY <1>1, <2>1 DEF Counted, TypeOK
    <3> QED
      BY <3>1, <3>2 DEF UsersCounted
  <2>2. CASE d = e
    <3>1. UsersOf(e)' = UsersOf(e) \cup {t}
      BY <1>1, <1>2, <1>4 DEF UsersOf, TypeOK, Registered, Inside
    <3>2. Cardinality(UsersOf(e)') = Cardinality(UsersOf(e)) + 1
      BY <3>1, <1>5, UsersFinite, FS_AddElement
    <3>3. CASE registry[key[t]] = e
      BY <1>1, <2>2, <3>2, <3>3 DEF Counted, TypeOK, UsersCounted
    <3>4. CASE registry[key[t]] # e
      <4>1. UsersOf(e) = {}
        BY <1>1, <3>4 DEF Use, Fresh
      <4>2. Cardinality(UsersOf(e)) = 0
        BY <4>1, FS_EmptySet
      <4>3. users'[e] = 1
        BY <1>1, <3>4 DEF Counted, TypeOK
      <4> QED
        BY <2>2, <3>2, <4>2, <4>3
    <3> QED
      BY <3>3, <3>4
  <2> QED
    BY <2>1, <2>2
<1>7. EntryOutlivesUsers'
  <2> SUFFICES ASSUME NEW s \in Threads, pc'[s] \in Registered
               PROVE  registry'[key'[s]] = entry'[s]
    BY DEF EntryOutlivesUsers
  <2>1. CASE s = t
    BY <1>1, <1>2, <2>1 DEF TypeOK
  <2>2. CASE s # t
    <3>1. pc[s] \in Registered /\ entry'[s] = entry[s]
      BY <1>1, <1>4, <2>2 DEF TypeOK
    <3>2. registry[key[s]] = entry[s] /\ entry[s] # None /\ key[s] \in Keys
      BY <3>1, LockAssumption DEF EntryOutlivesUsers, TypeOK, Registered, Inside
    <3>3. CASE key[s] = key[t]
      BY <1>1, <1>2, <3>1, <3>2, <3>3 DEF Use, TypeOK
    <3>4. CASE key[s] # key[t]
      BY <1>1, <1>2, <3>1, <3>2, <3>4 DEF TypeOK
    <3> QED
      BY <3>3, <3>4
  <2> QED
    BY <2>1, <2>2
<1>8. RegistryInjective'
  <2>1. CASE registry[key[t]] = e
    <3>1. registry' = registry
      BY <1>1, <1>2, <2>1 DEF TypeOK
    <3> QED
      BY <3>1 DEF RegistryInjective
  <2>2. CASE registry[key[t]] # e
    <3>1. \A k \in Keys : registry[k] # e
      BY <1>1, <2>2 DEF Use, Fresh
    <3> QED
      BY <1>1, <1>2, <3>1 DEF RegistryInjective, TypeOK
  <2> QED
    BY <2>1, <2>2
<1>9. RegistryExact'
  <2> SUFFICES ASSUME NEW k \in Keys, registry'[k] # None
               PROVE  \E s \in Threads : pc'[s] \in Registered /\ key'[s] = k
    BY DEF RegistryExact
  <2>1. CASE k = key[t]
    BY <1>2, <1>4, <2>1
  <2>2. CASE k # key[t]
    <3>1. registry[k] # None
      BY <1>1, <2>2 DEF TypeOK
    <3> QED
      BY <1>2, <1>4, <3>1 DEF RegistryExact
  <2> QED
    BY <2>1, <2>2
<1> QED
  BY <1>6, <1>7, <1>8, <1>9

\* A call leaves: its entry is dropped only if nobody else uses it.
LEMMA LeavePreserves ==
    ASSUME IInv, NEW t \in Threads, Leave(t)
    PROVE  UsersCounted' /\ EntryOutlivesUsers' /\ RegistryInjective'
           /\ RegistryExact'
<1> USE DEF IInv
<1>1. PICK e \in Entries : e = entry[t]
  BY LockAssumption DEF Leave, TypeOK, Registered, Inside
<1>2. /\ pc[t] = "leave" /\ pc' = [pc EXCEPT ![t] = "idle"]
      /\ users' = [users EXCEPT ![e] = @ - 1]
      /\ registry' = [registry EXCEPT ![key[t]] = IF Drop(t) THEN None ELSE @]
      /\ key' = [key EXCEPT ![t] = None]
      /\ entry' = [entry EXCEPT ![t] = None]
  BY <1>1 DEF Leave, Goto
<1>3. e \in Entries /\ key[t] \in Keys /\ t \in UsersOf(e)
  BY <1>1, <1>2, LockAssumption DEF TypeOK, UsersOf, Registered, Inside
<1>4. registry[key[t]] = e /\ e # None
  BY <1>1, <1>2, <1>3, LockAssumption DEF EntryOutlivesUsers, Registered
<1>5. \A s \in Threads : pc'[s] \in Registered <=> pc[s] \in Registered /\ s # t
  BY <1>2 DEF TypeOK, Registered, Inside
<1>6. \A s \in Threads : s # t => key'[s] = key[s] /\ entry'[s] = entry[s]
  BY <1>2 DEF TypeOK
<1>7. UsersCounted'
  <2> SUFFICES ASSUME NEW d \in Entries
               PROVE  users'[d] = Cardinality(UsersOf(d)')
    BY DEF UsersCounted
  <2>1. CASE d # e
    <3>1. UsersOf(d)' = UsersOf(d)
      BY <1>1, <1>5, <1>6, <2>1 DEF UsersOf
    <3>2. users'[d] = users[d]
      BY <1>2, <2>1 DEF TypeOK
    <3> QED
      BY <3>1, <3>2 DEF UsersCounted
  <2>2. CASE d = e
    <3>1. UsersOf(e)' = UsersOf(e) \ {t}
      BY <1>5, <1>6 DEF UsersOf
    <3>2. Cardinality(UsersOf(e)') = Cardinality(UsersOf(e)) - 1
      BY <3>1, <1>3, UsersFinite, FS_RemoveElement
    <3>3. users'[e] = users[e] - 1
      BY <1>2, <1>3 DEF TypeOK
    <3> QED
      BY <1>3, <2>2, <3>2, <3>3 DEF UsersCounted
  <2> QED
    BY <2>1, <2>2
<1>8. \A d \in Entries : users'[d] = 0 => UsersOf(d)' = {}
  <2> SUFFICES ASSUME NEW d \in Entries, users'[d] = 0 PROVE UsersOf(d)' = {}
    OBVIOUS
  <2>1. UsersOf(d)' \subseteq Threads
    BY DEF UsersOf
  <2>2. IsFiniteSet(UsersOf(d)') /\ Cardinality(UsersOf(d)') = 0
    BY <1>7, <2>1, FS_Subset, LockAssumption DEF UsersCounted
  <2> QED
    BY <2>2, FS_EmptySet
<1>9. EntryOutlivesUsers'
  <2> SUFFICES ASSUME NEW s \in Threads, pc'[s] \in Registered
               PROVE  registry'[key'[s]] = entry'[s]
    BY DEF EntryOutlivesUsers
  <2>1. pc[s] \in Registered /\ s # t
    BY <1>5
  <2>2. registry[key[s]] = entry[s] /\ key[s] \in Keys /\ entry[s] \in Entries
    BY <2>1, LockAssumption DEF EntryOutlivesUsers, TypeOK, Registered, Inside
  <2>3. CASE key[s] = key[t]
    <3>1. s \in UsersOf(e)'
      BY <1>4, <1>6, <2>1, <2>2, <2>3 DEF UsersOf
    <3>2. ~Drop(t)
      BY <1>1, <1>3, <1>8, <3>1 DEF Drop
    <3> QED
      BY <1>2, <1>3, <1>6, <2>1, <2>2, <2>3, <3>2 DEF TypeOK
  <2>4. CASE key[s] # key[t]
    BY <1>2, <1>6, <2>1, <2>2, <2>4 DEF TypeOK
  <2> QED
    BY <2>3, <2>4
<1>10. RegistryInjective'
  BY <1>2, <1>3 DEF RegistryInjective, TypeOK
<1>11. RegistryExact'
  <2> SUFFICES ASSUME NEW k \in Keys, registry'[k] # None
               PROVE  \E s \in Threads : pc'[s] \in Registered /\ key'[s] = k
    BY DEF RegistryExact
  <2>1. registry[k] # None
    BY <1>2 DEF TypeOK
  <2>2. CASE k # key[t]
    BY <1>5, <1>6, <2>1, <2>2 DEF RegistryExact
  <2>3. CASE k = key[t]
    <3>1. users'[e] # 0
      BY <1>1, <1>2, <1>3, <1>4, <2>3 DEF Drop, TypeOK
    <3>2. PICK s \in Threads : s \in UsersOf(e)'
      <4>1. UsersOf(e)' # {}
        BY <1>3, <1>7, <3>1, FS_EmptySet DEF UsersCounted
      <4> QED
        BY <4>1 DEF UsersOf
    <3>3. pc'[s] \in Registered /\ pc[s] \in Registered /\ s # t /\ entry[s] = e
      BY <1>5, <1>6, <3>2 DEF UsersOf
    <3>4. key[s] \in Keys /\ registry[key[s]] = e
      BY <3>3, LockAssumption DEF EntryOutlivesUsers, TypeOK, Registered, Inside
    <3>5. key[s] = k
      BY <1>3, <1>4, <2>3, <3>4 DEF RegistryInjective
    <3> QED
      BY <1>6, <3>3, <3>5
  <2> QED
    BY <2>2, <2>3
<1> QED
  BY <1>7, <1>9, <1>10, <1>11

-----------------------------------------------------------------------------
(* The steps of one thread, seen by the rest of the invariant.             *)

\* Every step of a call keeps every variable in its type.
LEMMA TypeStep ==
    ASSUME TypeOK, UsersCounted, NEW t \in Threads, Call(t) \/ Step(t)
    PROVE  TypeOK'
<1> USE LockAssumption DEF TypeOK, Goto, callVars, lockVars, fileVars,
                           Registered, Inside
<1>1. CASE Call(t)
  BY <1>1 DEF Call, KeyOf
<1>2. CASE Register(t)
  BY <1>2 DEF Register, Counted
<1>3. CASE Acquire(t)
  BY <1>3 DEF Acquire
<1>4. CASE ReadFile(t)
  BY <1>4 DEF ReadFile, Target
<1>5. CASE OpenFile(t)
  BY <1>5 DEF OpenFile, Target
<1>6. CASE FillFile(t)
  BY <1>6 DEF FillFile, Target
<1>7. CASE Fail(t)
  BY <1>7 DEF Fail
<1>8. CASE Release(t)
  BY <1>8 DEF Release
<1>9. CASE Leave(t)
  <2>1. pc[t] = "leave" /\ entry[t] \in Entries /\ t \in UsersOf(entry[t])
    BY <1>9 DEF Leave, UsersOf
  <2>2. users[entry[t]] # 0
    BY <2>1, UsedIsCounted
  <2>3. users' \in [Entries -> Nat]
    <3>1. users \in [Entries -> Nat] /\ users[entry[t]] - 1 \in Nat
      BY <2>1, <2>2
    <3>2. users' = [users EXCEPT ![entry[t]] = users[entry[t]] - 1]
      BY <1>9 DEF Leave
    <3> HIDE DEF TypeOK
    <3> QED
      BY <2>1, <3>1, <3>2
  <2>4. registry' \in [Keys -> Entries \cup {None}]
    BY <1>9 DEF Leave
  <2>5. /\ pc' = [pc EXCEPT ![t] = "idle"]
        /\ path' = [path EXCEPT ![t] = None]
        /\ key' = [key EXCEPT ![t] = None]
        /\ entry' = [entry EXCEPT ![t] = None]
        /\ seen' = [seen EXCEPT ![t] = 0]
        /\ UNCHANGED <<owner, files, content, calls>>
    BY <1>9 DEF Leave
  <2>6. \A s \in Threads :
            IF s = t THEN pc'[s] = "idle"
            ELSE /\ pc'[s] = pc[s] /\ path'[s] = path[s]
                 /\ key'[s] = key[s] /\ entry'[s] = entry[s]
    BY <2>5
  <2>7. /\ \A s \in Threads : pc'[s] # "idle" => path'[s] # None /\ key'[s] # None
        /\ \A s \in Threads : pc'[s] \in Registered => entry'[s] # None
    BY <2>6
  <2> QED
    BY <2>3, <2>4, <2>5, <2>7
<1> QED
  BY <1>1, <1>2, <1>3, <1>4, <1>5, <1>6, <1>7, <1>8, <1>9 DEF Step

\* The lock of an entry changes hands only when nobody inside holds it.
LEMMA OwnerStep ==
    ASSUME TypeOK, OwnerExact, NEW t \in Threads, Call(t) \/ Step(t)
    PROVE  OwnerExact'
<1> USE DEF TypeOK, OwnerExact, Goto, callVars, lockVars, fileVars,
            Registered, Inside
<1>1. CASE Call(t)
  BY <1>1 DEF Call
<1>2. CASE Register(t)
  BY <1>2 DEF Register
<1>3. CASE Acquire(t)
  BY <1>3, LockAssumption DEF Acquire
<1>4. CASE ReadFile(t)
  BY <1>4 DEF ReadFile
<1>5. CASE OpenFile(t)
  BY <1>5 DEF OpenFile
<1>6. CASE FillFile(t)
  BY <1>6 DEF FillFile
<1>7. CASE Fail(t)
  BY <1>7 DEF Fail
<1>8. CASE Release(t)
  BY <1>8 DEF Release
<1>9. CASE Leave(t)
  BY <1>9 DEF Leave
<1> QED
  BY <1>1, <1>2, <1>3, <1>4, <1>5, <1>6, <1>7, <1>8, <1>9 DEF Step

\* With coherent paths a key that is resolved now is the file itself, and it
\* stays so because files do not go away.
LEMMA KeyStep ==
    ASSUME TypeOK, KeyIsTarget, NEW t \in Threads, Call(t) \/ Step(t)
    PROVE  KeyIsTarget'
<1> USE DEF TypeOK, KeyIsTarget, Goto, Target, callVars, lockVars, fileVars
<1>1. CASE Call(t)
  <2>1. PICK p \in Paths : /\ path' = [path EXCEPT ![t] = p]
                           /\ key' = [key EXCEPT ![t] = KeyOf(p)]
    BY <1>1 DEF Call
  <2>2. Coherent => KeyOf(p) = Real[p]
    BY DEF Coherent, KeyOf
  <2>3. /\ pc' = [pc EXCEPT ![t] = "keyed"] /\ files' = files
        /\ pc[t] = "idle"
    BY <1>1 DEF Call
  <2>4. ASSUME Coherent, NEW s \in Threads, pc'[s] # "idle"
        PROVE  key'[s] = Real[path'[s]]
    <3>1. CASE s = t
      BY <2>1, <2>2, <2>4, <3>1
    <3>2. CASE s # t
      BY <2>1, <2>3, <2>4, <3>2
    <3> QED
      BY <3>1, <3>2
  <2> QED
    BY <2>3, <2>4 DEF Coherent
<1>2. CASE Register(t)
  BY <1>2 DEF Register
<1>3. CASE Acquire(t)
  BY <1>3 DEF Acquire
<1>4. CASE ReadFile(t) \/ FillFile(t) \/ Fail(t) \/ Release(t)
  BY <1>4 DEF ReadFile, FillFile, Fail, Release
<1>5. CASE OpenFile(t)
  BY <1>5 DEF OpenFile
<1>6. CASE Leave(t)
  BY <1>6 DEF Leave
<1> QED
  BY <1>1, <1>2, <1>3, <1>4, <1>5, <1>6 DEF Step

\* Nobody else changes the file of a call that is inside.
LEMMA ReadStep ==
    ASSUME TypeOK, KeyExclusion, KeyIsTarget, ReadStaysCurrent,
           NEW t \in Threads, Call(t) \/ Step(t)
    PROVE  ReadStaysCurrent'
<1> SUFFICES ASSUME Coherent, NEW s \in Threads, pc'[s] \in {"replace", "fill"}
             PROVE  seen'[s] = content'[Target(s)']
  BY DEF ReadStaysCurrent, Coherent
<1> USE DEF TypeOK, Goto, callVars, lockVars, fileVars
<1>1. CASE s # t
  <2>1. pc[s] = pc'[s] /\ seen'[s] = seen[s] /\ path'[s] = path[s]
    BY <1>1 DEF Call, Step, Register, Acquire, ReadFile, OpenFile, FillFile,
                Fail, Release, Leave
  <2>2. seen[s] = content[Target(s)]
    BY <2>1 DEF ReadStaysCurrent
  <2>3. Target(s)' = Target(s) /\ Target(s) = key[s] /\ pc[s] \in Inside
    BY <2>1 DEF Target, KeyIsTarget, Inside
  <2>4. CASE OpenFile(t) \/ FillFile(t)
    <3>1. pc[t] \in Inside /\ Target(t) = key[t]
      BY <2>4 DEF OpenFile, FillFile, Inside, KeyIsTarget
    <3>2. Target(s) # Target(t)
      BY <1>1, <2>3, <3>1 DEF KeyExclusion
    <3> QED
      BY <2>1, <2>2, <2>3, <2>4, <3>2 DEF OpenFile, FillFile
  <2>5. CASE ~(OpenFile(t) \/ FillFile(t))
    <3>1. content' = content
      BY <2>5 DEF Call, Step, Register, Acquire, ReadFile, Fail, Release, Leave
    <3> QED
      BY <2>1, <2>2, <2>3, <3>1
  <2> QED
    BY <2>4, <2>5
<1>2. CASE s = t
  <2>1. CASE ReadFile(t)
    BY <1>2, <2>1 DEF ReadFile, Target
  <2>2. CASE OpenFile(t)
    <3>1. /\ seen' = [seen EXCEPT ![t] = content'[Target(t)]]
          /\ path' = path
      BY <2>2 DEF OpenFile
    <3>2. Target(t)' = Target(t)
      BY <3>1 DEF Target
    <3> QED
      BY <1>2, <3>1, <3>2
  <2>3. CASE ~(ReadFile(t) \/ OpenFile(t))
    <3>1. pc'[t] \notin {"replace", "fill"}
      BY <2>3 DEF Call, Step, Register, Acquire, FillFile, Fail, Release, Leave
    <3> QED
      BY <1>2, <3>1
  <2> QED
    BY <2>1, <2>2, <2>3
<1> QED
  BY <1>1, <1>2

-----------------------------------------------------------------------------
\* Every step of the system preserves the invariant.
LEMMA NextPreserves == IInv /\ [Next]_vars => IInv'
<1> SUFFICES ASSUME IInv, [Next]_vars PROVE IInv'
  OBVIOUS
<1>0. KeyExclusion
  BY ExclusionFromOwners DEF IInv
<1>1. ASSUME NEW t \in Threads, Call(t) \/ Step(t) PROVE IInv'
  <2>1. TypeOK' /\ OwnerExact' /\ KeyIsTarget' /\ ReadStaysCurrent'
    BY <1>0, <1>1, TypeStep, OwnerStep, KeyStep, ReadStep DEF IInv
  <2>2. UsersCounted' /\ EntryOutlivesUsers' /\ RegistryInjective'
        /\ RegistryExact'
    <3>1. CASE Register(t)
      BY <3>1, RegisterPreserves
    <3>2. CASE Leave(t)
      BY <3>2, LeavePreserves
    <3>3. CASE \/ Acquire(t) \/ ReadFile(t) \/ OpenFile(t) \/ FillFile(t)
              \/ Fail(t) \/ Release(t)
      <4>1. Uncounting(t)
        BY <3>3 DEF Uncounting, Acquire, ReadFile, OpenFile, FillFile, Fail,
                    Release, Goto, callVars, lockVars, fileVars, IInv, TypeOK,
                    Registered, Inside
      <4> QED
        BY <4>1, MovePreservesRegistry DEF IInv
    <3>4. CASE Call(t)
      <4>1. /\ pc[t] = "idle" /\ pc'[t] = "keyed"
            /\ UNCHANGED <<entry, registry, users>>
            /\ \A s \in Threads : s # t => pc'[s] = pc[s] /\ key'[s] = key[s]
        BY <3>4 DEF Call, Goto, lockVars, IInv, TypeOK
      <4>2. \A s \in Threads : /\ pc'[s] \in Registered <=> pc[s] \in Registered
                               /\ pc[s] \in Registered => key'[s] = key[s]
        BY <4>1 DEF Registered, Inside
      <4>3. \A e \in Entries : UsersOf(e)' = UsersOf(e)
        BY <4>1, <4>2 DEF UsersOf
      <4> QED
        BY <4>1, <4>2, <4>3 DEF IInv, UsersCounted, EntryOutlivesUsers,
                                RegistryInjective, RegistryExact
    <3> QED
      BY <1>1, <3>1, <3>2, <3>3, <3>4 DEF Step
  <2> QED
    BY <2>1, <2>2 DEF IInv
<1>2. CASE UNCHANGED vars
  <2>1. \A e \in Entries : UsersOf(e)' = UsersOf(e)
    BY <1>2 DEF UsersOf, vars, callVars
  <2> QED
    BY <1>2, <2>1 DEF IInv, vars, callVars, lockVars, fileVars, TypeOK,
       UsersCounted, EntryOutlivesUsers, RegistryInjective, RegistryExact,
       OwnerExact, KeyIsTarget, ReadStaysCurrent, Target
<1> QED
  BY <1>1, <1>2 DEF Next, Done

\* The invariant holds in every reachable state.
THEOREM Invariance == Spec => []IInv
<1>1. Init => IInv
  BY InitIInv
<1>2. IInv /\ [Next]_vars => IInv'
  BY NextPreserves
<1> QED
  BY <1>1, <1>2, PTL DEF Spec

\* Every variable keeps its type, whatever the threads and the paths.
THEOREM LockTypeCorrect == Spec => []TypeOK
BY Invariance, PTL DEF IInv

\* The user count of an entry is exactly its holders and waiters.
THEOREM UsersAlwaysCounted == Spec => []UsersCounted
BY Invariance, PTL DEF IInv

\* An entry stays registered until its last user has left.
THEOREM EntriesOutliveUsers == Spec => []EntryOutlivesUsers
BY Invariance, PTL DEF IInv

\* The registry holds no entry that nobody uses.
THEOREM RegistryNeverLeaks == Spec => []RegistryExact
BY Invariance, PTL DEF IInv

\* Calls that resolved the same key exclude each other.
THEOREM SameKeyExcludes == Spec => []KeyExclusion
<1>1. IInv => KeyExclusion
  BY ExclusionFromOwners DEF IInv
<1> QED
  BY <1>1, Invariance, PTL

\* With coherent paths no edit overwrites a content it has not read.
THEOREM NoLostUpdate == Spec => []ReadStaysCurrent
BY Invariance, PTL DEF IInv
=============================================================================
