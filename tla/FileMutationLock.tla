-------------------------- MODULE FileMutationLock --------------------------
(***************************************************************************)
(* file_mutation_lock: one lock per target path, kept in a registry for as *)
(* long as somebody holds it or waits for it, and the two tools that run   *)
(* under it: execute_write (overwrite) and execute_edit (read, replace,    *)
(* overwrite).  The key of a call is resolved before the registry is       *)
(* looked at: it is the real path if the file exists at that moment, and   *)
(* the lexical path otherwise.                                             *)
(***************************************************************************)
EXTENDS Integers, FiniteSets

CONSTANTS
    Threads,     \* threads that run sessions
    Paths,       \* absolute spellings of target paths
    Keys,        \* normalised paths; the files are known by their real path
    Real,        \* path -> what resolve(strict=True) answers for the file
    Lexical,     \* path -> its normalised spelling
    Existing,    \* files that exist at the start
    Entries,     \* identities of _PathLockEntry objects
    MaxCalls,    \* bound on the calls of all threads together
    None         \* "no value"

ASSUME LockAssumption ==
    /\ IsFiniteSet(Threads)
    /\ Real \in [Paths -> Keys] /\ Lexical \in [Paths -> Keys]
    /\ Existing \subseteq Keys
    /\ MaxCalls \in Nat
    /\ None \notin Threads \cup Paths \cup Keys \cup Entries

VARIABLES
    pc,          \* where the call of each thread stands
    path, key,   \* its target and the key it resolved
    entry,       \* the entry it registered with
    registry,    \* _path_locks: key -> entry
    users,       \* entry.users
    owner,       \* the thread that holds entry.lock
    files,       \* files that exist
    content,     \* file -> number of changes to its content
    seen,        \* the content a call read, or left after opening the file
    calls        \* calls made

callVars == <<path, key, entry>>
lockVars == <<registry, users, owner>>
fileVars == <<files, content, seen>>
vars == <<pc, callVars, lockVars, fileVars, calls>>

-----------------------------------------------------------------------------
\* Points of a call at which it is counted in its entry's users, and those
\* at which it holds the entry's lock.
Inside == {"edit", "write", "replace", "fill", "release"}
Registered == Inside \cup {"queued", "leave"}

UsersOf(e) == {t \in Threads : pc[t] \in Registered /\ entry[t] = e}

\* An object that nothing refers to.
Fresh(e) == /\ \A k \in Keys : registry[k] # e
            /\ UsersOf(e) = {}

\* _mutation_key.
KeyOf(p) == IF Real[p] \in files THEN Real[p] ELSE Lexical[p]

Target(t) == Real[path[t]]

Init ==
    /\ pc = [t \in Threads |-> "idle"]
    /\ path = [t \in Threads |-> None]
    /\ key = [t \in Threads |-> None]
    /\ entry = [t \in Threads |-> None]
    /\ registry = [k \in Keys |-> None]
    /\ users = [e \in Entries |-> 0]
    /\ owner = [e \in Entries |-> None]
    /\ files = Existing
    /\ content = [f \in Keys |-> 0]
    /\ seen = [t \in Threads |-> 0]
    /\ calls = 0

Goto(t, label) == pc' = [pc EXCEPT ![t] = label]

Call(t) ==
    /\ pc[t] = "idle" /\ calls < MaxCalls
    /\ \E p \in Paths :
        /\ path' = [path EXCEPT ![t] = p]
        /\ key' = [key EXCEPT ![t] = KeyOf(p)]
    /\ calls' = calls + 1
    /\ Goto(t, "keyed")
    /\ UNCHANGED <<entry, lockVars, fileVars>>

Counted(t, e) ==
    users' = [users EXCEPT ![e] = IF registry[key[t]] = e THEN @ + 1 ELSE 1]

\* Mutant: an entry that is registered is not looked for.
UseAny(t, e) == Fresh(e)

\* The registered entry, or a new one.
Use(t, e) == IF registry[key[t]] = None THEN Fresh(e) ELSE registry[key[t]] = e

\* Under _registration_lock.
Register(t) ==
    /\ pc[t] = "keyed"
    /\ \E e \in Entries :
        /\ Use(t, e)
        /\ entry' = [entry EXCEPT ![t] = e]
        /\ registry' = [registry EXCEPT ![key[t]] = e]
        /\ Counted(t, e)
    /\ Goto(t, "queued")
    /\ UNCHANGED <<path, key, owner, fileVars, calls>>

\* entry.lock is reentrant, but no call is made inside another.
Acquire(t) ==
    /\ pc[t] = "queued"
    /\ owner[entry[t]] = None
    /\ owner' = [owner EXCEPT ![entry[t]] = t]
    /\ Goto(t, "edit") \/ Goto(t, "write")
    /\ UNCHANGED <<callVars, registry, users, fileVars, calls>>

\* execute_edit reads the whole file and computes the new content.
ReadFile(t) ==
    /\ pc[t] = "edit"
    /\ Target(t) \in files
    /\ seen' = [seen EXCEPT ![t] = content[Target(t)]]
    /\ Goto(t, "replace")
    /\ UNCHANGED <<callVars, lockVars, files, content, calls>>

\* open("w") creates or truncates the file.
OpenFile(t) ==
    /\ pc[t] \in {"write", "replace"}
    /\ files' = files \cup {Target(t)}
    /\ content' = [content EXCEPT ![Target(t)] = @ + 1]
    /\ seen' = [seen EXCEPT ![t] = content'[Target(t)]]
    /\ Goto(t, "fill")
    /\ UNCHANGED <<callVars, lockVars, calls>>

FillFile(t) ==
    /\ pc[t] = "fill"
    /\ content' = [content EXCEPT ![Target(t)] = @ + 1]
    /\ Goto(t, "release")
    /\ UNCHANGED <<callVars, lockVars, files, seen, calls>>

\* Mutant: a failure leaves the lock behind.
FailHoldingLock(t) ==
    /\ pc[t] \in {"edit", "write", "replace", "fill"}
    /\ Goto(t, "leave")
    /\ UNCHANGED <<callVars, lockVars, fileVars, calls>>

\* A missing file, an edit that does not match, or an OSError of any step.
Fail(t) ==
    /\ pc[t] \in {"edit", "write", "replace", "fill"}
    /\ Goto(t, "release")
    /\ UNCHANGED <<callVars, lockVars, fileVars, calls>>

Release(t) ==
    /\ pc[t] = "release"
    /\ owner' = [owner EXCEPT ![entry[t]] = None]
    /\ Goto(t, "leave")
    /\ UNCHANGED <<callVars, registry, users, fileVars, calls>>

\* The last user drops the entry, if it is still the registered one.
Drop(t) == users'[entry[t]] = 0 /\ registry[key[t]] = entry[t]

\* Under _registration_lock.
Leave(t) ==
    /\ pc[t] = "leave"
    /\ users' = [users EXCEPT ![entry[t]] = @ - 1]
    /\ registry' = [registry EXCEPT ![key[t]] = IF Drop(t) THEN None ELSE @]
    /\ Goto(t, "idle")
    \* the locals of the call are gone
    /\ path' = [path EXCEPT ![t] = None]
    /\ key' = [key EXCEPT ![t] = None]
    /\ entry' = [entry EXCEPT ![t] = None]
    /\ seen' = [seen EXCEPT ![t] = 0]
    /\ UNCHANGED <<owner, files, content, calls>>

Step(t) == \/ Register(t) \/ Acquire(t) \/ ReadFile(t) \/ OpenFile(t)
           \/ FillFile(t) \/ Fail(t) \/ Release(t) \/ Leave(t)

Done == calls = MaxCalls /\ (\A t \in Threads : pc[t] = "idle") /\ UNCHANGED vars

Next == (\E t \in Threads : Call(t) \/ Step(t)) \/ Done

\* A thread that can run eventually runs.
Fairness == \A t \in Threads : WF_vars(Step(t))

Spec == Init /\ [][Next]_vars /\ Fairness

-----------------------------------------------------------------------------
(* Properties.                                                             *)

TypeOK ==
    /\ pc \in [Threads -> Registered \cup {"idle", "keyed"}]
    /\ path \in [Threads -> Paths \cup {None}]
    /\ key \in [Threads -> Keys \cup {None}]
    /\ entry \in [Threads -> Entries \cup {None}]
    /\ \A t \in Threads : pc[t] # "idle" => path[t] # None /\ key[t] # None
    /\ \A t \in Threads : pc[t] \in Registered => entry[t] # None
    /\ registry \in [Keys -> Entries \cup {None}]
    /\ users \in [Entries -> Nat]
    /\ owner \in [Entries -> Threads \cup {None}]
    /\ files \subseteq Keys
    /\ content \in [Keys -> Nat]
    /\ seen \in [Threads -> Nat]
    /\ calls \in 0..MaxCalls

\* "users includes both lock holders and queued callers": the count of every
\* entry is the number of calls between their registration and their end.
UsersCounted == \A e \in Entries : users[e] = Cardinality(UsersOf(e))

\* "the entry can disappear only after the last caller has released it": the
\* entry a call waits on or holds is the one a newcomer with its key gets.
EntryOutlivesUsers ==
    \A t \in Threads : pc[t] \in Registered => registry[key[t]] = entry[t]

\* No entry stays behind: what is registered is in use.
RegistryExact ==
    \A k \in Keys : registry[k] # None =>
        \E t \in Threads : pc[t] \in Registered /\ key[t] = k

\* Two calls that resolved the same key are never both inside, however
\* entries were dropped and made again in between.
KeyExclusion ==
    \A s, t \in Threads :
        s # t /\ pc[s] \in Inside /\ pc[t] \in Inside => key[s] # key[t]

\* Every file has one key at all times: its spellings resolve without a
\* symbolic link, or the file is there from the start.
Coherent ==
    \A p \in Paths : Lexical[p] = Real[p] \/ Real[p] \in Existing

\* Then an edit replaces exactly the content it read, and nobody else writes
\* between the truncation of a file and its new content.
ReadStaysCurrent ==
    Coherent => \A t \in Threads :
        pc[t] \in {"replace", "fill"} => seen[t] = content[Target(t)]

\* Once the callers stop, every call gets its turn and the registry drains.
CallsSettle ==
    <>[](calls = MaxCalls => \A t \in Threads : pc[t] = "idle")
=============================================================================
