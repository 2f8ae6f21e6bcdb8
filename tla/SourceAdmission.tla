--------------------------- MODULE SourceAdmission ---------------------------
(***************************************************************************)
(* How the harness compiler reads its source (compiler/requests.py), while *)
(* other processes may replace, link, remove or rewrite the file; a        *)
(* rewrite in place happens in two halves.                                 *)
(***************************************************************************)
EXTENDS Integers, Sequences

CONSTANTS
    MaxWrites,    \* bound on what happens to the source file
    NotYet        \* "no value"

ASSUME WritesAssumption == MaxWrites \in Nat

VARIABLES
    phase,        \* where the compiler, then the session, stands
    disk,         \* the source path and the files, while they are read
    seen          \* what admission has read of them

admissionVars == <<phase, disk, seen>>

Admission == {"request", "lstat", "open", "read", "rest", "restat"}

-----------------------------------------------------------------------------
(* The source file.  A file is a stamp (size and mtime) and two halves;    *)
(* every write changes the stamp.  File 0 lies outside source_root.        *)

File(version) == [stamp |-> 0, first |-> version, rest |-> version]
Quiet == [entry |-> "file", ino |-> 1, files |-> <<File(1)>>, writer |-> NotYet,
          writes |-> 0]
Outside == 0
Unread == [before |-> NotYet, handle |-> NotYet, atOpen |-> NotYet,
           first |-> NotYet, rest |-> NotYet]

\* What stat of an open file or of the path compares: _same_file.
Identity(ino) == IF ino = Outside THEN <<Outside, 0>> ELSE <<ino, disk.files[ino].stamp>>
PathIdentity == Identity(IF disk.entry = "link" THEN Outside ELSE disk.ino)

\* Mutant: size and mtime are left out of the comparison.
SameInode(a, b) == a[1] = b[1]
SameFile(a, b) == a = b

AdmissionInit == phase = "request" /\ disk = Quiet /\ seen = Unread

\* Another process acts on the path while the source is admitted.
Disturb(newDisk) ==
    /\ phase \in Admission /\ disk.writes < MaxWrites
    /\ disk' = [newDisk EXCEPT !.writes = @ + 1]
    /\ UNCHANGED <<phase, seen>>

Replace == Disturb([disk EXCEPT !.entry = "file", !.ino = Len(disk.files) + 1,
                                !.files = Append(@, File(Len(@) + 1))])
Link == Disturb([disk EXCEPT !.entry = "link"])
RemoveFile == Disturb([disk EXCEPT !.entry = "gone"])

\* A rewrite in place: the first half now, the rest later.
BeginRewrite ==
    /\ disk.entry = "file" /\ disk.writer = NotYet
    /\ LET version == -1 - disk.writes IN
       Disturb([disk EXCEPT
                   !.writer = <<disk.ino, version>>,
                   !.files[disk.ino] = [stamp |-> @.stamp + 1, first |-> version,
                                        rest |-> @.rest]])
EndRewrite ==
    /\ phase \in Admission /\ disk.writer # NotYet
    /\ disk' = [disk EXCEPT
                   !.writer = NotYet,
                   !.files[disk.writer[1]] = [stamp |-> @.stamp + 1, first |-> @.first,
                                              rest |-> disk.writer[2]]]
    /\ UNCHANGED <<phase, seen>>

-----------------------------------------------------------------------------
(* Admission of the request and of the source file.                        *)

RequestFails == phase' = "request failed" /\ UNCHANGED <<disk, seen>>

\* _admit_roots_and_output: an unusable root or output directory, or a
\* source path that leads out of source_root.  A missing source passes.
AdmitRoots ==
    /\ phase = "request"
    /\ \/ RequestFails
       \/ disk.entry # "link" /\ phase' = "lstat" /\ UNCHANGED <<disk, seen>>

\* _read_admitted_source: lstat the resolved path
StatSource ==
    /\ phase = "lstat"
    /\ IF disk.entry = "file"
         THEN /\ seen' = [seen EXCEPT !.before = Identity(disk.ino)]
              /\ phase' = "open" /\ UNCHANGED disk
         ELSE RequestFails

\* open, fstat, compare
OpenSource ==
    /\ phase = "open"
    /\ IF disk.entry # "gone" /\ SameFile(seen.before, PathIdentity)
         THEN /\ seen' = [seen EXCEPT !.handle = PathIdentity, !.atOpen = disk.files[disk.ino]]
              /\ phase' = "read" /\ UNCHANGED disk
         ELSE RequestFails

\* read, which other processes may interleave; it may fail, or be too large
ReadSource ==
    \/ /\ phase = "read"
       /\ seen' = [seen EXCEPT !.first = disk.files[seen.handle[1]].first]
       /\ phase' = "rest" /\ UNCHANGED disk
    \/ /\ phase = "rest"
       /\ \/ RequestFails
          \/ /\ seen' = [seen EXCEPT !.rest = disk.files[seen.handle[1]].rest]
             /\ phase' = "restat" /\ UNCHANGED disk

\* stat the path again and compare with what was opened; nothing looks at
\* the files after that, and the model forgets them
StatAgain ==
    /\ phase = "restat"
    /\ IF disk.entry # "gone" /\ SameFile(seen.handle, PathIdentity)
         THEN phase' = "parse" /\ disk' = Quiet /\ UNCHANGED seen
         ELSE RequestFails

AdmissionNext ==
    \/ Replace \/ Link \/ RemoveFile \/ BeginRewrite \/ EndRewrite
    \/ AdmitRoots \/ StatSource \/ OpenSource \/ ReadSource \/ StatAgain

AdmissionSpec == AdmissionInit /\ [][AdmissionNext]_admissionVars

-----------------------------------------------------------------------------
\* requests.py:543-641: whatever other processes do to the source meanwhile,
\* the bytes that reach the parser are those the file held when it was
\* opened, and the file is inside source_root.
AdmittedIsSnapshot ==
    phase = "parse" =>
        /\ seen.handle[1] # Outside
        /\ <<seen.first, seen.rest>> = <<seen.atOpen.first, seen.atOpen.rest>>
=============================================================================
