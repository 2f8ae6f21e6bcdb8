------------------------- MODULE MCFileMutationLock -------------------------
EXTENDS FileMutationLock, TLC

CONSTANTS plain, dotted, other, aliased, t1, t2, t3, e1, e2, e3

\* Two spellings of one file, an independent file, and a path through a
\* symbolic link to a file that exists.
MCPaths == {plain, dotted, other, aliased}
MCThreads == {t1, t2, t3}
MCEntries == {e1, e2, e3}
MCKeys == {"file", "other", "link", "linked"}
MCReal == (plain :> "file") @@ (dotted :> "file") @@ (other :> "linked")
            @@ (aliased :> "linked")
MCLexical == (plain :> "file") @@ (dotted :> "file") @@ (other :> "linked")
            @@ (aliased :> "link")
MCExisting == {"linked"}
=============================================================================
