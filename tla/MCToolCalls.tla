---------------------------- MODULE MCToolCalls -----------------------------
EXTENDS ToolCalls, TLC

CONSTANTS bash, push, merge, tag, done

\* The shell, a connector whose provider takes a key and needs a grant, one
\* that is idempotent by itself, one whose binding is not available, and a
\* terminal tool.
MCNodes == {bash, push, merge, tag, done}
MCKind == [n \in MCNodes |->
              IF n \in {bash, done} THEN "builtin" ELSE "connector"]
MCPrereqs == [n \in MCNodes |-> {}]
MCIdempotency == bash :> "non_idempotent" @@ push :> "with_key"
                 @@ merge :> "idempotent" @@ tag :> "non_idempotent"
                 @@ done :> "idempotent"
MCApproval == [n \in MCNodes |-> IF n = push THEN "explicit" ELSE "none"]
Shell == {bash}
Keyed == {push}
Unavailable == {tag}
Ends == {done}
=============================================================================
