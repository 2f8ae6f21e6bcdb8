-------------------------- MODULE MCGuardedSession --------------------------
(***************************************************************************)
(* A plan with a read, a write of what was read (argument match), and two  *)
(* terminals: submit, which needs an artifact, and block.                  *)
(***************************************************************************)
EXTENDS GuardedSession

CONSTANTS read, write, submit, block, a, b, art

MCNodes == {read, write, submit, block}
MCTerminals == {submit, block}
MCBlocked == {block}
MCRequired == {read}
MCDenied == {}
MCArgs == {a, b}
MCCalls == [node : {read, write}, arg : {a, b}]
              \cup [node : {submit, block}, arg : {a}]
MCPrereqs == [n \in MCNodes |->
                IF n = write THEN {[node |-> read, match |-> TRUE]}
                ELSE IF n = submit THEN {[node |-> write, match |-> FALSE]}
                ELSE {}]
MCArtifacts == {art}
MCRequiredArtifacts == [n \in MCNodes |-> IF n = submit THEN {art} ELSE {}]
=============================================================================
