------------------------ MODULE MCDependencyServer --------------------------
(***************************************************************************)
(* A condition c with two branches, to u and to v.  The blocks w and v     *)
(* write what the branch to u depends on.  In a second kernel v ends in a  *)
(* branch to u as well, which depends on other writes.                     *)
(***************************************************************************)
EXTENDS DependencyServer, TLC

CONSTANTS S, W, c, u, v, w

MCSig == {S, W}
MCAddr == {c, u, v, w}
MCDom == [a \in MCAddr |-> 1]

MCBranch == {<<c, u>>, <<c, v>>}
MCMods == [b \in MCBranch |-> IF b[2] = u THEN {v, w} ELSE {}]
MCInputRelated == {}

\* Two branches to u, with different writes, and one to v that depends on an
\* argument.
MCBranch2 == {<<c, u>>, <<c, v>>, <<v, u>>}
MCMods2 == [b \in MCBranch2 |-> CASE b = <<c, u>> -> {w}
                                  [] b = <<v, u>> -> {c, v}
                                  [] OTHER -> {}]
MCInputRelated2 == {<<c, v>>}

\* S comes to the condition with one call and covers v with another; W writes.
MCNewInputs ==
    {[sig |-> S, call |-> 1, cover |-> {c}],
     [sig |-> W, call |-> 1, cover |-> {w}],
     [sig |-> S, call |-> 2, cover |-> {c, v}]}

\* Without the input that only writes.
MCNewInputs2 ==
    {[sig |-> S, call |-> 1, cover |-> {c}],
     [sig |-> W, call |-> 2, cover |-> {c, v}]}
=============================================================================
