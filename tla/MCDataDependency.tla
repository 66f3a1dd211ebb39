--------------------------- MODULE MCDataDependency -------------------------
(***************************************************************************)
(* Two programs, and two branches behind a condition that read what one    *)
(* block writes.  Any of the messages below, repeated, in any order (DDNext*)
(* takes every message of the types, too many to enumerate).               *)
(***************************************************************************)
EXTENDS DataDependency, TLC

CONSTANTS S, W, u1, u2, w

MCSig == {S, W}
MCAddr == {u1, u2, w}
MCDom == [a \in MCAddr |-> IF a = u1 THEN 1 ELSE 0]

MCNewInputs ==
    {[sig |-> W, call |-> i, cover |-> {w}] : i \in {0, 33}}
    \cup {[sig |-> S, call |-> 1, cover |-> {w, u1}], [sig |-> W, call |-> 2, cover |-> {u2}]}

Writers(f) == [a \in MCAddr |-> IF a = w THEN f ELSE [s \in MCSig |-> {}]]

MCDep(u, s, b, f) ==
    [kind |-> "DependencyRelated", ua |-> u, sig |-> s, bits |-> b, wa |-> {w},
     waInput |-> Writers(f)]

MCDependencies ==
    {MCDep(u1, S, {0, 1}, [s \in MCSig |-> IF s = W THEN {0} ELSE {}]),
     MCDep(u2, S, {1}, [s \in MCSig |-> {}]),
     MCDep(u2, W, {}, [s \in MCSig |-> IF s = S THEN {1} ELSE {}]),
     [kind |-> "DependencyRelated", ua |-> u2, sig |-> W, bits |-> {0}, wa |-> {},
      waInput |-> Writers([s \in MCSig |-> {}])],
     [kind |-> "InputRelated", ua |-> u1, sig |-> S, bits |-> {}, wa |-> {},
      waInput |-> Writers([s \in MCSig |-> {}])]}
MCNext ==
    \/ \E m \in MCNewInputs : AddCoveredAddress(m) \/ AddInput(m)
    \/ \E d \in MCDependencies : AddDependency(d)

MCSpec == DDInit /\ [][MCNext]_ddVars
=============================================================================
