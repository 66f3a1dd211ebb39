------------------------------- MODULE Signal -------------------------------
(***************************************************************************)
(* pkg/signal/signal.go: sets of coverage elements with a priority each.   *)
(* A Signal is a function on all elements; Absent, below every priority,   *)
(* stands for an element that is not in the map.                           *)
(***************************************************************************)
EXTENDS Integers, FiniteSets

CONSTANTS
    Elem,    \* elemType
    MaxPrio  \* prioType: 0 .. MaxPrio (signalPrio returns 0 .. 3)

ASSUME ElemAssumption == IsFiniteSet(Elem)
ASSUME PrioAssumption == MaxPrio \in Nat

Absent == -1
Signals == [Elem -> Absent .. MaxPrio]
Nil == [e \in Elem |-> Absent]

SigLen(s) == Cardinality({e \in Elem : s[e] # Absent})

\* What s1 has that s has not, or has with a lower priority.
Diff(s, s1) == [e \in Elem |-> IF s[e] >= s1[e] THEN Absent ELSE s1[e]]

\* What s and s1 share, s1 with at least the priority of s.
Intersection(s, s1) ==
    [e \in Elem |-> IF s1[e] # Absent /\ s1[e] >= s[e] THEN s[e] ELSE Absent]

\* The higher priority of every element.
Merge(s, s1) == [e \in Elem |-> IF s[e] < s1[e] THEN s1[e] ELSE s[e]]

\* Split: the pairs (taken, left) for a map with n or fewer elements taken, in
\* the unspecified order of a map iteration.
Restricted(s, E) == [e \in Elem |-> IF e \in E THEN s[e] ELSE Absent]
Split(s, n) ==
    LET D == {e \in Elem : s[e] # Absent}
    IN  {<<Restricted(s, E), Restricted(s, D \ E)>> :
            E \in {F \in SUBSET D : IF Cardinality(D) =< n THEN F = D ELSE Cardinality(F) = n}}

-----------------------------------------------------------------------------
\* Minimize: corpus maps the inputs to their signals.  sort.Slice orders them by
\* length; inputs of the same length end up in any order.
Sorted(corpus) ==
    LET n == Cardinality(DOMAIN corpus)
    IN  {o \in [1 .. n -> DOMAIN corpus] :
            /\ \A i, j \in 1 .. n : o[i] = o[j] => i = j
            /\ \A i, j \in 1 .. n : i < j => SigLen(corpus[o[i]]) >= SigLen(corpus[o[j]])}

\* Faulty variant: a later input of the same or of a higher priority does not
\* displace the first one that has e.
Covers_First(corpus, o, e, i) ==
    /\ corpus[o[i]][e] # Absent
    /\ \A j \in DOMAIN o : corpus[o[j]][e] # Absent => i =< j

\* covered[e].idx = i after the loop: the first input with the highest priority.
Covers(corpus, o, e, i) ==
    /\ corpus[o[i]][e] # Absent
    /\ \A j \in DOMAIN o : /\ corpus[o[j]][e] =< corpus[o[i]][e]
                           /\ corpus[o[j]][e] = corpus[o[i]][e] => i =< j

\* The sets of inputs Minimize may return.
Minimize(corpus) ==
    {{o[i] : i \in {k \in DOMAIN o : \E e \in Elem : Covers(corpus, o, e, k)}} : o \in Sorted(corpus)}
=============================================================================
