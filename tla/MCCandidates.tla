---------------------------- MODULE MCCandidates ----------------------------
(* Candidates with two fuzzers.  pa and pb give one element each, pc both, and pb is a
   simpler form of pc; pb and pc are disabled in one of the two configurations; px no
   longer deserializes. *)
EXTENDS Candidates, TLC

CONSTANTS f1, f2, pa, pb, pc, px, a, b

MCFuzzer == {f1, f2}
MCProg == {pa, pb, pc, px}
MCElem == {a, b}
Gives(S) == [e \in MCElem |-> IF e \in S THEN 0 ELSE -1]
MCReal == pa :> Gives({a}) @@ pb :> Gives({b}) @@ pc :> Gives({a, b}) @@ px :> Gives({})
MCSimpler == [p \in MCProg |-> IF p = pc THEN {pb, pc} ELSE {p}]
MCConfigs == {[disabled |-> {}, hub |-> TRUE],
              [disabled |-> {pb, pc}, hub |-> FALSE]}
MCBroken == {px}
MCFirstDb == {pa, px}
MCHubProgs == {pb}
=============================================================================
