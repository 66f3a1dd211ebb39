------------------------------ MODULE MCCorpus ------------------------------
(* Corpus with two fuzzers.  pb gives the element of pa and one of its own, b,
   which its simpler form pc gives alone. *)
EXTENDS Corpus, TLC

CONSTANTS f1, f2, pa, pb, pc, a, b

MCFuzzer == {f1, f2}
MCProg == {pa, pb, pc}
MCElem == {a, b}
MCReal == pa :> (a :> 1 @@ b :> -1) @@ pb :> (a :> 0 @@ b :> 0) @@ pc :> (a :> -1 @@ b :> 0)
MCSimpler == pa :> {pa} @@ pb :> {pb, pc} @@ pc :> {pc}
MCSymmetry == Permutations(MCFuzzer)
=============================================================================
