------------------------------- MODULE Proto --------------------------------
(***************************************************************************)
(* The messages of 05-proto that the three processes exchange, cut down to *)
(* what the properties tell apart, and the two conversions of call indices *)
(* that the messages go through.                                           *)
(*                                                                         *)
(* An input (a program) is known by its sig, a kernel address is a model   *)
(* value, a call of a program is its index.  A uint32 that is read "by     *)
(* bits" is the set of its bits.                                           *)
(***************************************************************************)
EXTENDS Integers, FiniteSets

CONSTANTS
    Sig,    \* the programs (hash of the text)
    Addr,   \* the addresses: blocks covered, uncovered branches, writes
    Call    \* the indices of the calls of a program

WordSize == 32

Bit == 0 .. WordSize - 1

ASSUME CallAssumption == Call \subseteq Nat /\ IsFiniteSet(Call)
ASSUME SigAssumption == IsFiniteSet(Sig)
ASSUME AddrAssumption == IsFiniteSet(Addr)

\* Mutant: calls counted from one.
ShiftedIndex_OneBased(i) == {i + 1}

\* uint32(1 << index) in Go: a call past the word has no bit.
ShiftedIndex(i) == IF i < WordSize THEN {i} ELSE {}

\* 1U << idx in C++: undefined past the word; the shift instruction of the
\* machines the analysis runs on uses the index modulo the word size.
ShiftedIdx(i) == {i % WordSize}

\* The bits of a uint32 field that holds the call index n (below 2^31).
BitsOf(n) == {b \in 0 .. WordSize - 2 : (n \div 2^b) % 2 = 1}

\* message Input as SendNewInput carries it: one triaged call of one program
\* and the addresses it covers (Call -1, "extra", has an empty cover).
NewInputMsg == [sig : Sig, call : Call, cover : SUBSET Addr]

\* map<string, uint32> input of a WriteAddress: absent and zero are alike for
\* every reader.
SigBits == [Sig -> SUBSET Bit]

\* message Dependency: the uncovered address, the input that reaches its
\* condition with the bits sent for its call, the write addresses with the
\* inputs that reach them.  A condition that depends on an argument has no
\* write address.
DependencyMsg ==
    {d \in [kind : {"DependencyRelated", "InputRelated"},
            ua : Addr,
            sig : Sig,
            bits : SUBSET Bit,
            wa : SUBSET Addr,
            waInput : [Addr -> SigBits]] : d.kind = "InputRelated" => d.wa = {}}

\* Task.ComputeHash: what identifies a task.
Hash == [sig : Sig, index : Bit, writeSig : Sig, writeIndex : Bit]
=============================================================================
