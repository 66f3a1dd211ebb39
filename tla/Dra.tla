-------------------------------- MODULE Dra ---------------------------------
(***************************************************************************)
(* 02-dependency, the analysis process: what DataManagement and its basic  *)
(* blocks remember of the inputs received (lib/DMM), and the dependencies  *)
(* that check_input makes of it (lib/DCC).  One thread; the RPCs around it *)
(* are in DependencyServer.                                                *)
(*                                                                         *)
(* The vector dUncoveredAddress is a set here: its order comes from the    *)
(* order of a hash map, and only repeated entries are lost.                *)
(***************************************************************************)
EXTENDS Proto

CONSTANTS
    Branch,         \* <<condition, successor>>: conditional jumps between blocks
    Mods,           \* [Branch -> SUBSET Addr]: blocks the static analysis found
                    \*   to write what the condition reads
    InputRelated    \* the branches for which it found no global variable

ASSUME BranchAssumption == Branch \subseteq Addr \X Addr
ASSUME ModsAssumption == Mods \in [Branch -> SUBSET Addr]
ASSUME InputRelatedAssumption == InputRelated \subseteq Branch
ASSUME SomeSig == Sig # {}

VARIABLES
    cover,      \* DataManagement::cover, and the blocks in state cover
    bbInput,    \* [Addr -> SigBits]: DBasicBlock::input
    dUncoveredAddress,  \* [Sig -> set of conditions]: of each DInput
    current,    \* the sig that check_input works on
    todo        \* the conditions its loop has not sent yet

draVars == <<cover, bbInput, dUncoveredAddress, current, todo>>

\* message Condition: a branch and the call that came to it.
Condition == [branch : Branch, idx : Call]

\* The types of the analysis' maps.
DraTypeOK ==
    /\ cover \subseteq Addr
    /\ bbInput \in [Addr -> SigBits]
    /\ dUncoveredAddress \in [Sig -> SUBSET Condition]
    /\ current \in Sig
    /\ todo \subseteq Condition

DraInit ==
    /\ cover = {}
    /\ bbInput = [a \in Addr |-> [s \in Sig |-> {}]]
    /\ dUncoveredAddress = [s \in Sig |-> {}]
    /\ current = CHOOSE s \in Sig : TRUE
    /\ todo = {}

\* inferSuccessors: the branches out of the blocks of m whose successor is not
\* covered.
Uncovered(m) == {b \in Branch : b[1] \in m.cover /\ b[2] \notin cover}

\* DataManagement::getInput, with update, inferCoverBB and inferUncoverBB of
\* every block of m; addNewInput records the input on the covered blocks and on
\* their uncovered successors.
GetInput(m) ==
    LET touched == m.cover \cup {b[2] : b \in Uncovered(m)}
    IN  /\ todo = {}
        /\ cover' = cover \cup m.cover
        /\ bbInput' = [a \in Addr |->
               IF a \in touched THEN [bbInput[a] EXCEPT ![m.sig] = @ \cup ShiftedIdx(m.call)]
                                ELSE bbInput[a]]
        /\ dUncoveredAddress' = [dUncoveredAddress EXCEPT ![m.sig] =
               {c \in @ \cup [branch : Uncovered(m), idx : {m.call}] : c.branch[2] \notin cover'}]
        /\ current' = m.sig
        /\ todo' = dUncoveredAddress'[m.sig]

\* The bits the manager finds where check_input stored the call: u->idx() is
\* the index itself.
IdxBits(c) == BitsOf(c.idx)

\* write_basic_block_to_address: the inputs of block w.
WriteInputs(w) == bbInput[w]

\* The Dependency that check_input makes of condition c.
DependencyOf(c) ==
    LET wa == IF c.branch \in InputRelated THEN {} ELSE Mods[c.branch]
    IN  [kind |-> IF c.branch \in InputRelated THEN "InputRelated" ELSE "DependencyRelated",
         ua |-> c.branch[2],
         sig |-> current,
         bits |-> IdxBits(c),
         wa |-> wa,
         waInput |-> [w \in Addr |-> IF w \in wa THEN WriteInputs(w) ELSE [s \in Sig |-> {}]]]

\* One turn of the loop of check_input is over.
Sent(c) ==
    /\ c \in todo
    /\ todo' = todo \ {c}
    /\ UNCHANGED <<cover, bbInput, dUncoveredAddress, current>>
=============================================================================
