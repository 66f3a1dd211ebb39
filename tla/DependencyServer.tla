-------------------------- MODULE DependencyServer --------------------------
(***************************************************************************)
(* pkg/dra/DependencyRPCServer.go: the queues between the RPC handlers and *)
(* Server.Update, composed with the maps that Update maintains             *)
(* (DataDependency), the analysis process (Dra) and the fuzzers, which     *)
(* send each of their new inputs once.                                     *)
(*                                                                         *)
(* The handlers have value receivers: each call works on a copy of Server  *)
(* made when it starts.  Update takes a queue by storing a new *Inputs in  *)
(* its own Server, so a call that started before holds the old one, whose  *)
(* mutex is shared and whose content nobody reads any more.                *)
(***************************************************************************)
EXTENDS DataDependency, Dra, Sequences

CONSTANTS
    NewInputs,  \* the Input messages that the fuzzers send
    NoMsg,      \* no Input message
    MaxLost     \* the calls of the analysis that may fail

ASSUME NewInputsAssumption == NewInputs \subseteq NewInputMsg
ASSUME NoMsgAssumption == NoMsg \notin NewInputs
ASSUME MaxLostAssumption == MaxLost \in Nat

VARIABLES
    sender,         \* [NewInputs -> ...]: where the SendNewInput call of each is
    stale,          \* the SendNewInput calls that hold a replaced coveredInput
    newInput,       \* ss.newInput.Input, taken from the end
    coveredInput,   \* ss.coveredInput.Input of the current Server
    input,          \* ss.input.Input of the current Server
    newDependency,  \* ss.newDependency.newDependency
    upc,            \* the phase of Update
    work,           \* what Update has drained and not treated yet
    getter,         \* where the analysis' GetNewInput call is
    got,            \* the message it holds
    getStale,       \* it holds a replaced input
    lost,           \* calls of the analysis that have failed
    overtaken       \* history: some GetNewInput filed its input too late for
                    \*   the Update that was running, or in a replaced *Inputs

rpcVars == <<sender, stale, newInput, coveredInput, input, newDependency>>
getVars == <<getter, got, getStale, lost>>
updateVars == <<upc, work>>
vars == <<ddVars, draVars, rpcVars, getVars, updateVars, overtaken>>

\* The types of the queues and phases: what Update has drained is treated, to
\* the last message, by the phase it was drained for.
TypeOK ==
    /\ DDTypeOK
    /\ DraTypeOK
    /\ sender \in [NewInputs -> {"fuzzer", "entered", "queued", "done"}]
    /\ stale \subseteq NewInputs
    /\ newInput \in Seq(NewInputs)
    /\ coveredInput \in Seq(NewInputs)
    /\ input \in Seq(NewInputs)
    /\ newDependency \in Seq(DependencyMsg)
    /\ upc \in {"idle", "covered", "input", "dependency"}
    /\ work \in IF upc = "dependency" THEN Seq(DependencyMsg) ELSE Seq(NewInputs)
    /\ getter \in {"idle", "entered", "popped", "reply"}
    /\ got \in NewInputs \cup {NoMsg}
    /\ getStale \in BOOLEAN
    /\ lost \in 0 .. MaxLost
    /\ overtaken \in BOOLEAN

Init ==
    /\ DDInit
    /\ DraInit
    /\ sender = [m \in NewInputs |-> "fuzzer"]
    /\ stale = {}
    /\ newInput = <<>>
    /\ coveredInput = <<>>
    /\ input = <<>>
    /\ newDependency = <<>>
    /\ upc = "idle"
    /\ work = <<>>
    /\ getter = "idle"
    /\ got = NoMsg
    /\ getStale = FALSE
    /\ lost = 0
    /\ overtaken = FALSE

-----------------------------------------------------------------------------
(* SendNewInput, called by the fuzzers *)

\* The call starts: Server is copied.
SendNewInputEnter(m) ==
    /\ Alive
    /\ sender[m] = "fuzzer"
    /\ sender' = [sender EXCEPT ![m] = "entered"]
    /\ UNCHANGED <<ddVars, draVars, stale, newInput, coveredInput, input, newDependency,
                   getVars, updateVars, overtaken>>

\* The critical section of newInputMu; ss.newInput is never replaced.
SendNewInputQueue(m) ==
    /\ Alive
    /\ sender[m] = "entered"
    /\ sender' = [sender EXCEPT ![m] = "queued"]
    /\ newInput' = Append(newInput, m)
    /\ UNCHANGED <<ddVars, draVars, stale, coveredInput, input, newDependency,
                   getVars, updateVars, overtaken>>

\* The critical section of coveredInputMu, and the return.
SendNewInputCovered(m) ==
    /\ Alive
    /\ sender[m] = "queued"
    /\ sender' = [sender EXCEPT ![m] = "done"]
    /\ coveredInput' = IF m \in stale THEN coveredInput ELSE Append(coveredInput, m)
    /\ UNCHANGED <<ddVars, draVars, stale, newInput, input, newDependency,
                   getVars, updateVars, overtaken>>

-----------------------------------------------------------------------------
(* The loop of the analysis: GetNewInput, getInput, SendDependency *)

\* The call starts: Server is copied.
GetNewInputEnter ==
    /\ Alive
    /\ getter = "idle" /\ todo = {}
    /\ getter' = "entered"
    /\ UNCHANGED <<ddVars, draVars, rpcVars, updateVars, got, getStale, lost, overtaken>>

\* Mutant: one message stays in the queue.
GetNewInputPop_KeepsOne ==
    /\ Alive
    /\ getter = "entered"
    /\ IF Len(newInput) < 2
       THEN /\ getter' = "idle"
            /\ getStale' = FALSE
            /\ UNCHANGED <<got, newInput>>
       ELSE /\ getter' = "popped"
            /\ got' = newInput[Len(newInput)]
            /\ newInput' = SubSeq(newInput, 1, Len(newInput) - 1)
            /\ UNCHANGED getStale
    /\ UNCHANGED <<ddVars, draVars, sender, stale, coveredInput, input, newDependency,
                   updateVars, lost, overtaken>>

\* The critical section of newInputMu: the last message, if any.  A reply
\* without message leaves the analysis as it was.
GetNewInputPop ==
    /\ Alive
    /\ getter = "entered"
    /\ IF newInput = <<>>
       THEN /\ getter' = "idle"
            /\ getStale' = FALSE
            /\ UNCHANGED <<got, newInput>>
       ELSE /\ getter' = "popped"
            /\ got' = newInput[Len(newInput)]
            /\ newInput' = SubSeq(newInput, 1, Len(newInput) - 1)
            /\ UNCHANGED getStale
    /\ UNCHANGED <<ddVars, draVars, sender, stale, coveredInput, input, newDependency,
                   updateVars, lost, overtaken>>

\* Mutant: the input is handed out and not filed.
GetNewInputFile_None ==
    /\ Alive
    /\ getter = "popped"
    /\ getter' = "reply"
    /\ UNCHANGED <<ddVars, draVars, rpcVars, updateVars, got, getStale, lost, overtaken>>

\* The critical section of inputMu.
GetNewInputFile ==
    /\ Alive
    /\ getter = "popped"
    /\ getter' = "reply"
    /\ input' = IF getStale THEN input ELSE Append(input, got)
    /\ overtaken' = (overtaken \/ getStale \/ upc \in {"input", "dependency"})
    /\ UNCHANGED <<ddVars, draVars, sender, stale, newInput, coveredInput, newDependency,
                   updateVars, got, getStale, lost>>

\* The analysis has the reply.
GetNewInputReply ==
    /\ getter = "reply"
    /\ getter' = "idle"
    /\ got' = NoMsg
    /\ getStale' = FALSE
    /\ GetInput(got)
    /\ UNCHANGED <<ddVars, rpcVars, updateVars, lost, overtaken>>

\* The call fails on the way back: GetNewInput of the client returns nullptr.
GetNewInputLost ==
    /\ getter = "reply"
    /\ lost < MaxLost
    /\ lost' = lost + 1
    /\ getter' = "idle"
    /\ got' = NoMsg
    /\ getStale' = FALSE
    /\ UNCHANGED <<ddVars, draVars, rpcVars, updateVars, overtaken>>

\* One turn of check_input: the call, and the critical section of dependencyMu.
SendDependency(c) ==
    /\ Alive
    /\ Sent(c)
    /\ newDependency' = Append(newDependency, DependencyOf(c))
    /\ UNCHANGED <<ddVars, sender, stale, newInput, coveredInput, input, getVars, updateVars,
                   overtaken>>

\* The call fails; check_input goes on.
SendDependencyLost(c) ==
    /\ Sent(c)
    /\ lost < MaxLost
    /\ lost' = lost + 1
    /\ UNCHANGED <<ddVars, rpcVars, updateVars, getter, got, getStale, overtaken>>

-----------------------------------------------------------------------------
(* Server.Update, in the loop of the manager *)

\* Mutant: the queue is replaced before it is copied.
UpdateTakeCovered_Swapped ==
    /\ Alive
    /\ upc = "idle"
    /\ upc' = "covered"
    /\ coveredInput' = <<>>
    /\ stale' = stale \cup {m \in NewInputs : sender[m] \in {"entered", "queued"}}
    /\ UNCHANGED <<ddVars, draVars, sender, newInput, input, newDependency, work, getVars, overtaken>>

\* Every call of SendNewInput that has not filed its message holds the old queue.
UpdateTakeCovered ==
    /\ Alive
    /\ upc = "idle"
    /\ upc' = "covered"
    /\ work' = coveredInput
    /\ coveredInput' = <<>>
    /\ stale' = stale \cup {m \in NewInputs : sender[m] \in {"entered", "queued"}}
    /\ UNCHANGED <<ddVars, draVars, sender, newInput, input, newDependency, getVars, overtaken>>

UpdateTakeInput ==
    /\ Alive
    /\ upc = "covered" /\ work = <<>>
    /\ upc' = "input"
    /\ work' = input
    /\ input' = <<>>
    /\ getStale' = (getStale \/ getter \in {"entered", "popped"})
    /\ UNCHANGED <<ddVars, draVars, sender, stale, newInput, coveredInput, newDependency,
                   getter, got, lost, overtaken>>

\* Mutant: the last dependency stays in the queue.
UpdateTakeDependency_KeepsLast ==
    /\ Alive
    /\ upc = "input" /\ work = <<>>
    /\ upc' = "dependency"
    /\ work' = SubSeq(newDependency, 1, Len(newDependency) - 1)
    /\ newDependency' = IF newDependency = <<>> THEN <<>>
                        ELSE <<newDependency[Len(newDependency)]>>
    /\ UNCHANGED <<ddVars, draVars, sender, stale, newInput, coveredInput, input, getVars,
                   overtaken>>

\* newDependency is emptied in place.
UpdateTakeDependency ==
    /\ Alive
    /\ upc = "input" /\ work = <<>>
    /\ upc' = "dependency"
    /\ work' = newDependency
    /\ newDependency' = <<>>
    /\ UNCHANGED <<ddVars, draVars, sender, stale, newInput, coveredInput, input, getVars,
                   overtaken>>

\* One turn of the loop of the phase.
UpdateStep ==
    /\ work # <<>>
    /\ work' = Tail(work)
    /\ \/ upc = "covered" /\ AddCoveredAddress(Head(work))
       \/ upc = "input" /\ AddInput(Head(work))
       \/ upc = "dependency" /\ AddDependency(Head(work))
    /\ UNCHANGED <<draVars, rpcVars, getVars, upc, overtaken>>

\* The phases that follow deal with the tasks.
UpdateEnd ==
    /\ Alive
    /\ upc = "dependency" /\ work = <<>>
    /\ upc' = "idle"
    /\ UNCHANGED <<ddVars, draVars, rpcVars, getVars, work, overtaken>>

Update == UpdateTakeCovered \/ UpdateTakeInput \/ UpdateTakeDependency \/ UpdateStep \/ UpdateEnd

-----------------------------------------------------------------------------
SendNewInput(m) == SendNewInputEnter(m) \/ SendNewInputQueue(m) \/ SendNewInputCovered(m)

Analysis ==
    \/ GetNewInputEnter \/ GetNewInputPop \/ GetNewInputFile \/ GetNewInputReply
    \/ \E c \in todo : SendDependency(c)

Failure == GetNewInputLost \/ \E c \in todo : SendDependencyLost(c)

Next ==
    \/ \E m \in NewInputs : SendNewInput(m)
    \/ Analysis
    \/ Failure
    \/ Update

Spec == Init /\ [][Next]_vars

\* Update runs in a ticker loop of the manager, the analysis polls for ever, and
\* a handler that has started finishes.  A fuzzer need not send anything, and
\* no call needs to fail.
Fairness ==
    /\ WF_vars(Update)
    /\ WF_vars(Analysis)
    /\ \A m \in NewInputs : WF_vars(SendNewInputQueue(m) \/ SendNewInputCovered(m))

FairSpec == Spec /\ Fairness

-----------------------------------------------------------------------------
InSeq(x, q) == \E i \in 1 .. Len(q) : q[i] = x

\* Nothing is on its way.
Quiet ==
    /\ Alive
    /\ \A m \in NewInputs : sender[m] \in {"fuzzer", "done"}
    /\ newInput = <<>> /\ coveredInput = <<>> /\ input = <<>> /\ newDependency = <<>>
    /\ upc = "idle" /\ getter = "idle" /\ todo = {}

\* No call has failed, and none has worked on a queue that Update had replaced.
Undisturbed == lost = 0 /\ stale = {} /\ ~overtaken

\* The message's call has returned.
Received(m) == sender[m] = "done"

\* An input whose SendNewInput has returned is queued, being treated, or has its
\* addresses in the coverage, unless the call held a replaced coveredInput.
ReceivedChecked ==
    \A m \in NewInputs \ stale :
        Received(m) => \/ InSeq(m, coveredInput)
                       \/ upc = "covered" /\ InSeq(m, work)
                       \/ m.cover \subseteq Coverage

\* getTask finds the writers that the analysis names, unless a GetNewInput filed
\* an input after the running Update had taken the queue of inputs, or in a
\* queue that Update had replaced: the input is filed before the analysis
\* hears of it, and Update adds inputs before it treats dependencies.
WritersKnown == Alive \/ overtaken

\* When nothing is on its way and nothing has been disturbed, the manager and
\* the analysis agree on the coverage, and the manager's uncovered addresses are
\* exactly the branches that start in covered code and have not been taken,
\* whatever the order in which inputs, coverage and dependencies came.
FrontierExact ==
    Quiet /\ Undisturbed =>
        /\ Coverage = cover
        /\ UncoveredAddress = {b[2] : b \in {b \in Branch : b[1] \in cover}} \ cover

\* m comes to block w, or to the condition of a branch to w.
Borders(m, w) == w \in m.cover \/ \E b \in Branch : b[2] = w /\ b[1] \in m.cover

\* The branches to u whose condition the analysis found to read a global variable.
BranchesTo(u) == {b \in Branch \ InputRelated : b[2] = u}

\* Every task has its purpose: its program comes to the condition of a branch to
\* the task's address, and the call writeIndex of its writer comes at least to
\* the condition before a block that writes what the condition of a branch to the
\* address reads.  (Two branches may lead to one address; the maps do not keep
\* them apart, so the two conditions need not be the same.)
TaskPurpose ==
    Alive => \A t \in tasks :
        /\ \E b \in BranchesTo(t[2]), m \in NewInputs :
               m.sig = t[1].sig /\ b[1] \in m.cover /\ sender[m] # "fuzzer"
        /\ \E b \in BranchesTo(t[2]), m \in NewInputs : \E w \in Mods[b] :
               /\ m.sig = t[1].writeSig /\ t[1].writeIndex \in ShiftedIdx(m.call)
               /\ Borders(m, w) /\ sender[m] # "fuzzer"

\* Every received input comes to the analysis, which takes the newest first,
\* unless the manager has ended or a call has failed (nothing is sent twice).
EveryInputAnalysed ==
    <>[](\A m \in NewInputs :
            Received(m) => m.cover \subseteq cover \/ ~Alive \/ lost > 0)

\* A branch that the analysis goes on seeing from one side only comes to be an
\* uncovered address of the manager, under the same conditions.
EveryBranchReported ==
    <>[](\A b \in Branch :
            b[1] \in cover /\ b[2] \notin cover =>
                b[2] \in UncoveredAddress \cup Coverage \/ ~Alive \/ lost > 0)

-----------------------------------------------------------------------------
(* What comments of the code say, and the code does not do *)

\* The assertion of getTask, "getTask with error writeSig".
WriteSigFound == fatal # "getTask writeSig"

\* "inputs of new test cases, used to check write addresses" (input): when all is
\* quiet and undisturbed, an input that came to a known write address is listed
\* with it.
WriteAddressChecked ==
    Quiet /\ Undisturbed =>
        \A m \in NewInputs : Received(m) =>
            \A w \in m.cover \cap WriteAddress : ShiftedIndex(m.call) \subseteq waInput[w][m.sig]

\* "sig, index by bits" (UncoveredAddress.input): the call of a task is one that
\* came to the condition of the task's address.
TaskCallReachesCondition ==
    Alive => \A t \in tasks : \E m \in NewInputs, b \in Branch :
        /\ m.sig = t[1].sig /\ t[1].index \in ShiftedIndex(m.call)
        /\ b[1] \in m.cover /\ b[2] = t[2]
=============================================================================
