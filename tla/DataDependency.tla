--------------------------- MODULE DataDependency ---------------------------
(***************************************************************************)
(* pkg/dra/DependencyRPC.go: the maps in which the manager keeps what it   *)
(* knows of inputs, uncovered addresses and write addresses, and the three *)
(* entry points that Server.Update calls for every message it has drained: *)
(* addCoveredAddress, addInput, and the treatment of one Dependency.  Only *)
(* the goroutine of Update touches the maps, so each call is one step.     *)
(*                                                                         *)
(* Go iterates maps in any order.  That matters twice: a loop that returns *)
(* on an entry it does not find has visited any part of the others, and    *)
(* the budget of an uncovered address is spent on the first requests.      *)
(*                                                                         *)
(* Left out: WriteAddressStatus, InputStatus, priorities, statistics and   *)
(* the programs' text.  What becomes of a task after addTask is not here.  *)
(***************************************************************************)
EXTENDS Proto

CONSTANT
    NumberDominatorInstructions  \* [Addr -> Nat], from the static analysis

ASSUME DominatorAssumption == NumberDominatorInstructions \in [Addr -> Nat]

TaskCountBase == 1
TaskCountLimitation == 2

VARIABLES
    Coverage,          \* ss.stat.Coverage.Coverage: addresses ever covered
    Input,             \* keys of dataDependency.Input
    inputUA,           \* [Sig -> SUBSET Addr]: Input[sig].UncoveredAddress
    inputWA,           \* [Sig -> [Addr -> SUBSET Bit]]: Input[sig].WriteAddress
    UncoveredAddress,  \* keys of dataDependency.UncoveredAddress
    uaSig,             \* [Addr -> SUBSET Sig]: keys of UncoveredAddress[u].Input
    uaBits,            \* [Addr -> SigBits]: its values
    uaWA,              \* [Addr -> SUBSET Addr]: UncoveredAddress[u].WriteAddress
    uaCount,           \* [Addr -> Nat]: UncoveredAddress[u].Count
    WriteAddress,      \* keys of dataDependency.WriteAddress
    waInput,           \* [Addr -> SigBits]: WriteAddress[w].Input
    waUA,              \* [Addr -> SUBSET Addr]: WriteAddress[w].UncoveredAddress
    CoveredAddress,    \* keys of dataResult.CoveredAddress
    tasks,             \* the pairs <<hash, uncovered address>> given to addTask
    fatal              \* the log.Fatalf that ended the manager, or "none"

inputVars == <<Input, inputUA, inputWA>>
uaVars == <<UncoveredAddress, uaSig, uaBits, uaWA>>
waVars == <<WriteAddress, waInput, waUA>>
ddVars == <<Coverage, inputVars, uaVars, uaCount, waVars, CoveredAddress, tasks, fatal>>

\* The types of the maps; a bit is one of a 32-bit word, and fatal one of the
\* log.Fatalf calls on the way.
DDTypeOK ==
    /\ Coverage \subseteq Addr
    /\ Input \subseteq Sig
    /\ inputUA \in [Sig -> SUBSET Addr]
    /\ inputWA \in [Sig -> [Addr -> SUBSET Bit]]
    /\ UncoveredAddress \subseteq Addr
    /\ uaSig \in [Addr -> SUBSET Sig]
    /\ uaBits \in [Addr -> SigBits]
    /\ uaWA \in [Addr -> SUBSET Addr]
    /\ uaCount \in [Addr -> Nat]
    /\ WriteAddress \subseteq Addr
    /\ waInput \in [Addr -> SigBits]
    /\ waUA \in [Addr -> SUBSET Addr]
    /\ CoveredAddress \subseteq Addr
    /\ tasks \subseteq Hash \X Addr
    /\ fatal \in {"none", "delete sig", "delete input address", "delete wa",
                  "delete wa address", "getTask sig", "getTask writeSig",
                  "getPriority"}

DDInit ==
    /\ Coverage = {}
    /\ Input = {}
    /\ inputUA = [s \in Sig |-> {}]
    /\ inputWA = [s \in Sig |-> [w \in Addr |-> {}]]
    /\ UncoveredAddress = {}
    /\ uaSig = [u \in Addr |-> {}]
    /\ uaBits = [u \in Addr |-> [s \in Sig |-> {}]]
    /\ uaWA = [u \in Addr |-> {}]
    /\ uaCount = [u \in Addr |-> 0]
    /\ WriteAddress = {}
    /\ waInput = [w \in Addr |-> [s \in Sig |-> {}]]
    /\ waUA = [w \in Addr |-> {}]
    /\ CoveredAddress = {}
    /\ tasks = {}
    /\ fatal = "none"

Alive == fatal = "none"

\* What a loop over the keys S may have visited when it returns on the first
\* key that is not present.
VisitedUntilMissing(S, present) ==
    {V \in SUBSET (S \cap present) : S \subseteq present => V = S}

-----------------------------------------------------------------------------
(* getTasks and addTasks: requests for tasks, within the budget *)

\* A call of addTasks that has a task to make: for uncovered address ua and
\* write address wa, the calls bits of sig and the calls writeBits of writeSig.
Request(u, w, s, b, ws, wb) ==
    [ua |-> u, wa |-> w, sig |-> s, bits |-> b, writeSig |-> ws, writeBits |-> wb]

\* The pairs addTask receives for a set of requests.
TasksOf(R) ==
    UNION {{<<[sig |-> r.sig, index |-> i, writeSig |-> r.writeSig, writeIndex |-> j], r.ua>> :
               i \in r.bits, j \in r.writeBits} : r \in R}

\* The number of tasks getTasks adds to Count for the requests R.
Weight(R) == Cardinality(UNION {{r} \X (r.bits \X r.writeBits) : r \in R})

Budget(u) == (NumberDominatorInstructions[u] + TaskCountBase) * TaskCountLimitation

\* Mutant: getTasks without the test of Count.
Accepted_NoBudget(R, count) == {R}

\* getTasks accepts the requests for an address, grouped by write address, as
\* long as Count is below the budget; the last one accepted may overshoot it.
Accepted(R, count) ==
    {A \in SUBSET R :
        \A u \in {r.ua : r \in R} :
            LET Ru == {r \in R : r.ua = u}
                Au == A \cap Ru
            IN  \/ Au = {} /\ count[u] >= Budget(u)
                \/ \E last \in Au :
                    /\ count[u] + Weight(Au \ {last}) < Budget(u)
                    /\ Au = Ru \/ count[u] + Weight(Au) >= Budget(u)
                    /\ \A r \in Ru \ Au : r.wa = last.wa \/ \A q \in Au : q.wa # r.wa}

\* Mutant: getTask goes on without the program of the writer.
GetTaskFatal_NoWriter(A, inp, uwa) ==
    IF \E r \in A : r.sig \notin inp THEN "getTask sig" ELSE "none"

\* The log.Fatalf that getTask or getPriority reaches for an accepted request,
\* with the maps as they are by then.
GetTaskFatal(A, inp, uwa) ==
    IF \E r \in A : r.sig \notin inp THEN "getTask sig"
    ELSE IF \E r \in A : r.writeSig \notin inp THEN "getTask writeSig"
    ELSE IF \E r \in A : r.wa \notin uwa[r.ua] THEN "getPriority"
    ELSE "none"

\* addTasks for the requests R, the maps being inp, uwa and count by then.
AddTasks(R, inp, uwa, count) ==
    \E A \in Accepted(R, count) :
        /\ fatal' = GetTaskFatal(A, inp, uwa)
        /\ tasks' = tasks \cup TasksOf(A)
        /\ uaCount' = [u \in Addr |-> count[u] + Weight({r \in A : r.ua = u})]

-----------------------------------------------------------------------------
(* The three entry points *)

\* The first log.Fatalf that deleteUncoveredAddress reaches for the addresses D.
DeleteFatal(D) ==
    IF \E u \in D : ~ uaSig[u] \subseteq Input THEN "delete sig"
    ELSE IF \E u \in D : \E s \in uaSig[u] : u \notin inputUA[s] THEN "delete input address"
    ELSE IF \E u \in D : ~ uaWA[u] \subseteq WriteAddress THEN "delete wa"
    ELSE IF \E u \in D : \E w \in uaWA[u] : u \notin waUA[w] THEN "delete wa address"
    ELSE "none"

\* Mutant: deleteUncoveredAddress drops the address without keeping the result.
AddCoveredAddress_NoResult(m) ==
    LET D == m.cover \cap UncoveredAddress
    IN  /\ Alive
        /\ Coverage' = Coverage \cup m.cover
        /\ inputUA' = [s \in Sig |-> inputUA[s] \ {u \in D : s \in uaSig[u]}]
        /\ waUA' = [w \in Addr |-> waUA[w] \ {u \in D : w \in uaWA[u]}]
        /\ UncoveredAddress' = UncoveredAddress \ D
        /\ UNCHANGED <<Input, inputWA, uaSig, uaBits, uaWA, uaCount, WriteAddress, waInput,
                       CoveredAddress, tasks, fatal>>

\* addCoveredAddress, checkUncoveredAddress, deleteUncoveredAddress.
AddCoveredAddress(m) ==
    LET D == m.cover \cap UncoveredAddress
    IN  /\ Alive
        /\ Coverage' = Coverage \cup m.cover
        /\ fatal' = DeleteFatal(D)
        /\ inputUA' = [s \in Sig |-> inputUA[s] \ {u \in D : s \in uaSig[u]}]
        /\ waUA' = [w \in Addr |-> waUA[w] \ {u \in D : w \in uaWA[u]}]
        /\ CoveredAddress' = CoveredAddress \cup D
        /\ UncoveredAddress' = UncoveredAddress \ D
        /\ UNCHANGED <<Input, inputWA, uaSig, uaBits, uaWA, uaCount, WriteAddress, waInput, tasks>>

\* The bits of the call that are new to write address w (usefulIndexBits).
UsefulIndexBits(m, w) == ShiftedIndex(m.call) \ waInput[w][m.sig]

\* addWriteAddressTask for every write address that m covers; the loop over the
\* uncovered addresses of w has visited V[w] when it ends or returns.
WriteAddressRequests(m, V) ==
    {Request(u, w, s, uaBits[u][s], m.sig, UsefulIndexBits(m, w)) :
        u \in UncoveredAddress, w \in DOMAIN V, s \in Sig}

\* addInput of an input that a fuzzer sent: it has calls and no uncovered address.
AddInput(m) ==
    LET hit == m.cover \cap WriteAddress
    IN  /\ Alive
        /\ Input' = Input \cup {m.sig}
        /\ waInput' = [w \in Addr |->
               IF w \in hit THEN [waInput[w] EXCEPT ![m.sig] = @ \cup ShiftedIndex(m.call)]
                            ELSE waInput[w]]
        /\ inputWA' = [inputWA EXCEPT ![m.sig] = [w \in Addr |->
               IF w \in hit THEN @[w] \cup ShiftedIndex(m.call) ELSE @[w]]]
        /\ \E V \in [hit -> SUBSET UncoveredAddress] :
               /\ \A w \in hit : V[w] \in VisitedUntilMissing(waUA[w], UncoveredAddress)
               /\ AddTasks({r \in WriteAddressRequests(m, V) :
                               /\ r.ua \in V[r.wa] /\ r.sig \in uaSig[r.ua]
                               /\ r.bits # {} /\ r.writeBits # {}},
                           Input', uaWA, uaCount)
        /\ UNCHANGED <<Coverage, inputUA, uaVars, WriteAddress, waUA, CoveredAddress>>

\* addWriteAddress for the write addresses of d.
AddWriteAddress(d) ==
    /\ WriteAddress' = WriteAddress \cup d.wa
    /\ waInput' = [w \in Addr |->
           IF w \in d.wa THEN [s \in Sig |-> waInput[w][s] \cup d.waInput[w][s]] ELSE waInput[w]]
    /\ waUA' = [w \in Addr |-> IF w \in d.wa THEN waUA[w] \cup {d.ua} ELSE waUA[w]]
    /\ inputWA' = [s \in Sig |-> [w \in Addr |->
           IF s \in Input /\ w \in d.wa THEN inputWA[s][w] \cup d.waInput[w][s] ELSE inputWA[s][w]]]

\* Mutant: the test of the coverage is dropped.
AddUncoveredAddress_NoTest(d, S) ==
    /\ UncoveredAddress' = UncoveredAddress \cup {d.ua}
    /\ uaSig' = [uaSig EXCEPT ![d.ua] = @ \cup S]
    /\ uaBits' = [uaBits EXCEPT ![d.ua] = [s \in Sig |-> IF s \in S THEN @[s] \cup d.bits ELSE @[s]]]
    /\ uaWA' = [uaWA EXCEPT ![d.ua] = @ \cup d.wa]

\* addUncoveredAddress, and then addUncoveredAddressMapInput for the sigs S.
AddUncoveredAddress(d, S) ==
    IF d.ua \in Coverage
    THEN UNCHANGED uaVars
    ELSE /\ UncoveredAddress' = UncoveredAddress \cup {d.ua}
         /\ uaSig' = [uaSig EXCEPT ![d.ua] = @ \cup S]
         /\ uaBits' = [uaBits EXCEPT ![d.ua] = [s \in Sig |-> IF s \in S THEN @[s] \cup d.bits ELSE @[s]]]
         /\ uaWA' = [uaWA EXCEPT ![d.ua] = @ \cup d.wa]

\* addInputTask: nothing for an address that is no longer uncovered.
InputRequests(d) ==
    {r \in {Request(d.ua, w, d.sig, d.bits, s, waInput'[w][s]) : w \in uaWA'[d.ua], s \in Sig} :
        r.ua \in UncoveredAddress' /\ r.bits # {} /\ r.writeBits # {}}

\* Mutant: mergeInput forgets the uncovered addresses.
AddInputOf_NoMerge(d) ==
    /\ Input' = Input \cup {d.sig}
    /\ inputUA' = IF d.sig \in Input THEN inputUA ELSE [inputUA EXCEPT ![d.sig] = {d.ua}]

\* addInput of the Input of a dependency: it has no calls.
AddInputOf(d) ==
    /\ Input' = Input \cup {d.sig}
    /\ inputUA' = [inputUA EXCEPT ![d.sig] = @ \cup {d.ua}]

\* Mutant: addInputTask before addInput.
AddDependencyRelated_Swapped(d) ==
    /\ Alive
    /\ d.kind = "DependencyRelated"
    /\ AddWriteAddress(d)
    /\ AddUncoveredAddress(d, {d.sig})
    /\ AddInputOf(d)
    /\ AddTasks(InputRequests(d), Input, uaWA', uaCount)
    /\ UNCHANGED <<Coverage, CoveredAddress>>

\* Update's treatment of one Dependency.
AddDependencyRelated(d) ==
    /\ Alive
    /\ d.kind = "DependencyRelated"
    /\ AddWriteAddress(d)
    /\ AddUncoveredAddress(d, {d.sig})
    /\ AddInputOf(d)
    /\ \E V \in VisitedUntilMissing(uaWA'[d.ua], WriteAddress') :
           AddTasks({r \in InputRequests(d) : r.wa \in V}, Input', uaWA', uaCount)
    /\ UNCHANGED <<Coverage, CoveredAddress>>

AddInputRelated(d) ==
    /\ Alive
    /\ d.kind = "InputRelated"
    /\ AddUncoveredAddress(d, {})
    /\ UNCHANGED <<Coverage, inputVars, waVars, uaCount, CoveredAddress, tasks, fatal>>

AddDependency(d) == AddDependencyRelated(d) \/ AddInputRelated(d)

-----------------------------------------------------------------------------
\* Update hands the maps any drained message, in any order.
DDNext ==
    \/ \E m \in NewInputMsg : AddCoveredAddress(m) \/ AddInput(m)
    \/ \E d \in DependencyMsg : AddDependency(d)

DDSpec == DDInit /\ [][DDNext]_ddVars

-----------------------------------------------------------------------------
\* The three places that say an address is (un)covered agree: an address the
\* manager still makes tasks for is in no coverage, and dataResult holds only
\* covered addresses (addCoveredAddress against addUncoveredAddress: a late
\* Dependency must not revive a covered address).
CoverageAgrees ==
    /\ UncoveredAddress \cap Coverage = {}
    /\ CoveredAddress \subseteq Coverage

\* The back references of the maps agree: an input of an uncovered address is
\* known and names the address, and likewise for its write addresses.  The
\* log.Fatalf calls of deleteUncoveredAddress and getPriority rely on it.
MapsAgree ==
    \A u \in UncoveredAddress :
        /\ \A s \in uaSig[u] : s \in Input /\ u \in inputUA[s]
        /\ \A w \in Addr : w \in uaWA[u] <=> w \in WriteAddress /\ u \in waUA[w]

\* Of the log.Fatalf calls on the way only one can be reached: getTask's "error
\* writeSig", when an analysis names a writer the manager has not added yet.
OnlyWriteSigFatal == fatal \in {"none", "getTask writeSig"}

\* While the manager lives every task runs two inputs it knows (so that getTask
\* had their programs), for an address the analysis reported.
TasksKnown ==
    Alive => \A t \in tasks :
        /\ t[1].sig \in Input /\ t[1].writeSig \in Input
        /\ t[2] \in UncoveredAddress \cup CoveredAddress

\* No request for u asks for more pairs of calls: all calls listed with u, of any
\* input, times all calls listed with a write address.
LargestRequest(u) ==
    Cardinality(UNION {uaBits[u][s] : s \in Sig})
      * Cardinality(UNION {waInput[w][s] : w \in Addr, s \in Sig})

\* getTasks stops at the budget of an address, however often inputs and
\* dependencies repeat: the distinct tasks made for it are at most its Count,
\* which passes the budget by less than LargestRequest.
BudgetBound ==
    \A u \in Addr :
        /\ Cardinality({t \in tasks : t[2] = u}) <= uaCount[u]
        /\ uaCount[u] < Budget(u) + LargestRequest(u)

\* An address goes from unknown to uncovered to covered and never back, and the
\* manager never forgets coverage, an input or a write address.
AddressLifecycle ==
    [][/\ Coverage \subseteq Coverage' /\ CoveredAddress \subseteq CoveredAddress'
       /\ Input \subseteq Input' /\ WriteAddress \subseteq WriteAddress'
       /\ UncoveredAddress \subseteq UncoveredAddress' \cup CoveredAddress'
       /\ CoveredAddress \cap UncoveredAddress' = {}]_ddVars
=============================================================================
