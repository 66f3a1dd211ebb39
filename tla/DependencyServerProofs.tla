----------------------- MODULE DependencyServerProofs -----------------------
(***************************************************************************)
(* The invariants of the manager's maps, for any programs, addresses and   *)
(* messages.  The composition implements the specification of the maps, so *)
(* that the theorems about the maps hold of the whole system; the inputs,  *)
(* writers and branches that come to the maps are those of the coverage,   *)
(* for any graph, any static analysis and any inputs.                      *)
(***************************************************************************)
EXTENDS DependencyServer, FiniteSetTheorems, TLAPS

USE ZenonT(30)

-----------------------------------------------------------------------------
(* The maps: DataDependency *)

\* An address that is neither covered nor reported is in no map.
FreshUnused ==
    \A u \in Addr \ (UncoveredAddress \cup Coverage) :
        /\ uaSig[u] = {}
        /\ uaWA[u] = {}
        /\ \A w \in Addr : u \notin waUA[w]

\* Only known write addresses refer to uncovered addresses.
WriteKeys == \A w \in Addr \ WriteAddress : waUA[w] = {}

\* The inductive invariant.
DDInv ==
    /\ DDTypeOK
    /\ CoverageAgrees
    /\ MapsAgree
    /\ OnlyWriteSigFatal
    /\ FreshUnused
    /\ WriteKeys

\* The requests that the loops can make.
RequestSet ==
    [ua : Addr, wa : Addr, sig : Sig, bits : SUBSET Bit, writeSig : Sig, writeBits : SUBSET Bit]

-----------------------------------------------------------------------------
\* The bits of a word are finitely many.
LEMMA BitFinite == IsFiniteSet(Bit)
<1>1. 0 \in Int /\ 31 \in Int
  BY SMTT(60)
<1>2. IsFiniteSet(0 .. 31)
  BY <1>1, FS_Interval
<1>3. Bit = 0 .. 31
  BY SMTT(60) DEF Bit, WordSize
<1> QED BY <1>2, <1>3

\* A set of requests is finite: it has no more elements than its fields allow.
LEMMA RequestsFinite ==
    ASSUME NEW R \in SUBSET RequestSet
    PROVE  IsFiniteSet(R)
<1> DEFINE T == (Addr \X Addr) \X ((Sig \X Sig) \X ((SUBSET Bit) \X (SUBSET Bit)))
           f == [r \in R |-> <<<<r.ua, r.wa>>, <<<<r.sig, r.writeSig>>, <<r.bits, r.writeBits>>>>>>]
<1>1. IsFiniteSet(Bit)
  BY BitFinite
<1>2. IsFiniteSet(SUBSET Bit)
  BY <1>1, FS_SUBSET
<1>3. IsFiniteSet((SUBSET Bit) \X (SUBSET Bit))
  BY <1>2, FS_Product
<1>4. IsFiniteSet(Sig \X Sig) /\ IsFiniteSet(Addr \X Addr)
  BY FS_Product, SigAssumption, AddrAssumption
<1>5. IsFiniteSet((Sig \X Sig) \X ((SUBSET Bit) \X (SUBSET Bit)))
  BY <1>3, <1>4, FS_Product
<1>6. IsFiniteSet(T)
  BY <1>4, <1>5, FS_Product
<1>7. f \in [R -> T]
  <2> SUFFICES ASSUME NEW r \in R
               PROVE  <<<<r.ua, r.wa>>, <<<<r.sig, r.writeSig>>, <<r.bits, r.writeBits>>>>>> \in T
    OBVIOUS
  <2> QED BY DEF RequestSet
<1>8. ASSUME NEW r \in R, NEW q \in R, f[r] = f[q] PROVE r = q
  <2>1. /\ r.ua = q.ua /\ r.wa = q.wa /\ r.sig = q.sig
        /\ r.writeSig = q.writeSig /\ r.bits = q.bits /\ r.writeBits = q.writeBits
    BY <1>8
  <2> QED BY <2>1, SMTT(60) DEF RequestSet
<1>9. f \in Injection(R, T)
  BY <1>7, <1>8 DEF Injection, IsInjective
<1> QED BY <1>6, <1>9, FS_Injection

\* The pairs of calls that the requests R ask for, request by request.
Pairs(R) == UNION {{r} \X (r.bits \X r.writeBits) : r \in R}

\* Count grows by a natural number, the number of pairs of calls asked for.
LEMMA WeightNat ==
    ASSUME NEW R \in SUBSET RequestSet
    PROVE  IsFiniteSet(Pairs(R)) /\ Weight(R) = Cardinality(Pairs(R)) /\ Weight(R) \in Nat
<1>1. IsFiniteSet(Bit \X Bit)
  BY BitFinite, FS_Product
<1>2. IsFiniteSet(R \X (Bit \X Bit))
  BY <1>1, RequestsFinite, FS_Product
<1>3. Pairs(R) \in SUBSET (R \X (Bit \X Bit))
  BY SMTT(60) DEF RequestSet, Pairs
<1>4. IsFiniteSet(Pairs(R))
  BY <1>2, <1>3, FS_Subset
<1>5. Weight(R) = Cardinality(Pairs(R))
  BY DEF Weight, Pairs
<1> QED BY <1>4, <1>5, FS_CardinalityType

\* The requests of getTasks become well-formed tasks.
LEMMA TasksOfType ==
    ASSUME NEW R \in SUBSET RequestSet
    PROVE  TasksOf(R) \subseteq Hash \X Addr
<1> SUFFICES ASSUME NEW t \in TasksOf(R) PROVE t \in Hash \X Addr
  OBVIOUS
<1>1. PICK r \in R : \E i \in r.bits, j \in r.writeBits :
        t = <<[sig |-> r.sig, index |-> i, writeSig |-> r.writeSig, writeIndex |-> j], r.ua>>
  BY SMTT(60) DEF TasksOf
<1>2. r.sig \in Sig /\ r.writeSig \in Sig /\ r.ua \in Addr
      /\ r.bits \subseteq Bit /\ r.writeBits \subseteq Bit
  BY DEF RequestSet
<1> QED BY <1>1, <1>2, SMTT(60) DEF Hash

\* The step makes the tasks of the requests A and adds them to Count.
Paid(A, count) ==
    /\ tasks' = tasks \cup TasksOf(A)
    /\ uaCount' = [u \in Addr |-> count[u] + Weight({r \in A : r.ua = u})]

\* What addTasks does for the requests R: it keeps the types, and reaches no
\* log.Fatalf but the one for a writer that is not known.
TasksAdded(R, inp, count) ==
    /\ uaCount' \in [Addr -> Nat]
    /\ tasks' \subseteq Hash \X Addr
    /\ fatal' \in {"none", "getTask writeSig"}
    /\ (\A r \in R : r.writeSig \in inp) => fatal' = "none"
    /\ \E A \in Accepted(R, count) : /\ Paid(A, count)
                                     /\ fatal' = "none" => \A r \in A : r.writeSig \in inp

\* addTasks keeps the types and reaches no log.Fatalf but the one for the
\* writer, if every request names a known input and a write address of the
\* uncovered address; if it reaches none, the writers are known too.
LEMMA AddTasksFacts ==
    ASSUME NEW R \in SUBSET RequestSet, NEW inp, NEW uwa, NEW count \in [Addr -> Nat],
           AddTasks(R, inp, uwa, count),
           tasks \subseteq Hash \X Addr,
           \A r \in R : r.sig \in inp /\ r.wa \in uwa[r.ua]
    PROVE  TasksAdded(R, inp, count)
<1>1. PICK A \in Accepted(R, count) :
        /\ A \in SUBSET R
        /\ fatal' = GetTaskFatal(A, inp, uwa)
        /\ tasks' = tasks \cup TasksOf(A)
        /\ uaCount' = [u \in Addr |-> count[u] + Weight({r \in A : r.ua = u})]
  BY DEF AddTasks, Accepted
<1>2. uaCount' \in [Addr -> Nat]
  <2> SUFFICES ASSUME NEW u \in Addr
               PROVE  count[u] + Weight({r \in A : r.ua = u}) \in Nat
    BY <1>1
  <2>1. {r \in A : r.ua = u} \in SUBSET RequestSet
    BY <1>1
  <2>2. Weight({r \in A : r.ua = u}) \in Nat
    BY <2>1, WeightNat
  <2> QED BY <2>2, SMTT(60)
<1>3. tasks' \subseteq Hash \X Addr
  BY <1>1, TasksOfType
<1>4. /\ fatal' \in {"none", "getTask writeSig"}
      /\ (\A r \in R : r.writeSig \in inp) => fatal' = "none"
      /\ fatal' = "none" => \A r \in A : r.writeSig \in inp
  BY <1>1 DEF GetTaskFatal
<1>5. Paid(A, count)
  BY <1>1 DEF Paid
<1> QED BY <1>1, <1>2, <1>3, <1>4, <1>5 DEF TasksAdded

\* A value of a map of bits is a set of bits.
LEMMA SigBitsValue ==
    ASSUME NEW f \in [Addr -> SigBits], NEW a \in Addr, NEW s \in Sig
    PROVE  f[a][s] \subseteq Bit
<1>1. f[a] \in [Sig -> SUBSET Bit]
  BY DEF SigBits
<1> QED BY <1>1

-----------------------------------------------------------------------------
\* The empty maps satisfy the invariant.
LEMMA DDInitInv == DDInit => DDInv
<1> SUFFICES ASSUME DDInit PROVE DDInv
  OBVIOUS
<1>1. DDTypeOK
  BY DEF DDInit, DDTypeOK, SigBits
<1>2. CoverageAgrees /\ MapsAgree /\ OnlyWriteSigFatal /\ FreshUnused /\ WriteKeys
  BY DEF DDInit, CoverageAgrees, MapsAgree, OnlyWriteSigFatal, FreshUnused, WriteKeys
<1> QED BY <1>1, <1>2 DEF DDInv

\* addCoveredAddress keeps the invariant: the back references it needs are there.
LEMMA AddCoveredAddressStep ==
    ASSUME DDInv, NEW m \in NewInputMsg, AddCoveredAddress(m)
    PROVE  DDInv' /\ fatal' = "none"
<1> DEFINE D == m.cover \cap UncoveredAddress
<1>1. m.cover \subseteq Addr
  BY DEF NewInputMsg
<1>2. /\ Coverage' = Coverage \cup m.cover
      /\ fatal' = DeleteFatal(D)
      /\ inputUA' = [s \in Sig |-> inputUA[s] \ {u \in D : s \in uaSig[u]}]
      /\ waUA' = [w \in Addr |-> waUA[w] \ {u \in D : w \in uaWA[u]}]
      /\ CoveredAddress' = CoveredAddress \cup D
      /\ UncoveredAddress' = UncoveredAddress \ D
      /\ UNCHANGED <<Input, inputWA, uaSig, uaBits, uaWA, uaCount, WriteAddress, waInput, tasks>>
  BY DEF AddCoveredAddress
<1>3. fatal' = "none"
  BY <1>1, <1>2 DEF DeleteFatal, DDInv, DDTypeOK, MapsAgree
<1>4. DDTypeOK'
  <2>1. inputUA' \in [Sig -> SUBSET Addr] /\ waUA' \in [Addr -> SUBSET Addr]
    BY <1>2 DEF DDInv, DDTypeOK
  <2>2. Coverage' \subseteq Addr /\ CoveredAddress' \subseteq Addr /\ UncoveredAddress' \subseteq Addr
    BY <1>1, <1>2 DEF DDInv, DDTypeOK
  <2> QED BY <1>2, <1>3, <2>1, <2>2 DEF DDInv, DDTypeOK
<1>5. CoverageAgrees'
  BY <1>2 DEF DDInv, CoverageAgrees
<1>6. MapsAgree'
  BY <1>2 DEF DDInv, DDTypeOK, MapsAgree
<1>7. OnlyWriteSigFatal'
  BY <1>3 DEF OnlyWriteSigFatal
<1>8. FreshUnused' /\ WriteKeys'
  BY <1>2 DEF DDInv, DDTypeOK, FreshUnused, WriteKeys
<1> QED BY <1>3, <1>4, <1>5, <1>6, <1>7, <1>8 DEF DDInv

\* The calls of the inputs of an uncovered address, and those of all the writers.
UaCalls(u) == UNION {uaBits[u][s] : s \in Sig}
WriterCalls == UNION {waInput[w][s] : w \in Addr, s \in Sig}

\* After the step the maps hold all that request r names.
Wanted(r) ==
    /\ r.ua \in UncoveredAddress' /\ r.sig \in Input'
    /\ r.sig \in uaSig'[r.ua] /\ r.wa \in uaWA'[r.ua]
    /\ r.bits \subseteq UaCalls(r.ua)'
    /\ r.writeBits # {} /\ r.writeBits \subseteq waInput'[r.wa][r.writeSig]

\* The step's new tasks come from requests for what the maps hold, accepted
\* within the budget and, unless the manager died of it, for known writers.
NewTasks ==
    \E R \in SUBSET RequestSet :
        /\ \A r \in R : Wanted(r)
        /\ \E A \in Accepted(R, uaCount) : /\ Paid(A, uaCount)
                                           /\ fatal' = "none" => \A r \in A : r.writeSig \in Input'

\* The writers that the maps list are known.
WritersListed == \A w \in Addr, s \in Sig : waInput[w][s] # {} => s \in Input

\* addInput keeps the invariant: what it asks of getTask are the inputs and
\* uncovered addresses that the maps agree on.
LEMMA AddInputStep ==
    ASSUME DDInv, NEW m \in NewInputMsg, AddInput(m)
    PROVE  DDInv' /\ NewTasks /\ fatal' = "none"
<1> DEFINE hit == m.cover \cap WriteAddress
<1> USE DEF DDInv
<1>1. m.sig \in Sig /\ m.call \in Nat /\ m.cover \subseteq Addr
  BY CallAssumption DEF NewInputMsg
<1>2. ShiftedIndex(m.call) \subseteq Bit
  BY <1>1, SMTT(60) DEF ShiftedIndex, Bit, WordSize
<1>3. /\ Input' = Input \cup {m.sig}
      /\ UNCHANGED <<Coverage, inputUA, uaVars, WriteAddress, waUA, CoveredAddress>>
  BY DEF AddInput
<1>4. waInput' \in [Addr -> SigBits]
  <2>1. waInput' = [w \in Addr |->
           IF w \in hit THEN [waInput[w] EXCEPT ![m.sig] = @ \cup ShiftedIndex(m.call)]
                        ELSE waInput[w]]
    BY DEF AddInput
  <2>2. waInput \in [Addr -> [Sig -> SUBSET Bit]]
    BY DEF DDTypeOK, SigBits
  <2>3. ASSUME NEW w \in Addr
        PROVE  [waInput[w] EXCEPT ![m.sig] = @ \cup ShiftedIndex(m.call)] \in [Sig -> SUBSET Bit]
    <3> DEFINE c == waInput[w]
    <3>1. c \in [Sig -> SUBSET Bit]
      BY <2>2
    <3>2. c[m.sig] \cup ShiftedIndex(m.call) \in SUBSET Bit
      BY <1>1, <1>2, <3>1
    <3> HIDE DEF c
    <3>3. [c EXCEPT ![m.sig] = c[m.sig] \cup ShiftedIndex(m.call)] \in [Sig -> SUBSET Bit]
      BY <1>1, <3>1, <3>2
    <3> QED BY <3>3 DEF c
  <2> QED BY <2>1, <2>2, <2>3 DEF SigBits
<1>5. inputWA' \in [Sig -> [Addr -> SUBSET Bit]]
  <2>1. inputWA' = [inputWA EXCEPT ![m.sig] = [w \in Addr |->
           IF w \in hit THEN @[w] \cup ShiftedIndex(m.call) ELSE @[w]]]
    BY DEF AddInput
  <2>2. inputWA \in [Sig -> [Addr -> SUBSET Bit]]
    BY DEF DDTypeOK
  <2>3. [w \in Addr |-> IF w \in hit THEN inputWA[m.sig][w] \cup ShiftedIndex(m.call)
                                     ELSE inputWA[m.sig][w]] \in [Addr -> SUBSET Bit]
    BY <1>1, <1>2, <2>2
  <2> QED BY <1>1, <2>1, <2>2, <2>3
<1>6. PICK V \in [hit -> SUBSET UncoveredAddress] :
        /\ \A w \in hit : V[w] \in VisitedUntilMissing(waUA[w], UncoveredAddress)
        /\ AddTasks({r \in WriteAddressRequests(m, V) :
                        /\ r.ua \in V[r.wa] /\ r.sig \in uaSig[r.ua]
                        /\ r.bits # {} /\ r.writeBits # {}},
                    Input', uaWA, uaCount)
  BY DEF AddInput
<1> DEFINE R == {r \in WriteAddressRequests(m, V) :
                    /\ r.ua \in V[r.wa] /\ r.sig \in uaSig[r.ua]
                    /\ r.bits # {} /\ r.writeBits # {}}
<1>7. ASSUME NEW r \in R
      PROVE  /\ r \in RequestSet
             /\ r.sig \in Input' /\ r.wa \in uaWA[r.ua] /\ r.writeSig \in Input'
             /\ Wanted(r)
  <2>1. PICK u \in UncoveredAddress, w \in hit, s \in Sig :
          r = Request(u, w, s, uaBits[u][s], m.sig, UsefulIndexBits(m, w))
    BY <1>7, SMTT(60) DEF WriteAddressRequests
  <2>2. u \in V[w] /\ s \in uaSig[u]
    BY <1>7, <2>1 DEF Request
  <2>3. u \in Addr /\ w \in Addr
    BY <1>1 DEF DDTypeOK
  <2>6. uaBits[u][s] \subseteq Bit
    BY <2>3, SigBitsValue DEF DDTypeOK
  <2>7. UsefulIndexBits(m, w) \subseteq Bit
    BY <1>2 DEF UsefulIndexBits
  <2>4. u \in waUA[w]
    BY <1>6, <2>2 DEF VisitedUntilMissing
  <2>5. s \in Input /\ w \in uaWA[u]
    BY <2>2, <2>3, <2>4 DEF MapsAgree
  <2>8. uaBits' = uaBits /\ uaSig' = uaSig /\ uaWA' = uaWA /\ UncoveredAddress' = UncoveredAddress
    BY <1>3 DEF uaVars
  <2>9. uaBits[u][s] \subseteq UaCalls(u)'
    BY <2>8 DEF UaCalls
  <2>10. UsefulIndexBits(m, w) \subseteq waInput'[w][m.sig]
    <3>1. waInput'[w][m.sig] = waInput[w][m.sig] \cup ShiftedIndex(m.call)
      BY <1>1, <2>3 DEF AddInput, DDTypeOK, SigBits
    <3> QED BY <3>1 DEF UsefulIndexBits
  <2>11. r.writeBits # {}
    BY <1>7
  <2>12. r \in RequestSet
    BY <1>1, <2>1, <2>3, <2>6, <2>7 DEF Request, RequestSet
  <2>13. /\ r.ua = u /\ r.wa = w /\ r.sig = s /\ r.bits = uaBits[u][s] /\ r.writeSig = m.sig
         /\ r.writeBits = UsefulIndexBits(m, w)
    BY <2>1 DEF Request
  <2>14. Wanted(r)
    BY <1>3, <2>2, <2>5, <2>8, <2>9, <2>10, <2>11, <2>13 DEF Wanted
  <2> QED BY <1>3, <2>5, <2>12, <2>13, <2>14
<1>8. TasksAdded(R, Input', uaCount)
  <2>1. R \in SUBSET RequestSet
    BY <1>7
  <2>2. AddTasks(R, Input', uaWA, uaCount)
    BY <1>6
  <2>3. uaCount \in [Addr -> Nat] /\ tasks \subseteq Hash \X Addr
    BY DEF DDTypeOK
  <2>4. \A r \in R : r.sig \in Input' /\ r.wa \in uaWA[r.ua]
    BY <1>7
  <2> HIDE DEF R
  <2> QED BY <2>1, <2>2, <2>3, <2>4, AddTasksFacts
<1>9. DDTypeOK'
  BY <1>1, <1>3, <1>4, <1>5, <1>8 DEF DDTypeOK, uaVars, TasksAdded
<1>10. CoverageAgrees' /\ OnlyWriteSigFatal'
  BY <1>3, <1>8 DEF CoverageAgrees, OnlyWriteSigFatal, uaVars, TasksAdded
<1>11. MapsAgree' /\ FreshUnused' /\ WriteKeys'
  BY <1>3 DEF MapsAgree, FreshUnused, WriteKeys, uaVars
<1>12. NewTasks /\ fatal' = "none"
  <2>1. R \in SUBSET RequestSet
    BY <1>7
  <2>2. \A r \in R : Wanted(r) /\ r.writeSig \in Input'
    BY <1>7
  <2> HIDE DEF R
  <2> QED BY <1>8, <2>1, <2>2 DEF NewTasks, TasksAdded
<1> QED BY <1>9, <1>10, <1>11, <1>12

\* The types of the maps of an uncovered address.
UaTypeOK ==
    /\ UncoveredAddress \subseteq Addr
    /\ uaSig \in [Addr -> SUBSET Sig]
    /\ uaBits \in [Addr -> SigBits]
    /\ uaWA \in [Addr -> SUBSET Addr]

\* addUncoveredAddress keeps the types of its maps.
LEMMA AddUncoveredAddressType ==
    ASSUME UaTypeOK, NEW d \in DependencyMsg, NEW S \in SUBSET Sig, AddUncoveredAddress(d, S)
    PROVE  UaTypeOK'
<1>1. d.ua \in Addr /\ d.bits \subseteq Bit /\ d.wa \subseteq Addr
  BY DEF DependencyMsg
<1>2. CASE d.ua \in Coverage
  BY <1>2 DEF AddUncoveredAddress, uaVars, UaTypeOK
<1>3. CASE d.ua \notin Coverage
  <2>1. /\ UncoveredAddress' = UncoveredAddress \cup {d.ua}
        /\ uaSig' = [uaSig EXCEPT ![d.ua] = @ \cup S]
        /\ uaBits' = [uaBits EXCEPT ![d.ua] =
                         [s \in Sig |-> IF s \in S THEN @[s] \cup d.bits ELSE @[s]]]
        /\ uaWA' = [uaWA EXCEPT ![d.ua] = @ \cup d.wa]
    BY <1>3 DEF AddUncoveredAddress
  <2>2. [s \in Sig |-> IF s \in S THEN uaBits[d.ua][s] \cup d.bits ELSE uaBits[d.ua][s]] \in SigBits
    <3>1. \A s \in Sig : uaBits[d.ua][s] \subseteq Bit
      BY <1>1, SigBitsValue DEF UaTypeOK
    <3> QED BY <1>1, <3>1 DEF SigBits
  <2>3. uaBits' \in [Addr -> SigBits]
    BY <2>1, <2>2 DEF UaTypeOK
  <2> QED BY <1>1, <2>1, <2>3 DEF UaTypeOK
<1> QED BY <1>2, <1>3

\* A dependency with write addresses keeps the invariant: both ends of every
\* reference are entered, or the address is covered and stays out.
LEMMA AddDependencyRelatedStep ==
    ASSUME DDInv, NEW d \in DependencyMsg, AddDependencyRelated(d)
    PROVE  DDInv' /\ NewTasks /\ (WritersListed' => fatal' = "none")
<1> USE DEF DDInv
<1>1. /\ d.ua \in Addr /\ d.sig \in Sig /\ d.bits \subseteq Bit /\ d.wa \subseteq Addr
      /\ d.waInput \in [Addr -> SigBits]
  BY DEF DependencyMsg
<1>2. UNCHANGED <<Coverage, CoveredAddress>>
  BY DEF AddDependencyRelated
<1>3. /\ Input' = Input \cup {d.sig}
      /\ inputUA' = [inputUA EXCEPT ![d.sig] = @ \cup {d.ua}]
  BY DEF AddDependencyRelated, AddInputOf
<1>4. /\ WriteAddress' = WriteAddress \cup d.wa
      /\ waUA' = [w \in Addr |-> IF w \in d.wa THEN waUA[w] \cup {d.ua} ELSE waUA[w]]
  BY DEF AddDependencyRelated, AddWriteAddress
<1>5. waInput' \in [Addr -> SigBits]
  <2>1. waInput' = [w \in Addr |->
          IF w \in d.wa THEN [s \in Sig |-> waInput[w][s] \cup d.waInput[w][s]] ELSE waInput[w]]
    BY DEF AddDependencyRelated, AddWriteAddress
  <2>2. waInput \in [Addr -> SigBits]
    BY DEF DDTypeOK
  <2>3. \A w \in Addr, s \in Sig : waInput[w][s] \cup d.waInput[w][s] \subseteq Bit
    BY <1>1, <2>2, SigBitsValue
  <2>4. \A w \in Addr : [s \in Sig |-> waInput[w][s] \cup d.waInput[w][s]] \in SigBits
    BY <2>3 DEF SigBits
  <2> QED BY <2>1, <2>2, <2>4
<1>6. inputWA' \in [Sig -> [Addr -> SUBSET Bit]]
  <2>1. inputWA' = [s \in Sig |-> [w \in Addr |->
          IF s \in Input /\ w \in d.wa THEN inputWA[s][w] \cup d.waInput[w][s] ELSE inputWA[s][w]]]
    BY DEF AddDependencyRelated, AddWriteAddress
  <2>2. inputWA \in [Sig -> [Addr -> SUBSET Bit]]
    BY DEF DDTypeOK
  <2>3. \A w \in Addr, s \in Sig : inputWA[s][w] \cup d.waInput[w][s] \subseteq Bit
    BY <1>1, <2>2, SigBitsValue
  <2> QED BY <2>1, <2>2, <2>3
<1>7. AddUncoveredAddress(d, {d.sig})
  BY DEF AddDependencyRelated
<1>8. UaTypeOK'
  BY <1>1, <1>7, AddUncoveredAddressType DEF DDTypeOK, UaTypeOK
<1>9. MapsAgree' /\ FreshUnused' /\ WriteKeys' /\ CoverageAgrees'
  <2>1. CASE d.ua \in Coverage
    <3>1. UNCHANGED <<UncoveredAddress, uaSig, uaBits, uaWA>>
      BY <1>7, <2>1 DEF AddUncoveredAddress, uaVars
    <3>2. d.ua \notin UncoveredAddress
      BY <2>1 DEF CoverageAgrees
    <3>3. MapsAgree'
      <4> SUFFICES ASSUME NEW u \in UncoveredAddress
                   PROVE  /\ \A s \in uaSig[u] : s \in Input' /\ u \in inputUA'[s]
                          /\ \A w \in Addr : w \in uaWA[u] <=> (w \in WriteAddress' /\ u \in waUA'[w])
        BY <3>1 DEF MapsAgree
      <4>1. u \in Addr /\ u # d.ua
        BY <3>2 DEF DDTypeOK
      <4>2. \A s \in uaSig[u] : s \in Sig /\ s \in Input /\ u \in inputUA[s]
        BY <4>1 DEF MapsAgree, DDTypeOK
      <4>3. \A s \in Sig : inputUA[s] \subseteq inputUA'[s]
        BY <1>1, <1>3 DEF DDTypeOK
      <4>4. \A w \in Addr : u \in waUA'[w] <=> u \in waUA[w]
        BY <1>4, <4>1 DEF DDTypeOK
      <4>5. \A w \in Addr : w \in uaWA[u] <=> (w \in WriteAddress /\ u \in waUA[w])
        BY DEF MapsAgree
      <4>6. \A w \in Addr : u \in waUA[w] => w \in WriteAddress
        BY DEF WriteKeys
      <4> QED BY <1>3, <1>4, <4>2, <4>3, <4>4, <4>5, <4>6
    <3>4. FreshUnused' /\ WriteKeys' /\ CoverageAgrees'
      BY <1>2, <1>4, <2>1, <3>1 DEF FreshUnused, WriteKeys, CoverageAgrees
    <3> QED BY <3>3, <3>4
  <2>2. CASE d.ua \notin Coverage
    <3>1. /\ UncoveredAddress' = UncoveredAddress \cup {d.ua}
          /\ uaSig' = [uaSig EXCEPT ![d.ua] = @ \cup {d.sig}]
          /\ uaWA' = [uaWA EXCEPT ![d.ua] = @ \cup d.wa]
      BY <1>7, <2>2 DEF AddUncoveredAddress
    <3>2. ASSUME NEW u \in UncoveredAddress'
          PROVE  \A s \in uaSig'[u] : s \in Input' /\ u \in inputUA'[s]
      <4>1. u \in Addr
        BY <1>1, <3>1, <3>2 DEF DDTypeOK
      <4>2. \A s \in uaSig[u] : s \in Sig /\ s \in Input /\ u \in inputUA[s]
        <5>1. uaSig[u] \subseteq Sig
          BY <4>1 DEF DDTypeOK
        <5>2. CASE u \in UncoveredAddress
          BY <5>1, <5>2 DEF MapsAgree
        <5>3. CASE u \notin UncoveredAddress
          BY <2>2, <3>1, <3>2, <4>1, <5>3 DEF FreshUnused
        <5> QED BY <5>2, <5>3
      <4>3. \A s \in Sig : inputUA[s] \subseteq inputUA'[s]
        BY <1>1, <1>3 DEF DDTypeOK
      <4>4. \A s \in uaSig'[u] : s \in uaSig[u] \/ (u = d.ua /\ s = d.sig)
        BY <1>1, <3>1, <4>1 DEF DDTypeOK
      <4>5. d.ua \in inputUA'[d.sig]
        BY <1>1, <1>3 DEF DDTypeOK
      <4> QED BY <1>3, <4>2, <4>3, <4>4, <4>5
    <3>3. ASSUME NEW u \in UncoveredAddress', NEW w \in Addr
          PROVE  w \in uaWA'[u] <=> (w \in WriteAddress' /\ u \in waUA'[w])
      <4>1. u \in Addr
        BY <1>1, <3>1, <3>3 DEF DDTypeOK
      <4>2. w \in uaWA[u] <=> (w \in WriteAddress /\ u \in waUA[w])
        BY <2>2, <3>1, <3>3, <4>1, SMTT(60) DEF MapsAgree, FreshUnused
      <4>3. w \in uaWA'[u] <=> (w \in uaWA[u] \/ (u = d.ua /\ w \in d.wa))
        BY <1>1, <3>1, <4>1 DEF DDTypeOK
      <4>4. u \in waUA'[w] <=> (u \in waUA[w] \/ (u = d.ua /\ w \in d.wa))
        BY <1>4 DEF DDTypeOK
      <4>5. u \in waUA[w] => w \in WriteAddress
        BY DEF WriteKeys
      <4> QED BY <1>4, <4>2, <4>3, <4>4, <4>5
    <3>4. FreshUnused'
      <4> SUFFICES ASSUME NEW u \in Addr, u \notin UncoveredAddress', u \notin Coverage
                   PROVE  /\ uaSig'[u] = {} /\ uaWA'[u] = {}
                          /\ \A w \in Addr : u \notin waUA'[w]
        BY <1>2 DEF FreshUnused
      <4>1. u # d.ua /\ u \notin UncoveredAddress
        BY <3>1
      <4>2. uaSig'[u] = uaSig[u] /\ uaWA'[u] = uaWA[u]
        BY <1>1, <3>1, <4>1 DEF DDTypeOK
      <4>3. \A w \in Addr : u \in waUA'[w] => u \in waUA[w]
        BY <1>4, <4>1
      <4> QED BY <4>1, <4>2, <4>3 DEF FreshUnused
    <3>5. WriteKeys' /\ CoverageAgrees'
      BY <1>2, <1>4, <2>2, <3>1 DEF WriteKeys, CoverageAgrees
    <3> QED BY <3>2, <3>3, <3>4, <3>5 DEF MapsAgree
  <2> QED BY <2>1, <2>2
<1>11. PICK V \in VisitedUntilMissing(uaWA'[d.ua], WriteAddress') :
         AddTasks({r \in InputRequests(d) : r.wa \in V}, Input', uaWA', uaCount)
  BY DEF AddDependencyRelated
<1> DEFINE R == {r \in InputRequests(d) : r.wa \in V}
<1>12. ASSUME NEW r \in R
       PROVE  /\ r \in RequestSet
              /\ Wanted(r)
  <2>1. PICK w \in uaWA'[d.ua], s \in Sig : r = Request(d.ua, w, d.sig, d.bits, s, waInput'[w][s])
    BY <1>12, SMTT(60) DEF InputRequests
  <2>2. w \in Addr
    BY <1>1, <1>8 DEF UaTypeOK
  <2>3. waInput'[w][s] \subseteq Bit
    BY <1>5, <2>2, SigBitsValue
  <2>4. r.ua \in UncoveredAddress'
    BY <1>12, SMTT(60) DEF InputRequests
  <2>5. r.ua = d.ua
    BY <2>1 DEF Request
  <2>6. d.ua \notin Coverage
    BY <1>2, <1>9, <2>4, <2>5 DEF CoverageAgrees
  <2>7. d.bits \subseteq UaCalls(d.ua)'
    <3>1. uaBits' = [uaBits EXCEPT ![d.ua] =
                       [t \in Sig |-> IF t \in {d.sig} THEN @[t] \cup d.bits ELSE @[t]]]
      BY <1>7, <2>6 DEF AddUncoveredAddress
    <3>2. uaBits'[d.ua][d.sig] = uaBits[d.ua][d.sig] \cup d.bits
      BY <1>1, <3>1 DEF DDTypeOK
    <3> QED BY <1>1, <3>2 DEF UaCalls
  <2>8. d.sig \in uaSig'[d.ua]
    <3>1. uaSig' = [uaSig EXCEPT ![d.ua] = @ \cup {d.sig}]
      BY <1>7, <2>6 DEF AddUncoveredAddress
    <3> QED BY <1>1, <3>1 DEF DDTypeOK
  <2>9. r.writeBits # {}
    BY <1>12, SMTT(60) DEF InputRequests
  <2>10. /\ r.wa = w /\ r.sig = d.sig /\ r.bits = d.bits /\ r.writeSig = s
         /\ r.writeBits = waInput'[w][s]
    BY <2>1 DEF Request
  <2>11. r \in RequestSet
    BY <1>1, <2>1, <2>2, <2>3 DEF Request, RequestSet
  <2>12. Wanted(r)
    BY <1>3, <2>4, <2>5, <2>7, <2>8, <2>9, <2>10 DEF Wanted
  <2> QED BY <2>11, <2>12
<1>13. TasksAdded(R, Input', uaCount)
  <2>1. R \in SUBSET RequestSet
    BY <1>12
  <2>2. AddTasks(R, Input', uaWA', uaCount)
    BY <1>11
  <2>3. uaCount \in [Addr -> Nat] /\ tasks \subseteq Hash \X Addr
    BY DEF DDTypeOK
  <2>4. \A r \in R : r.sig \in Input' /\ r.wa \in uaWA'[r.ua]
    BY <1>12 DEF Wanted
  <2> HIDE DEF R
  <2> QED BY <2>1, <2>2, <2>3, <2>4, AddTasksFacts
<1>14. DDTypeOK'
  <2>1. Input' \subseteq Sig /\ inputUA' \in [Sig -> SUBSET Addr]
    BY <1>1, <1>3 DEF DDTypeOK
  <2>2. WriteAddress' \subseteq Addr /\ waUA' \in [Addr -> SUBSET Addr]
    BY <1>1, <1>4 DEF DDTypeOK
  <2> QED BY <1>2, <1>5, <1>6, <1>8, <1>13, <2>1, <2>2 DEF DDTypeOK, UaTypeOK, TasksAdded
<1>15. OnlyWriteSigFatal'
  BY <1>13 DEF OnlyWriteSigFatal, TasksAdded
<1>16. NewTasks /\ (WritersListed' => fatal' = "none")
  <2>1. R \in SUBSET RequestSet
    BY <1>12
  <2>2. \A r \in R : Wanted(r)
    BY <1>12
  <2>3. ASSUME WritersListed', NEW r \in R PROVE r.writeSig \in Input'
    <3>1. r.wa \in Addr /\ r.writeSig \in Sig /\ waInput'[r.wa][r.writeSig] # {}
      BY <2>1, <2>2 DEF Wanted, RequestSet
    <3> QED BY <2>3, <3>1 DEF WritersListed
  <2> HIDE DEF R
  <2> QED BY <1>13, <2>1, <2>2, <2>3 DEF NewTasks, TasksAdded
<1> QED BY <1>9, <1>14, <1>15, <1>16

\* A dependency on an argument keeps the invariant: it has no references.
LEMMA AddInputRelatedStep ==
    ASSUME DDInv, NEW d \in DependencyMsg, AddInputRelated(d)
    PROVE  DDInv'
<1> USE DEF DDInv
<1>1. d.ua \in Addr /\ d.wa = {}
  BY DEF DependencyMsg, AddInputRelated
<1>2. UNCHANGED <<Coverage, inputVars, waVars, uaCount, CoveredAddress, tasks, fatal>>
  BY DEF AddInputRelated
<1>3. AddUncoveredAddress(d, {})
  BY DEF AddInputRelated
<1>4. UaTypeOK'
  BY <1>3, AddUncoveredAddressType DEF DDTypeOK, UaTypeOK
<1>5. DDTypeOK' /\ OnlyWriteSigFatal' /\ WriteKeys'
  BY <1>2, <1>4 DEF DDTypeOK, UaTypeOK, OnlyWriteSigFatal, WriteKeys, inputVars, waVars
<1>6. CASE d.ua \in Coverage
  <2>1. UNCHANGED <<UncoveredAddress, uaSig, uaBits, uaWA>>
    BY <1>3, <1>6 DEF AddUncoveredAddress, uaVars
  <2>2. MapsAgree' /\ FreshUnused' /\ CoverageAgrees'
    BY <1>2, <2>1 DEF MapsAgree, FreshUnused, CoverageAgrees, inputVars, waVars
  <2> QED BY <1>5, <2>2
<1>7. CASE d.ua \notin Coverage
  <2>1. UncoveredAddress' = UncoveredAddress \cup {d.ua}
    BY <1>3, <1>7 DEF AddUncoveredAddress
  <2>2. uaSig' = uaSig /\ uaWA' = uaWA
    <3>1. /\ uaSig' = [uaSig EXCEPT ![d.ua] = @ \cup {}]
          /\ uaWA' = [uaWA EXCEPT ![d.ua] = @ \cup {}]
      BY <1>1, <1>3, <1>7 DEF AddUncoveredAddress
    <3>2. uaSig \in [Addr -> SUBSET Sig] /\ uaWA \in [Addr -> SUBSET Addr]
      BY DEF DDTypeOK
    <3> QED BY <1>1, <3>1, <3>2
  <2>3. FreshUnused' /\ CoverageAgrees'
    BY <1>2, <1>7, <2>1, <2>2 DEF FreshUnused, CoverageAgrees, waVars
  <2>4. \A u \in UncoveredAddress' : \A s \in uaSig[u] : s \in Input /\ u \in inputUA[s]
    BY <1>1, <1>7, <2>1, SMTT(60) DEF MapsAgree, FreshUnused
  <2>5. \A u \in UncoveredAddress' : \A w \in Addr :
           w \in uaWA[u] <=> (w \in WriteAddress /\ u \in waUA[w])
    BY <1>1, <1>7, <2>1, SMTT(60) DEF MapsAgree, FreshUnused
  <2>6. MapsAgree'
    BY <1>2, <2>2, <2>4, <2>5 DEF MapsAgree, inputVars, waVars
  <2> QED BY <1>5, <2>3, <2>6
<1> QED BY <1>6, <1>7

\* Every step of Update, and every step that leaves the maps alone.
LEMMA DDStep ==
    ASSUME DDInv, [DDNext]_ddVars
    PROVE  DDInv'
<1>1. ASSUME NEW m \in NewInputMsg, AddCoveredAddress(m) PROVE DDInv'
  BY <1>1, AddCoveredAddressStep
<1>2. ASSUME NEW m \in NewInputMsg, AddInput(m) PROVE DDInv'
  BY <1>2, AddInputStep
<1>3. ASSUME NEW d \in DependencyMsg, AddDependencyRelated(d) PROVE DDInv'
  BY <1>3, AddDependencyRelatedStep
<1>4. ASSUME NEW d \in DependencyMsg, AddInputRelated(d) PROVE DDInv'
  BY <1>4, AddInputRelatedStep
<1>5. CASE UNCHANGED ddVars
  <2>1. UNCHANGED <<Coverage, Input, inputUA, inputWA, UncoveredAddress, uaSig, uaBits, uaWA,
                    uaCount, WriteAddress, waInput, waUA, CoveredAddress, tasks, fatal>>
    BY <1>5 DEF ddVars, inputVars, uaVars, waVars
  <2> QED BY <2>1 DEF DDInv, DDTypeOK, CoverageAgrees, MapsAgree, OnlyWriteSigFatal,
                      FreshUnused, WriteKeys
<1> QED BY <1>1, <1>2, <1>3, <1>4, <1>5 DEF DDNext, AddDependency

\* The inductive invariant holds of every behaviour of the maps.
LEMMA DDInvariant == DDSpec => []DDInv
<1>1. DDInit => DDInv
  BY DDInitInv
<1>2. DDInv /\ [DDNext]_ddVars => DDInv'
  BY DDStep
<1> QED BY <1>1, <1>2, PTL DEF DDSpec

\* The maps keep their types; no call has a bit past the word.
THEOREM MapsTypeOK == DDSpec => []DDTypeOK
BY DDInvariant, PTL DEF DDInv

\* addUncoveredAddress never revives an address that addCoveredAddress covered.
THEOREM CoverageStaysCovered == DDSpec => []CoverageAgrees
BY DDInvariant, PTL DEF DDInv

\* The back references that deleteUncoveredAddress follows are always there.
THEOREM BackReferences == DDSpec => []MapsAgree
BY DDInvariant, PTL DEF DDInv

\* No log.Fatalf of deleteUncoveredAddress and getPriority, and none of getTask
\* but "error writeSig", is ever reached.
THEOREM OneFatal == DDSpec => []OnlyWriteSigFatal
BY DDInvariant, PTL DEF DDInv

-----------------------------------------------------------------------------
\* What no step of Update takes back.
Lifecycle ==
    /\ Coverage \subseteq Coverage' /\ CoveredAddress \subseteq CoveredAddress'
    /\ Input \subseteq Input' /\ WriteAddress \subseteq WriteAddress'
    /\ UncoveredAddress \subseteq UncoveredAddress' \cup CoveredAddress'
    /\ CoveredAddress \cap UncoveredAddress' = {}

\* Only addCoveredAddress removes an uncovered address, and it keeps the result;
\* only addUncoveredAddress adds one, and it looks at the coverage first.
LEMMA LifecycleStep ==
    ASSUME DDInv, DDNext
    PROVE  Lifecycle
<1>1. UncoveredAddress \cap Coverage = {} /\ CoveredAddress \subseteq Coverage
  BY DEF DDInv, CoverageAgrees
<1>2. ASSUME NEW m \in NewInputMsg, AddCoveredAddress(m) PROVE Lifecycle
  BY <1>1, <1>2 DEF AddCoveredAddress, Lifecycle
<1>3. ASSUME NEW m \in NewInputMsg, AddInput(m) PROVE Lifecycle
  <2>1. /\ Input' = Input \cup {m.sig}
        /\ UNCHANGED <<Coverage, UncoveredAddress, WriteAddress, CoveredAddress>>
    BY <1>3 DEF AddInput, uaVars
  <2> QED BY <1>1, <2>1 DEF Lifecycle
<1>4. ASSUME NEW d \in DependencyMsg, AddDependencyRelated(d) PROVE Lifecycle
  <2>1. /\ Input' = Input \cup {d.sig}
        /\ WriteAddress' = WriteAddress \cup d.wa
        /\ UNCHANGED <<Coverage, CoveredAddress>>
    BY <1>4 DEF AddDependencyRelated, AddInputOf, AddWriteAddress
  <2>2. UncoveredAddress' = IF d.ua \in Coverage THEN UncoveredAddress
                            ELSE UncoveredAddress \cup {d.ua}
    BY <1>4 DEF AddDependencyRelated, AddUncoveredAddress, uaVars
  <2> QED BY <1>1, <2>1, <2>2 DEF Lifecycle
<1>5. ASSUME NEW d \in DependencyMsg, AddInputRelated(d) PROVE Lifecycle
  <2>1. UNCHANGED <<Input, WriteAddress, Coverage, CoveredAddress>>
    BY <1>5 DEF AddInputRelated, inputVars, waVars
  <2>2. UncoveredAddress' = IF d.ua \in Coverage THEN UncoveredAddress
                            ELSE UncoveredAddress \cup {d.ua}
    BY <1>5 DEF AddInputRelated, AddUncoveredAddress, uaVars
  <2> QED BY <1>1, <2>1, <2>2 DEF Lifecycle
<1> QED BY <1>2, <1>3, <1>4, <1>5 DEF DDNext, AddDependency

\* An address goes from unknown to uncovered to covered and never back.
THEOREM AddressesNeverReturn == DDSpec => AddressLifecycle
<1>1. DDInv /\ [DDNext]_ddVars => [Lifecycle]_ddVars
  BY LifecycleStep
<1> QED BY <1>1, DDInvariant, PTL DEF DDSpec, AddressLifecycle, Lifecycle

\* The steps that make tasks make them for known inputs, and the others forget
\* neither an input nor an address.
LEMMA TasksKnownStep ==
    ASSUME DDInv, TasksKnown, [DDNext]_ddVars
    PROVE  TasksKnown'
<1> SUFFICES ASSUME fatal' = "none", NEW t \in tasks'
             PROVE  /\ t[1].sig \in Input' /\ t[1].writeSig \in Input'
                    /\ t[2] \in UncoveredAddress' \cup CoveredAddress'
  BY DEF TasksKnown, Alive
<1>1. CASE UNCHANGED ddVars
  BY <1>1 DEF TasksKnown, Alive, ddVars, inputVars, uaVars
<1>2. CASE DDNext
  <2>1. fatal = "none"
    BY <1>2 DEF DDNext, AddDependency, AddCoveredAddress, AddInput, AddDependencyRelated,
                AddInputRelated, Alive
  <2>2. CASE t \in tasks
    BY <1>2, <2>1, <2>2, LifecycleStep DEF TasksKnown, Alive, Lifecycle
  <2>3. CASE t \notin tasks
    <3>1. NewTasks
      <4>1. ASSUME NEW m \in NewInputMsg, AddCoveredAddress(m) PROVE FALSE
        BY <2>3, <4>1 DEF AddCoveredAddress
      <4>2. ASSUME NEW d \in DependencyMsg, AddInputRelated(d) PROVE FALSE
        BY <2>3, <4>2 DEF AddInputRelated
      <4> QED BY <1>2, <4>1, <4>2, AddInputStep, AddDependencyRelatedStep DEF DDNext, AddDependency
    <3>2. PICK A \in SUBSET RequestSet :
            /\ tasks' = tasks \cup TasksOf(A)
            /\ \A r \in A : r.ua \in UncoveredAddress' /\ r.sig \in Input' /\ r.writeSig \in Input'
      BY <3>1 DEF NewTasks, Wanted, Paid, Accepted
    <3>3. PICK r \in A : \E i \in r.bits, j \in r.writeBits :
            t = <<[sig |-> r.sig, index |-> i, writeSig |-> r.writeSig, writeIndex |-> j], r.ua>>
      BY <2>3, <3>2, SMTT(60) DEF TasksOf
    <3> QED BY <3>2, <3>3, SMTT(60)
  <2> QED BY <2>2, <2>3
<1> QED BY <1>1, <1>2

\* While the manager lives every task runs two inputs it knows, for an address
\* that the analysis reported.
THEOREM TasksRunKnownInputs == DDSpec => []TasksKnown
<1>1. DDInit => TasksKnown
  BY DEF DDInit, TasksKnown
<1>2. DDInv /\ TasksKnown /\ [DDNext]_ddVars => TasksKnown'
  BY TasksKnownStep
<1> QED BY <1>1, <1>2, DDInvariant, PTL DEF DDSpec

-----------------------------------------------------------------------------
\* The last request accepted adds at most its own pairs of calls.
LEMMA WeightLast ==
    ASSUME NEW A \in SUBSET RequestSet, NEW last \in A
    PROVE  Weight(A) <= Weight(A \ {last}) + Cardinality(last.bits \X last.writeBits)
<1> DEFINE P == last.bits \X last.writeBits
           Q == {last} \X P
           X == Pairs(A \ {last})
<1>1. IsFiniteSet(X) /\ Weight(A \ {last}) = Cardinality(X) /\ Weight(A) = Cardinality(Pairs(A))
  BY WeightNat
<1>2. Pairs(A) = X \cup Q
  BY SMTT(60) DEF Pairs
<1>3. IsFiniteSet(P)
  <2>1. last.bits \in SUBSET Bit /\ last.writeBits \in SUBSET Bit
    BY DEF RequestSet
  <2>2. IsFiniteSet(last.bits) /\ IsFiniteSet(last.writeBits)
    BY <2>1, BitFinite, FS_Subset
  <2> QED BY <2>2, FS_Product
<1>4. IsFiniteSet({last}) /\ Cardinality({last}) = 1
  BY FS_Singleton
<1> HIDE DEF P, X
<1>5. IsFiniteSet(Q) /\ Cardinality(Q) = 1 * Cardinality(P)
  BY <1>3, <1>4, FS_Product
<1> HIDE DEF Q
<1>6. IsFiniteSet(X \cap Q)
  <2>1. X \cap Q \in SUBSET X
    OBVIOUS
  <2> QED BY <1>1, <2>1, FS_Subset
<1>7. Cardinality(X \cup Q) = Cardinality(X) + Cardinality(Q) - Cardinality(X \cap Q)
  BY <1>1, <1>5, FS_Union
<1>8. /\ Cardinality(X) \in Nat /\ Cardinality(P) \in Nat /\ Cardinality(Q) \in Nat
      /\ Cardinality(X \cap Q) \in Nat
  BY <1>1, <1>3, <1>5, <1>6, FS_CardinalityType
<1>9. Cardinality(X \cup Q) <= Cardinality(X) + Cardinality(P)
  BY <1>5, <1>7, <1>8, SMTT(60)
<1> QED BY <1>1, <1>2, <1>9 DEF P

\* Every pair of calls gives one task: the tasks of an address are no more than
\* what getTasks adds to its Count.
LEMMA TasksCounted ==
    ASSUME NEW A \in SUBSET RequestSet, NEW u \in Addr
    PROVE  /\ IsFiniteSet({t \in TasksOf(A) : t[2] = u})
           /\ Cardinality({t \in TasksOf(A) : t[2] = u}) <= Weight({r \in A : r.ua = u})
<1> DEFINE B == {r \in A : r.ua = u}
           T == {t \in TasksOf(A) : t[2] = u}
           task(r, i, j) == <<[sig |-> r.sig, index |-> i, writeSig |-> r.writeSig, writeIndex |-> j],
                              r.ua>>
           f == [p \in Pairs(B) |-> task(p[1], p[2][1], p[2][2])]
<1>1. B \in SUBSET RequestSet
  OBVIOUS
<1>2. IsFiniteSet(Pairs(B)) /\ Weight(B) = Cardinality(Pairs(B))
  BY <1>1, WeightNat
<1>3. ASSUME NEW p \in Pairs(B) PROVE task(p[1], p[2][1], p[2][2]) \in T
  <2>1. PICK r \in B : p \in {r} \X (r.bits \X r.writeBits)
    BY DEF Pairs
  <2>2. p[1] = r /\ p[2][1] \in r.bits /\ p[2][2] \in r.writeBits
    BY <2>1, SMTT(60)
  <2>3. task(r, p[2][1], p[2][2]) \in TasksOf(A)
    BY <2>2, SMTT(60) DEF TasksOf
  <2> QED BY <2>2, <2>3, SMTT(60)
<1>4. ASSUME NEW t \in T PROVE \E p \in Pairs(B) : f[p] = t
  <2>1. PICK r \in A : \E i \in r.bits, j \in r.writeBits : t = task(r, i, j)
    BY SMTT(60) DEF TasksOf
  <2>2. PICK i \in r.bits, j \in r.writeBits : t = task(r, i, j)
    BY <2>1
  <2>3. r \in B
    BY <2>2, SMTT(60)
  <2>4. <<r, <<i, j>>>> \in Pairs(B)
    BY <2>3, SMTT(60) DEF Pairs
  <2>5. f[<<r, <<i, j>>>>] = task(r, i, j)
    BY <2>4, SMTT(60)
  <2> QED BY <2>2, <2>4, <2>5
<1>5. f \in Surjection(Pairs(B), T)
  <2>1. f \in [Pairs(B) -> T]
    BY <1>3
  <2> HIDE DEF f, T, B
  <2> QED BY <1>4, <2>1 DEF Surjection
<1> HIDE DEF f, T, B
<1>6. IsFiniteSet(T) /\ Cardinality(T) <= Cardinality(Pairs(B))
  BY <1>2, <1>5, FS_Surjection
<1> QED BY <1>2, <1>6 DEF T, B

\* The invariant BudgetBound needs besides: the tasks are finitely many.
TasksFinite == \A u \in Addr : IsFiniteSet({t \in tasks : t[2] = u})

\* The number of pairs of calls is the product of the numbers of calls.
LEMMA PairsCounted ==
    ASSUME NEW X \in SUBSET Bit, NEW Y \in SUBSET Bit
    PROVE  /\ IsFiniteSet(X \X Y)
           /\ Cardinality(X \X Y) = Cardinality(X) * Cardinality(Y)
           /\ Cardinality(X \X Y) \in Nat
<1>1. IsFiniteSet(X) /\ IsFiniteSet(Y)
  BY BitFinite, FS_Subset
<1> QED BY <1>1, FS_Product, FS_CardinalityType

\* The calls of a map are bits of the word.
LEMMA CallsAreBits ==
    ASSUME NEW ub \in [Addr -> SigBits], NEW wi \in [Addr -> SigBits], NEW u \in Addr
    PROVE  /\ UNION {ub[u][s] : s \in Sig} \in SUBSET Bit
           /\ UNION {wi[w][s] : w \in Addr, s \in Sig} \in SUBSET Bit
<1>1. \A s \in Sig : ub[u][s] \subseteq Bit
  BY SigBitsValue
<1>2. \A w \in Addr, s \in Sig : wi[w][s] \subseteq Bit
  BY SigBitsValue
<1>3. UNION {ub[u][s] : s \in Sig} \in SUBSET Bit
  BY <1>1
<1>4. UNION {wi[w][s] : w \in Addr, s \in Sig} \in SUBSET Bit
  BY <1>2, SMTT(60)
<1> QED BY <1>3, <1>4, SMTT(60)

\* The maps of calls only grow.
LEMMA CallsGrow ==
    ASSUME DDInv, DDNext, NEW u \in Addr
    PROVE  UaCalls(u) \subseteq UaCalls(u)' /\ WriterCalls \subseteq WriterCalls'
<1> SUFFICES /\ \A s \in Sig : uaBits[u][s] \subseteq uaBits'[u][s]
             /\ \A w \in Addr, s \in Sig : waInput[w][s] \subseteq waInput'[w][s]
  BY SMTT(60) DEF UaCalls, WriterCalls
<1>1. \A a \in Addr : uaBits[a] \in [Sig -> SUBSET Bit] /\ waInput[a] \in [Sig -> SUBSET Bit]
  BY DEF DDInv, DDTypeOK, SigBits
<1>2. ASSUME NEW d \in DependencyMsg, NEW S \in SUBSET Sig, AddUncoveredAddress(d, S), NEW s \in Sig
      PROVE  uaBits[u][s] \subseteq uaBits'[u][s]
  <2>1. CASE d.ua \in Coverage
    BY <1>2, <2>1 DEF AddUncoveredAddress, uaVars
  <2>2. CASE d.ua \notin Coverage
    <3>1. uaBits' = [uaBits EXCEPT ![d.ua] =
                       [t \in Sig |-> IF t \in S THEN @[t] \cup d.bits ELSE @[t]]]
      BY <1>2, <2>2 DEF AddUncoveredAddress
    <3>2. uaBits \in [Addr -> SigBits]
      BY DEF DDInv, DDTypeOK
    <3>3. CASE u = d.ua
      BY <3>1, <3>2, <3>3
    <3>4. CASE u # d.ua
      BY <3>1, <3>2, <3>4
    <3> QED BY <3>3, <3>4
  <2> QED BY <2>1, <2>2
<1>3. ASSUME NEW m \in NewInputMsg, AddCoveredAddress(m) PROVE UNCHANGED <<uaBits, waInput>>
  BY <1>3 DEF AddCoveredAddress
<1>4. ASSUME NEW m \in NewInputMsg, AddInput(m)
      PROVE  uaBits' = uaBits /\ \A w \in Addr, s \in Sig : waInput[w][s] \subseteq waInput'[w][s]
  <2>1. uaBits' = uaBits
    BY <1>4 DEF AddInput, uaVars
  <2>2. waInput' = [w \in Addr |->
           IF w \in m.cover \cap WriteAddress
           THEN [waInput[w] EXCEPT ![m.sig] = @ \cup ShiftedIndex(m.call)] ELSE waInput[w]]
    BY <1>4 DEF AddInput
  <2>3. ASSUME NEW w \in Addr, NEW s \in Sig PROVE waInput[w][s] \subseteq waInput'[w][s]
    <3>1. waInput'[w] = waInput[w] \/ waInput'[w] = [waInput[w] EXCEPT ![m.sig] = @ \cup ShiftedIndex(m.call)]
      BY <2>2
    <3>2. [waInput[w] EXCEPT ![m.sig] = @ \cup ShiftedIndex(m.call)][s] \in
            {waInput[w][s], waInput[w][s] \cup ShiftedIndex(m.call)}
      BY <1>1
    <3> QED BY <3>1, <3>2
  <2> QED BY <2>1, <2>3
<1>5. ASSUME NEW d \in DependencyMsg, AddDependencyRelated(d)
      PROVE  /\ \A s \in Sig : uaBits[u][s] \subseteq uaBits'[u][s]
             /\ \A w \in Addr, s \in Sig : waInput[w][s] \subseteq waInput'[w][s]
  <2>1. AddUncoveredAddress(d, {d.sig}) /\ {d.sig} \in SUBSET Sig
    BY <1>5 DEF AddDependencyRelated, DependencyMsg
  <2>2. waInput' = [w \in Addr |->
          IF w \in d.wa THEN [s \in Sig |-> waInput[w][s] \cup d.waInput[w][s]] ELSE waInput[w]]
    BY <1>5 DEF AddDependencyRelated, AddWriteAddress
  <2> QED BY <1>2, <2>1, <2>2
<1>6. ASSUME NEW d \in DependencyMsg, AddInputRelated(d)
      PROVE  waInput' = waInput /\ \A s \in Sig : uaBits[u][s] \subseteq uaBits'[u][s]
  <2>1. AddUncoveredAddress(d, {}) /\ {} \in SUBSET Sig /\ waInput' = waInput
    BY <1>6 DEF AddInputRelated, waVars
  <2> QED BY <1>2, <2>1
<1> QED BY <1>3, <1>4, <1>5, <1>6 DEF DDNext, AddDependency

\* LargestRequest counts pairs of calls, before and after a step; it only grows.
LEMMA LargestGrows ==
    ASSUME DDInv, DDInv', DDNext, NEW u \in Addr
    PROVE  /\ LargestRequest(u) \in Nat
           /\ IsFiniteSet(UaCalls(u)' \X WriterCalls')
           /\ LargestRequest(u)' = Cardinality(UaCalls(u)' \X WriterCalls')
           /\ LargestRequest(u)' \in Nat
           /\ LargestRequest(u) <= LargestRequest(u)'
<1>1. UaCalls(u) \subseteq UaCalls(u)' /\ WriterCalls \subseteq WriterCalls'
  BY CallsGrow
<1>2. UaCalls(u) \X WriterCalls \in SUBSET (UaCalls(u)' \X WriterCalls')
  BY <1>1, SMTT(60)
<1>3. UaCalls(u) \in SUBSET Bit /\ WriterCalls \in SUBSET Bit
  <2>1. uaBits \in [Addr -> SigBits] /\ waInput \in [Addr -> SigBits]
    BY DEF DDInv, DDTypeOK
  <2> QED BY <2>1, CallsAreBits, SMTT(60) DEF UaCalls, WriterCalls
<1>4. UaCalls(u)' \in SUBSET Bit /\ WriterCalls' \in SUBSET Bit
  <2>1. uaBits' \in [Addr -> SigBits] /\ waInput' \in [Addr -> SigBits]
    BY DEF DDInv, DDTypeOK
  <2> QED BY <2>1, CallsAreBits, SMTT(60) DEF UaCalls, WriterCalls
<1>5. LargestRequest(u) = Cardinality(UaCalls(u)) * Cardinality(WriterCalls)
  BY SMTT(60) DEF LargestRequest, UaCalls, WriterCalls
<1>6. LargestRequest(u)' = Cardinality(UaCalls(u)') * Cardinality(WriterCalls')
  BY SMTT(60) DEF LargestRequest, UaCalls, WriterCalls
<1>7. LargestRequest(u) = Cardinality(UaCalls(u) \X WriterCalls) /\ LargestRequest(u) \in Nat
  BY <1>3, <1>5, PairsCounted
<1>8. /\ IsFiniteSet(UaCalls(u)' \X WriterCalls')
      /\ LargestRequest(u)' = Cardinality(UaCalls(u)' \X WriterCalls')
      /\ LargestRequest(u)' \in Nat
  BY <1>4, <1>6, PairsCounted
<1> QED BY <1>2, <1>7, <1>8, FS_Subset

\* What getTasks leaves in Count for an address, given what it accepts for it.
LEMMA CountBounded ==
    ASSUME NEW R \in SUBSET RequestSet, NEW A \in Accepted(R, uaCount), NEW u \in Addr,
           uaCount \in [Addr -> Nat], NEW P, IsFiniteSet(P),
           \A r \in R : r.ua = u => r.bits \X r.writeBits \subseteq P,
           uaCount[u] < Budget(u) + Cardinality(P), Budget(u) \in Nat
    PROVE  uaCount[u] + Weight({r \in A : r.ua = u}) < Budget(u) + Cardinality(P)
<1> DEFINE Ru == {r \in R : r.ua = u}
           Au == {r \in A : r.ua = u}
<1>1. A \in SUBSET R /\ Au \in SUBSET RequestSet /\ Au = A \cap Ru
  BY DEF Accepted
<1>2. uaCount[u] \in Nat /\ Weight(Au) \in Nat /\ Cardinality(P) \in Nat
  BY <1>1, WeightNat, FS_CardinalityType
<1>3. CASE Au = {}
  <2>1. Pairs(Au) = {}
    BY <1>3 DEF Pairs
  <2>2. Weight(Au) = Cardinality(Pairs(Au))
    BY <1>1, WeightNat
  <2>3. Weight(Au) = 0
    BY <2>1, <2>2, FS_EmptySet
  <2> HIDE DEF Au
  <2>4. uaCount[u] + Weight(Au) < Budget(u) + Cardinality(P)
    BY <1>2, <2>3, SMTT(60)
  <2> QED BY <2>4 DEF Au
<1>4. CASE Au # {}
  <2>1. u \in {r.ua : r \in R}
    BY <1>1, <1>4
  <2>2. PICK last \in Au : uaCount[u] + Weight(Au \ {last}) < Budget(u)
    <3>1. A \cap Ru # {}
      BY <1>1, <1>4
    <3>2. \E last \in A \cap Ru : uaCount[u] + Weight((A \cap Ru) \ {last}) < Budget(u)
      BY <2>1, <3>1 DEF Accepted
    <3> QED BY <1>1, <3>2
  <2>3. Weight(Au) <= Weight(Au \ {last}) + Cardinality(last.bits \X last.writeBits)
    BY <1>1, WeightLast
  <2>4. last.bits \X last.writeBits \in SUBSET P
    BY <1>1
  <2>5. IsFiniteSet(last.bits \X last.writeBits)
        /\ Cardinality(last.bits \X last.writeBits) <= Cardinality(P)
    BY <2>4, FS_Subset
  <2>6. Cardinality(last.bits \X last.writeBits) \in Nat
    BY <2>5, FS_CardinalityType
  <2>7. Weight(Au \ {last}) \in Nat
    <3>1. Au \ {last} \in SUBSET RequestSet
      BY <1>1
    <3> QED BY <3>1, WeightNat
  <2> HIDE DEF Au
  <2> DEFINE x == Weight(Au \ {last})
             y == Cardinality(last.bits \X last.writeBits)
  <2>8. /\ uaCount[u] + x < Budget(u) /\ Weight(Au) <= x + y
        /\ y <= Cardinality(P) /\ x \in Nat /\ y \in Nat
    BY <2>2, <2>3, <2>5, <2>6, <2>7
  <2> HIDE DEF x, y
  <2>9. uaCount[u] + Weight(Au) < Budget(u) + Cardinality(P)
    BY <1>2, <2>8, SMTT(60)
  <2> QED BY <2>9 DEF Au
<1> QED BY <1>3, <1>4

\* The budget as a number.
LEMMA BudgetNat == ASSUME NEW u \in Addr PROVE Budget(u) \in Nat /\ Budget(u) > 0
<1>1. NumberDominatorInstructions[u] \in Nat
  BY DominatorAssumption
<1> QED BY <1>1, SMTT(60) DEF Budget, TaskCountBase, TaskCountLimitation

\* A step that makes tasks counts at least as many as it makes, and stops at the
\* budget.
LEMMA PaidStep ==
    ASSUME DDInv, DDInv', DDNext, BudgetBound, TasksFinite, NewTasks
    PROVE  BudgetBound' /\ TasksFinite'
<1>1. PICK R \in SUBSET RequestSet :
        /\ \A r \in R : r.bits \subseteq UaCalls(r.ua)' /\ r.writeBits \subseteq WriterCalls'
        /\ \E A \in Accepted(R, uaCount) : Paid(A, uaCount)
  <2>1. PICK R \in SUBSET RequestSet :
          /\ \A r \in R : Wanted(r)
          /\ \E A \in Accepted(R, uaCount) : Paid(A, uaCount)
    BY DEF NewTasks
  <2>2. ASSUME NEW r \in R
        PROVE  r.bits \subseteq UaCalls(r.ua)' /\ r.writeBits \subseteq WriterCalls'
    <3>1. /\ r.bits \subseteq UaCalls(r.ua)' /\ r.wa \in Addr /\ r.writeSig \in Sig
          /\ r.writeBits \subseteq waInput'[r.wa][r.writeSig]
      BY <2>1 DEF Wanted, RequestSet
    <3>2. waInput'[r.wa][r.writeSig] \subseteq WriterCalls'
      BY <3>1, SMTT(60) DEF WriterCalls
    <3> QED BY <3>1, <3>2
  <2> QED BY <2>1, <2>2
<1>2. PICK A \in Accepted(R, uaCount) : Paid(A, uaCount)
  BY <1>1
<1>3. A \in SUBSET RequestSet
  BY DEF Accepted
<1>4. uaCount \in [Addr -> Nat]
  BY DEF DDInv, DDTypeOK
<1> SUFFICES ASSUME NEW u \in Addr
             PROVE  /\ IsFiniteSet({t \in tasks' : t[2] = u})
                    /\ Cardinality({t \in tasks' : t[2] = u}) <= uaCount'[u]
                    /\ uaCount'[u] < Budget(u) + LargestRequest(u)'
  BY DEF BudgetBound, TasksFinite
<1> DEFINE old == {t \in tasks : t[2] = u}
           new == {t \in TasksOf(A) : t[2] = u}
           weight == Weight({r \in A : r.ua = u})
           P == UaCalls(u)' \X WriterCalls'
<1>5. uaCount'[u] = uaCount[u] + weight
  BY <1>2 DEF Paid
<1>6. {t \in tasks' : t[2] = u} = old \cup new
  BY <1>2 DEF Paid
<1>7. IsFiniteSet(old) /\ Cardinality(old) <= uaCount[u] /\ uaCount[u] < Budget(u) + LargestRequest(u)
  BY DEF TasksFinite, BudgetBound
<1>8. IsFiniteSet(new) /\ Cardinality(new) <= weight
  BY <1>3, TasksCounted
<1>9. weight \in Nat
  <2>1. {r \in A : r.ua = u} \in SUBSET RequestSet
    BY <1>3
  <2> QED BY <2>1, WeightNat
<1>10. Budget(u) \in Nat
  BY BudgetNat
<1>11. /\ IsFiniteSet(P) /\ LargestRequest(u)' = Cardinality(P)
       /\ LargestRequest(u) \in Nat /\ LargestRequest(u)' \in Nat
       /\ LargestRequest(u) <= LargestRequest(u)'
  BY LargestGrows
<1>12. \A r \in R : r.ua = u => r.bits \X r.writeBits \subseteq P
  BY <1>1, SMTT(60)
<1>13. uaCount[u] \in Nat
  BY <1>4
<1> HIDE DEF P, old, new
<1>14. uaCount[u] < Budget(u) + Cardinality(P)
  BY <1>7, <1>10, <1>11, <1>13, SMTT(60)
<1>15. uaCount[u] + weight < Budget(u) + Cardinality(P)
  BY <1>4, <1>10, <1>11, <1>12, <1>14, CountBounded
<1>16. IsFiniteSet(old \cup new) /\ Cardinality(old \cup new) <= uaCount[u] + weight
  <2>1. /\ IsFiniteSet(old \cup new)
        /\ Cardinality(old \cup new) = Cardinality(old) + Cardinality(new) - Cardinality(old \cap new)
    BY <1>7, <1>8, FS_Union
  <2>2. old \cap new \in SUBSET old
    OBVIOUS
  <2>3. IsFiniteSet(old \cap new)
    BY <1>7, <2>2, FS_Subset
  <2>4. Cardinality(old) \in Nat /\ Cardinality(new) \in Nat /\ Cardinality(old \cap new) \in Nat
    BY <1>7, <1>8, <2>3, FS_CardinalityType
  <2> HIDE DEF weight
  <2> QED BY <1>7, <1>8, <1>9, <1>13, <2>1, <2>4, SMTT(60)
<1> HIDE DEF weight
<1> QED BY <1>5, <1>6, <1>11, <1>15, <1>16

\* The other steps leave the tasks and Count alone, while the requests grow.
LEMMA BudgetStep ==
    ASSUME DDInv, DDInv', BudgetBound, TasksFinite, [DDNext]_ddVars
    PROVE  BudgetBound' /\ TasksFinite'
<1>1. CASE UNCHANGED ddVars
  <2>1. UNCHANGED <<tasks, uaCount, uaBits, waInput>>
    BY <1>1 DEF ddVars, uaVars, waVars
  <2>2. \A u \in Addr : LargestRequest(u)' = LargestRequest(u)
    BY <2>1, SMTT(60) DEF LargestRequest
  <2> QED BY <2>1, <2>2 DEF BudgetBound, TasksFinite
<1>2. ASSUME DDNext, UNCHANGED <<tasks, uaCount>> PROVE BudgetBound' /\ TasksFinite'
  <2>1. TasksFinite'
    BY <1>2 DEF TasksFinite
  <2>2. ASSUME NEW u \in Addr PROVE uaCount[u] < Budget(u) + LargestRequest(u)'
    <3>1. uaCount[u] < Budget(u) + LargestRequest(u) /\ uaCount[u] \in Nat /\ Budget(u) \in Nat
      BY BudgetNat DEF BudgetBound, DDInv, DDTypeOK
    <3>2. /\ LargestRequest(u) \in Nat /\ LargestRequest(u)' \in Nat
          /\ LargestRequest(u) <= LargestRequest(u)'
      BY <1>2, LargestGrows
    <3> QED BY <3>1, <3>2, SMTT(60)
  <2> QED BY <1>2, <2>1, <2>2 DEF BudgetBound
<1>3. ASSUME NEW m \in NewInputMsg, AddCoveredAddress(m) PROVE UNCHANGED <<tasks, uaCount>>
  BY <1>3 DEF AddCoveredAddress
<1>4. ASSUME NEW d \in DependencyMsg, AddInputRelated(d) PROVE UNCHANGED <<tasks, uaCount>>
  BY <1>4 DEF AddInputRelated
<1>5. ASSUME DDNext, NewTasks PROVE BudgetBound' /\ TasksFinite'
  BY <1>5, PaidStep
<1>6. CASE DDNext
  BY <1>2, <1>3, <1>4, <1>5, <1>6, AddInputStep, AddDependencyRelatedStep DEF DDNext, AddDependency
<1> QED BY <1>1, <1>6

\* getTasks stops at the budget of an address: however often inputs and
\* dependencies repeat, the tasks made for it are at most its Count, which passes
\* the budget by less than one request.
THEOREM TasksWithinBudget == DDSpec => []BudgetBound
<1>1. DDInit => BudgetBound /\ TasksFinite
  <2> SUFFICES ASSUME DDInit, NEW u \in Addr
               PROVE  /\ IsFiniteSet({t \in tasks : t[2] = u})
                      /\ Cardinality({t \in tasks : t[2] = u}) <= uaCount[u]
                      /\ uaCount[u] < Budget(u) + LargestRequest(u)
    BY DEF BudgetBound, TasksFinite
  <2>1. {t \in tasks : t[2] = u} = {} /\ uaCount[u] = 0
    BY DEF DDInit
  <2>2. IsFiniteSet({t \in tasks : t[2] = u}) /\ Cardinality({t \in tasks : t[2] = u}) = 0
    BY <2>1, FS_EmptySet
  <2>3. Budget(u) \in Nat /\ Budget(u) > 0
    BY BudgetNat
  <2>4. UaCalls(u) \in SUBSET Bit /\ WriterCalls \in SUBSET Bit
    <3>1. uaBits \in [Addr -> SigBits] /\ waInput \in [Addr -> SigBits]
      BY DDInitInv DEF DDInv, DDTypeOK
    <3> QED BY <3>1, CallsAreBits, SMTT(60) DEF UaCalls, WriterCalls
  <2>5. LargestRequest(u) = Cardinality(UaCalls(u)) * Cardinality(WriterCalls)
    BY SMTT(60) DEF LargestRequest, UaCalls, WriterCalls
  <2>6. LargestRequest(u) \in Nat
    BY <2>4, <2>5, PairsCounted
  <2> QED BY <2>1, <2>2, <2>3, <2>6, SMTT(60)
<1>2. DDInv /\ DDInv' /\ BudgetBound /\ TasksFinite /\ [DDNext]_ddVars => BudgetBound' /\ TasksFinite'
  BY BudgetStep
<1> QED BY <1>1, <1>2, DDInvariant, PTL DEF DDSpec

-----------------------------------------------------------------------------
(* The composition: DependencyServer *)

\* The types of the queues and of the phases.
QueueTypeOK ==
    /\ newInput \in Seq(NewInputs)
    /\ coveredInput \in Seq(NewInputs)
    /\ input \in Seq(NewInputs)
    /\ newDependency \in Seq(DependencyMsg)
    /\ upc \in {"idle", "covered", "input", "dependency"}
    /\ upc # "dependency" => work \in Seq(NewInputs)
    /\ upc = "dependency" => work \in Seq(DependencyMsg)
    /\ getter \in {"idle", "entered", "popped", "reply"}
    /\ got \in NewInputs \cup {NoMsg}
    /\ getter \in {"popped", "reply"} => got \in NewInputs

\* What the refinement needs.
ServerInv == DraTypeOK /\ QueueTypeOK

-----------------------------------------------------------------------------
\* An empty sequence has every type, and a sequence keeps its type when its ends
\* are taken or added to.
LEMMA SeqFacts ==
    ASSUME NEW S, NEW q \in Seq(S)
    PROVE  /\ <<>> \in Seq(S)
           /\ \A x \in S : Append(q, x) \in Seq(S)
           /\ q # <<>> => /\ Head(q) \in S /\ Tail(q) \in Seq(S)
                          /\ q[Len(q)] \in S /\ SubSeq(q, 1, Len(q) - 1) \in Seq(S)
<1>1. <<>> \in Seq(S) /\ \A x \in S : Append(q, x) \in Seq(S)
  BY SMTT(60)
<1>2. ASSUME q # <<>>
      PROVE  /\ Head(q) \in S /\ Tail(q) \in Seq(S)
             /\ q[Len(q)] \in S /\ SubSeq(q, 1, Len(q) - 1) \in Seq(S)
  <2>1. Len(q) \in Nat /\ Len(q) > 0
    BY <1>2, SMTT(60)
  <2>2. Head(q) \in S /\ Tail(q) \in Seq(S)
    BY <1>2, SMTT(60)
  <2>3. q[Len(q)] \in S
    BY <2>1, SMTT(60)
  <2>4. SubSeq(q, 1, Len(q) - 1) \in Seq(S)
    BY <2>1, SMTT(60)
  <2> QED BY <2>2, <2>3, <2>4
<1> QED BY <1>1, <1>2

\* What check_input makes of a condition is a Dependency.
LEMMA DependencyOfType ==
    ASSUME DraTypeOK, NEW c \in Condition
    PROVE  DependencyOf(c) \in DependencyMsg
<1> DEFINE wa == IF c.branch \in InputRelated THEN {} ELSE Mods[c.branch]
           inputs == [w \in Addr |-> IF w \in wa THEN WriteInputs(w) ELSE [s \in Sig |-> {}]]
<1>1. c.branch \in Branch /\ c.idx \in Nat
  BY CallAssumption DEF Condition
<1>2. c.branch[2] \in Addr
  BY <1>1, BranchAssumption
<1>3. wa \subseteq Addr
  BY <1>1, ModsAssumption
<1>4. IdxBits(c) \subseteq Bit
  BY SMTT(60) DEF IdxBits, BitsOf, Bit, WordSize
<1>5. inputs \in [Addr -> SigBits]
  <2>1. [s \in Sig |-> {}] \in SigBits
    BY DEF SigBits
  <2>2. \A w \in Addr : WriteInputs(w) \in SigBits
    BY DEF WriteInputs, DraTypeOK
  <2> HIDE DEF wa
  <2> QED BY <2>1, <2>2
<1>6. current \in Sig
  BY DEF DraTypeOK
<1>7. DependencyOf(c) =
        [kind |-> IF c.branch \in InputRelated THEN "InputRelated" ELSE "DependencyRelated",
         ua |-> c.branch[2], sig |-> current, bits |-> IdxBits(c), wa |-> wa, waInput |-> inputs]
  BY DEF DependencyOf
<1>8. c.branch \in InputRelated => wa = {}
  OBVIOUS
<1> HIDE DEF wa, inputs
<1> QED BY <1>2, <1>3, <1>4, <1>5, <1>6, <1>7, <1>8, SMTT(60) DEF DependencyMsg

\* getInput keeps the types of the analysis.
LEMMA GetInputType ==
    ASSUME DraTypeOK, NEW m \in NewInputs, GetInput(m)
    PROVE  DraTypeOK'
<1> DEFINE touched == m.cover \cup {b[2] : b \in Uncovered(m)}
<1>1. m.sig \in Sig /\ m.call \in Call /\ m.call \in Nat /\ m.cover \subseteq Addr
  BY NewInputsAssumption, CallAssumption DEF NewInputMsg
<1>2. cover' \subseteq Addr /\ current' \in Sig
  BY <1>1 DEF GetInput, DraTypeOK
<1>3. ShiftedIdx(m.call) \subseteq Bit
  BY <1>1, SMTT(60) DEF ShiftedIdx, Bit, WordSize
<1>4. bbInput' \in [Addr -> SigBits]
  <2>1. bbInput' = [a \in Addr |->
           IF a \in touched THEN [bbInput[a] EXCEPT ![m.sig] = @ \cup ShiftedIdx(m.call)]
                            ELSE bbInput[a]]
    BY DEF GetInput
  <2>2. \A a \in Addr : bbInput[a] \in [Sig -> SUBSET Bit]
    BY DEF DraTypeOK, SigBits
  <2>3. \A a \in Addr : [bbInput[a] EXCEPT ![m.sig] = @ \cup ShiftedIdx(m.call)] \in [Sig -> SUBSET Bit]
    BY <1>1, <1>3, <2>2
  <2> HIDE DEF touched
  <2> QED BY <2>1, <2>2, <2>3 DEF SigBits
<1>5. dUncoveredAddress' \in [Sig -> SUBSET Condition]
  <2>1. dUncoveredAddress' = [dUncoveredAddress EXCEPT ![m.sig] =
           {c \in @ \cup [branch : Uncovered(m), idx : {m.call}] : c.branch[2] \notin cover'}]
    BY DEF GetInput
  <2>2. [branch : Uncovered(m), idx : {m.call}] \subseteq Condition
    BY <1>1 DEF Uncovered, Condition
  <2> QED BY <1>1, <2>1, <2>2 DEF DraTypeOK
<1>6. todo' \subseteq Condition
  <2>1. todo' = dUncoveredAddress'[m.sig]
    BY DEF GetInput
  <2> QED BY <1>1, <1>5, <2>1
<1> QED BY <1>2, <1>4, <1>5, <1>6 DEF DraTypeOK

\* Before any call the queues are empty.
LEMMA ServerInitInv == Init => ServerInv
<1> SUFFICES ASSUME Init PROVE ServerInv
  OBVIOUS
<1>1. current \in Sig
  BY SomeSig DEF Init, DraInit
<1>2. DraTypeOK
  BY <1>1 DEF Init, DraInit, DraTypeOK, SigBits
<1>3. QueueTypeOK
  BY SMTT(60) DEF Init, QueueTypeOK
<1> QED BY <1>2, <1>3 DEF ServerInv

\* Every step keeps the types, and is a step of the maps or leaves them alone.
LEMMA ServerStep ==
    ASSUME ServerInv, [Next]_vars
    PROVE  ServerInv' /\ [DDNext]_ddVars
<1> USE DEF ServerInv
<1>1. ASSUME NEW m \in NewInputs, SendNewInput(m) PROVE ServerInv' /\ UNCHANGED ddVars
  <2>1. Append(newInput, m) \in Seq(NewInputs) /\ Append(coveredInput, m) \in Seq(NewInputs)
    BY SMTT(60) DEF QueueTypeOK
  <2>2. UNCHANGED <<ddVars, draVars, input, newDependency, getVars, updateVars>>
    BY <1>1 DEF SendNewInput, SendNewInputEnter, SendNewInputQueue, SendNewInputCovered
  <2>3. newInput' \in Seq(NewInputs) /\ coveredInput' \in Seq(NewInputs)
    BY <1>1, <2>1 DEF QueueTypeOK, SendNewInput, SendNewInputEnter, SendNewInputQueue,
                      SendNewInputCovered
  <2> QED BY <2>2, <2>3 DEF QueueTypeOK, DraTypeOK, draVars, getVars, updateVars
<1>2. CASE GetNewInputEnter
  BY <1>2 DEF GetNewInputEnter, QueueTypeOK, DraTypeOK, draVars, rpcVars, updateVars
<1>3. CASE GetNewInputPop
  <2>1. newInput # <<>> => /\ newInput[Len(newInput)] \in NewInputs
                           /\ SubSeq(newInput, 1, Len(newInput) - 1) \in Seq(NewInputs)
    BY SeqFacts DEF QueueTypeOK
  <2>2. /\ newInput' \in Seq(NewInputs)
        /\ getter' \in {"idle", "popped"}
        /\ got' \in NewInputs \cup {NoMsg}
        /\ getter' = "popped" => got' \in NewInputs
    BY <1>3, <2>1 DEF GetNewInputPop, QueueTypeOK
  <2>3. UNCHANGED <<ddVars, draVars, coveredInput, input, newDependency, updateVars>>
    BY <1>3 DEF GetNewInputPop
  <2> QED BY <2>2, <2>3 DEF QueueTypeOK, DraTypeOK, draVars, updateVars
<1>4. CASE GetNewInputFile
  <2>1. Append(input, got) \in Seq(NewInputs)
    BY <1>4, SMTT(60) DEF GetNewInputFile, QueueTypeOK
  <2> QED BY <1>4, <2>1 DEF GetNewInputFile, QueueTypeOK, DraTypeOK, draVars, updateVars
<1>5. CASE GetNewInputReply
  <2>1. got \in NewInputs /\ GetInput(got)
    BY <1>5 DEF GetNewInputReply, QueueTypeOK
  <2>2. DraTypeOK'
    BY <2>1, GetInputType
  <2> QED BY <1>5, <2>2 DEF GetNewInputReply, QueueTypeOK, rpcVars, updateVars
<1>6. CASE GetNewInputLost
  BY <1>6 DEF GetNewInputLost, QueueTypeOK, DraTypeOK, draVars, rpcVars, updateVars
<1>7. ASSUME NEW c \in todo, SendDependency(c) PROVE ServerInv' /\ UNCHANGED ddVars
  <2>1. Append(newDependency, DependencyOf(c)) \in Seq(DependencyMsg)
    BY DependencyOfType, SMTT(60) DEF DraTypeOK, QueueTypeOK
  <2>2. DraTypeOK'
    BY <1>7 DEF SendDependency, Sent, DraTypeOK
  <2> QED BY <1>7, <2>1, <2>2 DEF SendDependency, QueueTypeOK, getVars, updateVars
<1>8. ASSUME NEW c \in todo, SendDependencyLost(c) PROVE ServerInv' /\ UNCHANGED ddVars
  <2>1. DraTypeOK'
    BY <1>8 DEF SendDependencyLost, Sent, DraTypeOK
  <2> QED BY <1>8, <2>1 DEF SendDependencyLost, QueueTypeOK, rpcVars, updateVars
<1>9. CASE UpdateTakeCovered
  BY <1>9, SeqFacts DEF UpdateTakeCovered, QueueTypeOK, DraTypeOK, draVars, getVars
<1>10. CASE UpdateTakeInput
  BY <1>10, SeqFacts DEF UpdateTakeInput, QueueTypeOK, DraTypeOK, draVars
<1>11. CASE UpdateTakeDependency
  BY <1>11, SeqFacts DEF UpdateTakeDependency, QueueTypeOK, DraTypeOK, draVars, getVars
<1>12. CASE UpdateStep
  <2>1. work # <<>> /\ work' = Tail(work) /\ upc' = upc
    BY <1>12 DEF UpdateStep
  <2>2. ASSUME upc # "dependency"
        PROVE  Head(work) \in NewInputMsg /\ work' \in Seq(NewInputs)
    BY <2>1, <2>2, SeqFacts, NewInputsAssumption DEF QueueTypeOK
  <2>3. ASSUME upc = "dependency"
        PROVE  Head(work) \in DependencyMsg /\ work' \in Seq(DependencyMsg)
    BY <2>1, <2>3, SeqFacts DEF QueueTypeOK
  <2>4. DDNext
    <3>1. CASE upc = "covered" /\ AddCoveredAddress(Head(work))
      BY <2>2, <3>1 DEF DDNext
    <3>2. CASE upc = "input" /\ AddInput(Head(work))
      BY <2>2, <3>2 DEF DDNext
    <3>3. CASE upc = "dependency" /\ AddDependency(Head(work))
      BY <2>3, <3>3 DEF DDNext
    <3> QED BY <1>12, <3>1, <3>2, <3>3 DEF UpdateStep
  <2>5. UNCHANGED <<draVars, rpcVars, getVars>>
    BY <1>12 DEF UpdateStep
  <2>6. ServerInv'
    BY <2>1, <2>2, <2>3, <2>5 DEF QueueTypeOK, DraTypeOK, draVars, rpcVars, getVars
  <2> QED BY <2>4, <2>6
<1>13. CASE UpdateEnd
  <2>1. <<>> \in Seq(NewInputs)
    BY SMTT(60)
  <2> QED BY <1>13, <2>1 DEF UpdateEnd, QueueTypeOK, DraTypeOK, draVars, rpcVars, getVars
<1>14. CASE UNCHANGED vars
  BY <1>14 DEF vars, QueueTypeOK, DraTypeOK, draVars, rpcVars, getVars, updateVars
<1>15. CASE Next
  BY <1>1, <1>2, <1>3, <1>4, <1>5, <1>6, <1>7, <1>8, <1>9, <1>10, <1>11, <1>12, <1>13, <1>15
     DEF Next, Analysis, Failure, Update
<1> QED BY <1>14, <1>15

\* The queues and the analysis keep their types.
LEMMA ServerInvariant == Spec => []ServerInv
<1>1. ServerInv /\ [Next]_vars => ServerInv'
  BY ServerStep
<1> QED BY <1>1, ServerInitInv, PTL DEF Spec

\* Whatever fuzzers, analysis and handlers do, Update drives the maps by messages
\* of the types only: the composition implements the specification of the maps.
THEOREM ServerImplementsMaps == Spec => DDSpec
<1>1. Init => DDInit
  BY DEF Init
<1>2. ServerInv /\ [Next]_vars => [DDNext]_ddVars
  BY ServerStep
<1> QED BY <1>1, <1>2, ServerInvariant, PTL DEF Spec, DDSpec

\* So the theorems about the maps hold while fuzzers, analysis and Update interleave:
\* coverage is never contradicted, back references are there, and the only log.Fatalf
\* that can end the manager is getTask's about a writeSig.
THEOREM ServerMapsAgree == Spec => [](CoverageAgrees /\ MapsAgree /\ OnlyWriteSigFatal)
  BY ServerImplementsMaps, CoverageStaysCovered, BackReferences, OneFatal, PTL

-----------------------------------------------------------------------------
\* The types of the calls under way.
CallTypeOK ==
    /\ sender \in [NewInputs -> {"fuzzer", "entered", "queued", "done"}]
    /\ stale \subseteq NewInputs
    /\ getStale \in BOOLEAN
    /\ lost \in 0 .. MaxLost
    /\ overtaken \in BOOLEAN

\* Every step keeps the types of the calls under way.
LEMMA CallStep ==
    ASSUME CallTypeOK, [Next]_vars
    PROVE  CallTypeOK'
<1>1. ASSUME NEW m \in NewInputs, SendNewInput(m)
      PROVE  sender' \in [NewInputs -> {"fuzzer", "entered", "queued", "done"}]
             /\ UNCHANGED <<stale, getStale, lost, overtaken>>
  BY <1>1 DEF CallTypeOK, SendNewInput, SendNewInputEnter, SendNewInputQueue,
              SendNewInputCovered, getVars
<1>2. CASE GetNewInputEnter
  BY <1>2 DEF CallTypeOK, GetNewInputEnter, rpcVars
<1>3. CASE GetNewInputPop
  BY <1>3 DEF CallTypeOK, GetNewInputPop
<1>4. CASE GetNewInputFile
  <2>1. overtaken' \in BOOLEAN
    BY <1>4 DEF GetNewInputFile
  <2> QED BY <1>4, <2>1 DEF CallTypeOK, GetNewInputFile
<1>5. CASE GetNewInputReply
  BY <1>5 DEF CallTypeOK, GetNewInputReply, rpcVars
<1>6. ASSUME lost < MaxLost, lost' = lost + 1 PROVE lost' \in 0 .. MaxLost
  BY <1>6, MaxLostAssumption, SMTT(60) DEF CallTypeOK
<1>7. CASE GetNewInputLost
  BY <1>6, <1>7 DEF CallTypeOK, GetNewInputLost, rpcVars
<1>8. ASSUME NEW c \in todo, SendDependency(c) PROVE CallTypeOK'
  BY <1>8 DEF CallTypeOK, SendDependency, getVars
<1>9. ASSUME NEW c \in todo, SendDependencyLost(c) PROVE CallTypeOK'
  BY <1>6, <1>9 DEF CallTypeOK, SendDependencyLost, rpcVars
<1>10. CASE UpdateTakeCovered
  BY <1>10 DEF CallTypeOK, UpdateTakeCovered, getVars
<1>11. CASE UpdateTakeInput
  <2>1. getStale' \in BOOLEAN
    BY <1>11 DEF UpdateTakeInput
  <2> QED BY <1>11, <2>1 DEF CallTypeOK, UpdateTakeInput
<1>12. CASE UpdateTakeDependency \/ UpdateStep \/ UpdateEnd
  BY <1>12 DEF CallTypeOK, UpdateTakeDependency, UpdateStep, UpdateEnd, rpcVars, getVars
<1>13. CASE UNCHANGED vars
  BY <1>13 DEF CallTypeOK, vars, rpcVars, getVars
<1> QED BY <1>1, <1>2, <1>3, <1>4, <1>5, <1>7, <1>8, <1>9, <1>10, <1>11, <1>12, <1>13
        DEF Next, Analysis, Failure, Update, CallTypeOK

\* Before any call nothing is under way.
LEMMA CallInit == Init => CallTypeOK
<1> SUFFICES ASSUME Init PROVE CallTypeOK
  OBVIOUS
<1>1. lost \in 0 .. MaxLost
  BY MaxLostAssumption, SMTT(60) DEF Init
<1>2. getStale \in BOOLEAN /\ overtaken \in BOOLEAN
  BY DEF Init
<1> QED BY <1>1, <1>2 DEF Init, CallTypeOK

\* What Update has drained is treated, to the last message, by the phase it was
\* drained for, and the maps, the queues and the analysis keep their types.
THEOREM ServerTypes == Spec => []TypeOK
<1>1. Init => CallTypeOK
  BY CallInit
<1>2. CallTypeOK /\ [Next]_vars => CallTypeOK'
  BY CallStep
<1>3. Spec => []CallTypeOK
  BY <1>1, <1>2, PTL DEF Spec
<1>4. DDTypeOK /\ ServerInv /\ CallTypeOK => TypeOK
  BY DEF ServerInv, QueueTypeOK, CallTypeOK, TypeOK
<1> QED BY <1>3, <1>4, ServerInvariant, ServerImplementsMaps, MapsTypeOK, PTL

-----------------------------------------------------------------------------
\* The types of all the parts, and the invariant of the maps.
BaseInv == ServerInv /\ CallTypeOK /\ DDInv

\* The types and the invariant of the maps hold of the whole system.
LEMMA BaseInvariant == Spec => []BaseInv
<1>1. Spec => []CallTypeOK
  <2>1. CallTypeOK /\ [Next]_vars => CallTypeOK'
    BY CallStep
  <2> QED BY <2>1, CallInit, PTL DEF Spec
<1>2. ServerInv /\ CallTypeOK /\ DDInv => BaseInv
  BY DEF BaseInv
<1> QED BY <1>1, <1>2, ServerInvariant, ServerImplementsMaps, DDInvariant, PTL

\* What is in a sequence when an end is added to or taken.
LEMMA InSeqFacts ==
    ASSUME NEW S, NEW q \in Seq(S), NEW y
    PROVE  /\ ~ InSeq(y, <<>>)
           /\ InSeq(y, q) => y \in S
           /\ \A x \in S : InSeq(y, Append(q, x)) <=> InSeq(y, q) \/ y = x
           /\ q # <<>> => (InSeq(y, q) <=> y = Head(q) \/ InSeq(y, Tail(q)))
           /\ q # <<>> => (InSeq(y, q) <=> y = q[Len(q)] \/ InSeq(y, SubSeq(q, 1, Len(q) - 1)))
<1>1. ~ InSeq(y, <<>>)
  BY SMTT(60) DEF InSeq
<1>2. InSeq(y, q) => y \in S
  BY SMTT(60) DEF InSeq
<1>3. ASSUME NEW x \in S PROVE InSeq(y, Append(q, x)) <=> InSeq(y, q) \/ y = x
  <2>1. /\ Len(Append(q, x)) = Len(q) + 1 /\ Len(q) \in Nat /\ Append(q, x)[Len(q) + 1] = x
        /\ \A i \in 1 .. Len(q) : Append(q, x)[i] = q[i]
    BY SMTT(60)
  <2>2. InSeq(y, q) \/ y = x => InSeq(y, Append(q, x))
    BY <2>1, SMTT(60) DEF InSeq
  <2>3. InSeq(y, Append(q, x)) => InSeq(y, q) \/ y = x
    BY <2>1, SMTT(60) DEF InSeq
  <2> QED BY <2>2, <2>3
<1>4. ASSUME q # <<>> PROVE InSeq(y, q) <=> y = Head(q) \/ InSeq(y, Tail(q))
  <2>1. /\ Len(q) \in Nat /\ Len(q) >= 1 /\ Head(q) = q[1] /\ Len(Tail(q)) = Len(q) - 1
        /\ \A i \in 1 .. Len(q) - 1 : Tail(q)[i] = q[i + 1]
    BY <1>4, SMTT(60)
  <2>2. y = Head(q) \/ InSeq(y, Tail(q)) => InSeq(y, q)
    BY <2>1, SMTT(60) DEF InSeq
  <2>3. ASSUME InSeq(y, q) PROVE y = Head(q) \/ InSeq(y, Tail(q))
    <3>1. PICK i \in 1 .. Len(q) : q[i] = y
      BY <2>3 DEF InSeq
    <3>2. CASE i = 1
      BY <2>1, <3>1, <3>2
    <3>3. CASE i # 1
      <4>1. i - 1 \in 1 .. Len(q) - 1 /\ (i - 1) + 1 = i
        BY <2>1, <3>3, SMTT(60)
      <4>2. Tail(q)[i - 1] = y /\ i - 1 \in 1 .. Len(Tail(q))
        BY <2>1, <3>1, <4>1
      <4> QED BY <4>2 DEF InSeq
    <3> QED BY <3>2, <3>3
  <2> QED BY <2>2, <2>3
<1>5. ASSUME q # <<>>
      PROVE  InSeq(y, q) <=> y = q[Len(q)] \/ InSeq(y, SubSeq(q, 1, Len(q) - 1))
  <2> DEFINE n == Len(q) - 1
             f == SubSeq(q, 1, n)
  <2>1. Len(q) \in Nat /\ Len(q) >= 1
    BY <1>5, SMTT(60)
  <2>2. n \in Nat /\ Len(q) = n + 1
    BY <2>1, SMTT(60)
  <2> HIDE DEF n
  <2>3. Len(f) = n /\ \A i \in 1 .. n : f[i] = q[i]
    BY <2>2, SMTT(60)
  <2> HIDE DEF f
  <2>4. y = q[Len(q)] \/ InSeq(y, f) => InSeq(y, q)
    BY <2>2, <2>3, SMTT(60) DEF InSeq
  <2>5. InSeq(y, q) => y = q[Len(q)] \/ InSeq(y, f)
    BY <2>2, <2>3, SMTT(60) DEF InSeq
  <2> QED BY <2>4, <2>5 DEF f, n
<1> QED BY <1>1, <1>2, <1>3, <1>4, <1>5

\* One turn of a loop of Update treats the first message drained.
LEMMA UpdateStepFacts ==
    ASSUME BaseInv, UpdateStep
    PROVE  /\ work # <<>> /\ work' = Tail(work) /\ upc' = upc
           /\ UNCHANGED <<draVars, rpcVars, getVars, overtaken>>
           /\ \/ /\ upc = "covered" /\ work \in Seq(NewInputs)
                 /\ Head(work) \in NewInputs /\ Head(work) \in NewInputMsg
                 /\ AddCoveredAddress(Head(work))
              \/ /\ upc = "input" /\ work \in Seq(NewInputs)
                 /\ Head(work) \in NewInputs /\ Head(work) \in NewInputMsg
                 /\ AddInput(Head(work))
              \/ /\ upc = "dependency" /\ work \in Seq(DependencyMsg)
                 /\ Head(work) \in DependencyMsg
                 /\ AddDependency(Head(work))
<1>1. /\ work # <<>> /\ work' = Tail(work) /\ upc' = upc
      /\ UNCHANGED <<draVars, rpcVars, getVars, overtaken>>
  BY DEF UpdateStep
<1>2. ASSUME upc # "dependency"
      PROVE  work \in Seq(NewInputs) /\ Head(work) \in NewInputs /\ Head(work) \in NewInputMsg
  BY <1>1, <1>2, SeqFacts, NewInputsAssumption DEF BaseInv, ServerInv, QueueTypeOK
<1>3. ASSUME upc = "dependency"
      PROVE  work \in Seq(DependencyMsg) /\ Head(work) \in DependencyMsg
  BY <1>1, <1>3, SeqFacts DEF BaseInv, ServerInv, QueueTypeOK
<1> QED BY <1>1, <1>2, <1>3 DEF UpdateStep

-----------------------------------------------------------------------------
\* Message m waits for addInput, in the queue or in what Update has drained.
Adding(m) == InSeq(m, input) \/ (upc = "input" /\ InSeq(m, work))

\* Dependency d waits for Update.
Waiting(d) == InSeq(d, newDependency) \/ (upc = "dependency" /\ InSeq(d, work))

\* The input is known, or waits to be added.
Filed(s) == s \in Input \/ \E m \in NewInputs : m.sig = s /\ Adding(m)

\* GetNewInput holds message m.
Held(m) == getter \in {"popped", "reply"} /\ got = m

\* Message m is on its way to the analysis.
Offered(m) == InSeq(m, newInput) \/ Held(m)

\* Message m waits for addCoveredAddress.
Covering(m) == InSeq(m, coveredInput) \/ (upc = "covered" /\ InSeq(m, work))

\* The message has been queued for the analysis.
Queued(m) == sender[m] \in {"queued", "done"}

\* Unless a GetNewInput was overtaken by Update: the analysis hears only of
\* inputs that are filed, and the queue of inputs stays empty from the time that
\* Update has taken it until it has treated the dependencies.
WritersInv ==
    \/ overtaken
    \/ /\ Alive
       /\ upc \in {"input", "dependency"} => input = <<>>
       /\ getter = "reply" => Filed(got.sig)
       /\ \A a \in Addr, s \in Sig : bbInput[a][s] # {} => Filed(s)
       /\ \A d \in DependencyMsg : Waiting(d) =>
              \A w \in Addr, s \in Sig : d.waInput[w][s] # {} => Filed(s)
       /\ WritersListed

\* Manager and analysis cover what has been sent to them, the manager only what
\* the analysis will get as well; unless a call has failed, nothing is missing.
DeliveredInv ==
    /\ \A m \in NewInputs : Covering(m) => Received(m)
    /\ \A a \in Coverage : \E m \in NewInputs : Received(m) /\ a \in m.cover
    /\ \A m \in NewInputs : Offered(m) => Queued(m)
    /\ \A a \in cover : \E m \in NewInputs : Queued(m) /\ a \in m.cover
    /\ lost = 0 => \A m \in NewInputs : Queued(m) => Offered(m) \/ m.cover \subseteq cover

\* The branches that start in covered code are on their way from the analysis to
\* the manager, and no others.
FrontierInv ==
    /\ \A s \in Sig : \A c \in dUncoveredAddress[s] : c.branch[1] \in cover
    /\ \A c \in todo : c.branch[1] \in cover
    /\ \A d \in DependencyMsg : Waiting(d) => \E b \in Branch : b[1] \in cover /\ b[2] = d.ua
    /\ \A u \in UncoveredAddress : \E b \in Branch : b[1] \in cover /\ b[2] = u
    /\ lost = 0 => \A b \in Branch : b[1] \in cover /\ b[2] \notin cover =>
           \/ \E c \in todo : c.branch = b
           \/ \E d \in DependencyMsg : Waiting(d) /\ d.ua = b[2]
           \/ b[2] \in UncoveredAddress \cup Coverage

\* A program sig, sent by a fuzzer, that comes to the condition of branch b.
Comes(s, b) == \E m \in NewInputs : m.sig = s /\ b[1] \in m.cover /\ sender[m] # "fuzzer"

\* The same for a branch to u that depends on global variables.
ComesTo(s, u) == \E b \in BranchesTo(u) : Comes(s, b)

\* Call i of a program sig, sent by a fuzzer, borders on block w.
Writes(s, i, w) ==
    \E m \in NewInputs : /\ m.sig = s /\ i \in ShiftedIdx(m.call)
                         /\ Borders(m, w) /\ sender[m] # "fuzzer"

\* Block w writes what the condition of a branch to u reads.
WrittenFor(w, u) == \E b \in BranchesTo(u) : w \in Mods[b]

\* What the maps of both processes, the queues and the tasks say of programs,
\* writers and branches is so.
PurposeInv ==
    /\ \A m \in NewInputs : Adding(m) => sender[m] # "fuzzer"
    /\ \A s \in Sig : \A c \in dUncoveredAddress[s] : Comes(s, c.branch)
    /\ \A c \in todo : Comes(current, c.branch)
    /\ \A a \in Addr, s \in Sig : \A i \in bbInput[a][s] : Writes(s, i, a)
    /\ \A d \in DependencyMsg : Waiting(d) /\ d.kind = "DependencyRelated" =>
           /\ ComesTo(d.sig, d.ua)
           /\ \A w \in d.wa : WrittenFor(w, d.ua)
           /\ \A w \in d.wa, s \in Sig : \A i \in d.waInput[w][s] : Writes(s, i, w)
    /\ \A u \in Addr : \A s \in uaSig[u] : ComesTo(s, u)
    /\ \A u \in Addr : \A w \in uaWA[u] : WrittenFor(w, u)
    /\ \A w \in Addr, s \in Sig : \A i \in waInput[w][s] : Writes(s, i, w)
    /\ \A t \in tasks :
           /\ ComesTo(t[1].sig, t[2])
           /\ \E w \in Addr : WrittenFor(w, t[2]) /\ Writes(t[1].writeSig, t[1].writeIndex, w)

\* A call of SendNewInput only moves on.
LEMMA SenderGrows ==
    ASSUME BaseInv, [Next]_vars, NEW m \in NewInputs
    PROVE  /\ sender[m] # "fuzzer" => sender'[m] # "fuzzer"
           /\ Queued(m) => Queued(m)'
           /\ Received(m) => Received(m)'
           /\ Queued(m) => sender[m] # "fuzzer"
           /\ Received(m) => Queued(m)
<1> USE DEF Queued, Received
<1>1. ASSUME NEW n \in NewInputs, SendNewInput(n)
      PROVE  \/ sender[n] = "fuzzer" /\ sender' = [sender EXCEPT ![n] = "entered"]
             \/ sender[n] = "entered" /\ sender' = [sender EXCEPT ![n] = "queued"]
             \/ sender[n] = "queued" /\ sender' = [sender EXCEPT ![n] = "done"]
  BY <1>1 DEF SendNewInput, SendNewInputEnter, SendNewInputQueue, SendNewInputCovered
<1>2. sender \in [NewInputs -> {"fuzzer", "entered", "queued", "done"}]
  BY DEF BaseInv, CallTypeOK
<1>3. CASE \E n \in NewInputs : SendNewInput(n)
  <2>1. PICK n \in NewInputs : SendNewInput(n)
    BY <1>3
  <2>2. CASE n = m
    BY <1>1, <1>2, <2>1, <2>2
  <2>3. CASE n # m
    <3>1. sender'[m] = sender[m]
      BY <1>1, <1>2, <2>1, <2>3
    <3> QED BY <3>1
  <2> QED BY <2>2, <2>3
<1>4. CASE sender' = sender
  BY <1>4
<1>5. (\E n \in NewInputs : SendNewInput(n)) \/ sender' = sender
  BY DEF Next, Analysis, Failure, Update, vars, rpcVars, GetNewInputEnter, GetNewInputPop,
         GetNewInputFile, GetNewInputReply, GetNewInputLost, SendDependency, SendDependencyLost,
         UpdateTakeCovered, UpdateTakeInput, UpdateTakeDependency, UpdateStep, UpdateEnd
<1> QED BY <1>3, <1>4, <1>5

\* SendNewInput, Update and the rest keep ReceivedChecked: the queue is taken as
\* a whole, and what Update has drained it treats to the end.
LEMMA ReceivedStep ==
    ASSUME BaseInv, ReceivedChecked, [Next]_vars
    PROVE  ReceivedChecked'
<1> SUFFICES ASSUME NEW m \in NewInputs, m \notin stale', sender'[m] = "done"
             PROVE  \/ InSeq(m, coveredInput')
                    \/ upc' = "covered" /\ InSeq(m, work')
                    \/ m.cover \subseteq Coverage'
  BY DEF ReceivedChecked, Received
<1>1. /\ coveredInput \in Seq(NewInputs) /\ sender \in [NewInputs -> {"fuzzer", "entered", "queued", "done"}]
      /\ upc # "dependency" => work \in Seq(NewInputs)
  BY DEF BaseInv, ServerInv, QueueTypeOK, CallTypeOK
<1>2. ASSUME m \notin stale, sender[m] = "done"
      PROVE  \/ InSeq(m, coveredInput)
             \/ upc = "covered" /\ InSeq(m, work)
             \/ m.cover \subseteq Coverage
  BY <1>2 DEF ReceivedChecked, Received
<1>3. ASSUME NEW n \in NewInputs, SendNewInput(n)
      PROVE  \/ InSeq(m, coveredInput')
             \/ upc' = "covered" /\ InSeq(m, work')
             \/ m.cover \subseteq Coverage'
  <2>1. UNCHANGED <<stale, upc, work, Coverage>>
    BY <1>3 DEF SendNewInput, SendNewInputEnter, SendNewInputQueue, SendNewInputCovered,
                updateVars, ddVars
  <2>2. coveredInput' = coveredInput \/ coveredInput' = Append(coveredInput, n)
    BY <1>3 DEF SendNewInput, SendNewInputEnter, SendNewInputQueue, SendNewInputCovered
  <2>3. InSeq(m, coveredInput) => InSeq(m, coveredInput')
    <3>1. InSeq(m, coveredInput) => InSeq(m, Append(coveredInput, n))
      BY <1>1, InSeqFacts
    <3> QED BY <2>2, <3>1
  <2>4. CASE sender[m] = "done"
    BY <1>2, <2>1, <2>3, <2>4
  <2>5. CASE sender[m] # "done"
    <3>1. m = n /\ SendNewInputCovered(n)
      BY <1>1, <1>3, <2>5 DEF SendNewInput, SendNewInputEnter, SendNewInputQueue,
                              SendNewInputCovered
    <3>2. coveredInput' = Append(coveredInput, m)
      BY <2>1, <3>1 DEF SendNewInputCovered
    <3> QED BY <1>1, <3>2, InSeqFacts
  <2> QED BY <2>4, <2>5
<1>4. CASE Analysis \/ Failure \/ UpdateTakeDependency \/ UpdateEnd \/ UNCHANGED vars
  <2>1. UNCHANGED <<sender, stale, coveredInput, Coverage>>
    BY <1>4 DEF Analysis, Failure, vars, rpcVars, ddVars, GetNewInputEnter, GetNewInputPop,
       GetNewInputFile, GetNewInputReply, GetNewInputLost, SendDependency, SendDependencyLost,
       UpdateTakeDependency, UpdateEnd
  <2>2. UNCHANGED <<upc, work>> \/ upc # "covered"
    BY <1>4 DEF Analysis, Failure, vars, updateVars, GetNewInputEnter, GetNewInputPop,
       GetNewInputFile, GetNewInputReply, GetNewInputLost, SendDependency, SendDependencyLost,
       UpdateTakeDependency, UpdateEnd
  <2> QED BY <1>2, <2>1, <2>2
<1>5. CASE UpdateTakeCovered
  <2>1. /\ upc = "idle" /\ upc' = "covered" /\ work' = coveredInput
        /\ sender' = sender /\ stale \subseteq stale' /\ Coverage' = Coverage
    BY <1>5 DEF UpdateTakeCovered, ddVars
  <2> QED BY <1>2, <2>1
<1>6. CASE UpdateTakeInput
  <2>1. work = <<>> /\ UNCHANGED <<sender, stale, coveredInput, Coverage>>
    BY <1>6 DEF UpdateTakeInput, ddVars
  <2>2. ~ InSeq(m, work)
    BY <1>1, <2>1, InSeqFacts
  <2> QED BY <1>2, <2>1, <2>2
<1>7. CASE UpdateStep
  <2>1. UNCHANGED <<sender, stale, coveredInput>> /\ upc' = upc
    BY <1>7 DEF UpdateStep, rpcVars
  <2>2. Coverage \subseteq Coverage'
    <3>1. DDNext
      BY <1>7, UpdateStepFacts DEF DDNext
    <3> QED BY <3>1, LifecycleStep DEF BaseInv, Lifecycle
  <2>3. ASSUME upc = "covered", InSeq(m, work)
        PROVE  InSeq(m, work') \/ m.cover \subseteq Coverage'
    <3>1. /\ work # <<>> /\ work' = Tail(work) /\ work \in Seq(NewInputs)
          /\ AddCoveredAddress(Head(work))
      BY <1>7, <2>3, UpdateStepFacts
    <3>2. m = Head(work) \/ InSeq(m, work')
      BY <2>3, <3>1, InSeqFacts
    <3>3. Head(work).cover \subseteq Coverage'
      BY <3>1 DEF AddCoveredAddress
    <3> QED BY <3>2, <3>3
  <2> QED BY <1>2, <2>1, <2>2, <2>3
<1> QED BY <1>3, <1>4, <1>5, <1>6, <1>7 DEF Next, Update

\* An input whose SendNewInput has returned is queued, being treated, or in the
\* coverage, unless the call held a queue that Update had replaced.
THEOREM ReceivedAreChecked == Spec => []ReceivedChecked
<1>1. Init => ReceivedChecked
  BY DEF Init, ReceivedChecked, Received
<1>2. BaseInv /\ ReceivedChecked /\ [Next]_vars => ReceivedChecked'
  BY ReceivedStep
<1> QED BY <1>1, <1>2, BaseInvariant, PTL DEF Spec

-----------------------------------------------------------------------------
\* Only Update's loops touch the maps.
LEMMA MapSteps ==
    ASSUME [Next]_vars
    PROVE  UpdateStep \/ UNCHANGED <<Coverage, Input, UncoveredAddress, uaSig, uaBits, uaWA, waInput,
                                     tasks, fatal>>
  BY DEF Next, SendNewInput, Analysis, Failure, Update, vars, ddVars, inputVars, uaVars, waVars,
         SendNewInputEnter, SendNewInputQueue, SendNewInputCovered, GetNewInputEnter, GetNewInputPop,
         GetNewInputFile, GetNewInputReply, GetNewInputLost, SendDependency, SendDependencyLost,
         UpdateTakeCovered, UpdateTakeInput, UpdateTakeDependency, UpdateEnd

\* The analysis changes what it knows when it gets an input, and sends its
\* conditions one by one.
LEMMA DraSteps ==
    ASSUME [Next]_vars
    PROVE  \/ UNCHANGED <<cover, bbInput, dUncoveredAddress, current, todo>>
           \/ GetNewInputReply
           \/ \E c \in todo : SendDependency(c) \/ SendDependencyLost(c)
  BY DEF Next, SendNewInput, Analysis, Failure, Update, vars, draVars,
         SendNewInputEnter, SendNewInputQueue, SendNewInputCovered, GetNewInputEnter, GetNewInputPop,
         GetNewInputFile, GetNewInputLost,
         UpdateTakeCovered, UpdateTakeInput, UpdateTakeDependency, UpdateStep, UpdateEnd

\* An input that waits to be added goes on waiting, or is added by Update.
LEMMA AddingGoesOn ==
    ASSUME BaseInv, [Next]_vars, NEW m \in NewInputs, Adding(m)
    PROVE  Adding(m)' \/ m.sig \in Input'
<1>1. input \in Seq(NewInputs) /\ (upc # "dependency" => work \in Seq(NewInputs))
  BY DEF BaseInv, ServerInv, QueueTypeOK
<1>2. CASE UNCHANGED <<input, upc, work>>
  BY <1>2 DEF Adding
<1>3. CASE GetNewInputFile
  <2>1. /\ upc' = upc /\ work' = work /\ got \in NewInputs
        /\ (input' = input \/ input' = Append(input, got))
    BY <1>3 DEF GetNewInputFile, updateVars, BaseInv, ServerInv, QueueTypeOK
  <2>2. InSeq(m, input) => InSeq(m, Append(input, got))
    BY <1>1, <2>1, InSeqFacts
  <2> QED BY <2>1, <2>2 DEF Adding
<1>4. CASE UpdateTakeCovered \/ UpdateEnd
  <2>1. input' = input /\ upc # "input"
    BY <1>4 DEF UpdateTakeCovered, UpdateEnd, rpcVars
  <2> QED BY <2>1 DEF Adding
<1>5. CASE UpdateTakeInput
  <2>1. upc # "input" /\ upc' = "input" /\ work' = input
    BY <1>5 DEF UpdateTakeInput
  <2> QED BY <2>1 DEF Adding
<1>6. CASE UpdateTakeDependency
  <2>1. upc # "dependency" /\ work = <<>> /\ input' = input
    BY <1>6 DEF UpdateTakeDependency
  <2>2. ~ InSeq(m, work)
    BY <1>1, <2>1, InSeqFacts
  <2> QED BY <2>1, <2>2 DEF Adding
<1>7. CASE UpdateStep
  <2>1. input' = input /\ upc' = upc
    BY <1>7 DEF UpdateStep, rpcVars
  <2>2. CASE InSeq(m, input)
    BY <2>1, <2>2 DEF Adding
  <2>3. CASE ~ InSeq(m, input)
    <3>1. upc = "input" /\ InSeq(m, work)
      BY <2>3 DEF Adding
    <3>2. /\ work # <<>> /\ work' = Tail(work) /\ work \in Seq(NewInputs) /\ AddInput(Head(work))
      BY <1>7, <3>1, UpdateStepFacts
    <3>3. m = Head(work) \/ InSeq(m, work')
      BY <3>1, <3>2, InSeqFacts
    <3>4. Head(work).sig \in Input'
      BY <3>2 DEF AddInput
    <3> QED BY <2>1, <3>1, <3>3, <3>4 DEF Adding
  <2> QED BY <2>2, <2>3
<1>8. ASSUME ~GetNewInputFile, ~UpdateTakeCovered, ~UpdateTakeInput, ~UpdateTakeDependency,
             ~UpdateStep, ~UpdateEnd
      PROVE  UNCHANGED <<input, upc, work>>
  BY <1>8 DEF Next, SendNewInput, Analysis, Failure, Update, vars, rpcVars, updateVars,
         SendNewInputEnter, SendNewInputQueue, SendNewInputCovered, GetNewInputEnter, GetNewInputPop,
         GetNewInputReply, GetNewInputLost, SendDependency, SendDependencyLost
<1> QED BY <1>2, <1>3, <1>4, <1>5, <1>6, <1>7, <1>8

\* What waits to be added waited before, or was handed out just now.
LEMMA AddingStarts ==
    ASSUME BaseInv, [Next]_vars, NEW m \in NewInputs, Adding(m)'
    PROVE  Adding(m) \/ Held(m)
<1>1. input \in Seq(NewInputs) /\ (upc # "dependency" => work \in Seq(NewInputs))
  BY DEF BaseInv, ServerInv, QueueTypeOK
<1>2. CASE UNCHANGED <<input, upc, work>>
  BY <1>2 DEF Adding
<1>3. CASE GetNewInputFile
  <2>1. /\ upc' = upc /\ work' = work /\ got \in NewInputs /\ getter = "popped"
        /\ (input' = input \/ input' = Append(input, got))
    BY <1>3 DEF GetNewInputFile, updateVars, BaseInv, ServerInv, QueueTypeOK
  <2>2. InSeq(m, Append(input, got)) => InSeq(m, input) \/ m = got
    BY <1>1, <2>1, InSeqFacts
  <2> QED BY <2>1, <2>2 DEF Adding, Held
<1>4. CASE UpdateTakeCovered \/ UpdateEnd \/ UpdateTakeDependency
  <2>1. input' = input /\ upc' # "input"
    BY <1>4 DEF UpdateTakeCovered, UpdateEnd, UpdateTakeDependency, rpcVars
  <2> QED BY <2>1 DEF Adding
<1>5. CASE UpdateTakeInput
  <2>1. work' = input /\ input' = <<>>
    BY <1>5 DEF UpdateTakeInput
  <2>2. ~ InSeq(m, <<>>)
    BY <1>1, InSeqFacts
  <2> QED BY <2>1, <2>2 DEF Adding
<1>6. CASE UpdateStep
  <2>1. input' = input /\ upc' = upc /\ work # <<>> /\ work' = Tail(work)
    BY <1>6 DEF UpdateStep, rpcVars
  <2>2. upc = "input" /\ InSeq(m, work') => InSeq(m, work)
    BY <1>1, <2>1, InSeqFacts
  <2> QED BY <2>1, <2>2 DEF Adding
<1>7. ASSUME ~GetNewInputFile, ~UpdateTakeCovered, ~UpdateTakeInput, ~UpdateTakeDependency,
             ~UpdateStep, ~UpdateEnd
      PROVE  UNCHANGED <<input, upc, work>>
  BY <1>7 DEF Next, SendNewInput, Analysis, Failure, Update, vars, rpcVars, updateVars,
         SendNewInputEnter, SendNewInputQueue, SendNewInputCovered, GetNewInputEnter, GetNewInputPop,
         GetNewInputReply, GetNewInputLost, SendDependency, SendDependencyLost
<1> QED BY <1>2, <1>3, <1>4, <1>5, <1>6, <1>7

\* A dependency that waits goes on waiting, or is treated by Update.
LEMMA WaitingGoesOn ==
    ASSUME BaseInv, [Next]_vars, NEW d \in DependencyMsg, Waiting(d)
    PROVE  \/ Waiting(d)'
           \/ UpdateStep /\ AddDependency(d)
<1>1. newDependency \in Seq(DependencyMsg) /\ (upc = "dependency" => work \in Seq(DependencyMsg))
  BY DEF BaseInv, ServerInv, QueueTypeOK
<1>2. CASE UNCHANGED <<newDependency, upc, work>>
  BY <1>2 DEF Waiting
<1>3. ASSUME NEW c \in todo, SendDependency(c) PROVE Waiting(d)'
  <2>1. upc' = upc /\ work' = work /\ newDependency' = Append(newDependency, DependencyOf(c))
    BY <1>3 DEF SendDependency, updateVars
  <2>2. DependencyOf(c) \in DependencyMsg
    BY DependencyOfType DEF BaseInv, ServerInv, DraTypeOK
  <2>3. InSeq(d, newDependency) => InSeq(d, Append(newDependency, DependencyOf(c)))
    BY <1>1, <2>2, InSeqFacts
  <2> QED BY <2>1, <2>3 DEF Waiting
<1>4. CASE UpdateTakeCovered \/ UpdateTakeInput
  <2>1. newDependency' = newDependency /\ upc # "dependency"
    BY <1>4 DEF UpdateTakeCovered, UpdateTakeInput
  <2> QED BY <2>1 DEF Waiting
<1>5. CASE UpdateTakeDependency
  <2>1. upc # "dependency" /\ upc' = "dependency" /\ work' = newDependency
    BY <1>5 DEF UpdateTakeDependency
  <2> QED BY <2>1 DEF Waiting
<1>6. CASE UpdateEnd
  <2>1. upc = "dependency" /\ work = <<>> /\ newDependency' = newDependency
    BY <1>6 DEF UpdateEnd, rpcVars
  <2>2. ~ InSeq(d, work)
    BY <1>1, <2>1, InSeqFacts
  <2> QED BY <2>1, <2>2 DEF Waiting
<1>7. CASE UpdateStep
  <2>1. newDependency' = newDependency /\ upc' = upc
    BY <1>7 DEF UpdateStep, rpcVars
  <2>2. CASE InSeq(d, newDependency)
    BY <2>1, <2>2 DEF Waiting
  <2>3. CASE ~ InSeq(d, newDependency)
    <3>1. upc = "dependency" /\ InSeq(d, work)
      BY <2>3 DEF Waiting
    <3>2. /\ work # <<>> /\ work' = Tail(work) /\ work \in Seq(DependencyMsg)
          /\ AddDependency(Head(work))
      BY <1>7, <3>1, UpdateStepFacts
    <3>3. d = Head(work) \/ InSeq(d, work')
      BY <3>1, <3>2, InSeqFacts
    <3> QED BY <1>7, <2>1, <3>1, <3>2, <3>3 DEF Waiting
  <2> QED BY <2>2, <2>3
<1>8. ASSUME \A c \in todo : ~SendDependency(c), ~UpdateTakeCovered, ~UpdateTakeInput,
             ~UpdateTakeDependency, ~UpdateStep, ~UpdateEnd
      PROVE  UNCHANGED <<newDependency, upc, work>>
  BY <1>8 DEF Next, SendNewInput, Analysis, Failure, Update, vars, rpcVars, updateVars,
         SendNewInputEnter, SendNewInputQueue, SendNewInputCovered, GetNewInputEnter, GetNewInputPop,
         GetNewInputFile, GetNewInputReply, GetNewInputLost, SendDependencyLost
<1> QED BY <1>2, <1>3, <1>4, <1>5, <1>6, <1>7, <1>8

\* What waits waited before, or was sent just now.
LEMMA WaitingStarts ==
    ASSUME BaseInv, [Next]_vars, NEW d \in DependencyMsg, Waiting(d)'
    PROVE  \/ Waiting(d)
           \/ \E c \in todo : SendDependency(c) /\ d = DependencyOf(c)
<1>1. newDependency \in Seq(DependencyMsg) /\ (upc = "dependency" => work \in Seq(DependencyMsg))
  BY DEF BaseInv, ServerInv, QueueTypeOK
<1>2. CASE UNCHANGED <<newDependency, upc, work>>
  BY <1>2 DEF Waiting
<1>3. ASSUME NEW c \in todo, SendDependency(c) PROVE Waiting(d) \/ d = DependencyOf(c)
  <2>1. upc' = upc /\ work' = work /\ newDependency' = Append(newDependency, DependencyOf(c))
    BY <1>3 DEF SendDependency, updateVars
  <2>2. DependencyOf(c) \in DependencyMsg
    BY DependencyOfType DEF BaseInv, ServerInv, DraTypeOK
  <2>3. InSeq(d, Append(newDependency, DependencyOf(c))) => InSeq(d, newDependency) \/ d = DependencyOf(c)
    BY <1>1, <2>2, InSeqFacts
  <2> QED BY <2>1, <2>3 DEF Waiting
<1>4. CASE UpdateTakeCovered \/ UpdateTakeInput \/ UpdateEnd
  <2>1. newDependency' = newDependency /\ upc' # "dependency"
    BY <1>4 DEF UpdateTakeCovered, UpdateTakeInput, UpdateEnd, rpcVars
  <2> QED BY <2>1 DEF Waiting
<1>5. CASE UpdateTakeDependency
  <2>1. work' = newDependency /\ newDependency' = <<>>
    BY <1>5 DEF UpdateTakeDependency
  <2>2. ~ InSeq(d, <<>>)
    BY <1>1, InSeqFacts
  <2> QED BY <2>1, <2>2 DEF Waiting
<1>6. CASE UpdateStep
  <2>1. newDependency' = newDependency /\ upc' = upc /\ work # <<>> /\ work' = Tail(work)
    BY <1>6 DEF UpdateStep, rpcVars
  <2>2. upc = "dependency" /\ InSeq(d, work') => InSeq(d, work)
    BY <1>1, <2>1, InSeqFacts
  <2> QED BY <2>1, <2>2 DEF Waiting
<1>7. ASSUME \A c \in todo : ~SendDependency(c), ~UpdateTakeCovered, ~UpdateTakeInput,
             ~UpdateTakeDependency, ~UpdateStep, ~UpdateEnd
      PROVE  UNCHANGED <<newDependency, upc, work>>
  BY <1>7 DEF Next, SendNewInput, Analysis, Failure, Update, vars, rpcVars, updateVars,
         SendNewInputEnter, SendNewInputQueue, SendNewInputCovered, GetNewInputEnter, GetNewInputPop,
         GetNewInputFile, GetNewInputReply, GetNewInputLost, SendDependencyLost
<1> QED BY <1>2, <1>3, <1>4, <1>5, <1>6, <1>7

-----------------------------------------------------------------------------
\* A filed input stays filed.
LEMMA FiledStays ==
    ASSUME BaseInv, [Next]_vars, NEW s, Filed(s)
    PROVE  Filed(s)'
<1>1. Input \subseteq Input'
  <2>1. CASE UpdateStep
    <3>1. DDNext
      BY <2>1, UpdateStepFacts DEF DDNext
    <3> QED BY <3>1, LifecycleStep DEF BaseInv, Lifecycle
  <2> QED BY <2>1, MapSteps
<1>2. CASE s \in Input
  BY <1>1, <1>2 DEF Filed
<1>3. ASSUME NEW m \in NewInputs, m.sig = s, Adding(m) PROVE Filed(s)'
  BY <1>3, AddingGoesOn DEF Filed
<1> QED BY <1>2, <1>3 DEF Filed

\* What the analysis says of the inputs of a block when it has got another input.
LEMMA GetInputBlocks ==
    ASSUME BaseInv, NEW m \in NewInputs, GetInput(m), NEW a \in Addr, NEW s \in Sig
    PROVE  bbInput'[a][s] = bbInput[a][s]
           \/ /\ s = m.sig /\ bbInput'[a][s] = bbInput[a][s] \cup ShiftedIdx(m.call)
              /\ Borders(m, a)
<1> DEFINE touched == m.cover \cup {b[2] : b \in Uncovered(m)}
<1>1. bbInput' = [x \in Addr |->
         IF x \in touched THEN [bbInput[x] EXCEPT ![m.sig] = @ \cup ShiftedIdx(m.call)]
                          ELSE bbInput[x]]
  BY DEF GetInput
<1>2. bbInput[a] \in [Sig -> SUBSET Bit]
  BY DEF BaseInv, ServerInv, DraTypeOK, SigBits
<1>3. CASE a \notin touched
  BY <1>1, <1>3
<1>4. CASE a \in touched
  <2>1. bbInput'[a] = [bbInput[a] EXCEPT ![m.sig] = @ \cup ShiftedIdx(m.call)]
    BY <1>1, <1>4
  <2>2. Borders(m, a)
    BY <1>4 DEF Borders, Uncovered
  <2> QED BY <1>2, <2>1, <2>2
<1> QED BY <1>3, <1>4

\* Update's loops keep the writers known: addInput adds the writer it lists, and a
\* dependency names writers that have been added before.
LEMMA ListedStep ==
    ASSUME BaseInv, UpdateStep, WritersListed,
           upc = "dependency" => input = <<>>,
           \A d \in DependencyMsg : Waiting(d) =>
               \A w \in Addr, s \in Sig : d.waInput[w][s] # {} => Filed(s)
    PROVE  WritersListed' /\ Alive'
<1>1. DDInv /\ waInput \in [Addr -> SigBits]
  BY DEF BaseInv, DDInv, DDTypeOK
<1>2. Input \subseteq Input'
  <2>1. DDNext
    BY UpdateStepFacts DEF DDNext
  <2> QED BY <1>1, <2>1, LifecycleStep DEF Lifecycle
<1>3. ASSUME NEW m \in NewInputMsg, AddCoveredAddress(m) PROVE WritersListed' /\ Alive'
  <2>1. UNCHANGED <<waInput, Input>>
    BY <1>3 DEF AddCoveredAddress
  <2>2. fatal' = "none"
    BY <1>1, <1>3, AddCoveredAddressStep
  <2> QED BY <2>1, <2>2 DEF WritersListed, Alive
<1>4. ASSUME NEW m \in NewInputMsg, AddInput(m) PROVE WritersListed' /\ Alive'
  <2>1. fatal' = "none"
    BY <1>1, <1>4, AddInputStep
  <2>2. Input' = Input \cup {m.sig}
    BY <1>4 DEF AddInput
  <2>3. ASSUME NEW w \in Addr, NEW s \in Sig, waInput'[w][s] # {} PROVE s \in Input'
    <3>1. waInput'[w] = waInput[w] \/ waInput'[w] = [waInput[w] EXCEPT ![m.sig] = @ \cup ShiftedIndex(m.call)]
      BY <1>4 DEF AddInput
    <3>2. s # m.sig => waInput'[w][s] = waInput[w][s]
      BY <1>1, <3>1 DEF SigBits
    <3> QED BY <2>2, <2>3, <3>2 DEF WritersListed
  <2> QED BY <2>1, <2>3 DEF WritersListed, Alive
<1>5. ASSUME NEW d \in DependencyMsg, upc = "dependency", InSeq(d, work), AddDependencyRelated(d)
      PROVE  WritersListed' /\ Alive'
  <2>1. \A w \in Addr, s \in Sig : d.waInput[w][s] # {} => s \in Input
    <3>1. Waiting(d)
      BY <1>5 DEF Waiting
    <3>2. ASSUME NEW m \in NewInputs PROVE ~ Adding(m)
      <4>1. input = <<>> /\ upc # "input" /\ input \in Seq(NewInputs)
        BY <1>5 DEF BaseInv, ServerInv, QueueTypeOK
      <4>2. ~ InSeq(m, input)
        BY <4>1, InSeqFacts
      <4> QED BY <4>1, <4>2 DEF Adding
    <3> QED BY <3>1, <3>2 DEF Filed
  <2>2. waInput' = [w \in Addr |->
          IF w \in d.wa THEN [s \in Sig |-> waInput[w][s] \cup d.waInput[w][s]] ELSE waInput[w]]
    BY <1>5 DEF AddDependencyRelated, AddWriteAddress
  <2>3. WritersListed'
    BY <1>2, <2>1, <2>2 DEF WritersListed
  <2>4. fatal' = "none"
    BY <1>1, <1>5, <2>3, AddDependencyRelatedStep
  <2> QED BY <2>3, <2>4 DEF Alive
<1>6. ASSUME NEW d \in DependencyMsg, AddInputRelated(d) PROVE WritersListed' /\ Alive'
  BY <1>6 DEF AddInputRelated, inputVars, waVars, WritersListed, Alive
<1>7. ASSUME upc = "dependency" PROVE InSeq(Head(work), work)
  BY <1>7, UpdateStepFacts, InSeqFacts
<1> QED BY <1>3, <1>4, <1>5, <1>6, <1>7, UpdateStepFacts DEF AddDependency

\* Unless a GetNewInput was overtaken by Update, the analysis names only writers
\* that Update adds before it treats what the analysis says of them.
LEMMA WritersStep ==
    ASSUME BaseInv, WritersInv, [Next]_vars
    PROVE  WritersInv'
<1> SUFFICES ASSUME ~overtaken' PROVE WritersInv'
  BY DEF WritersInv
<1>1. ~overtaken
  BY DEF Next, SendNewInput, Analysis, Failure, Update, vars,
         SendNewInputEnter, SendNewInputQueue, SendNewInputCovered, GetNewInputEnter, GetNewInputPop,
         GetNewInputFile, GetNewInputReply, GetNewInputLost, SendDependency, SendDependencyLost,
         UpdateTakeCovered, UpdateTakeInput, UpdateTakeDependency, UpdateStep, UpdateEnd
<1>2. /\ Alive
      /\ upc \in {"input", "dependency"} => input = <<>>
      /\ getter = "reply" => Filed(got.sig)
      /\ \A a \in Addr, s \in Sig : bbInput[a][s] # {} => Filed(s)
      /\ \A d \in DependencyMsg : Waiting(d) =>
             \A w \in Addr, s \in Sig : d.waInput[w][s] # {} => Filed(s)
      /\ WritersListed
  BY <1>1 DEF WritersInv
<1>3. Alive' /\ WritersListed'
  <2>1. CASE UpdateStep
    BY <1>2, <2>1, ListedStep
  <2>2. CASE UNCHANGED <<Input, waInput, fatal>>
    BY <1>2, <2>2 DEF Alive, WritersListed
  <2> QED BY <2>1, <2>2, MapSteps
<1>4. upc' \in {"input", "dependency"} => input' = <<>>
  BY <1>2 DEF Next, SendNewInput, Analysis, Failure, Update, vars, rpcVars, updateVars,
         SendNewInputEnter, SendNewInputQueue, SendNewInputCovered, GetNewInputEnter, GetNewInputPop,
         GetNewInputFile, GetNewInputReply, GetNewInputLost, SendDependency, SendDependencyLost,
         UpdateTakeCovered, UpdateTakeInput, UpdateTakeDependency, UpdateStep, UpdateEnd
<1>5. ASSUME getter' = "reply" PROVE Filed(got.sig)'
  <2>1. CASE GetNewInputFile
    <3>1. /\ got \in NewInputs /\ got' = got /\ input \in Seq(NewInputs)
          /\ input' = Append(input, got)
      BY <2>1 DEF GetNewInputFile, BaseInv, ServerInv, QueueTypeOK
    <3>2. InSeq(got, input')
      BY <3>1, InSeqFacts
    <3> QED BY <3>1, <3>2 DEF Filed, Adding
  <2>2. CASE ~GetNewInputFile
    <3>1. getter = "reply" /\ got' = got
      BY <1>5, <2>2 DEF Next, SendNewInput, Analysis, Failure, Update, vars, getVars,
         SendNewInputEnter, SendNewInputQueue, SendNewInputCovered, GetNewInputEnter, GetNewInputPop,
         GetNewInputReply, GetNewInputLost, SendDependency, SendDependencyLost,
         UpdateTakeCovered, UpdateTakeInput, UpdateTakeDependency, UpdateStep, UpdateEnd
    <3>2. Filed(got.sig)
      BY <1>2, <3>1
    <3>3. \A s : Filed(s) => Filed(s)'
      BY FiledStays
    <3> QED BY <3>1, <3>2, <3>3 DEF Filed
  <2> QED BY <2>1, <2>2
<1>6. ASSUME NEW a \in Addr, NEW s \in Sig, bbInput'[a][s] # {} PROVE Filed(s)'
  <2>1. CASE bbInput'[a][s] = bbInput[a][s]
    BY <1>2, <1>6, <2>1, FiledStays
  <2>2. CASE bbInput'[a][s] # bbInput[a][s]
    <3>1. GetNewInputReply
      BY <2>2, DraSteps DEF SendDependency, SendDependencyLost, Sent
    <3>2. getter = "reply" /\ got \in NewInputs /\ GetInput(got)
      BY <3>1 DEF GetNewInputReply, BaseInv, ServerInv, QueueTypeOK
    <3>3. s = got.sig
      BY <2>2, <3>2, GetInputBlocks
    <3> QED BY <1>2, <3>2, <3>3, FiledStays
  <2> QED BY <2>1, <2>2
<1>7. ASSUME NEW d \in DependencyMsg, Waiting(d)', NEW w \in Addr, NEW s \in Sig, d.waInput[w][s] # {}
      PROVE  Filed(s)'
  <2>1. CASE Waiting(d)
    BY <1>2, <1>7, <2>1, FiledStays
  <2>2. ASSUME NEW c \in todo, d = DependencyOf(c) PROVE Filed(s)
    <3>1. d.waInput[w][s] = {} \/ d.waInput[w][s] = bbInput[w][s]
      BY <2>2 DEF DependencyOf, WriteInputs
    <3> QED BY <1>2, <1>7, <3>1
  <2> QED BY <1>7, <2>1, <2>2, WaitingStarts, FiledStays
<1> QED BY <1>3, <1>4, <1>5, <1>6, <1>7 DEF WritersInv

\* getTask finds the writers that the analysis names, unless a GetNewInput was
\* overtaken by Update: inputs are filed before the analysis hears of them.
THEOREM WritersAreKnown == Spec => []WritersKnown
<1>1. Init => WritersInv
  <2> SUFFICES ASSUME Init PROVE WritersInv
    OBVIOUS
  <2>1. \A d : ~ InSeq(d, <<>>)
    BY SMTT(60) DEF InSeq
  <2>2. \A d \in DependencyMsg : ~ Waiting(d)
    BY <2>1 DEF Init, Waiting
  <2>3. WritersListed /\ \A a \in Addr, s \in Sig : bbInput[a][s] = {}
    BY DEF Init, DDInit, DraInit, WritersListed
  <2>4. Alive /\ upc = "idle" /\ getter = "idle"
    BY DEF Init, DDInit, Alive
  <2> QED BY <2>2, <2>3, <2>4 DEF WritersInv
<1>2. BaseInv /\ WritersInv /\ [Next]_vars => WritersInv'
  BY WritersStep
<1>3. WritersInv => WritersKnown
  BY DEF WritersInv, WritersKnown
<1> QED BY <1>1, <1>2, <1>3, BaseInvariant, PTL DEF Spec

-----------------------------------------------------------------------------
\* What waits for addCoveredAddress waited before, or its call returns just now.
LEMMA CoveringStarts ==
    ASSUME BaseInv, [Next]_vars, NEW m \in NewInputs, Covering(m)'
    PROVE  Covering(m) \/ Received(m)'
<1>1. /\ coveredInput \in Seq(NewInputs) /\ (upc # "dependency" => work \in Seq(NewInputs))
      /\ sender \in [NewInputs -> {"fuzzer", "entered", "queued", "done"}]
  BY DEF BaseInv, ServerInv, QueueTypeOK, CallTypeOK
<1>2. CASE UNCHANGED <<coveredInput, upc, work>>
  BY <1>2 DEF Covering
<1>3. ASSUME NEW n \in NewInputs, SendNewInputCovered(n) PROVE Covering(m) \/ Received(m)'
  <2>1. /\ upc' = upc /\ work' = work /\ sender' = [sender EXCEPT ![n] = "done"]
        /\ (coveredInput' = coveredInput \/ coveredInput' = Append(coveredInput, n))
    BY <1>3 DEF SendNewInputCovered, updateVars
  <2>2. InSeq(m, Append(coveredInput, n)) => InSeq(m, coveredInput) \/ m = n
    BY <1>1, InSeqFacts
  <2>3. Received(n)'
    BY <1>1, <2>1 DEF Received
  <2> QED BY <2>1, <2>2, <2>3 DEF Covering
<1>4. CASE UpdateTakeCovered
  <2>1. work' = coveredInput /\ coveredInput' = <<>>
    BY <1>4 DEF UpdateTakeCovered
  <2>2. ~ InSeq(m, <<>>)
    BY <1>1, InSeqFacts
  <2> QED BY <2>1, <2>2 DEF Covering
<1>5. CASE UpdateTakeInput \/ UpdateTakeDependency \/ UpdateEnd
  <2>1. coveredInput' = coveredInput /\ upc' # "covered"
    BY <1>5 DEF UpdateTakeInput, UpdateTakeDependency, UpdateEnd, rpcVars
  <2> QED BY <2>1 DEF Covering
<1>6. CASE UpdateStep
  <2>1. coveredInput' = coveredInput /\ upc' = upc /\ work # <<>> /\ work' = Tail(work)
    BY <1>6 DEF UpdateStep, rpcVars
  <2>2. upc = "covered" /\ InSeq(m, work') => InSeq(m, work)
    BY <1>1, <2>1, InSeqFacts
  <2> QED BY <2>1, <2>2 DEF Covering
<1>7. ASSUME \A n \in NewInputs : ~SendNewInputCovered(n), ~UpdateTakeCovered, ~UpdateTakeInput,
             ~UpdateTakeDependency, ~UpdateStep, ~UpdateEnd
      PROVE  UNCHANGED <<coveredInput, upc, work>>
  BY <1>7 DEF Next, SendNewInput, Analysis, Failure, Update, vars, rpcVars, updateVars,
         SendNewInputEnter, SendNewInputQueue, GetNewInputEnter, GetNewInputPop,
         GetNewInputFile, GetNewInputReply, GetNewInputLost, SendDependency, SendDependencyLost
<1> QED BY <1>2, <1>3, <1>4, <1>5, <1>6, <1>7

\* What is on its way to the analysis was so before, or has been queued just now;
\* and it arrives, unless a call fails.
LEMMA OfferedMoves ==
    ASSUME BaseInv, [Next]_vars, NEW m \in NewInputs
    PROVE  /\ Offered(m)' => Offered(m) \/ Queued(m)'
           /\ Queued(m)' => Queued(m) \/ Offered(m)'
           /\ Offered(m) => \/ Offered(m)' \/ lost' = lost + 1
                            \/ getter = "reply" /\ got = m /\ GetInput(m)
<1> USE DEF Offered, Held, Queued
<1>1. /\ newInput \in Seq(NewInputs)
      /\ sender \in [NewInputs -> {"fuzzer", "entered", "queued", "done"}]
  BY DEF BaseInv, ServerInv, QueueTypeOK, CallTypeOK
<1> DEFINE Goal == /\ Offered(m)' => Offered(m) \/ Queued(m)'
                   /\ Queued(m)' => Queued(m) \/ Offered(m)'
                   /\ Offered(m) => \/ Offered(m)' \/ lost' = lost + 1
                                    \/ getter = "reply" /\ got = m /\ GetInput(m)
<1>2. ASSUME UNCHANGED <<newInput, getter, got>>, Queued(m)' <=> Queued(m) PROVE Goal
  BY <1>2
<1>3. ASSUME NEW n \in NewInputs, SendNewInputQueue(n) PROVE Goal
  <2>1. /\ newInput' = Append(newInput, n) /\ sender' = [sender EXCEPT ![n] = "queued"]
        /\ UNCHANGED <<getter, got>>
    BY <1>3 DEF SendNewInputQueue, getVars
  <2>2. InSeq(m, newInput') <=> InSeq(m, newInput) \/ m = n
    BY <1>1, <2>1, InSeqFacts
  <2>3. sender'[n] = "queued" /\ (m # n => sender'[m] = sender[m])
    BY <1>1, <2>1
  <2> QED BY <2>1, <2>2, <2>3
<1>4. ASSUME NEW n \in NewInputs, SendNewInputEnter(n) \/ SendNewInputCovered(n) PROVE Goal
  <2>1. UNCHANGED <<newInput, getter, got>>
    BY <1>4 DEF SendNewInputEnter, SendNewInputCovered, getVars
  <2>2. Queued(m)' <=> Queued(m)
    BY <1>1, <1>4 DEF SendNewInputEnter, SendNewInputCovered
  <2> QED BY <1>2, <2>1, <2>2
<1>5. CASE GetNewInputPop
  <2>1. sender' = sender
    BY <1>5 DEF GetNewInputPop
  <2>2. CASE newInput = <<>>
    <3>1. newInput' = newInput /\ getter = "entered" /\ getter' = "idle"
      BY <1>5, <2>2 DEF GetNewInputPop
    <3> QED BY <2>1, <3>1
  <2>3. CASE newInput # <<>>
    <3>1. /\ getter = "entered" /\ getter' = "popped" /\ got' = newInput[Len(newInput)]
          /\ newInput' = SubSeq(newInput, 1, Len(newInput) - 1)
      BY <1>5, <2>3 DEF GetNewInputPop
    <3>2. InSeq(m, newInput) <=> m = newInput[Len(newInput)] \/ InSeq(m, SubSeq(newInput, 1, Len(newInput) - 1))
      BY <1>1, <2>3, InSeqFacts
    <3> QED BY <2>1, <3>1, <3>2
  <2> QED BY <2>2, <2>3
<1>6. CASE GetNewInputEnter \/ GetNewInputFile
  <2>1. /\ sender' = sender /\ newInput' = newInput /\ got' = got
        /\ \/ getter = "idle" /\ getter' = "entered"
           \/ getter = "popped" /\ getter' = "reply"
    BY <1>6 DEF GetNewInputEnter, GetNewInputFile, rpcVars
  <2> QED BY <2>1
<1>7. CASE GetNewInputReply
  <2>1. /\ sender' = sender /\ newInput' = newInput /\ getter' = "idle" /\ getter = "reply"
        /\ GetInput(got)
    BY <1>7 DEF GetNewInputReply, rpcVars
  <2> QED BY <2>1
<1>8. CASE GetNewInputLost
  <2>1. /\ sender' = sender /\ newInput' = newInput /\ getter' = "idle" /\ lost' = lost + 1
    BY <1>8 DEF GetNewInputLost, rpcVars
  <2> QED BY <2>1
<1>9. CASE Update \/ UNCHANGED vars \/ (\E c \in todo : SendDependency(c) \/ SendDependencyLost(c))
  <2>1. UNCHANGED <<newInput, getter, got, sender>>
    BY <1>9 DEF Update, vars, rpcVars, getVars, SendDependency, SendDependencyLost,
         UpdateTakeCovered, UpdateTakeInput, UpdateTakeDependency, UpdateStep, UpdateEnd
  <2> QED BY <1>2, <2>1
<1> QED BY <1>3, <1>4, <1>5, <1>6, <1>7, <1>8, <1>9 DEF Next, SendNewInput, Analysis, Failure

\* No failed call is forgotten.
LEMMA LostStays ==
    ASSUME BaseInv, [Next]_vars, lost' = 0
    PROVE  lost = 0 /\ lost' # lost + 1
<1>1. lost \in Nat
  BY MaxLostAssumption, SMTT(60) DEF BaseInv, CallTypeOK
<1>2. lost' = lost \/ lost' = lost + 1
  BY DEF Next, SendNewInput, Analysis, Failure, Update, vars, getVars,
         SendNewInputEnter, SendNewInputQueue, SendNewInputCovered, GetNewInputEnter, GetNewInputPop,
         GetNewInputFile, GetNewInputReply, GetNewInputLost, SendDependency, SendDependencyLost,
         UpdateTakeCovered, UpdateTakeInput, UpdateTakeDependency, UpdateStep, UpdateEnd
<1> QED BY <1>1, <1>2, SMTT(60)

\* The analysis forgets no coverage.
LEMMA CoverGrows ==
    ASSUME [Next]_vars
    PROVE  /\ cover \subseteq cover'
           /\ \/ cover' = cover
              \/ GetNewInputReply /\ cover' = cover \cup got.cover
  BY DraSteps DEF GetNewInputReply, GetInput, SendDependency, SendDependencyLost, Sent

\* Every step keeps what has been sent and what is covered in step.
LEMMA DeliveredStep ==
    ASSUME BaseInv, DeliveredInv, [Next]_vars
    PROVE  DeliveredInv'
<1>1. ASSUME NEW m \in NewInputs, Covering(m)' PROVE Received(m)'
  BY <1>1, CoveringStarts, SenderGrows DEF DeliveredInv
<1>2. ASSUME NEW a \in Coverage' PROVE \E m \in NewInputs : Received(m)' /\ a \in m.cover
  <2>1. CASE a \in Coverage
    <3>1. PICK m \in NewInputs : Received(m) /\ a \in m.cover
      BY <2>1 DEF DeliveredInv
    <3> QED BY <3>1, SenderGrows
  <2>2. CASE a \notin Coverage
    <3>1. UpdateStep
      BY <1>2, <2>2, MapSteps
    <3>2. upc = "covered" /\ AddCoveredAddress(Head(work)) /\ Head(work) \in NewInputs
      <4>1. \A m : AddInput(m) => Coverage' = Coverage
        BY DEF AddInput
      <4>2. \A d : AddDependency(d) => Coverage' = Coverage
        BY DEF AddDependency, AddDependencyRelated, AddInputRelated
      <4> QED BY <1>2, <2>2, <3>1, <4>1, <4>2, UpdateStepFacts
    <3>3. InSeq(Head(work), work)
      BY <3>1, <3>2, UpdateStepFacts, InSeqFacts
    <3>4. Received(Head(work))
      BY <3>2, <3>3 DEF DeliveredInv, Covering
    <3>5. a \in Head(work).cover
      BY <1>2, <2>2, <3>2 DEF AddCoveredAddress
    <3> QED BY <3>2, <3>4, <3>5, SenderGrows
  <2> QED BY <2>1, <2>2
<1>3. ASSUME NEW m \in NewInputs, Offered(m)' PROVE Queued(m)'
  BY <1>3, OfferedMoves, SenderGrows DEF DeliveredInv
<1>4. ASSUME NEW a \in cover' PROVE \E m \in NewInputs : Queued(m)' /\ a \in m.cover
  <2>1. CASE a \in cover
    <3>1. PICK m \in NewInputs : Queued(m) /\ a \in m.cover
      BY <2>1 DEF DeliveredInv
    <3> QED BY <3>1, SenderGrows
  <2>2. CASE a \notin cover
    <3>1. GetNewInputReply /\ a \in got.cover
      BY <1>4, <2>2, CoverGrows
    <3>2. got \in NewInputs /\ Held(got)
      BY <3>1 DEF GetNewInputReply, Held, BaseInv, ServerInv, QueueTypeOK
    <3>3. Queued(got)
      BY <3>2 DEF DeliveredInv, Offered
    <3> QED BY <3>1, <3>2, <3>3, SenderGrows
  <2> QED BY <2>1, <2>2
<1>5. ASSUME lost' = 0, NEW m \in NewInputs, Queued(m)' PROVE Offered(m)' \/ m.cover \subseteq cover'
  <2>1. lost = 0 /\ lost' # lost + 1
    BY <1>5, LostStays
  <2>2. CASE Offered(m)'
    BY <2>2
  <2>3. CASE ~ Offered(m)'
    <3>1. Queued(m)
      BY <1>5, <2>3, OfferedMoves
    <3>2. Offered(m) \/ m.cover \subseteq cover
      BY <2>1, <3>1 DEF DeliveredInv
    <3>3. Offered(m) => GetInput(m)
      BY <2>1, <2>3, OfferedMoves
    <3>4. GetInput(m) => m.cover \subseteq cover'
      BY DEF GetInput
    <3> QED BY <3>2, <3>3, <3>4, CoverGrows
  <2> QED BY <2>2, <2>3
<1> QED BY <1>1, <1>2, <1>3, <1>4, <1>5 DEF DeliveredInv

\* Every step keeps the branches of the covered code on their way.
LEMMA FrontierStep ==
    ASSUME BaseInv, BaseInv', FrontierInv, [Next]_vars
    PROVE  FrontierInv'
<1>1. cover \subseteq cover'
  BY CoverGrows
<1>2. DDTypeOK /\ CoverageAgrees /\ CoverageAgrees'
  BY DEF BaseInv, DDInv
<1>3. ASSUME NEW s \in Sig, NEW c \in dUncoveredAddress'[s] PROVE c.branch[1] \in cover'
  <2>1. CASE c \in dUncoveredAddress[s]
    BY <1>1, <2>1 DEF FrontierInv
  <2>2. CASE c \notin dUncoveredAddress[s]
    <3>1. GetNewInputReply
      BY <1>3, <2>2, DraSteps DEF SendDependency, SendDependencyLost, Sent
    <3>2. c \in [branch : Uncovered(got), idx : {got.call}]
      <4>1. dUncoveredAddress' = [dUncoveredAddress EXCEPT ![got.sig] =
              {x \in @ \cup [branch : Uncovered(got), idx : {got.call}] : x.branch[2] \notin cover'}]
        BY <3>1 DEF GetNewInputReply, GetInput
      <4> QED BY <1>3, <2>2, <4>1 DEF BaseInv, ServerInv, DraTypeOK
    <3>3. c.branch[1] \in got.cover
      BY <3>2 DEF Uncovered
    <3> QED BY <3>1, <3>3 DEF GetNewInputReply, GetInput
  <2> QED BY <2>1, <2>2
<1>4. ASSUME NEW c \in todo' PROVE c.branch[1] \in cover'
  <2>1. CASE c \in todo
    BY <1>1, <2>1 DEF FrontierInv
  <2>2. CASE c \notin todo
    <3>1. GetNewInputReply
      BY <1>4, <2>2, DraSteps DEF SendDependency, SendDependencyLost, Sent
    <3>2. got \in NewInputs /\ got \in NewInputMsg /\ todo' = dUncoveredAddress'[got.sig]
      BY <3>1, NewInputsAssumption DEF GetNewInputReply, GetInput, BaseInv, ServerInv, QueueTypeOK
    <3>3. got.sig \in Sig
      BY <3>2 DEF NewInputMsg
    <3> QED BY <1>3, <1>4, <3>2, <3>3
  <2> QED BY <2>1, <2>2
<1>5. ASSUME NEW d \in DependencyMsg, Waiting(d)' PROVE \E b \in Branch : b[1] \in cover' /\ b[2] = d.ua
  <2>1. CASE Waiting(d)
    BY <1>1, <2>1 DEF FrontierInv
  <2>2. ASSUME NEW c \in todo, d = DependencyOf(c)
        PROVE  \E b \in Branch : b[1] \in cover' /\ b[2] = d.ua
    <3>1. c.branch \in Branch /\ c.branch[1] \in cover
      BY DEF FrontierInv, BaseInv, ServerInv, DraTypeOK, Condition
    <3>2. d.ua = c.branch[2]
      BY <2>2 DEF DependencyOf
    <3> QED BY <1>1, <3>1, <3>2
  <2> QED BY <1>5, <2>1, <2>2, WaitingStarts
<1>6. ASSUME NEW u \in UncoveredAddress' PROVE \E b \in Branch : b[1] \in cover' /\ b[2] = u
  <2>1. CASE u \in UncoveredAddress
    BY <1>1, <2>1 DEF FrontierInv
  <2>2. CASE u \notin UncoveredAddress
    <3>1. UpdateStep
      BY <1>6, <2>2, MapSteps
    <3>2. upc = "dependency" /\ AddDependency(Head(work)) /\ Head(work) \in DependencyMsg
      <4>1. \A m : AddInput(m) => UncoveredAddress' = UncoveredAddress
        BY DEF AddInput, uaVars
      <4>2. \A m : AddCoveredAddress(m) => UncoveredAddress' \subseteq UncoveredAddress
        BY DEF AddCoveredAddress
      <4> QED BY <1>6, <2>2, <3>1, <4>1, <4>2, UpdateStepFacts
    <3>3. InSeq(Head(work), work)
      BY <3>1, <3>2, UpdateStepFacts, InSeqFacts
    <3>4. u = Head(work).ua
      BY <1>6, <2>2, <3>2 DEF AddDependency, AddDependencyRelated, AddInputRelated,
                              AddUncoveredAddress, uaVars
    <3> QED BY <1>1, <3>2, <3>3, <3>4 DEF FrontierInv, Waiting
  <2> QED BY <2>1, <2>2
<1>7. UncoveredAddress \cup Coverage \subseteq UncoveredAddress' \cup Coverage'
  <2>1. CASE UpdateStep
    <3>1. DDNext
      BY <2>1, UpdateStepFacts DEF DDNext
    <3>2. Lifecycle
      BY <3>1, LifecycleStep DEF BaseInv
    <3> QED BY <1>2, <3>2 DEF Lifecycle, CoverageAgrees
  <2> QED BY <2>1, MapSteps
<1>8. ASSUME lost' = 0, NEW b \in Branch, b[1] \in cover', b[2] \notin cover'
      PROVE  \/ \E c \in todo' : c.branch = b
             \/ \E d \in DependencyMsg : Waiting(d)' /\ d.ua = b[2]
             \/ b[2] \in UncoveredAddress' \cup Coverage'
  <2>1. lost = 0 /\ lost' # lost + 1
    BY <1>8, LostStays
  <2>2. CASE b[1] \notin cover
    <3>1. GetNewInputReply /\ b[1] \in got.cover
      BY <1>8, <2>2, CoverGrows
    <3>2. got \in NewInputMsg /\ GetInput(got)
      BY <3>1, NewInputsAssumption DEF GetNewInputReply, BaseInv, ServerInv, QueueTypeOK
    <3>3. b \in Uncovered(got)
      BY <1>1, <1>8, <3>1 DEF Uncovered
    <3> DEFINE c == [branch |-> b, idx |-> got.call]
    <3>4. c \in [branch : Uncovered(got), idx : {got.call}] /\ c.branch = b
      BY <3>3
    <3>5. got.sig \in Sig
      BY <3>2 DEF NewInputMsg
    <3>6. dUncoveredAddress'[got.sig] =
            {x \in dUncoveredAddress[got.sig] \cup [branch : Uncovered(got), idx : {got.call}] :
                x.branch[2] \notin cover'}
      BY <3>2, <3>5 DEF GetInput, BaseInv, ServerInv, DraTypeOK
    <3> HIDE DEF c
    <3>7. c \in todo'
      BY <1>8, <3>2, <3>4, <3>6 DEF GetInput
    <3> QED BY <3>4, <3>7
  <2>3. CASE b[1] \in cover
    <3>1. \/ \E c \in todo : c.branch = b
          \/ \E d \in DependencyMsg : Waiting(d) /\ d.ua = b[2]
          \/ b[2] \in UncoveredAddress \cup Coverage
      BY <1>1, <1>8, <2>1, <2>3 DEF FrontierInv
    <3>2. ASSUME NEW c \in todo, c.branch = b, c \notin todo'
          PROVE  \E d \in DependencyMsg : Waiting(d)' /\ d.ua = b[2]
      <4>1. ~GetNewInputReply
        BY <3>2 DEF GetNewInputReply, GetInput
      <4>2. SendDependency(c)
        BY <2>1, <3>2, <4>1, DraSteps DEF SendDependency, SendDependencyLost, Sent
      <4>3. DependencyOf(c) \in DependencyMsg /\ DependencyOf(c).ua = b[2]
        BY <3>2, DependencyOfType DEF BaseInv, ServerInv, DraTypeOK, DependencyOf
      <4>4. InSeq(DependencyOf(c), newDependency')
        <5>1. newDependency' = Append(newDependency, DependencyOf(c))
          BY <4>2 DEF SendDependency
        <5> QED BY <4>3, <5>1, InSeqFacts DEF BaseInv, ServerInv, QueueTypeOK
      <4> QED BY <4>3, <4>4 DEF Waiting
    <3>3. ASSUME NEW d \in DependencyMsg, Waiting(d), d.ua = b[2], ~ Waiting(d)'
          PROVE  b[2] \in UncoveredAddress' \cup Coverage'
      <4>1. AddDependency(d)
        BY <3>3, WaitingGoesOn
      <4>2. Coverage' = Coverage /\ (d.ua \in Coverage \/ d.ua \in UncoveredAddress')
        BY <4>1 DEF AddDependency, AddDependencyRelated, AddInputRelated, AddUncoveredAddress
      <4> QED BY <3>3, <4>2
    <3> QED BY <1>7, <3>1, <3>2, <3>3
  <2> QED BY <2>2, <2>3
<1> QED BY <1>3, <1>4, <1>5, <1>6, <1>8 DEF FrontierInv

\* When all is quiet and undisturbed, nothing of the coverage and of the branches
\* is missing, whatever the order in which they came.
LEMMA QuietExact ==
    ASSUME BaseInv, ReceivedChecked, DeliveredInv, FrontierInv
    PROVE  FrontierExact
<1> SUFFICES ASSUME Quiet, Undisturbed
             PROVE  /\ Coverage = cover
                    /\ UncoveredAddress = {b[2] : b \in {b \in Branch : b[1] \in cover}} \ cover
  BY DEF FrontierExact
<1>1. /\ newInput = <<>> /\ coveredInput = <<>> /\ newDependency = <<>>
      /\ upc = "idle" /\ getter = "idle" /\ todo = {} /\ lost = 0 /\ stale = {}
      /\ \A m \in NewInputs : sender[m] \in {"fuzzer", "done"}
  BY DEF Quiet, Undisturbed
<1>2. \A x : ~ InSeq(x, <<>>)
  BY SMTT(60) DEF InSeq
<1>3. ASSUME NEW a \in Coverage PROVE a \in cover
  <2>1. PICK m \in NewInputs : Received(m) /\ a \in m.cover
    BY DEF DeliveredInv
  <2>2. Queued(m)
    BY <2>1 DEF Received, Queued
  <2>3. ~ Offered(m)
    BY <1>1, <1>2 DEF Offered, Held
  <2> QED BY <1>1, <2>1, <2>2, <2>3 DEF DeliveredInv
<1>4. ASSUME NEW a \in cover PROVE a \in Coverage
  <2>1. PICK m \in NewInputs : Queued(m) /\ a \in m.cover
    BY DEF DeliveredInv
  <2>2. Received(m)
    BY <1>1, <2>1 DEF Received, Queued
  <2>3. m.cover \subseteq Coverage
    BY <1>1, <1>2, <2>2 DEF ReceivedChecked
  <2> QED BY <2>1, <2>3
<1>5. Coverage = cover
  BY <1>3, <1>4
<1>6. \A d \in DependencyMsg : ~ Waiting(d)
  BY <1>1, <1>2 DEF Waiting
<1>7. UncoveredAddress \cap Coverage = {}
  BY DEF BaseInv, DDInv, CoverageAgrees
<1>8. ASSUME NEW u \in UncoveredAddress PROVE u \in {b[2] : b \in {b \in Branch : b[1] \in cover}} \ cover
  BY <1>5, <1>7 DEF FrontierInv
<1>9. ASSUME NEW b \in Branch, b[1] \in cover, b[2] \notin cover PROVE b[2] \in UncoveredAddress
  BY <1>1, <1>5, <1>6, <1>9 DEF FrontierInv
<1> QED BY <1>5, <1>8, <1>9

\* Whatever the order in which inputs, coverage and dependencies came, when all is
\* quiet and undisturbed the manager's uncovered addresses are exactly the
\* branches that start in covered code and have not been taken.
THEOREM FrontierIsExact == Spec => []FrontierExact
<1>1. Init => DeliveredInv /\ FrontierInv
  <2> SUFFICES ASSUME Init PROVE DeliveredInv /\ FrontierInv
    OBVIOUS
  <2>1. \A x : ~ InSeq(x, <<>>)
    BY SMTT(60) DEF InSeq
  <2>2. \A m \in NewInputs : ~ Covering(m) /\ ~ Offered(m) /\ ~ Queued(m)
    BY <2>1 DEF Init, Covering, Offered, Held, Queued
  <2>3. \A d \in DependencyMsg : ~ Waiting(d)
    BY <2>1 DEF Init, Waiting
  <2>4. /\ Coverage = {} /\ cover = {} /\ UncoveredAddress = {} /\ todo = {}
        /\ \A s \in Sig : dUncoveredAddress[s] = {}
    BY DEF Init, DDInit, DraInit
  <2> QED BY <2>2, <2>3, <2>4 DEF DeliveredInv, FrontierInv
<1>2. BaseInv /\ DeliveredInv /\ [Next]_vars => DeliveredInv'
  BY DeliveredStep
<1>3. BaseInv /\ BaseInv' /\ FrontierInv /\ [Next]_vars => FrontierInv'
  BY FrontierStep
<1>4. BaseInv /\ ReceivedChecked /\ DeliveredInv /\ FrontierInv => FrontierExact
  BY QuietExact
<1> QED BY <1>1, <1>2, <1>3, <1>4, BaseInvariant, ReceivedAreChecked, PTL DEF Spec

-----------------------------------------------------------------------------
\* What is so of the programs that the fuzzers sent stays so.
LEMMA PurposeGrows ==
    ASSUME BaseInv, [Next]_vars
    PROVE  /\ \A s, b : Comes(s, b) => Comes(s, b)'
           /\ \A s, u : ComesTo(s, u) => ComesTo(s, u)'
           /\ \A s, i, w : Writes(s, i, w) => Writes(s, i, w)'
<1>1. ASSUME NEW s, NEW b, Comes(s, b) PROVE Comes(s, b)'
  BY <1>1, SenderGrows DEF Comes
<1>2. ASSUME NEW s, NEW u, ComesTo(s, u) PROVE ComesTo(s, u)'
  BY <1>1, <1>2 DEF ComesTo
<1>3. ASSUME NEW s, NEW i, NEW w, Writes(s, i, w) PROVE Writes(s, i, w)'
  BY <1>3, SenderGrows DEF Writes
<1> QED BY <1>1, <1>2, <1>3

\* The bit that the manager shifts for a call, if any, is the one that the analysis
\* shifts.
LEMMA ShiftsAgree ==
    ASSUME NEW i \in Nat
    PROVE  ShiftedIndex(i) \subseteq ShiftedIdx(i)
  BY SMTT(60) DEF ShiftedIndex, ShiftedIdx, WordSize

\* What the analysis knows of programs and blocks is so after each of its steps.
LEMMA AnalysisPurpose ==
    ASSUME BaseInv, DeliveredInv, PurposeInv, [Next]_vars
    PROVE  /\ \A s \in Sig : \A c \in dUncoveredAddress'[s] : Comes(s, c.branch)'
           /\ \A c \in todo' : Comes(current, c.branch)'
           /\ \A a \in Addr, s \in Sig : \A i \in bbInput'[a][s] : Writes(s, i, a)'
<1>1. ASSUME GetNewInputReply
      PROVE  /\ got \in NewInputs /\ GetInput(got) /\ got.sig \in Sig /\ sender'[got] # "fuzzer"
  <2>1. got \in NewInputs /\ GetInput(got) /\ Held(got)
    BY <1>1 DEF GetNewInputReply, Held, BaseInv, ServerInv, QueueTypeOK
  <2>2. Queued(got)
    BY <2>1 DEF DeliveredInv, Offered
  <2> QED BY <2>1, <2>2, SenderGrows, NewInputsAssumption DEF NewInputMsg
<1>2. ASSUME NEW s \in Sig, NEW c \in dUncoveredAddress'[s] PROVE Comes(s, c.branch)'
  <2>1. CASE c \in dUncoveredAddress[s]
    BY <2>1, PurposeGrows DEF PurposeInv
  <2>2. CASE c \notin dUncoveredAddress[s]
    <3>1. GetNewInputReply
      BY <1>2, <2>2, DraSteps DEF SendDependency, SendDependencyLost, Sent
    <3>2. dUncoveredAddress' = [dUncoveredAddress EXCEPT ![got.sig] =
            {x \in @ \cup [branch : Uncovered(got), idx : {got.call}] : x.branch[2] \notin cover'}]
      BY <1>1, <3>1 DEF GetInput
    <3>3. s = got.sig /\ c \in [branch : Uncovered(got), idx : {got.call}]
      BY <1>2, <2>2, <3>2 DEF BaseInv, ServerInv, DraTypeOK
    <3>4. c.branch[1] \in got.cover
      BY <3>3 DEF Uncovered
    <3> QED BY <1>1, <3>1, <3>3, <3>4 DEF Comes
  <2> QED BY <2>1, <2>2
<1>3. ASSUME NEW c \in todo' PROVE Comes(current, c.branch)'
  <2>1. CASE GetNewInputReply
    <3>1. current' = got.sig /\ todo' = dUncoveredAddress'[got.sig]
      BY <1>1, <2>1 DEF GetInput
    <3>2. \A s \in Sig : c \in dUncoveredAddress'[s] => \E m \in NewInputs :
              m.sig = s /\ c.branch[1] \in m.cover /\ sender'[m] # "fuzzer"
      BY <1>2 DEF Comes
    <3>3. \E m \in NewInputs : m.sig = got.sig /\ c.branch[1] \in m.cover /\ sender'[m] # "fuzzer"
      BY <1>1, <1>3, <2>1, <3>1, <3>2
    <3> QED BY <3>1, <3>3 DEF Comes
  <2>2. CASE ~GetNewInputReply
    <3>1. c \in todo /\ current' = current
      BY <1>3, <2>2, DraSteps DEF SendDependency, SendDependencyLost, Sent
    <3>2. Comes(current, c.branch)
      BY <3>1 DEF PurposeInv
    <3>3. Comes(current, c.branch) => \E m \in NewInputs :
              m.sig = current /\ c.branch[1] \in m.cover /\ sender[m] # "fuzzer"
      BY DEF Comes
    <3>4. PICK m \in NewInputs : m.sig = current /\ c.branch[1] \in m.cover /\ sender[m] # "fuzzer"
      BY <3>2, <3>3
    <3> QED BY <3>1, <3>4, SenderGrows DEF Comes
  <2> QED BY <2>1, <2>2
<1>4. ASSUME NEW a \in Addr, NEW s \in Sig, NEW i \in bbInput'[a][s] PROVE Writes(s, i, a)'
  <2>1. CASE i \in bbInput[a][s]
    BY <2>1, PurposeGrows DEF PurposeInv
  <2>2. CASE i \notin bbInput[a][s]
    <3>1. GetNewInputReply
      BY <1>4, <2>2, DraSteps DEF SendDependency, SendDependencyLost, Sent
    <3>2. s = got.sig /\ i \in ShiftedIdx(got.call) /\ Borders(got, a)
      <4>1. got \in NewInputs /\ GetInput(got)
        BY <1>1, <3>1
      <4>2. bbInput'[a][s] = bbInput[a][s]
            \/ /\ s = got.sig /\ bbInput'[a][s] = bbInput[a][s] \cup ShiftedIdx(got.call)
               /\ Borders(got, a)
        BY <4>1, GetInputBlocks
      <4> QED BY <1>4, <2>2, <4>2
    <3> QED BY <1>1, <3>1, <3>2 DEF Writes
  <2> QED BY <2>1, <2>2
<1> QED BY <1>2, <1>3, <1>4

\* What the manager's maps say of them is so after each turn of Update's loops.
LEMMA UpdatePurpose ==
    ASSUME BaseInv, PurposeInv, [Next]_vars
    PROVE  /\ \A u \in Addr : \A s \in uaSig'[u] : ComesTo(s, u)'
           /\ \A u \in Addr : \A w \in uaWA'[u] : WrittenFor(w, u)
           /\ \A w \in Addr, s \in Sig : \A i \in waInput'[w][s] : Writes(s, i, w)'
<1> DEFINE Goal == /\ \A u \in Addr : \A s \in uaSig'[u] : ComesTo(s, u)'
                   /\ \A u \in Addr : \A w \in uaWA'[u] : WrittenFor(w, u)
                   /\ \A w \in Addr, s \in Sig : \A i \in waInput'[w][s] : Writes(s, i, w)'
<1>1. DDTypeOK
  BY DEF BaseInv, DDInv
<1>2. ASSUME UNCHANGED <<uaSig, uaWA>> 
      PROVE  /\ \A u \in Addr : \A s \in uaSig'[u] : ComesTo(s, u)'
             /\ \A u \in Addr : \A w \in uaWA'[u] : WrittenFor(w, u)
  BY <1>2, PurposeGrows DEF PurposeInv
<1>3. ASSUME UNCHANGED waInput
      PROVE  \A w \in Addr, s \in Sig : \A i \in waInput'[w][s] : Writes(s, i, w)'
  BY <1>3, PurposeGrows DEF PurposeInv
<1>4. ASSUME NEW m \in NewInputs, Adding(m), AddInput(m) PROVE Goal
  <2>1. UNCHANGED <<uaSig, uaWA>>
    BY <1>4 DEF AddInput, uaVars
  <2>2. ASSUME NEW w \in Addr, NEW s \in Sig, NEW i \in waInput'[w][s] PROVE Writes(s, i, w)'
    <3>1. CASE i \in waInput[w][s]
      BY <3>1, PurposeGrows DEF PurposeInv
    <3>2. CASE i \notin waInput[w][s]
      <4>1. w \in m.cover /\ waInput'[w] = [waInput[w] EXCEPT ![m.sig] = @ \cup ShiftedIndex(m.call)]
        BY <1>4, <2>2, <3>2 DEF AddInput
      <4>2. s = m.sig /\ i \in ShiftedIndex(m.call)
        BY <1>1, <2>2, <3>2, <4>1 DEF DDTypeOK, SigBits
      <4>3. m.call \in Nat
        BY NewInputsAssumption, CallAssumption DEF NewInputMsg
      <4>4. i \in ShiftedIdx(m.call) /\ Borders(m, w)
        BY <4>1, <4>2, <4>3, ShiftsAgree DEF Borders
      <4>5. sender'[m] # "fuzzer"
        BY <1>4, SenderGrows DEF PurposeInv
      <4> QED BY <4>2, <4>4, <4>5 DEF Writes
    <3> QED BY <3>1, <3>2
  <2> QED BY <1>2, <2>1, <2>2
<1>5. ASSUME NEW d \in DependencyMsg, Waiting(d), AddDependencyRelated(d) PROVE Goal
  <2>1. d.ua \in Addr /\ d.kind = "DependencyRelated" /\ AddUncoveredAddress(d, {d.sig})
    BY <1>5 DEF AddDependencyRelated, DependencyMsg
  <2>2. /\ ComesTo(d.sig, d.ua)
        /\ \A w \in d.wa : WrittenFor(w, d.ua)
        /\ \A w \in d.wa, s \in Sig : \A i \in d.waInput[w][s] : Writes(s, i, w)
    BY <1>5, <2>1 DEF PurposeInv
  <2>3. ASSUME NEW u \in Addr, NEW s \in uaSig'[u] PROVE ComesTo(s, u)'
    <3>1. s \in uaSig[u] \/ (u = d.ua /\ s = d.sig)
      <4>1. uaSig' = uaSig \/ uaSig' = [uaSig EXCEPT ![d.ua] = @ \cup {d.sig}]
        BY <2>1 DEF AddUncoveredAddress, uaVars
      <4>2. uaSig \in [Addr -> SUBSET Sig]
        BY <1>1 DEF DDTypeOK
      <4> QED BY <2>1, <2>3, <4>1, <4>2
    <3>2. ComesTo(s, u)
      BY <2>2, <3>1 DEF PurposeInv
    <3> QED BY <3>2, PurposeGrows
  <2>4. ASSUME NEW u \in Addr, NEW w \in uaWA'[u] PROVE WrittenFor(w, u)
    <3>1. w \in uaWA[u] \/ (u = d.ua /\ w \in d.wa)
      <4>1. uaWA' = uaWA \/ uaWA' = [uaWA EXCEPT ![d.ua] = @ \cup d.wa]
        BY <2>1 DEF AddUncoveredAddress, uaVars
      <4>2. uaWA \in [Addr -> SUBSET Addr]
        BY <1>1 DEF DDTypeOK
      <4> QED BY <2>1, <2>4, <4>1, <4>2
    <3> QED BY <2>2, <3>1 DEF PurposeInv
  <2>5. ASSUME NEW w \in Addr, NEW s \in Sig, NEW i \in waInput'[w][s] PROVE Writes(s, i, w)'
    <3>1. i \in waInput[w][s] \/ (w \in d.wa /\ i \in d.waInput[w][s])
      BY <1>5, <2>5 DEF AddDependencyRelated, AddWriteAddress
    <3>2. Writes(s, i, w)
      BY <2>2, <3>1 DEF PurposeInv
    <3> QED BY <3>2, PurposeGrows
  <2> QED BY <2>3, <2>4, <2>5
<1>6. ASSUME NEW d \in DependencyMsg, AddInputRelated(d) PROVE Goal
  <2>1. d.ua \in Addr /\ d.wa = {} /\ AddUncoveredAddress(d, {}) /\ UNCHANGED waInput
    BY <1>6 DEF AddInputRelated, DependencyMsg, waVars
  <2>2. UNCHANGED <<uaSig, uaWA>>
    <3>1. /\ uaSig' = uaSig \/ uaSig' = [uaSig EXCEPT ![d.ua] = @ \cup {}]
          /\ uaWA' = uaWA \/ uaWA' = [uaWA EXCEPT ![d.ua] = @ \cup {}]
      BY <2>1 DEF AddUncoveredAddress, uaVars
    <3>2. uaSig \in [Addr -> SUBSET Sig] /\ uaWA \in [Addr -> SUBSET Addr]
      BY <1>1 DEF DDTypeOK
    <3>3. [uaSig EXCEPT ![d.ua] = @ \cup {}] = uaSig
      BY <2>1, <3>2, SMTT(60)
    <3>4. [uaWA EXCEPT ![d.ua] = @ \cup {}] = uaWA
      BY <2>1, <3>2, SMTT(60)
    <3> QED BY <3>1, <3>3, <3>4
  <2> QED BY <1>2, <1>3, <2>1, <2>2
<1>7. ASSUME NEW m \in NewInputMsg, AddCoveredAddress(m) PROVE Goal
  BY <1>2, <1>3, <1>7 DEF AddCoveredAddress
<1>8. CASE UpdateStep
  <2>1. InSeq(Head(work), work)
    BY <1>8, UpdateStepFacts, InSeqFacts
  <2>2. CASE upc = "covered"
    BY <1>7, <1>8, <2>2, UpdateStepFacts
  <2>3. CASE upc = "input"
    <3>1. Adding(Head(work))
      BY <2>1, <2>3 DEF Adding
    <3> QED BY <1>4, <1>8, <2>3, <3>1, UpdateStepFacts
  <2>4. CASE upc = "dependency"
    <3>1. Waiting(Head(work))
      BY <2>1, <2>4 DEF Waiting
    <3> QED BY <1>5, <1>6, <1>8, <2>4, <3>1, UpdateStepFacts DEF AddDependency
  <2> QED BY <1>8, <2>2, <2>3, <2>4, UpdateStepFacts
<1> QED BY <1>2, <1>3, <1>8, MapSteps

\* Every step keeps the purposes of what is in the maps, the queues and the tasks.
LEMMA PurposeStep ==
    ASSUME BaseInv, DeliveredInv, PurposeInv, [Next]_vars
    PROVE  PurposeInv'
<1>1. ASSUME NEW m \in NewInputs, Adding(m)' PROVE sender'[m] # "fuzzer"
  <2>1. Adding(m) \/ Held(m)
    BY <1>1, AddingStarts
  <2>2. CASE Adding(m)
    BY <2>2, SenderGrows DEF PurposeInv
  <2>3. CASE Held(m)
    <3>1. Queued(m)
      BY <2>3 DEF DeliveredInv, Offered
    <3> QED BY <3>1, SenderGrows
  <2> QED BY <2>1, <2>2, <2>3
<1>2. ASSUME NEW d \in DependencyMsg, Waiting(d)', d.kind = "DependencyRelated"
      PROVE  /\ ComesTo(d.sig, d.ua)
             /\ \A w \in d.wa : WrittenFor(w, d.ua)
             /\ \A w \in d.wa, s \in Sig : \A i \in d.waInput[w][s] : Writes(s, i, w)
  <2>1. CASE Waiting(d)
    BY <1>2, <2>1 DEF PurposeInv
  <2>2. ASSUME NEW c \in todo, d = DependencyOf(c)
        PROVE  /\ ComesTo(d.sig, d.ua)
               /\ \A w \in d.wa : WrittenFor(w, d.ua)
               /\ \A w \in d.wa, s \in Sig : \A i \in d.waInput[w][s] : Writes(s, i, w)
    <3>1. c.branch \in Branch /\ Comes(current, c.branch)
      BY DEF PurposeInv, BaseInv, ServerInv, DraTypeOK, Condition
    <3>2. c.branch \notin InputRelated
      BY <1>2, <2>2 DEF DependencyOf
    <3>3. /\ d.sig = current /\ d.ua = c.branch[2] /\ d.wa = Mods[c.branch]
          /\ d.wa \subseteq Addr
          /\ \A w \in Addr : w \in d.wa => d.waInput[w] = bbInput[w]
      BY <2>2, <3>1, <3>2, ModsAssumption DEF DependencyOf, WriteInputs
    <3>4. c.branch \in BranchesTo(d.ua)
      BY <3>1, <3>2, <3>3 DEF BranchesTo
    <3>5. ComesTo(d.sig, d.ua)
      BY <3>1, <3>3, <3>4 DEF ComesTo
    <3>6. \A w \in d.wa : WrittenFor(w, d.ua)
      BY <3>3, <3>4 DEF WrittenFor
    <3>7. ASSUME NEW w \in d.wa, NEW s \in Sig, NEW i \in d.waInput[w][s] PROVE Writes(s, i, w)
      BY <3>3, <3>7 DEF PurposeInv
    <3> QED BY <3>5, <3>6, <3>7
  <2> QED BY <1>2, <2>1, <2>2, WaitingStarts
<1>3. ASSUME NEW t \in tasks'
      PROVE  /\ ComesTo(t[1].sig, t[2])'
             /\ \E w \in Addr : WrittenFor(w, t[2]) /\ Writes(t[1].writeSig, t[1].writeIndex, w)'
  <2>1. CASE t \in tasks
    BY <2>1, PurposeGrows DEF PurposeInv
  <2>2. CASE t \notin tasks
    <3>1. UpdateStep
      BY <1>3, <2>2, MapSteps
    <3>2. NewTasks
      <4>1. ASSUME NEW m \in NewInputMsg, AddCoveredAddress(m) PROVE FALSE
        BY <1>3, <2>2, <4>1 DEF AddCoveredAddress
      <4>2. ASSUME NEW d \in DependencyMsg, AddInputRelated(d) PROVE FALSE
        BY <1>3, <2>2, <4>2 DEF AddInputRelated
      <4>3. ASSUME NEW m \in NewInputMsg, AddInput(m) PROVE NewTasks
        BY <4>3, AddInputStep DEF BaseInv
      <4>4. ASSUME NEW d \in DependencyMsg, AddDependencyRelated(d) PROVE NewTasks
        BY <4>4, AddDependencyRelatedStep DEF BaseInv
      <4> QED BY <3>1, <4>1, <4>2, <4>3, <4>4, UpdateStepFacts DEF AddDependency
    <3>3. PICK A \in SUBSET RequestSet : tasks' = tasks \cup TasksOf(A) /\ \A r \in A : Wanted(r)
      BY <3>2 DEF NewTasks, Paid, Accepted
    <3>4. PICK r \in A : \E i \in r.bits, j \in r.writeBits :
            t = <<[sig |-> r.sig, index |-> i, writeSig |-> r.writeSig, writeIndex |-> j], r.ua>>
      BY <1>3, <2>2, <3>3, SMTT(60) DEF TasksOf
    <3>5. /\ t[1].sig = r.sig /\ t[1].writeSig = r.writeSig /\ t[2] = r.ua
          /\ t[1].writeIndex \in r.writeBits
      BY <3>4, SMTT(60)
    <3>6. /\ r.ua \in Addr /\ r.wa \in Addr /\ r.writeSig \in Sig
          /\ r.sig \in uaSig'[r.ua] /\ r.wa \in uaWA'[r.ua]
          /\ r.writeBits \subseteq waInput'[r.wa][r.writeSig]
      BY <3>3, <3>4 DEF RequestSet, Wanted
    <3>7. ComesTo(r.sig, r.ua)' /\ WrittenFor(r.wa, r.ua)
      BY <3>6, UpdatePurpose
    <3>8. Writes(r.writeSig, t[1].writeIndex, r.wa)'
      BY <3>5, <3>6, UpdatePurpose
    <3> QED BY <3>5, <3>6, <3>7, <3>8
  <2> QED BY <2>1, <2>2
<1>4. ASSUME NEW d \in DependencyMsg, Waiting(d)', d.kind = "DependencyRelated"
      PROVE  /\ ComesTo(d.sig, d.ua)'
             /\ \A w \in d.wa : WrittenFor(w, d.ua)
             /\ \A w \in d.wa, s \in Sig : \A i \in d.waInput[w][s] : Writes(s, i, w)'
  BY <1>2, <1>4, PurposeGrows
<1>5. /\ \A s \in Sig : \A c \in dUncoveredAddress'[s] : Comes(s, c.branch)'
      /\ \A c \in todo' : Comes(current, c.branch)'
      /\ \A a \in Addr, s \in Sig : \A i \in bbInput'[a][s] : Writes(s, i, a)'
  BY AnalysisPurpose
<1>6. /\ \A u \in Addr : \A s \in uaSig'[u] : ComesTo(s, u)'
      /\ \A u \in Addr : \A w \in uaWA'[u] : WrittenFor(w, u)
      /\ \A w \in Addr, s \in Sig : \A i \in waInput'[w][s] : Writes(s, i, w)'
  BY UpdatePurpose
<1> QED BY <1>1, <1>3, <1>4, <1>5, <1>6 DEF PurposeInv

\* Every task has its purpose: its program comes to the condition of a branch to
\* the task's address, and its writer at least to the condition before a block
\* that writes what the condition of such a branch reads.
THEOREM TasksHavePurpose == Spec => []TaskPurpose
<1>1. Init => DeliveredInv /\ PurposeInv
  <2> SUFFICES ASSUME Init PROVE DeliveredInv /\ PurposeInv
    OBVIOUS
  <2>1. \A x : ~ InSeq(x, <<>>)
    BY SMTT(60) DEF InSeq
  <2>2. \A m \in NewInputs : ~ Covering(m) /\ ~ Offered(m) /\ ~ Queued(m) /\ ~ Adding(m)
    BY <2>1 DEF Init, Covering, Offered, Held, Queued, Adding
  <2>3. \A d \in DependencyMsg : ~ Waiting(d)
    BY <2>1 DEF Init, Waiting
  <2>4. /\ Coverage = {} /\ cover = {} /\ todo = {} /\ tasks = {}
        /\ \A s \in Sig : dUncoveredAddress[s] = {}
        /\ \A a \in Addr : uaSig[a] = {} /\ uaWA[a] = {}
        /\ \A a \in Addr, s \in Sig : bbInput[a][s] = {} /\ waInput[a][s] = {}
    BY DEF Init, DDInit, DraInit
  <2> QED BY <2>2, <2>3, <2>4 DEF DeliveredInv, PurposeInv
<1>2. BaseInv /\ DeliveredInv /\ [Next]_vars => DeliveredInv'
  BY DeliveredStep
<1>3. BaseInv /\ DeliveredInv /\ PurposeInv /\ [Next]_vars => PurposeInv'
  BY PurposeStep
<1>4. PurposeInv => TaskPurpose
  <2> SUFFICES ASSUME PurposeInv, NEW t \in tasks
               PROVE  /\ \E b \in BranchesTo(t[2]), m \in NewInputs :
                             m.sig = t[1].sig /\ b[1] \in m.cover /\ sender[m] # "fuzzer"
                      /\ \E b \in BranchesTo(t[2]), m \in NewInputs : \E w \in Mods[b] :
                             /\ m.sig = t[1].writeSig /\ t[1].writeIndex \in ShiftedIdx(m.call)
                             /\ Borders(m, w) /\ sender[m] # "fuzzer"
    BY DEF TaskPurpose
  <2>1. /\ ComesTo(t[1].sig, t[2])
        /\ \E w \in Addr : WrittenFor(w, t[2]) /\ Writes(t[1].writeSig, t[1].writeIndex, w)
    BY DEF PurposeInv
  <2>2. \E b \in BranchesTo(t[2]), m \in NewInputs :
            m.sig = t[1].sig /\ b[1] \in m.cover /\ sender[m] # "fuzzer"
    BY <2>1 DEF ComesTo, Comes
  <2>3. \E b \in BranchesTo(t[2]), m \in NewInputs : \E w \in Mods[b] :
            /\ m.sig = t[1].writeSig /\ t[1].writeIndex \in ShiftedIdx(m.call)
            /\ Borders(m, w) /\ sender[m] # "fuzzer"
    BY <2>1 DEF WrittenFor, Writes
  <2> QED BY <2>2, <2>3
<1> QED BY <1>1, <1>2, <1>3, <1>4, BaseInvariant, PTL DEF Spec
=============================================================================
