---------------------------- MODULE VmLoopProofs ----------------------------
(***************************************************************************)
(* For any number of VMs, titles and crashes: vmLoop accounts for every    *)
(* VM, reproduces a title once at a time, and gives up a title after       *)
(* maxReproAttempts failures.                                              *)
(***************************************************************************)
EXTENDS VmLoop, FiniteSetTheorems, TLAPS

USE ZenonT(30)

Distinct(s) == \A i, j \in 1 .. Len(s) : s[i] = s[j] => i = j
Elems(s) == {s[i] : i \in 1 .. Len(s)}

\* The queue, the running reproductions and the results on their way hold no
\* title twice, and `reproducing' names all of theirs.
Apart ==
    /\ Distinct(reproQueue)
    /\ \A i, j \in 1 .. Len(reproDone) : reproDone[i].title = reproDone[j].title => i = j
    /\ Queued \cap active = {} /\ (Queued \cup active) \cap Ending = {}
    /\ reproducing = Queued \cup active \cup Ending

\* Without a dashboard every failed attempt has its file, except at memory leaks,
\* and a title that is being reproduced has not been given up.
Tried ==
    ~dash => \A t \in Title \ Leak : /\ failed[t] = attempts[t]
                                     /\ t \in reproducing => attempts[t] < maxReproAttempts

VmInv == TypeOK /\ VMsAccounted /\ Apart /\ Tried

-----------------------------------------------------------------------------
(* Sequences without repetitions *)

\* A reproduction needs at least one VM.
LEMMA PerRepro == instancesPerRepro \in Nat /\ instancesPerRepro > 0 /\ vmCount \in Nat
  BY VmAssumption, SMTT(60) DEF instancesPerRepro

\* An order of a finite set as long as the set has no repetitions.
LEMMA OrderDistinct ==
    ASSUME NEW S, IsFiniteSet(S), NEW o \in [1 .. Cardinality(S) -> S], Elems(o) = S
    PROVE  o \in Seq(S) /\ Len(o) = Cardinality(S) /\ Distinct(o)
<1> DEFINE n == Cardinality(S)
<1>1. n \in Nat
  BY FS_CardinalityType
<1>2. o \in Seq(S) /\ Len(o) = n
  <2> HIDE DEF n
  <2> QED BY <1>1, SMTT(60) DEF n
<1>3. IsFiniteSet(1 .. n) /\ Cardinality(1 .. n) = n
  BY <1>1, FS_Interval, SMTT(60)
<1>4. o \in Surjection(1 .. n, S)
  <2>1. \A x \in S : \E i \in 1 .. n : o[i] = x
    BY <1>2 DEF Elems
  <2> QED BY <2>1 DEF Surjection
<1>5. o \in Injection(1 .. n, S)
  BY <1>3, <1>4, FS_SurjSameCardinalityImpliesInj
<1> QED BY <1>2, <1>5 DEF Injection, IsInjective, Distinct

\* Two sequences without repetitions and without common elements.
LEMMA JoinDistinct ==
    ASSUME NEW S, NEW s \in Seq(S), NEW o \in Seq(S), Distinct(s), Distinct(o),
           \A x \in Elems(s) : x \notin Elems(o)
    PROVE  s \o o \in Seq(S) /\ Distinct(s \o o) /\ Elems(s \o o) = Elems(s) \cup Elems(o)
<1> DEFINE m == Len(s)
           n == Len(o)
           q == s \o o
<1>1. /\ m \in Nat /\ n \in Nat /\ q \in Seq(S) /\ Len(q) = m + n
      /\ \A i \in 1 .. m : q[i] = s[i]
      /\ \A i \in 1 .. n : q[m + i] = o[i]
  BY SMTT(60)
<1>2. \A i \in 1 .. m + n : i \in 1 .. m \/ (i - m \in 1 .. n /\ i = m + (i - m))
  BY <1>1, SMTT(60)
<1>3. \A i \in 1 .. m + n : \/ i \in 1 .. m /\ q[i] = s[i]
                            \/ i - m \in 1 .. n /\ q[i] = o[i - m]
  BY <1>1, <1>2
<1>4. /\ \A i \in 1 .. m : s[i] \in Elems(s) /\ i \in 1 .. m + n
      /\ \A i \in 1 .. n : o[i] \in Elems(o) /\ m + i \in 1 .. m + n
  <2>1. \A i \in 1 .. m : i \in 1 .. m + n
    BY <1>1, SMTT(60)
  <2>2. \A i \in 1 .. n : m + i \in 1 .. m + n
    BY <1>1, SMTT(60)
  <2> QED BY <2>1, <2>2 DEF Elems
<1> HIDE DEF m, n, q
<1>5. Distinct(q)
  <2> SUFFICES ASSUME NEW i \in 1 .. m + n, NEW j \in 1 .. m + n, q[i] = q[j] PROVE i = j
    BY <1>1 DEF Distinct
  <2>1. i - m = j - m => i = j
    BY <1>1, SMTT(60)
  <2> QED BY <1>3, <1>4, <2>1 DEF Distinct, m, n
<1>6. Elems(q) = Elems(s) \cup Elems(o)
  <2>1. \A i \in 1 .. m + n : q[i] \in Elems(s) \cup Elems(o)
    BY <1>3, <1>4
  <2>2. \A i \in 1 .. m : s[i] \in Elems(q)
    BY <1>1, <1>4 DEF Elems
  <2>3. \A i \in 1 .. n : o[i] \in Elems(q)
    BY <1>1, <1>4 DEF Elems
  <2>4. Elems(q) = {q[i] : i \in 1 .. m + n} /\ Elems(s) = {s[i] : i \in 1 .. m}
        /\ Elems(o) = {o[i] : i \in 1 .. n}
    BY <1>1 DEF Elems, m, n
  <2> QED BY <2>1, <2>2, <2>3, <2>4
<1> QED BY <1>1, <1>5, <1>6 DEF q

\* The last k elements of a sequence without repetitions are k others than the rest.
LEMMA CutDistinct ==
    ASSUME NEW S, NEW q \in Seq(S), Distinct(q), NEW k \in 0 .. Len(q)
    PROVE  LET r == SubSeq(q, 1, Len(q) - k)
               A == {q[i] : i \in Len(q) - k + 1 .. Len(q)}
           IN  /\ r \in Seq(S) /\ Distinct(r) /\ Elems(r) \cap A = {} /\ Elems(r) \cup A = Elems(q)
               /\ IsFiniteSet(A) /\ Cardinality(A) = k
<1> DEFINE n == Len(q)
           m == Len(q) - k
           r == SubSeq(q, 1, m)
           I == m + 1 .. n
           A == {q[i] : i \in I}
<1>1. n \in Nat /\ m \in 0 .. n /\ k \in Nat
  BY SMTT(60)
<1>2. r \in Seq(S) /\ Len(r) = m /\ \A i \in 1 .. m : r[i] = q[i]
  <2>1. m \in Nat /\ m <= Len(q) /\ m \in Int
    BY <1>1, SMTT(60)
  <2> HIDE DEF m
  <2> QED BY <2>1, SMTT(60)
<1>3. /\ \A i \in 1 .. n : i \in 1 .. m \/ i \in I
      /\ \A i \in 1 .. m : i \in 1 .. n /\ i \notin I
      /\ \A i \in I : i \in 1 .. n
  BY <1>1, SMTT(60)
<1>4. IsFiniteSet(I) /\ Cardinality(I) = k
  <2>1. IsFiniteSet(I) /\ Cardinality(I) = IF m + 1 > n THEN 0 ELSE n - (m + 1) + 1
    <3>1. m + 1 \in Int /\ n \in Int
      BY <1>1, SMTT(60)
    <3> QED BY <3>1, FS_Interval
  <2>2. (IF m + 1 > n THEN 0 ELSE n - (m + 1) + 1) = k
    BY <1>1, SMTT(60)
  <2> QED BY <2>1, <2>2, SMTT(60)
<1> HIDE DEF n, m, r, I
<1>5. Distinct(r) /\ Elems(r) \cap A = {} /\ Elems(r) \cup A = Elems(q)
  <2>1. Elems(q) = {q[i] : i \in 1 .. n} /\ Elems(r) = {q[i] : i \in 1 .. m}
    BY <1>2 DEF Elems, n
  <2>2. \A i, j \in 1 .. n : q[i] = q[j] => i = j
    BY DEF Distinct, n
  <2>3. Distinct(r)
    BY <1>2, <1>3, <2>2 DEF Distinct
  <2>4. Elems(r) \cap A = {}
    <3>1. ASSUME NEW i \in 1 .. m, NEW j \in I, q[i] = q[j] PROVE FALSE
      BY <1>3, <2>2, <3>1
    <3> QED BY <2>1, <3>1
  <2>5. Elems(r) \cup A = Elems(q)
    BY <1>3, <2>1
  <2> QED BY <2>3, <2>4, <2>5
<1>6. IsFiniteSet(A) /\ Cardinality(A) = k
  <2> DEFINE f == [i \in I |-> q[i]]
  <2>1. f \in Surjection(I, A)
    BY DEF Surjection
  <2>2. f \in Injection(I, A)
    BY <1>3 DEF Injection, IsInjective, Distinct, n
  <2>3. f \in Bijection(I, A)
    BY <2>1, <2>2 DEF Bijection
  <2>4. ExistsBijection(I, A)
    BY <2>3 DEF ExistsBijection
  <2> QED BY <1>4, <2>4, FS_Bijection
<1> QED BY <1>2, <1>5, <1>6 DEF n, m, r, I

\* k more reproductions take k times as many VMs as one.
LEMMA Distribute == ASSUME NEW p \in Nat, NEW a \in Nat, NEW k \in Nat PROVE p * a + k * p = p * (a + k)
  BY SMTT(60)

\* What is left of a sequence when its head is taken.
LEMMA TailFacts ==
    ASSUME NEW S, NEW s \in Seq(S), s # <<>>
    PROVE  /\ Len(s) \in Nat /\ Len(s) > 0 /\ Head(s) = s[1] /\ Head(s) \in S
           /\ Tail(s) \in Seq(S) /\ Len(Tail(s)) = Len(s) - 1
           /\ \A i \in 1 .. Len(s) - 1 : Tail(s)[i] = s[i + 1]
  BY SMTT(60)

\* A sender waits behind the others.
LEMMA AppendFacts ==
    ASSUME NEW S, NEW s \in Seq(S), NEW e \in S
    PROVE  /\ Len(s) \in Nat /\ Append(s, e) \in Seq(S) /\ Len(Append(s, e)) = Len(s) + 1
           /\ \A i \in 1 .. Len(s) : Append(s, e)[i] = s[i]
           /\ Append(s, e)[Len(s) + 1] = e
  BY SMTT(60)

-----------------------------------------------------------------------------
(* The steps *)

\* The titles are finite, and so is every set of them.
LEMMA TitlesFinite == ASSUME NEW S \in SUBSET Titles PROVE IsFiniteSet(S) /\ Cardinality(S) \in Nat
<1>1. IsFiniteSet(Titles)
  BY TitleAssumption, FS_Singleton, FS_Union DEF Titles
<1>2. IsFiniteSet(S)
  BY <1>1, FS_Subset
<1> QED BY <1>2, FS_CardinalityType

\* The channels and the set of running reproductions are finite.
LEMMA Lengths ==
    TypeOK => /\ Len(runDone) \in Nat /\ Len(reproDone) \in Nat /\ Len(reproQueue) \in Nat
              /\ Cardinality(active) \in Nat
<1>1. TypeOK => Cardinality(active) \in Nat
  BY TitlesFinite DEF TypeOK
<1> QED BY <1>1, SMTT(60) DEF TypeOK

\* vmLoop starts with every VM at its disposal and nothing to reproduce.
LEMMA InitInv == Init => VmInv
<1> SUFFICES ASSUME Init PROVE VmInv
  OBVIOUS
<1>0. Cardinality({}) = 0 /\ Len(<<>>) = 0 /\ 1 .. 0 = {}
  BY FS_EmptySet, SMTT(60)
<1>1. TypeOK
  <2>1. /\ instances \in Nat /\ running \in Nat /\ stopping \in Nat /\ reproInstances \in Nat
        /\ hubReproQueue \in 0 .. HubQueueSize /\ crashes \in 0 .. MaxCrashes
        /\ 0 \in Nat /\ 0 \in 0 .. maxReproAttempts
    BY VmAssumption, SMTT(60) DEF Init
  <2>2. /\ runDone \in Seq(Title \cup {NoCrash}) /\ reproQueue \in Seq(Titles)
        /\ reproDone \in Seq([title : Titles, res : Outcome])
    BY SMTT(60) DEF Init
  <2> QED BY <2>1, <2>2 DEF Init, TypeOK
<1>2. VMsAccounted
  <2>1. instances + running + stopping + Len(runDone) + reproInstances = vmCount
    BY <1>0, VmAssumption, SMTT(60) DEF Init
  <2>2. Cardinality(active) = 0 /\ Len(reproDone) = 0 /\ reproInstances = 0
    BY <1>0 DEF Init
  <2>3. reproInstances = instancesPerRepro * (Cardinality(active) + Len(reproDone))
    BY <2>2, PerRepro, SMTT(60)
  <2> QED BY <2>1, <2>3 DEF VMsAccounted
<1>3. Apart
  <2>1. /\ Len(reproQueue) = 0 /\ Len(reproDone) = 0 /\ active = {} /\ reproducing = {}
    BY <1>0 DEF Init
  <2> QED BY <1>0, <2>1 DEF Apart, Distinct, Queued, Ending
<1>4. Tried
  BY DEF Init, Tried
<1> QED BY <1>1, <1>2, <1>3, <1>4 DEF VmInv

\* The pending titles that are queued are not being reproduced yet, and those
\* whose reproduction starts leave the queue.
LEMMA QueueStep ==
    ASSUME VmInv, NEW needed \in SUBSET Titles, NEW order \in [1 .. Cardinality(needed) -> needed],
           Pending(needed, order), NEW k \in 0 .. Len(reproQueue \o order),
           Starts(reproQueue \o order, k), UNCHANGED reproDone
    PROVE  /\ Apart' /\ reproQueue' \in Seq(Titles) /\ active' \in SUBSET Titles
           /\ Cardinality(active') = Cardinality(active) + k
<1> DEFINE q == reproQueue \o order
           A == {q[i] : i \in Len(q) - k + 1 .. Len(q)}
<1>0. /\ reproQueue \in Seq(Titles) /\ active \in SUBSET Titles /\ Apart
      /\ Queued = Elems(reproQueue)
  BY DEF VmInv, TypeOK, Queued, Elems
<1>1. IsFiniteSet(needed) /\ Elems(order) = needed /\ needed \cap reproducing = {}
  BY TitlesFinite DEF Pending, Elems
<1>2. order \in Seq(needed) /\ Distinct(order)
  BY <1>1, OrderDistinct
<1>3. order \in Seq(Titles)
  BY <1>2, SMTT(60)
<1>4. Distinct(reproQueue) /\ \A x \in Elems(reproQueue) : x \notin Elems(order)
  BY <1>0, <1>1 DEF Apart
<1>5. q \in Seq(Titles) /\ Distinct(q) /\ Elems(q) = Queued \cup needed
  <2>1. q \in Seq(Titles) /\ Distinct(q) /\ Elems(q) = Elems(reproQueue) \cup Elems(order)
    <3>1. reproQueue \in Seq(Titles)
      BY <1>0
    <3>2. Distinct(order)
      BY <1>2
    <3> QED BY <3>1, <3>2, <1>3, <1>4, JoinDistinct, SMTT(60)
  <2> QED BY <1>0, <1>1, <2>1
<1> HIDE DEF q
<1>6. k \in 0 .. Len(q) /\ reproQueue' = SubSeq(q, 1, Len(q) - k) /\ active' = active \cup A
  BY DEF q, Starts
<1>7. /\ reproQueue' \in Seq(Titles) /\ Distinct(reproQueue') /\ Elems(reproQueue') \cap A = {}
      /\ Elems(reproQueue') \cup A = Queued \cup needed
      /\ IsFiniteSet(A) /\ Cardinality(A) = k
  BY <1>5, <1>6, CutDistinct
<1>8. Queued' = Elems(reproQueue')
  BY DEF Queued, Elems
<1>9. Ending' = Ending /\ reproducing' = reproducing \cup needed
  BY DEF Ending, Pending
<1> HIDE DEF A
<1>10. A \cap active = {} /\ A \in SUBSET Titles
  <2>1. Queued \in SUBSET Titles
    <3>1. \A i \in 1 .. Len(reproQueue) : reproQueue[i] \in Titles
      BY <1>0, SMTT(60)
    <3> QED BY <3>1 DEF Queued
  <2> QED BY <1>0, <1>1, <1>7, <2>1 DEF Apart
<1>11. Cardinality(active') = Cardinality(active) + k
  <2>1. IsFiniteSet(active) /\ Cardinality(active) \in Nat
    BY <1>0, TitlesFinite
  <2>2. Cardinality(active') = Cardinality(active) + k - Cardinality(active \cap A)
    BY <1>6, <1>7, <2>1, FS_Union
  <2>3. Cardinality(active \cap A) = 0
    BY <1>10, FS_EmptySet
  <2>4. k \in Nat
    BY <1>7, FS_CardinalityType
  <2> QED BY <2>1, <2>2, <2>3, <2>4, SMTT(60)
<1>12. Apart'
  <2>1. (\A i, j \in 1 .. Len(reproDone) : reproDone[i].title = reproDone[j].title => i = j)'
    BY <1>0 DEF Apart
  <2>2. Queued' \cap active' = {}
    BY <1>0, <1>1, <1>6, <1>7, <1>8 DEF Apart
  <2>3. (Queued' \cup active') \cap Ending' = {}
    BY <1>0, <1>1, <1>6, <1>7, <1>8, <1>9 DEF Apart
  <2>4. reproducing' = Queued' \cup active' \cup Ending'
    BY <1>0, <1>6, <1>7, <1>8, <1>9 DEF Apart
  <2> QED BY <1>7, <2>1, <2>2, <2>3, <2>4 DEF Apart, Distinct
<1> QED BY <1>0, <1>6, <1>7, <1>10, <1>11, <1>12

\* What LoopTop does with the VMs: k reproductions start with instancesPerRepro
\* VMs each, and the others fuzz or are kept.
LEMMA SpreadStep ==
    ASSUME VmInv, NEW q, Len(q) \in Nat, Spread(q)
    PROVE  \E k \in 0 .. Len(q) :
              /\ Starts(q, k)
              /\ instances' \in Nat /\ running' \in Nat
              /\ instances' + running' + k * instancesPerRepro = instances + running
<1>0. instances \in Nat /\ running \in Nat
  BY DEF VmInv, TypeOK
<1>1. CASE shutdown = "seen"
  <2>1. Starts(q, 0) /\ instances' = instances /\ running' = running
    BY <1>1 DEF Spread
  <2>2. 0 \in 0 .. Len(q) /\ instances + running + 0 * instancesPerRepro = instances + running
    BY <1>0, PerRepro, SMTT(60)
  <2> QED BY <1>0, <2>1, <2>2
<1>2. CASE shutdown # "seen"
  <2> DEFINE left(k) == instances - k * instancesPerRepro
  <2>1. PICK k \in 0 .. Len(q) :
           /\ left(k) >= 0 /\ Starts(q, k)
           /\ \/ instances' = left(k) /\ running' = running
              \/ instances' = 0 /\ running' = running + left(k)
    BY <1>2 DEF Spread
  <2>2. k * instancesPerRepro \in Nat
    BY PerRepro, SMTT(60)
  <2> DEFINE x == k * instancesPerRepro
  <2>3. x \in Nat /\ left(k) = instances - x
    BY <2>2
  <2> HIDE DEF x, left
  <2>4. /\ instances' \in Nat /\ running' \in Nat
        /\ instances' + running' + x = instances + running
    BY <1>0, <2>1, <2>3, SMTT(60)
  <2> QED BY <2>1, <2>4 DEF x
<1> QED BY <1>1, <1>2

\* The VMs of k reproductions that start move to them from the loop and from fuzzing.
LEMMA StartsAccounted ==
    ASSUME TypeOK, VMsAccounted, NEW k \in Nat, k * instancesPerRepro \in Nat,
           instances' \in Nat, running' \in Nat,
           instances' + running' + k * instancesPerRepro = instances + running,
           stopping' = stopping, runDone' = runDone, reproDone' = reproDone,
           Cardinality(active') = Cardinality(active) + k,
           reproInstances' = reproInstances + k * instancesPerRepro
    PROVE  VMsAccounted' /\ reproInstances' \in Nat
<1> DEFINE x == k * instancesPerRepro
           c == Cardinality(active)
           d == Len(reproDone)
           l == Len(runDone)
<1>1. c \in Nat /\ d \in Nat /\ l \in Nat
  BY Lengths
<1>2. /\ instances \in Nat /\ running \in Nat /\ stopping \in Nat /\ reproInstances \in Nat
      /\ instances + running + stopping + l + reproInstances = vmCount
  BY DEF TypeOK, VMsAccounted
<1>3. /\ Cardinality(active') = c + k /\ Len(reproDone') = d /\ Len(runDone') = l
      /\ reproInstances = instancesPerRepro * (c + d)
  BY DEF VMsAccounted
<1> HIDE DEF c, d, l
<1>4. reproInstances' = instancesPerRepro * (c + k + d)
  <2>1. instancesPerRepro * (c + d) + k * instancesPerRepro = instancesPerRepro * (c + d + k)
    BY <1>1, PerRepro, Distribute, SMTT(60)
  <2>2. c + k + d = c + d + k
    BY <1>1, SMTT(60)
  <2> QED BY <1>3, <2>1, <2>2
<1>5. x \in Nat /\ reproInstances' = reproInstances + x /\ instances' + running' + x = instances + running
  OBVIOUS
<1> HIDE DEF x
<1>6. instances' + running' + stopping + l + reproInstances' = vmCount /\ reproInstances' \in Nat
  BY <1>1, <1>2, <1>5, SMTT(60)
<1> QED BY <1>3, <1>4, <1>6 DEF VMsAccounted

\* LoopTop keeps every conjunct: what is queued was not being reproduced and has
\* not been given up, and the VMs of the reproductions that start are accounted.
LEMMA TopInv == VmInv /\ LoopTop => VmInv'
<1> SUFFICES ASSUME VmInv, LoopTop PROVE VmInv'
  OBVIOUS
<1>0. TypeOK /\ VMsAccounted /\ Apart /\ Tried
  BY DEF VmInv
<1>1. PICK needed \in SUBSET Titles : \E order \in [1 .. Cardinality(needed) -> needed] :
         Pending(needed, order) /\ Spread(reproQueue \o order)
  BY DEF LoopTop
<1>2. PICK order \in [1 .. Cardinality(needed) -> needed] :
         Pending(needed, order) /\ Spread(reproQueue \o order)
  BY <1>1
<1>3. Len(reproQueue \o order) \in Nat
  <2>1. Cardinality(needed) \in Nat
    BY TitlesFinite
  <2>2. order \in Seq(Titles)
    BY <2>1, SMTT(60)
  <2> QED BY <1>0, <2>2, SMTT(60) DEF TypeOK
<1>4. PICK k \in 0 .. Len(reproQueue \o order) :
         /\ Starts(reproQueue \o order, k)
         /\ instances' \in Nat /\ running' \in Nat
         /\ instances' + running' + k * instancesPerRepro = instances + running
  BY <1>2, <1>3, SpreadStep
<1>5. UNCHANGED <<dash, phase, stopping, runDone, reproDone, stopPending, shutdown, hub, hubReproQueue,
                  repro, failed, attempts, crashes>>
      /\ pc' = "select" /\ seen' = phase /\ stopRequest' \in BOOLEAN
  BY DEF LoopTop, hubVars, fileVars
<1>6. /\ Apart' /\ reproQueue' \in Seq(Titles) /\ active' \in SUBSET Titles
      /\ Cardinality(active') = Cardinality(active) + k
  BY <1>2, <1>4, <1>5, QueueStep
<1>7. reproInstances' = reproInstances + k * instancesPerRepro
  BY <1>4 DEF Starts
<1>8. k \in Nat /\ k * instancesPerRepro \in Nat
  BY <1>3, PerRepro, SMTT(60)
<1>9. VMsAccounted' /\ reproInstances' \in Nat
  <2>1. stopping' = stopping /\ runDone' = runDone /\ reproDone' = reproDone
    BY <1>5
  <2> QED BY <1>0, <1>4, <1>6, <1>7, <1>8, <2>1, StartsAccounted
<1>10. pendingRepro' \in [Titles -> Nat] /\ reproducing' \in SUBSET Titles
  <2>1. \A t \in Titles : /\ pendingRepro[t] \in Nat
                          /\ t \in needed => pendingRepro[t] > 0
    BY <1>0, <1>2 DEF TypeOK, Pending
  <2>2. \A n \in Nat : n > 0 => n - 1 \in Nat
    BY SMTT(60)
  <2>3. 0 \in Nat
    BY SMTT(60)
  <2> QED BY <1>0, <1>2, <2>1, <2>2, <2>3 DEF TypeOK, Pending
<1>11. TypeOK'
  BY <1>0, <1>4, <1>5, <1>6, <1>9, <1>10 DEF TypeOK
<1>12. Tried'
  <2> SUFFICES ASSUME ~dash, NEW t \in Title \ Leak
               PROVE  /\ failed[t] = attempts[t]
                      /\ t \in reproducing' => attempts[t] < maxReproAttempts
    BY <1>5 DEF Tried
  <2>1. failed[t] = attempts[t] /\ (t \in reproducing => attempts[t] < maxReproAttempts)
    BY <1>0 DEF Tried
  <2>2. ASSUME t \in needed PROVE attempts[t] < maxReproAttempts
    <3>1. TRUE \in needRepro(t) /\ t # External
      BY <1>2, <2>2, VmAssumption DEF Pending
    <3>2. needLocalRepro(t)
      BY <3>1 DEF needRepro
    <3> QED BY <2>1, <3>2 DEF needLocalRepro
  <2>3. reproducing' = reproducing \cup needed
    BY <1>2 DEF Pending
  <2> QED BY <2>1, <2>2, <2>3
<1> QED BY <1>6, <1>9, <1>11, <1>12 DEF VmInv

\* The VMs of a reproduction come back when the loop takes its result.
LEMMA ReproDoneAccounted ==
    ASSUME TypeOK, VMsAccounted, Len(reproDone) > 0, Len(reproDone') = Len(reproDone) - 1,
           active' = active, runDone' = runDone, running' = running, stopping' = stopping,
           instances' = instances + instancesPerRepro,
           reproInstances' = reproInstances - instancesPerRepro
    PROVE  VMsAccounted' /\ reproInstances' \in Nat /\ instances' \in Nat
<1> DEFINE c == Cardinality(active)
           d == Len(reproDone)
           l == Len(runDone)
           p == instancesPerRepro
<1>1. c \in Nat /\ d \in Nat /\ l \in Nat /\ p \in Nat
  BY Lengths, PerRepro
<1>2. /\ instances \in Nat /\ running \in Nat /\ stopping \in Nat /\ reproInstances \in Nat
      /\ instances + running + stopping + l + reproInstances = vmCount
  BY DEF TypeOK, VMsAccounted
<1>3. /\ Cardinality(active') = c /\ Len(runDone') = l /\ Len(reproDone') = d - 1 /\ d > 0
      /\ reproInstances = p * (c + d)
      /\ instances' = instances + p /\ reproInstances' = reproInstances - p
  BY DEF VMsAccounted
<1> HIDE DEF c, d, l, p
<1>4. c + (d - 1) \in Nat /\ c + d = c + (d - 1) + 1
  BY <1>1, <1>3, SMTT(60)
<1>5. p * (c + (d - 1)) \in Nat /\ p * (c + (d - 1)) + 1 * p = p * (c + d)
  BY <1>1, <1>4, Distribute, SMTT(60)
<1> DEFINE y == p * (c + (d - 1))
<1>6. y \in Nat /\ reproInstances = y + p
  BY <1>1, <1>3, <1>5, SMTT(60)
<1> HIDE DEF y
<1>7. reproInstances' = y /\ instances' \in Nat
      /\ instances' + running + stopping + l + reproInstances' = vmCount
  BY <1>1, <1>2, <1>3, <1>6, SMTT(60)
<1> QED BY <1>3, <1>6, <1>7 DEF VMsAccounted, y, p

\* saveRepro and saveFailedRepro: a failure makes one more file and one more
\* attempt, for a title that was being reproduced and no other; the attempts at
\* memory leaks are counted by nothing.
LEMMA SavedResult ==
    ASSUME TypeOK, Tried, NEW t \in Titles, NEW res \in Outcome, t \in reproducing,
           SaveResult(t, res), dash' = dash, reproducing' = reproducing \ {t}
    PROVE  /\ repro' \in SUBSET Titles /\ failed' \in [Title -> 0 .. maxReproAttempts]
           /\ attempts' \in [Title -> Nat] /\ Tried'
<1>0. PICK reported \in IF dash THEN BOOLEAN ELSE {FALSE} :
        /\ repro' = IF res = "none" \/ reported THEN repro ELSE repro \cup {res}
        /\ failed' = IF res # "none" \/ t \in Leak \cup {External} \/ reported THEN failed
                     ELSE [failed EXCEPT ![t] = IF @ < maxReproAttempts THEN @ + 1 ELSE @]
  BY DEF SaveResult
<1>1. repro' \in SUBSET Titles
  BY <1>0 DEF TypeOK, Outcome
<1>2. \A n \in 0 .. maxReproAttempts : (IF n < maxReproAttempts THEN n + 1 ELSE n) \in 0 .. maxReproAttempts
  BY VmAssumption, SMTT(60)
<1>3. \A n \in Nat : n + 1 \in Nat
  BY SMTT(60)
<1>4. t # External => t \in Title
  BY DEF Titles
<1>5. failed' \in [Title -> 0 .. maxReproAttempts]
  BY <1>0, <1>2, <1>4 DEF TypeOK
<1>6. attempts' \in [Title -> Nat]
  BY <1>3, <1>4 DEF TypeOK, SaveResult
<1>7. Tried'
  <2> SUFFICES ASSUME ~dash, NEW u \in Title \ Leak
               PROVE  /\ failed'[u] = attempts'[u]
                      /\ u \in reproducing' => attempts'[u] < maxReproAttempts
    BY DEF Tried
  <2>1. failed[u] = attempts[u] /\ (u \in reproducing => attempts[u] < maxReproAttempts)
    BY DEF Tried
  <2>2. CASE res # "none" \/ t = External
    BY <1>0, <2>1, <2>2 DEF SaveResult
  <2>3. CASE res = "none" /\ t \in Leak
    <3>1. failed' = failed /\ u # t
      BY <1>0, <2>3
    <3>2. attempts' = attempts \/ attempts' = [attempts EXCEPT ![t] = @ + 1]
      BY DEF SaveResult
    <3> QED BY <2>1, <3>1, <3>2 DEF TypeOK
  <2>4. CASE res = "none" /\ t \notin Leak \cup {External}
    <3>0. reported = FALSE
      BY <1>0
    <3>1. failed' = [failed EXCEPT ![t] = IF @ < maxReproAttempts THEN @ + 1 ELSE @]
          /\ attempts' = [attempts EXCEPT ![t] = @ + 1]
      BY <1>0, <2>4, <3>0 DEF SaveResult
    <3>2. CASE u = t
      <4>1. failed[u] < maxReproAttempts
        BY <2>1, <3>2
      <4>2. failed'[u] = failed[u] + 1 /\ attempts'[u] = attempts[u] + 1
        BY <3>1, <3>2, <4>1 DEF TypeOK
      <4> QED BY <2>1, <3>2, <4>2
    <3>3. CASE u # t
      BY <2>1, <3>1, <3>3 DEF TypeOK
    <3> QED BY <3>2, <3>3
  <2> QED BY <2>2, <2>3, <2>4
<1> QED BY <1>1, <1>5, <1>6, <1>7

\* A result of repro.Run: its title leaves `reproducing', its VMs come back, and
\* a failure is counted, below the limit because the title was being tried.
LEMMA ReproDoneInv == VmInv /\ SelectReproDone => VmInv'
<1> SUFFICES ASSUME VmInv, SelectReproDone PROVE VmInv'
  OBVIOUS
<1>0. TypeOK /\ VMsAccounted /\ Apart /\ Tried
  BY DEF VmInv
<1> DEFINE h == Head(reproDone)
           n == Len(reproDone)
<1>1. /\ UNCHANGED <<dash, phase, seen, running, stopping, runDone, pendingRepro, reproQueue, active,
                      stopPending, stopRequest, shutdown, hub, hubReproQueue, crashes>>
      /\ pc' = "top" /\ reproDone' = Tail(reproDone) /\ reproducing' = reproducing \ {h.title}
      /\ instances' = instances + instancesPerRepro
      /\ reproInstances' = reproInstances - instancesPerRepro
      /\ SaveResult(h.title, h.res) /\ reproDone # <<>>
  BY DEF SelectReproDone, stopVars, hubVars
<1>2. /\ n \in Nat /\ n > 0 /\ h = reproDone[1] /\ h \in [title : Titles, res : Outcome]
      /\ Tail(reproDone) \in Seq([title : Titles, res : Outcome])
      /\ Len(Tail(reproDone)) = n - 1
      /\ \A i \in 1 .. n - 1 : Tail(reproDone)[i] = reproDone[i + 1]
  BY <1>0, <1>1, TailFacts DEF TypeOK
<1>3. h.title \in Titles /\ h.res \in Outcome /\ h.title = reproDone[1].title
  BY <1>2
<1>4. /\ \A i \in 1 .. n - 1 : i + 1 \in 1 .. n /\ i + 1 # 1
      /\ \A i \in 1 .. n : i = 1 \/ (i - 1 \in 1 .. n - 1 /\ (i - 1) + 1 = i)
      /\ \A i, j \in 1 .. n - 1 : i + 1 = j + 1 => i = j
      /\ 1 \in 1 .. n
  BY <1>2, SMTT(60)
<1> HIDE DEF h, n
<1>5. Ending = {reproDone[i].title : i \in 1 .. n} /\ Ending' = {reproDone'[i].title : i \in 1 .. n - 1}
  BY <1>1, <1>2 DEF Ending, n
<1>6. \A i, j \in 1 .. n : reproDone[i].title = reproDone[j].title => i = j
  BY <1>0 DEF Apart, n
<1>7. \A i \in 1 .. n - 1 : reproDone'[i].title = reproDone[i + 1].title
  BY <1>1, <1>2
<1>8. Ending' = Ending \ {h.title}
  <2>1. ASSUME NEW i \in 1 .. n - 1 PROVE reproDone'[i].title \in Ending \ {h.title}
    <3>1. i + 1 \in 1 .. n /\ i + 1 # 1 /\ reproDone'[i].title = reproDone[i + 1].title
      BY <1>4, <1>7
    <3>2. reproDone[i + 1].title # reproDone[1].title
      BY <1>4, <1>6, <3>1
    <3> QED BY <1>3, <1>5, <3>1, <3>2
  <2>2. ASSUME NEW i \in 1 .. n, reproDone[i].title # h.title PROVE reproDone[i].title \in Ending'
    <3>1. i - 1 \in 1 .. n - 1 /\ (i - 1) + 1 = i
      BY <1>3, <1>4, <2>2
    <3>2. reproDone'[i - 1].title = reproDone[i].title
      BY <1>7, <3>1
    <3> QED BY <1>5, <3>1, <3>2
  <2> QED BY <1>5, <2>1, <2>2
<1>9. h.title \in Ending
  BY <1>3, <1>4, <1>5
<1>10. Apart'
  <2>1. \A i, j \in 1 .. Len(reproDone') : reproDone'[i].title = reproDone'[j].title => i = j
    <3>1. ASSUME NEW i \in 1 .. n - 1, NEW j \in 1 .. n - 1, reproDone'[i].title = reproDone'[j].title
          PROVE  i = j
      <4>1. reproDone[i + 1].title = reproDone[j + 1].title /\ i + 1 \in 1 .. n /\ j + 1 \in 1 .. n
        BY <1>4, <1>7, <3>1
      <4>2. i + 1 = j + 1
        BY <1>6, <4>1
      <4> QED BY <1>4, <4>2
    <3>2. Len(reproDone') = n - 1
      BY <1>1, <1>2
    <3> QED BY <3>1, <3>2
  <2>2. Queued' = Queued /\ active' = active
    BY <1>1 DEF Queued
  <2>3. Distinct(reproQueue')
    BY <1>0, <1>1 DEF Apart
  <2>4. /\ Queued' \cap active' = {} /\ (Queued' \cup active') \cap Ending' = {}
    BY <1>0, <1>8, <2>2 DEF Apart
  <2>5. reproducing' = Queued' \cup active' \cup Ending'
    BY <1>0, <1>1, <1>8, <1>9, <2>2 DEF Apart
  <2> QED BY <2>1, <2>3, <2>4, <2>5 DEF Apart, Distinct
<1>11. VMsAccounted' /\ reproInstances' \in Nat /\ instances' \in Nat
  BY <1>0, <1>1, <1>2, ReproDoneAccounted DEF n
<1>12. /\ repro' \in SUBSET Titles /\ failed' \in [Title -> 0 .. maxReproAttempts]
       /\ attempts' \in [Title -> Nat] /\ Tried'
  BY <1>0, <1>1, <1>3, <1>9, SavedResult DEF Apart
<1>13. TypeOK'
  <2>1. reproducing' \in SUBSET Titles
    BY <1>0, <1>1 DEF TypeOK
  <2> QED BY <1>0, <1>1, <1>2, <1>11, <1>12, <2>1 DEF TypeOK
<1> QED BY <1>10, <1>11, <1>12, <1>13 DEF VmInv

\* The result of a reproduction that ends waits in the channel, with its VMs.
LEMMA ReproEndsAccounted ==
    ASSUME TypeOK, VMsAccounted, Cardinality(active') = Cardinality(active) - 1,
           Len(reproDone') = Len(reproDone) + 1,
           UNCHANGED <<instances, running, stopping, runDone, reproInstances>>
    PROVE  VMsAccounted'
<1> DEFINE c == Cardinality(active)
           d == Len(reproDone)
<1>1. c \in Nat /\ d \in Nat /\ Cardinality(active') = c - 1 /\ Len(reproDone') = d + 1
  BY Lengths
<1> HIDE DEF c, d
<1>2. (c - 1) + (d + 1) = c + d
  BY <1>1, SMTT(60)
<1> QED BY <1>1, <1>2 DEF VMsAccounted, c, d

\* repro.Run ends: the title moves from the running reproductions to the results.
LEMMA ReproEndsInv == ASSUME NEW t \in Titles PROVE VmInv /\ ReproEnds(t) => VmInv'
<1> SUFFICES ASSUME VmInv, ReproEnds(t) PROVE VmInv'
  OBVIOUS
<1>0. TypeOK /\ VMsAccounted /\ Apart /\ Tried
  BY DEF VmInv
<1> DEFINE n == Len(reproDone)
           R == [title : Titles, res : Outcome]
<1>1. /\ UNCHANGED <<dash, pc, phase, seen, instances, running, stopping, runDone, pendingRepro, reproducing,
                     reproQueue, reproInstances, stopPending, stopRequest, shutdown, hub, hubReproQueue,
                     repro, failed, attempts, crashes>>
      /\ t \in active /\ active' = active \ {t}
  BY DEF ReproEnds, vmVars, stopVars, hubVars, fileVars
<1>2. PICK res \in Outcome : reproDone' = Append(reproDone, [title |-> t, res |-> res])
  BY DEF ReproEnds
<1> DEFINE e == [title |-> t, res |-> res]
<1>3. e \in R /\ e.title = t
  OBVIOUS
<1>4. reproDone \in Seq(R)
  BY <1>0 DEF TypeOK
<1> HIDE DEF e, R
<1>5. /\ n \in Nat /\ reproDone' \in Seq(R) /\ Len(reproDone') = n + 1
      /\ \A i \in 1 .. n : reproDone'[i] = reproDone[i]
      /\ reproDone'[n + 1] = e
  <2>1. reproDone' = Append(reproDone, e)
    BY <1>2 DEF e
  <2>2. /\ n \in Nat /\ Append(reproDone, e) \in Seq(R) /\ Len(Append(reproDone, e)) = n + 1
        /\ \A i \in 1 .. n : Append(reproDone, e)[i] = reproDone[i]
        /\ Append(reproDone, e)[n + 1] = e
    BY <1>3, <1>4, AppendFacts
  <2> QED BY <2>1, <2>2
<1>6. /\ \A i \in 1 .. n + 1 : i \in 1 .. n \/ i = n + 1
      /\ \A i \in 1 .. n : i \in 1 .. n + 1 /\ i # n + 1
      /\ n + 1 \in 1 .. n + 1
  BY <1>5, SMTT(60)
<1> HIDE DEF n
<1>7. Ending = {reproDone[i].title : i \in 1 .. n} /\ Ending' = {reproDone'[i].title : i \in 1 .. n + 1}
  BY <1>5 DEF Ending, n
<1>8. \A i \in 1 .. n : reproDone'[i].title = reproDone[i].title
  BY <1>5
<1>9. reproDone'[n + 1].title = t
  BY <1>3, <1>5
<1>10. Ending' = Ending \cup {t}
  BY <1>6, <1>7, <1>8, <1>9
<1>11. Apart'
  <2>1. t \notin Ending /\ t \notin Queued
    BY <1>0, <1>1 DEF Apart
  <2>2. \A i \in 1 .. n : reproDone[i].title # t
    BY <1>7, <2>1
  <2>3. \A i, j \in 1 .. n : reproDone[i].title = reproDone[j].title => i = j
    BY <1>0 DEF Apart, n
  <2>4. \A i, j \in 1 .. n + 1 : reproDone'[i].title = reproDone'[j].title => i = j
    BY <1>6, <1>8, <1>9, <2>2, <2>3
  <2>5. Queued' = Queued /\ Distinct(reproQueue')
    BY <1>0, <1>1 DEF Queued, Apart
  <2>6. Queued' \cap active' = {} /\ (Queued' \cup active') \cap Ending' = {}
    BY <1>0, <1>1, <1>10, <2>1, <2>5 DEF Apart
  <2>7. reproducing' = Queued' \cup active' \cup Ending'
    BY <1>0, <1>1, <1>10, <2>5 DEF Apart
  <2> QED BY <1>5, <2>4, <2>5, <2>6, <2>7 DEF Apart, Distinct
<1>12. VMsAccounted'
  <2>1. IsFiniteSet(active)
    BY <1>0, TitlesFinite DEF TypeOK
  <2>2. Cardinality(active') = Cardinality(active) - 1
    BY <1>1, <2>1, FS_RemoveElement
  <2> QED BY <1>0, <1>1, <1>5, <2>2, ReproEndsAccounted DEF n
<1>13. Tried'
  BY <1>0, <1>1 DEF Tried
<1>14. TypeOK'
  <2>1. active' \in SUBSET Titles
    BY <1>0, <1>1 DEF TypeOK
  <2> QED BY <1>0, <1>1, <1>5, <2>1 DEF TypeOK, R
<1> QED BY <1>11, <1>12, <1>13, <1>14 DEF VmInv

\* The VMs of a state, those in reproductions excepted.
Free == instances + running + stopping + Len(runDone)

\* A step that leaves the reproductions and their files alone and the number of
\* the other VMs as it was keeps the invariant.
LEMMA Frame ==
    ASSUME VmInv, TypeOK', Free' = Free,
           UNCHANGED <<dash, reproducing, reproQueue, reproInstances, active, reproDone, failed, attempts>>
    PROVE  VmInv'
<1>1. VMsAccounted'
  BY DEF VmInv, VMsAccounted, Free
<1>2. Apart'
  <2>1. Queued' = Queued /\ Ending' = Ending
    BY DEF Queued, Ending
  <2>2. Apart /\ reproQueue' = reproQueue /\ reproDone' = reproDone
    BY DEF VmInv
  <2> QED BY <2>1, <2>2 DEF Apart, Distinct
<1>3. Tried'
  BY DEF VmInv, Tried
<1> QED BY <1>1, <1>2, <1>3 DEF VmInv

\* The stop request and the results of runInstance: a VM moves from one place to
\* another.
LEMMA VmsInv == VmInv /\ (SelectStop \/ SelectRunDone \/ RunEnds \/ RunStops) => VmInv'
<1> SUFFICES ASSUME VmInv, SelectStop \/ SelectRunDone \/ RunEnds \/ RunStops PROVE VmInv'
  OBVIOUS
<1>0. TypeOK
  BY DEF VmInv
<1>a. /\ instances \in Nat /\ running \in Nat /\ stopping \in Nat /\ Len(runDone) \in Nat
  BY <1>0, Lengths DEF TypeOK
<1>1. CASE SelectStop
  <2>1. running' = running - 1 /\ stopping' = stopping + 1 /\ running > 0
        /\ instances' = instances /\ runDone' = runDone
    BY <1>1 DEF SelectStop
  <2>2. Free' = Free /\ running' \in Nat /\ stopping' \in Nat
    BY <1>a, <2>1, SMTT(60) DEF Free
  <2>3. UNCHANGED <<dash, phase, seen, pendingRepro, reproducing, reproQueue, reproInstances, active,
                    reproDone, stopRequest, shutdown, hub, hubReproQueue, repro, failed, attempts, crashes>>
        /\ pc' = "top" /\ stopPending' = TRUE
    BY <1>1 DEF SelectStop, reproVars, hubVars, fileVars
  <2>4. TypeOK'
    BY <1>0, <2>1, <2>2, <2>3 DEF TypeOK
  <2> QED BY <2>2, <2>3, <2>4, Frame
<1>2. CASE SelectRunDone
  <2> DEFINE h == Head(runDone)
  <2>1. instances' = instances + 1 /\ running' = running /\ stopping' = stopping
        /\ runDone' = Tail(runDone) /\ runDone # <<>>
    BY <1>2 DEF SelectRunDone
  <2>2. h \in Title \cup {NoCrash} /\ runDone' \in Seq(Title \cup {NoCrash})
        /\ Len(runDone') = Len(runDone) - 1
    BY <1>0, <2>1, TailFacts DEF TypeOK
  <2>3. Free' = Free /\ instances' \in Nat
    BY <1>a, <2>1, <2>2, SMTT(60) DEF Free
  <2>4. UNCHANGED <<dash, phase, seen, running, stopping, reproducing, reproQueue, reproInstances, active,
                    reproDone, stopRequest, shutdown, hub, hubReproQueue, repro, failed, attempts, crashes>>
        /\ pc' = "top" /\ stopPending' = FALSE
    BY <1>2 DEF SelectRunDone, hubVars, fileVars
  <2>5. pendingRepro' \in [Titles -> Nat]
    <3>1. CASE UNCHANGED pendingRepro
      BY <1>0, <3>1 DEF TypeOK
    <3>2. CASE h # NoCrash /\ \E needed \in BOOLEAN :
                 pendingRepro' = [pendingRepro EXCEPT ![h] = IF needed THEN @ + 1 ELSE @]
      <4>1. h \in Titles
        BY <2>2, <3>2 DEF Titles
      <4>2. \A m \in Nat : m + 1 \in Nat
        BY SMTT(60)
      <4>3. PICK needed \in BOOLEAN :
               pendingRepro' = [pendingRepro EXCEPT ![h] = IF needed THEN @ + 1 ELSE @]
        BY <3>2
      <4> HIDE DEF h
      <4>4. pendingRepro \in [Titles -> Nat]
        BY <1>0 DEF TypeOK
      <4>5. (IF needed THEN pendingRepro[h] + 1 ELSE pendingRepro[h]) \in Nat
        BY <4>1, <4>2, <4>4
      <4> QED BY <4>1, <4>3, <4>4, <4>5
    <3>3. needRepro(h) \in SUBSET BOOLEAN
      BY DEF needRepro, needLocalRepro
    <3>4. \/ UNCHANGED pendingRepro
          \/ h # NoCrash /\ \E needed \in needRepro(h) :
                pendingRepro' = [pendingRepro EXCEPT ![h] = IF needed THEN @ + 1 ELSE @]
      BY <1>2 DEF SelectRunDone
    <3> HIDE DEF h
    <3>5. CASE h # NoCrash /\ \E needed \in needRepro(h) :
                 pendingRepro' = [pendingRepro EXCEPT ![h] = IF needed THEN @ + 1 ELSE @]
      <4>1. PICK needed \in needRepro(h) :
               pendingRepro' = [pendingRepro EXCEPT ![h] = IF needed THEN @ + 1 ELSE @]
        BY <3>5
      <4>2. needed \in BOOLEAN
        BY <3>3
      <4> QED BY <3>2, <3>5, <4>1, <4>2
    <3> QED BY <3>1, <3>4, <3>5
  <2>6. TypeOK'
    BY <1>0, <2>2, <2>3, <2>4, <2>5 DEF TypeOK
  <2> QED BY <2>3, <2>4, <2>6, Frame
<1>3. CASE RunEnds
  <2>1. running' = running - 1 /\ running > 0 /\ instances' = instances /\ stopping' = stopping
    BY <1>3 DEF RunEnds
  <2>2. PICK e \in Title \cup {NoCrash} : runDone' = Append(runDone, e)
    BY <1>3 DEF RunEnds
  <2>3. runDone' \in Seq(Title \cup {NoCrash}) /\ Len(runDone') = Len(runDone) + 1
    BY <1>0, <2>2, AppendFacts DEF TypeOK
  <2>4. Free' = Free /\ running' \in Nat
    BY <1>a, <2>1, <2>3, SMTT(60) DEF Free
  <2>5. crashes' \in 0 .. MaxCrashes
    <3>1. crashes' = crashes \/ (crashes < MaxCrashes /\ crashes' = crashes + 1)
      BY <1>3 DEF RunEnds
    <3>2. crashes \in 0 .. MaxCrashes
      BY <1>0 DEF TypeOK
    <3> QED BY <3>1, <3>2, VmAssumption, SMTT(60)
  <2>6. UNCHANGED <<dash, pc, phase, seen, instances, stopping, pendingRepro, reproducing, reproQueue,
                    reproInstances, active, reproDone, stopPending, stopRequest, shutdown, hub,
                    hubReproQueue, repro, failed, attempts>>
    BY <1>3 DEF RunEnds, reproVars, stopVars, hubVars, fileVars
  <2>7. TypeOK'
    BY <1>0, <2>3, <2>4, <2>5, <2>6 DEF TypeOK
  <2> QED BY <2>4, <2>6, <2>7, Frame
<1>4. CASE RunStops
  <2>1. stopping' = stopping - 1 /\ stopping > 0 /\ runDone' = Append(runDone, NoCrash)
        /\ instances' = instances /\ running' = running
    BY <1>4 DEF RunStops
  <2>2. runDone' \in Seq(Title \cup {NoCrash}) /\ Len(runDone') = Len(runDone) + 1
    <3>1. NoCrash \in Title \cup {NoCrash} /\ runDone \in Seq(Title \cup {NoCrash})
      BY <1>0 DEF TypeOK
    <3> QED BY <2>1, <3>1, AppendFacts
  <2>3. Free' = Free /\ stopping' \in Nat
    BY <1>a, <2>1, <2>2, SMTT(60) DEF Free
  <2>4. UNCHANGED <<dash, pc, phase, seen, instances, running, pendingRepro, reproducing, reproQueue,
                    reproInstances, active, reproDone, stopPending, stopRequest, shutdown, hub,
                    hubReproQueue, repro, failed, attempts, crashes>>
    BY <1>4 DEF RunStops, reproVars, stopVars, hubVars, fileVars
  <2>5. TypeOK'
    BY <1>0, <2>2, <2>3, <2>4 DEF TypeOK
  <2> QED BY <2>3, <2>4, <2>5, Frame
<1> QED BY <1>1, <1>2, <1>3, <1>4

\* The steps that move no VM: the phase, the shutdown, the hub, the end.
LEMMA OthersInv ==
    VmInv /\ (\/ LoopEnd \/ SelectShutdown \/ SelectHubRepro \/ SelectNeedMore \/ HubFetches
              \/ PhaseReached \/ Interrupt \/ UNCHANGED vars) => VmInv'
<1> SUFFICES ASSUME VmInv, \/ LoopEnd \/ SelectShutdown \/ SelectHubRepro \/ SelectNeedMore \/ HubFetches
                           \/ PhaseReached \/ Interrupt \/ UNCHANGED vars
             PROVE  VmInv'
  OBVIOUS
<1>0. TypeOK
  BY DEF VmInv
<1>1. UNCHANGED <<dash, reproducing, reproQueue, reproInstances, active, reproDone, failed, attempts,
                  instances, running, stopping, runDone, repro, stopPending, stopRequest>>
  BY DEF LoopEnd, SelectShutdown, SelectHubRepro, SelectNeedMore, HubFetches, PhaseReached, Interrupt,
         vars, vmVars, reproVars, stopVars, fileVars
<1>2. Free' = Free
  BY <1>1 DEF Free
<1>3. CASE LoopEnd \/ SelectShutdown \/ SelectNeedMore \/ PhaseReached \/ Interrupt \/ UNCHANGED vars
  <2>1. /\ pc' \in {pc, "top", "end"} /\ phase' \in {phase, TRUE} /\ seen' = seen
        /\ shutdown' \in {shutdown, "closed", "seen"} /\ hub' \in {hub, "fetches"}
        /\ UNCHANGED <<pendingRepro, hubReproQueue, crashes>>
    BY <1>3 DEF LoopEnd, SelectShutdown, SelectNeedMore, PhaseReached, Interrupt, vars, reproVars,
                stopVars, hubVars
  <2>2. TypeOK'
    <3>1. pc' \in {"top", "select", "end"}
      BY <1>0, <2>1 DEF TypeOK
    <3>2. phase' \in BOOLEAN
      BY <1>0, <2>1 DEF TypeOK
    <3>3. shutdown' \in {"open", "closed", "seen"}
      BY <1>0, <2>1 DEF TypeOK
    <3>4. hub' \in {"asks", "fetches"}
      BY <1>0, <2>1 DEF TypeOK
    <3>5. UNCHANGED <<seen, pendingRepro, hubReproQueue, crashes>>
      BY <2>1
    <3> QED BY <1>0, <1>1, <3>1, <3>2, <3>3, <3>4, <3>5 DEF TypeOK
  <2> QED BY <1>1, <1>2, <2>2, Frame
<1>4. CASE SelectHubRepro
  <2>1. /\ pc' = "top" /\ UNCHANGED <<phase, seen, shutdown, hub, crashes>>
        /\ hubReproQueue' = hubReproQueue - 1 /\ hubReproQueue > 0
        /\ pendingRepro' = [pendingRepro EXCEPT ![External] = @ + 1]
    BY <1>4 DEF SelectHubRepro, stopVars
  <2>2. hubReproQueue' \in 0 .. HubQueueSize
    <3>1. hubReproQueue \in 0 .. HubQueueSize
      BY <1>0 DEF TypeOK
    <3> QED BY <2>1, <3>1, VmAssumption, SMTT(60)
  <2>3. pendingRepro' \in [Titles -> Nat]
    <3>1. \A m \in Nat : m + 1 \in Nat
      BY SMTT(60)
    <3> QED BY <1>0, <2>1, <3>1 DEF TypeOK, Titles
  <2>4. TypeOK'
    BY <1>0, <1>1, <2>1, <2>2, <2>3 DEF TypeOK
  <2> QED BY <1>1, <1>2, <2>4, Frame
<1>5. CASE HubFetches
  <2>1. UNCHANGED <<pc, phase, seen, shutdown, pendingRepro>> /\ hub' = "asks"
    BY <1>5 DEF HubFetches, reproVars, stopVars
  <2>2. hubReproQueue' \in 0 .. HubQueueSize /\ crashes' \in 0 .. MaxCrashes
    <3>1. \/ hubReproQueue' = hubReproQueue /\ crashes' = crashes
          \/ /\ hubReproQueue < HubQueueSize /\ crashes < MaxCrashes
             /\ hubReproQueue' = hubReproQueue + 1 /\ crashes' = crashes + 1
      BY <1>5 DEF HubFetches
    <3>2. hubReproQueue \in 0 .. HubQueueSize /\ crashes \in 0 .. MaxCrashes
      BY <1>0 DEF TypeOK
    <3> QED BY <3>1, <3>2, VmAssumption, SMTT(60)
  <2>3. TypeOK'
    BY <1>0, <1>1, <2>1, <2>2 DEF TypeOK
  <2> QED BY <1>1, <1>2, <2>3, Frame
<1> QED BY <1>3, <1>4, <1>5

-----------------------------------------------------------------------------
(* The theorems *)

\* The inductive invariant holds always.
LEMMA VmInvariant == Spec => []VmInv
<1>1. VmInv /\ [Next]_vars => VmInv'
  BY TopInv, ReproDoneInv, ReproEndsInv, VmsInv, OthersInv DEF Next, Loop, Ended
<1> QED BY InitInv, <1>1, PTL DEF Spec

\* The counters of VMs never fall below zero, whatever the order of the results,
\* the stop requests and the shutdown, and no queue holds what is not sent on it.
THEOREM VmLoopTypes == Spec => []TypeOK
<1>1. VmInv => TypeOK
  BY DEF VmInv
<1> QED BY VmInvariant, <1>1, PTL

\* Every VM of the pool is in exactly one place, and a reproduction has
\* instancesPerRepro of them from its start until the loop takes its result.
THEOREM EveryVMAccounted == Spec => []VMsAccounted
<1>1. VmInv => VMsAccounted
  BY DEF VmInv
<1> QED BY VmInvariant, <1>1, PTL

\* Without a dashboard a reproduction of a title that is no memory leak fails at
\* most maxReproAttempts times, and none is queued after that, for any number of
\* crashes.
THEOREM AttemptsAreBounded == Spec => []AttemptsBounded
<1>1. VmInv => AttemptsBounded
  <2> SUFFICES ASSUME VmInv, ~dash, NEW t \in Title \ Leak
               PROVE  /\ attempts[t] <= maxReproAttempts
                      /\ attempts[t] = maxReproAttempts => t \notin Queued \cup active
    BY DEF AttemptsBounded
  <2>1. failed[t] = attempts[t] /\ (t \in reproducing => attempts[t] < maxReproAttempts)
    BY DEF VmInv, Tried
  <2>2. failed[t] \in 0 .. maxReproAttempts
    BY DEF VmInv, TypeOK
  <2>3. attempts[t] <= maxReproAttempts
    BY <2>1, <2>2, VmAssumption, SMTT(60)
  <2>4. attempts[t] < maxReproAttempts => attempts[t] # maxReproAttempts
    BY <2>1, <2>2, VmAssumption, SMTT(60)
  <2>5. t \in Queued \cup active => t \in reproducing
    BY DEF VmInv, Apart
  <2> QED BY <2>1, <2>3, <2>4, <2>5
<1> QED BY VmInvariant, <1>1, PTL

\* The set of the titles of distinct entries is as large as the channel is long.
LEMMA Counted ==
    ASSUME NEW n \in Nat, NEW S, NEW f \in Injection(1 .. n, S), f \in Surjection(1 .. n, S)
    PROVE  IsFiniteSet(S) /\ Cardinality(S) = n
<1>3. ExistsBijection(1 .. n, S)
  BY DEF Bijection, ExistsBijection
<1>4. IsFiniteSet(1 .. n) /\ Cardinality(1 .. n) = n
  BY FS_Interval, SMTT(60)
<1> QED BY <1>3, <1>4, FS_Bijection

\* A title is in one place at a time: in the queue, in one running reproduction, or
\* in one result on its way, and `reproducing' names exactly those titles.
THEOREM TitlesReproducedOnce == Spec => []OneReproPerTitle
<1>1. VmInv => OneReproPerTitle
  <2> SUFFICES ASSUME VmInv
               PROVE  Cardinality(reproducing) = Len(reproQueue) + Cardinality(active) + Len(reproDone)
    BY DEF VmInv, Apart, OneReproPerTitle
  <2>0. /\ Len(reproQueue) \in Nat /\ Len(reproDone) \in Nat /\ Cardinality(active) \in Nat
        /\ IsFiniteSet(active) /\ TypeOK /\ Apart
    BY Lengths, TitlesFinite DEF VmInv, TypeOK
  <2>1. IsFiniteSet(Queued) /\ Cardinality(Queued) = Len(reproQueue)
    <3> DEFINE f == [i \in 1 .. Len(reproQueue) |-> reproQueue[i]]
    <3>1. f \in Surjection(1 .. Len(reproQueue), Queued)
      BY DEF Queued, Surjection
    <3>2. f \in Injection(1 .. Len(reproQueue), Queued)
      BY <2>0 DEF Queued, Apart, Distinct, Injection, IsInjective
    <3> HIDE DEF f
    <3> QED BY <2>0, <3>1, <3>2, Counted
  <2>2. IsFiniteSet(Ending) /\ Cardinality(Ending) = Len(reproDone)
    <3> DEFINE f == [i \in 1 .. Len(reproDone) |-> reproDone[i].title]
    <3>1. f \in Surjection(1 .. Len(reproDone), Ending)
      BY DEF Ending, Surjection
    <3>2. f \in Injection(1 .. Len(reproDone), Ending)
      BY <2>0 DEF Ending, Apart, Injection, IsInjective
    <3> HIDE DEF f
    <3> QED BY <2>0, <3>1, <3>2, Counted
  <2>3. /\ IsFiniteSet(Queued \cup active)
        /\ Cardinality(Queued \cup active) = Cardinality(Queued) + Cardinality(active)
    <3>1. Cardinality(Queued \cap active) = 0
      BY <2>0, FS_EmptySet DEF Apart
    <3>2. /\ IsFiniteSet(Queued \cup active)
          /\ Cardinality(Queued \cup active)
               = Cardinality(Queued) + Cardinality(active) - Cardinality(Queued \cap active)
      BY <2>0, <2>1, FS_Union
    <3> QED BY <2>0, <2>1, <3>1, <3>2, SMTT(60)
  <2>4. Cardinality((Queued \cup active) \cup Ending)
          = Cardinality(Queued \cup active) + Cardinality(Ending)
    <3>1. Cardinality((Queued \cup active) \cap Ending) = 0
      BY <2>0, FS_EmptySet DEF Apart
    <3>2. Cardinality((Queued \cup active) \cup Ending)
            = Cardinality(Queued \cup active) + Cardinality(Ending)
              - Cardinality((Queued \cup active) \cap Ending)
      BY <2>2, <2>3, FS_Union
    <3>3. Cardinality(Queued \cup active) \in Nat /\ Cardinality(Ending) \in Nat
      BY <2>2, <2>3, FS_CardinalityType
    <3> QED BY <3>1, <3>2, <3>3, SMTT(60)
  <2>5. reproducing = (Queued \cup active) \cup Ending
    BY <2>0 DEF Apart
  <2> QED BY <2>1, <2>2, <2>3, <2>4, <2>5
<1> QED BY VmInvariant, <1>1, PTL
=============================================================================
