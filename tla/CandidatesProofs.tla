-------------------------- MODULE CandidatesProofs --------------------------
(***************************************************************************)
(* The persistent corpus loses no claimed signal, no disabled program, and *)
(* every loaded program is handed out twice, for any number of fuzzers,    *)
(* programs, configurations, crashes and restarts.                         *)
(***************************************************************************)
EXTENDS Candidates, FiniteSetTheorems, FunctionTheorems, WellFoundedInduction, TLAPS

USE ZenonT(30)

-----------------------------------------------------------------------------
(* Minimize *)

\* A non-empty set of naturals has a least element.
LEMMA Least ==
    ASSUME NEW S \in SUBSET Nat, S # {}
    PROVE  \E x \in S : \A y \in S : x =< y
<1>1. PICK x \in S : \A y \in S : ~(<<y, x>> \in OpToRel(<, Nat))
  BY NatLessThanWellFounded, WFMin
<1>2. \A y \in S : ~(y < x)
  BY <1>1 DEF OpToRel
<1> QED BY <1>2, SMTT(60)

\* An order of a finite set that repeats nothing names every element.
LEMMA OrderOnto ==
    ASSUME NEW D, IsFiniteSet(D), NEW o \in Injection(1 .. Cardinality(D), D), NEW p \in D
    PROVE  \E i \in 1 .. Cardinality(D) : o[i] = p
<1> DEFINE n == Cardinality(D)
<1>1. n \in Nat
  BY FS_CardinalityType
<1>2. Cardinality(1 .. n) = n
  BY <1>1, FS_Interval, SMTT(60)
<1>3. o \in Surjection(1 .. n, D)
  BY <1>2, FS_Injection
<1>4. \A x \in D : \E i \in 1 .. n : o[i] = x
  <2> HIDE DEF n
  <2> QED BY <1>3 DEF Surjection
<1> QED BY <1>4

\* Minimize keeps, for every element of an input, an input that has it with the
\* same or a higher priority.
LEMMA MinimizeCovers ==
    ASSUME NEW D, IsFiniteSet(D), NEW c \in [D -> Signals], NEW S \in Minimize(c),
           NEW p \in D, NEW e \in Elem, c[p][e] # Absent
    PROVE  \E q \in S : c[q][e] >= c[p][e]
<1> DEFINE n == Cardinality(D)
<1>1. PICK o \in Sorted(c) : S = {o[i] : i \in {k \in DOMAIN o : \E x \in Elem : Covers(c, o, x, k)}}
  BY DEF Minimize
<1>2. /\ o \in [1 .. n -> D]
      /\ \A i, j \in 1 .. n : o[i] = o[j] => i = j
  BY DEF Sorted
<1>a. o \in Injection(1 .. n, D)
  BY <1>2 DEF Injection, IsInjective
<1>b. \E i \in 1 .. n : o[i] = p
  BY <1>a, OrderOnto
<1>3. n \in Nat
  BY FS_CardinalityType
<1> HIDE DEF n
<1> DEFINE v(i) == c[o[i]][e]
<1>4. \A i \in 1 .. n : v(i) \in Int /\ Absent =< v(i) /\ v(i) =< MaxPrio
  <2> TAKE i \in 1 .. n
  <2>1. c[o[i]] \in [Elem -> -1 .. MaxPrio]
    BY <1>2 DEF Signals, Absent
  <2>2. c[o[i]][e] \in -1 .. MaxPrio
    BY <2>1
  <2> QED BY <2>2, PrioAssumption, SMTT(60) DEF Absent
<1>5. PICK k \in 1 .. n : o[k] = p
  BY <1>b
<1>6. PICK m \in 1 .. n : \A j \in 1 .. n : v(j) =< v(m)
  <2> DEFINE T == {MaxPrio - v(i) : i \in 1 .. n}
  <2>1. MaxPrio - v(k) \in T
    BY <1>5
  <2>2. T \in SUBSET Nat /\ T # {}
    <3> HIDE DEF v
    <3> QED BY <1>4, <2>1, PrioAssumption, SMTT(60)
  <2>3. PICK x \in T : \A y \in T : x =< y
    BY <2>2, Least
  <2>4. PICK i \in 1 .. n : x = MaxPrio - v(i)
    BY <2>3
  <2>5. ASSUME NEW j \in 1 .. n PROVE v(j) =< v(i)
    <3>1. MaxPrio - v(j) \in T
      OBVIOUS
    <3>2. MaxPrio - v(i) =< MaxPrio - v(j)
      BY <2>3, <2>4, <3>1
    <3> HIDE DEF v
    <3> QED BY <1>4, <3>2, PrioAssumption, SMTT(60)
  <2> QED BY <2>5
<1>7. PICK i \in 1 .. n : v(i) = v(m) /\ \A j \in 1 .. n : v(j) = v(m) => i =< j
  <2> DEFINE T == {i \in 1 .. n : v(i) = v(m)}
  <2>1. T \in SUBSET Nat /\ m \in T
    BY <1>3, SMTT(60)
  <2>2. PICK i \in T : \A j \in T : i =< j
    BY <2>1, Least
  <2> QED BY <2>2
<1>8. v(i) # Absent /\ v(i) >= c[p][e]
  <2>1. v(k) = c[p][e] /\ v(k) # Absent
    BY <1>5
  <2> HIDE DEF v
  <2> QED BY <1>4, <1>5, <1>6, <1>7, <2>1, SMTT(60) DEF Absent
<1>9. Covers(c, o, e, i)
  <2>1. DOMAIN o = 1 .. n
    BY <1>2
  <2> QED BY <1>6, <1>7, <1>8, <2>1 DEF Covers
<1>10. o[i] \in S
  BY <1>1, <1>2, <1>9
<1> QED BY <1>8, <1>10

\* Minimize returns inputs of the corpus.
LEMMA MinimizeParts ==
    ASSUME NEW c, NEW S \in Minimize(c)
    PROVE  S \subseteq DOMAIN c
<1>1. PICK o \in Sorted(c) : S = {o[i] : i \in {k \in DOMAIN o : \E x \in Elem : Covers(c, o, x, k)}}
  BY DEF Minimize
<1>2. o \in [1 .. Cardinality(DOMAIN c) -> DOMAIN c]
  BY DEF Sorted
<1> QED BY <1>1, <1>2

-----------------------------------------------------------------------------
(* Copies in a queue *)

Places(s, p) == {i \in DOMAIN s : s[i].prog = p}
Copies(s, p) == Cardinality(Places(s, p))

\* A sequence has finitely many copies of a program.
LEMMA CopiesFinite ==
    ASSUME NEW S, NEW s \in Seq(S), NEW p
    PROVE  IsFiniteSet(Places(s, p)) /\ Copies(s, p) \in Nat
<1>1. DOMAIN s = 1 .. Len(s) /\ Len(s) \in Nat
  BY SMTT(60)
<1>2. IsFiniteSet(1 .. Len(s))
  BY <1>1, FS_Interval, SMTT(60)
<1>3. Places(s, p) \in SUBSET (1 .. Len(s))
  BY <1>1 DEF Places
<1>4. IsFiniteSet(Places(s, p))
  BY <1>2, <1>3, FS_Subset
<1> QED BY <1>4, FS_CardinalityType DEF Copies

\* The copies of a program in the two parts of a queue, which candidateBatch
\* cuts after its first m.
LEMMA CopiesCut ==
    ASSUME NEW S, NEW s \in Seq(S), NEW m \in 0 .. Len(s), NEW p
    PROVE  LET rest == SubSeq(s, 1, m)
               batch == SubSeq(s, m + 1, Len(s))
           IN  /\ rest \in Seq(S) /\ batch \in Seq(S)
               /\ Copies(s, p) = Copies(rest, p) + Copies(batch, p)
<1> DEFINE rest == SubSeq(s, 1, m)
           batch == SubSeq(s, m + 1, Len(s))
           C == {i \in m + 1 .. Len(s) : s[i].prog = p}
           h == [i \in Places(batch, p) |-> i + m]
<1>0. Len(s) \in Nat /\ m \in Nat /\ m =< Len(s) /\ DOMAIN s = 1 .. Len(s)
  BY SMTT(60)
<1>1. /\ rest \in Seq(S) /\ DOMAIN rest = 1 .. m
      /\ \A i \in 1 .. m : rest[i] = s[i]
  BY <1>0, SMTT(60)
<1>2. /\ batch \in Seq(S) /\ DOMAIN batch = 1 .. Len(s) - m
      /\ \A i \in 1 .. Len(s) - m : batch[i] = s[i + m]
  BY <1>0, SMTT(60)
<1> HIDE DEF rest, batch
<1>3. Places(rest, p) \cup C = Places(s, p) /\ Places(rest, p) \cap C = {}
  BY <1>0, <1>1, SMTT(60) DEF Places
<1>4. h \in Bijection(Places(batch, p), C)
  <2>1. \A i \in Places(batch, p) : i \in 1 .. Len(s) - m /\ s[i + m].prog = p
    BY <1>2 DEF Places
  <2>2. h \in [Places(batch, p) -> C]
    BY <1>0, <2>1, SMTT(60)
  <2>3. \A i, j \in Places(batch, p) : h[i] = h[j] => i = j
    BY <1>0, <2>1, SMTT(60)
  <2>4. ASSUME NEW x \in C PROVE \E i \in Places(batch, p) : h[i] = x
    <3>1. x - m \in 1 .. Len(s) - m /\ x - m + m = x
      BY <1>0, SMTT(60)
    <3>2. x - m \in Places(batch, p)
      BY <1>2, <3>1 DEF Places
    <3> QED BY <3>1, <3>2
  <2> HIDE DEF h, C
  <2> QED BY <2>2, <2>3, <2>4, Fun_IsBij
<1>5. IsFiniteSet(Places(rest, p)) /\ IsFiniteSet(Places(batch, p))
      /\ Copies(rest, p) \in Nat /\ Copies(batch, p) \in Nat
  BY <1>1, <1>2, CopiesFinite
<1>6. IsFiniteSet(C) /\ Cardinality(C) = Copies(batch, p)
  <2>1. ExistsBijection(Places(batch, p), C)
    BY <1>4 DEF ExistsBijection
  <2> HIDE DEF C
  <2> QED BY <1>5, <2>1, FS_Bijection DEF Copies
<1> HIDE DEF C
<1>7. Cardinality(Places(s, p)) = Cardinality(Places(rest, p)) + Cardinality(C) - 0
  <2>1. Cardinality(Places(rest, p) \cup C)
           = Cardinality(Places(rest, p)) + Cardinality(C) - Cardinality(Places(rest, p) \cap C)
    BY <1>5, <1>6, FS_Union
  <2> QED BY <1>3, <2>1, FS_EmptySet
<1>8. Copies(s, p) = Copies(rest, p) + Copies(batch, p)
  BY <1>5, <1>6, <1>7, SMTT(60) DEF Copies
<1> QED BY <1>1, <1>2, <1>8 DEF rest, batch

\* Adding to a queue takes no copy out of it.
LEMMA CopiesAdd ==
    ASSUME NEW S, NEW s \in Seq(S), NEW t \in Seq(S), NEW p
    PROVE  s \o t \in Seq(S) /\ Copies(s \o t, p) >= Copies(s, p)
<1>1. s \o t \in Seq(S) /\ Len(s \o t) = Len(s) + Len(t)
      /\ \A i \in 1 .. Len(s) : (s \o t)[i] = s[i]
  BY SMTT(60)
<1>2. Places(s, p) \in SUBSET Places(s \o t, p)
  BY <1>1, SMTT(60) DEF Places
<1>3. IsFiniteSet(Places(s \o t, p))
  BY <1>1, CopiesFinite
<1> QED BY <1>1, <1>2, <1>3, FS_Subset, CopiesFinite DEF Copies

\* loadCorpus queues every program twice.
LEMMA CopiesTwice ==
    ASSUME NEW S, IsFiniteSet(S), NEW s \in Orders(S), NEW t \in Orders(S)
    PROVE  s \o t \in Seq(S) /\ \A c \in S : Copies(s \o t, c.prog) >= 2
<1> DEFINE n == Cardinality(S)
<1>1. n \in Nat
  BY FS_CardinalityType
<1>2. /\ s \in [1 .. n -> S] /\ \A i, j \in 1 .. n : s[i] = s[j] => i = j
      /\ t \in [1 .. n -> S] /\ \A i, j \in 1 .. n : t[i] = t[j] => i = j
  BY DEF Orders, Injection, IsInjective
<1>3. ASSUME NEW o \in Orders(S), NEW p \in S PROVE \E i \in 1 .. n : o[i] = p
  <2>1. o \in Injection(1 .. Cardinality(S), S)
    BY DEF Orders
  <2> QED BY <2>1, OrderOnto
<1> HIDE DEF n
<1>4. s \in Seq(S) /\ t \in Seq(S) /\ Len(s) = n /\ Len(t) = n
  BY <1>1, <1>2, SMTT(60)
<1>5. s \o t \in Seq(S) /\ DOMAIN (s \o t) = 1 .. n + n
      /\ \A i \in 1 .. n : (s \o t)[i] = s[i] /\ (s \o t)[n + i] = t[i]
  BY <1>1, <1>4, SMTT(60)
<1>6. ASSUME NEW c \in S PROVE Copies(s \o t, c.prog) >= 2
  <2>1. PICK i \in 1 .. n, j \in 1 .. n : s[i] = c /\ t[j] = c
    BY <1>3
  <2>2. {i} \cup {n + j} \in SUBSET Places(s \o t, c.prog) /\ n + j # i
    <3>1. i \in 1 .. n + n /\ n + j \in 1 .. n + n /\ n + j # i
      BY <1>1, SMTT(60)
    <3>2. (s \o t)[i] = c /\ (s \o t)[n + j] = c
      BY <1>5, <2>1
    <3> QED BY <1>5, <3>1, <3>2 DEF Places
  <2>3. IsFiniteSet({i} \cup {n + j}) /\ Cardinality({i} \cup {n + j}) = 2
    <3>1. IsFiniteSet({i}) /\ Cardinality({i}) = 1
      BY FS_Singleton
    <3>2. n + j \notin {i}
      BY <2>2
    <3>3. IsFiniteSet({i} \cup {n + j}) /\ Cardinality({i} \cup {n + j}) = Cardinality({i}) + 1
      BY <3>1, <3>2, FS_AddElement
    <3> QED BY <3>1, <3>3, SMTT(60)
  <2>4. IsFiniteSet(Places(s \o t, c.prog)) /\ Copies(s \o t, c.prog) \in Nat
    BY <1>5, CopiesFinite
  <2> QED BY <2>2, <2>3, <2>4, FS_Subset DEF Copies
<1> QED BY <1>5, <1>6

-----------------------------------------------------------------------------
(* The invariant *)

\* The programs that can be run in this configuration.
Runnable == Prog \ (Broken \cup config.disabled)

\* A candidate that can be run.
Candidate == [prog : Runnable, minimized : BOOLEAN]

\* The database: only a Flush that failed keeps a record from the disk, and never that
\* of a disabled program.
DbTypes ==
    /\ db \subseteq Prog /\ disk \subseteq Prog /\ unflushed \in BOOLEAN
    /\ fileVersion \in Nat /\ version \in Nat
    /\ db \subseteq disk \/ unflushed
    /\ db \cap config.disabled \subseteq disk

RecordTypes ==
    /\ config \in Configs /\ phase \in 0 .. 4
    /\ corpus \in [Prog -> Signals] /\ Present(corpus) \subseteq Runnable
    /\ disabledHashes \subseteq config.disabled /\ corpusSignal \in Signals

QueueTypes ==
    /\ candidates \in Seq(Candidate) /\ cached \in [Fuzzer -> Seq(Candidate)]
    /\ loaded \subseteq Prog /\ handed \in [Prog -> Nat]

LoopTypes ==
    /\ fuzzer \in [Fuzzer -> {"down", "check", "up"}]
    /\ hub \in {"off", "sleep", "sync"} /\ (hub # "off" => config.hub)

\* Every program of the corpus is recorded, and one of them claims every element of
\* the corpus signal.
Saved ==
    /\ Present(corpus) \subseteq db
    /\ \A e \in Elem : corpusSignal[e] # Absent =>
           \E p \in Present(corpus) : corpus[p][e] >= corpusSignal[e]

\* disabledHashes names the records this configuration cannot run.
Spared == phase >= 1 => (db \cap config.disabled) \ Broken \subseteq disabledHashes

\* Each loaded program was handed out twice or still has copies in the queue, and
\* once the phase has moved on both were handed out.
Handed ==
    \A p \in loaded : /\ handed[p] + Copies(candidates, p) >= 2
                      /\ phase >= 2 => handed[p] >= 2

CandInv == DbTypes /\ RecordTypes /\ QueueTypes /\ LoopTypes /\ Saved /\ Spared /\ Handed

\* A sequence over a set is one over a larger set.
LEMMA SeqMore ==
    ASSUME NEW S, NEW T, S \subseteq T, NEW s \in Seq(S)
    PROVE  s \in Seq(T)
<1>1. s \in [1 .. Len(s) -> T] /\ Len(s) \in Nat
  BY SMTT(60)
<1> QED BY <1>1, SMTT(60)

\* The types of the proof are those of the specification.
LEMMA TypesSuffice == CandInv => TypeOK
<1> SUFFICES ASSUME CandInv PROVE TypeOK
  OBVIOUS
<1>1. ASSUME NEW s \in Seq(Candidate) PROVE {c.prog : c \in Range(s)} \subseteq Runnable
  <2>1. Range(s) \subseteq Candidate
    BY SMTT(60) DEF Range
  <2>2. \A c \in Candidate : c.prog \in Runnable
    BY DEF Candidate
  <2> QED BY <2>1, <2>2
<1>2. {c.prog : c \in Range(candidates)} \subseteq Runnable
  BY <1>1 DEF CandInv, QueueTypes
<1>3. \A f \in Fuzzer : {c.prog : c \in Range(cached[f])} \subseteq Runnable
  BY <1>1 DEF CandInv, QueueTypes
<1>4. phase \in phaseInit .. phaseTriagedHub
  BY DEF CandInv, RecordTypes, phaseInit, phaseTriagedHub
<1> QED BY <1>2, <1>3, <1>4 DEF TypeOK, CandInv, DbTypes, RecordTypes, LoopTypes, Runnable

\* What a write leaves on disk: Records as they are now, or the file as it was.
LEMMA WriteStep ==
    ASSUME DbTypes, Flush \/ compact, config' = config, db' \subseteq Prog, version' \in Nat,
           db' \cap config.disabled \subseteq db \cap config.disabled
    PROVE  DbTypes' /\ disk' \in {disk, db'}
<1>1. CASE Written /\ fileVersion' \in {fileVersion, version'}
  BY <1>1 DEF DbTypes, Written
<1>2. CASE Failed
  <2>1. db' \subseteq disk' \/ unflushed'
    BY <1>2 DEF Failed
  <2> QED BY <1>2, <2>1 DEF DbTypes, Failed
<1> QED BY <1>1, <1>2 DEF Flush, compact

\* BumpVersion writes likewise.
LEMMA BumpStep ==
    ASSUME DbTypes, BumpVersion, config' = config, db' \subseteq Prog,
           db' \cap config.disabled \subseteq db \cap config.disabled
    PROVE  DbTypes' /\ disk' \in {disk, db'}
<1>1. version' \in Nat
  BY SMTT(60) DEF BumpVersion, currentDBVersion
<1> QED BY <1>1, WriteStep DEF BumpVersion

\* Merge takes the higher priority.
LEMMA MergeStep ==
    ASSUME NEW s \in Signals, NEW t \in Signals
    PROVE  /\ Merge(s, t) \in Signals
           /\ \A e \in Elem : /\ s[e] \in Int /\ t[e] \in Int
                              /\ Absent =< s[e] /\ Absent =< t[e]
                              /\ Merge(s, t)[e] = IF s[e] < t[e] THEN t[e] ELSE s[e]
<1>1. \A e \in Elem : /\ s[e] \in Absent .. MaxPrio /\ t[e] \in Absent .. MaxPrio
                      /\ s[e] \in Int /\ t[e] \in Int /\ Absent =< s[e] /\ Absent =< t[e]
  BY PrioAssumption, SMTT(60) DEF Signals, Absent
<1>2. \A e \in Elem : Merge(s, t)[e] = IF s[e] < t[e] THEN t[e] ELSE s[e]
  BY DEF Merge
<1>3. Merge(s, t) \in Signals
  BY <1>1 DEF Merge, Signals
<1> QED BY <1>1, <1>2, <1>3

\* A signal that has an element is not empty.
LEMMA NotNil ==
    ASSUME NEW s, NEW e \in Elem, s[e] # Absent
    PROVE  s # Nil
  BY DEF Nil

\* minimizeCorpus with its choice: the inputs new stay.
Minimizes(new) ==
    /\ corpus' = [p \in Prog |-> IF p \in new THEN corpus[p] ELSE Nil]
    /\ IF phase < phaseTriagedCorpus
       THEN UNCHANGED database
       ELSE db' = Kept(new) /\ BumpVersion

\* minimizeCorpus keeps an input that claims every element of the corpus signal, the
\* records of the inputs it keeps, and those of disabled programs.
LEMMA MinimizeStep ==
    ASSUME CandInv, minimizeCorpus, UNCHANGED <<config, phase, corpusSignal, disabledHashes>>
    PROVE  /\ corpus' \in [Prog -> Signals] /\ Present(corpus') \subseteq Present(corpus)
           /\ db' \subseteq db /\ DbTypes' /\ Saved'
           /\ (db \cap config.disabled) \ Broken \subseteq disk'
<1> USE DEF CandInv
<1>0. /\ db \subseteq Prog /\ Present(corpus) \subseteq db /\ phase \in Int
      /\ corpus \in [Prog -> Signals] /\ (db \cap config.disabled) \subseteq disk
  BY SMTT(60) DEF DbTypes, RecordTypes, Saved
<1>1. CASE UNCHANGED <<corpus, lastMinCorpus, database>>
  BY <1>0, <1>1 DEF Saved, DbTypes, database
<1>2. CASE ~(phase < phaseLoadedCorpus) /\ \E new \in Minimize([p \in Present(corpus) |-> corpus[p]]) : Minimizes(new)
  <2> DEFINE D == Present(corpus)
             c == [p \in D |-> corpus[p]]
  <2>0. D \subseteq Prog
    BY DEF Present
  <2>1. PICK new \in Minimize(c) : Minimizes(new)
    BY <1>2
  <2>2. new \subseteq D
    <3>1. DOMAIN c = D
      OBVIOUS
    <3> QED BY <3>1, MinimizeParts
  <2>3. c \in [D -> Signals] /\ IsFiniteSet(D)
    BY <1>0, <2>0, CandidateAssumption, FS_Subset
  <2>4. \A p \in D : c[p] = corpus[p]
    OBVIOUS
  <2>a. \A p \in Prog : p \in D <=> corpus[p] # Nil
    BY DEF Present
  <2> HIDE DEF c, D
  <2>5. /\ \A p \in new : corpus'[p] = corpus[p]
        /\ \A p \in Prog : p \notin new => corpus'[p] = Nil
    BY <2>0, <2>1, <2>2 DEF Minimizes
  <2>6. Present(corpus') = new
    BY <2>0, <2>2, <2>5, <2>a DEF Present
  <2>7. corpus' \in [Prog -> Signals]
    <3>1. Nil \in Signals
      BY PrioAssumption, SMTT(60) DEF Nil, Signals, Absent
    <3> QED BY <1>0, <2>1, <3>1 DEF Minimizes
  <2>8. ASSUME NEW e \in Elem, corpusSignal[e] # Absent
        PROVE  \E q \in new : corpus'[q][e] >= corpusSignal[e]
    <3>1. PICK p \in D : corpus[p][e] >= corpusSignal[e]
      BY <2>8 DEF Saved, D
    <3>2. c[p][e] = corpus[p][e] /\ corpus[p] \in Signals
      BY <1>0, <2>0, <2>4
    <3>3. corpus[p][e] \in Int /\ corpusSignal[e] \in Int /\ Absent =< corpusSignal[e]
      BY <3>2, MergeStep DEF RecordTypes
    <3>4. c[p][e] # Absent
      BY <2>8, <3>1, <3>2, <3>3, SMTT(60) DEF Absent
    <3>5. PICK q \in new : c[q][e] >= c[p][e]
      BY <2>1, <2>3, <3>4, MinimizeCovers
    <3>6. corpus[q] \in Signals /\ c[q][e] = corpus[q][e] /\ corpus'[q] = corpus[q]
      BY <1>0, <2>0, <2>2, <2>4, <2>5
    <3>7. corpus[q][e] \in Int
      BY <3>6, MergeStep
    <3> QED BY <3>1, <3>2, <3>3, <3>5, <3>6, <3>7, SMTT(60)
  <2>9. CASE phase < phaseTriagedCorpus
    <3>1. UNCHANGED <<disk, db, fileVersion, version, unflushed>>
      BY <2>1, <2>9 DEF Minimizes, database
    <3>2. DbTypes'
      BY <3>1 DEF DbTypes
    <3>3. Saved'
      BY <1>0, <2>2, <2>6, <2>8, <3>1 DEF Saved, D
    <3> QED BY <1>0, <2>2, <2>6, <2>7, <3>1, <3>2, <3>3 DEF D
  <2>10. CASE ~(phase < phaseTriagedCorpus)
    <3>1. db' = db \cap (new \cup disabledHashes) /\ BumpVersion
      BY <2>1, <2>10 DEF Minimizes, Kept
    <3>2. DbTypes' /\ disk' \in {disk, db'}
      BY <1>0, <3>1, BumpStep
    <3>3. (db \cap config.disabled) \ Broken \subseteq db'
      <4>1. phase >= 1
        BY <1>0, <1>2, SMTT(60) DEF phaseLoadedCorpus
      <4> QED BY <3>1, <4>1 DEF Spared
    <3>4. Saved'
      BY <1>0, <2>2, <2>6, <2>8, <3>1 DEF Saved, D
    <3> QED BY <1>0, <2>2, <2>6, <2>7, <3>1, <3>2, <3>3, <3>4 DEF D
  <2> QED BY <2>9, <2>10
<1> QED BY <1>1, <1>2 DEF minimizeCorpus, Minimizes

\* newInput saves the program before the signal it was sent with counts.
LEMMA InputStep ==
    ASSUME CandInv, NEW q \in Prog, q \notin config.disabled, NEW sig \in Signals,
           NewInput(q, sig) \/ UNCHANGED input, config' = config
    PROVE  /\ corpus' \in [Prog -> Signals] /\ Present(corpus') \subseteq Runnable
           /\ db' \subseteq db \cup {q} /\ DbTypes' /\ db \cap config.disabled \subseteq disk'
           /\ corpusSignal' \in Signals /\ Saved'
<1> USE DEF CandInv
<1>0. /\ db \subseteq Prog /\ Present(corpus) \subseteq db /\ Present(corpus) \subseteq Runnable
      /\ corpus \in [Prog -> Signals] /\ corpusSignal \in Signals
      /\ db \cap config.disabled \subseteq disk
  BY DEF DbTypes, RecordTypes, Saved
<1>1. CASE UNCHANGED input
  <2>1. UNCHANGED <<corpus, corpusSignal, disk, db, fileVersion, version, unflushed>>
    BY <1>1 DEF input, database
  <2> QED BY <1>0, <2>1 DEF Saved, DbTypes
<1>2. CASE /\ q \notin Broken
           /\ corpus' = [corpus EXCEPT ![q] = Merge(sig, corpus[q])]
           /\ corpusSignal' = Merge(corpusSignal, Merge(sig, corpus[q]))
           /\ IF corpus[q] # Nil THEN UNCHANGED database
              ELSE db' = db \cup {q} /\ UNCHANGED version /\ Flush
  <2> DEFINE m == Merge(sig, corpus[q])
  <2>1. corpus[q] \in Signals
    BY <1>0
  <2>2. m \in Signals /\ \A e \in Elem : /\ m[e] \in Int /\ corpus[q][e] \in Int /\ Absent =< corpus[q][e]
                                         /\ m[e] >= corpus[q][e]
    <3>1. m \in Signals
      BY <2>1, MergeStep
    <3>2. ASSUME NEW e \in Elem
          PROVE  /\ sig[e] \in Int /\ corpus[q][e] \in Int /\ Absent =< corpus[q][e]
                 /\ m[e] = IF sig[e] < corpus[q][e] THEN corpus[q][e] ELSE sig[e]
      BY <2>1, MergeStep
    <3> HIDE DEF m
    <3>3. ASSUME NEW e \in Elem
          PROVE  m[e] \in Int /\ m[e] >= corpus[q][e]
      BY <3>2, SMTT(60)
    <3> QED BY <3>1, <3>2, <3>3
  <2>3. /\ corpus' = [corpus EXCEPT ![q] = m] /\ corpusSignal' = Merge(corpusSignal, m)
    BY <1>2
  <2> HIDE DEF m
  <2>4. /\ corpus' \in [Prog -> Signals] /\ corpus'[q] = m
        /\ \A p \in Prog : p # q => corpus'[p] = corpus[p]
    BY <1>0, <2>2, <2>3
  <2>5. Present(corpus') \subseteq Present(corpus) \cup {q}
    BY <2>4 DEF Present
  <2>6. /\ corpusSignal' \in Signals
        /\ \A e \in Elem : /\ corpusSignal[e] \in Int /\ Absent =< corpusSignal[e]
                           /\ corpusSignal'[e] = IF corpusSignal[e] < m[e] THEN m[e] ELSE corpusSignal[e]
    BY <1>0, <2>2, <2>3, MergeStep
  <2>7. ASSUME NEW e \in Elem, corpusSignal'[e] # Absent
        PROVE  \E p \in Present(corpus') : corpus'[p][e] >= corpusSignal'[e]
    <3>0. ASSUME m[e] >= corpusSignal'[e]
          PROVE  q \in Present(corpus') /\ corpus'[q][e] >= corpusSignal'[e]
      <4>1. m[e] # Absent
        BY <2>2, <2>6, <2>7, <3>0, SMTT(60) DEF Absent
      <4>2. m # Nil
        BY <4>1, NotNil
      <4> QED BY <2>4, <3>0, <4>2 DEF Present
    <3>1. CASE corpusSignal[e] < m[e]
      <4>1. m[e] >= corpusSignal'[e]
        BY <2>2, <2>6, <3>1, SMTT(60)
      <4> QED BY <3>0, <4>1
    <3>2. CASE ~(corpusSignal[e] < m[e])
      <4>1. corpusSignal'[e] = corpusSignal[e]
        BY <2>6, <3>2
      <4>2. PICK p \in Present(corpus) : corpus[p][e] >= corpusSignal[e]
        BY <2>7, <4>1 DEF Saved
      <4>3. CASE p = q
        <5>1. m[e] >= corpusSignal'[e]
          BY <2>2, <2>6, <4>1, <4>2, <4>3, SMTT(60)
        <5> QED BY <3>0, <5>1
      <4>4. CASE p # q
        <5>1. p \in Prog /\ corpus[p] # Nil /\ corpus'[p] = corpus[p]
          BY <2>4, <4>4 DEF Present
        <5>2. p \in Present(corpus')
          BY <5>1 DEF Present
        <5> QED BY <4>1, <4>2, <5>1, <5>2
      <4> QED BY <4>3, <4>4
    <3> QED BY <3>1, <3>2
  <2>8. CASE corpus[q] # Nil
    <3>1. UNCHANGED <<disk, db, fileVersion, version, unflushed>> /\ q \in Present(corpus)
      BY <1>2, <2>8 DEF Present, database
    <3>2. DbTypes'
      BY <3>1 DEF DbTypes
    <3>3. Saved'
      BY <1>0, <2>5, <2>7, <3>1 DEF Saved
    <3> QED BY <1>0, <2>4, <2>5, <2>6, <3>1, <3>2, <3>3
  <2>9. CASE corpus[q] = Nil
    <3>1. db' = db \cup {q} /\ UNCHANGED version /\ Flush
      BY <1>2, <2>9
    <3>2. DbTypes' /\ disk' \in {disk, db'}
      BY <1>0, <3>1, WriteStep DEF DbTypes
    <3>3. Saved'
      BY <1>0, <2>5, <2>7, <3>1 DEF Saved
    <3>4. q \in Runnable
      BY <1>2 DEF Runnable
    <3> QED BY <1>0, <2>4, <2>5, <2>6, <3>1, <3>2, <3>3, <3>4
  <2> QED BY <2>8, <2>9
<1> QED BY <1>1, <1>2 DEF NewInput, newInput

-----------------------------------------------------------------------------
(* The steps *)

\* A manager that was just started.
Start ==
    /\ config \in Configs /\ db = disk /\ disk \subseteq Prog /\ unflushed = FALSE
    /\ fileVersion \in Nat /\ version \in Nat
    /\ phase = phaseInit /\ candidates = <<>> /\ corpus = [p \in Prog |-> Nil] /\ disabledHashes = {}
    /\ corpusSignal = Nil /\ hub = "off"
    /\ fuzzer = [f \in Fuzzer |-> "down"] /\ cached = [f \in Fuzzer |-> <<>>]
    /\ loaded = {} /\ handed = [p \in Prog |-> 0]

\* Initially, and after Restart, nothing is loaded; the records are those on disk.
LEMMA Started == Start => CandInv
<1> SUFFICES ASSUME Start PROVE CandInv
  OBVIOUS
<1> USE DEF Start
<1>1. Nil \in Signals /\ \A e \in Elem : Nil[e] = Absent
  BY PrioAssumption, SMTT(60) DEF Nil, Signals, Absent
<1>a. Present(corpus) = {}
  BY DEF Present
<1>2. DbTypes /\ RecordTypes
  <2>1. phase \in 0 .. 4
    BY SMTT(60) DEF phaseInit
  <2> QED BY <1>1, <1>a, <2>1 DEF DbTypes, RecordTypes
<1>3. QueueTypes
  BY SMTT(60) DEF QueueTypes
<1>4. LoopTypes
  BY DEF LoopTypes
<1>5. Saved /\ Spared /\ Handed
  <2>1. Saved /\ Handed
    BY <1>1, <1>a DEF Saved, Handed
  <2>2. Spared
    BY SMTT(60) DEF Spared, phaseInit
  <2> QED BY <2>1, <2>2
<1> QED BY <1>2, <1>3, <1>4, <1>5 DEF CandInv

\* Connect and the hub's getMinimizedCorpus: only minimizeCorpus matters.
LEMMA StepMinimize ==
    ASSUME CandInv, (\E f \in Fuzzer : Connect(f)) \/ HubWake
    PROVE  CandInv' /\ (db \cap config.disabled) \ Broken \subseteq disk'
<1>0. minimizeCorpus /\ UNCHANGED <<config, phase, candidates, disabledHashes, corpusSignal, cached, loaded, handed>>
  BY DEF Connect, HubWake
<1>1. /\ corpus' \in [Prog -> Signals] /\ Present(corpus') \subseteq Present(corpus)
      /\ db' \subseteq db /\ DbTypes' /\ Saved'
      /\ (db \cap config.disabled) \ Broken \subseteq disk'
  BY <1>0, MinimizeStep
<1>2. RecordTypes'
  BY <1>0, <1>1 DEF CandInv, RecordTypes, Runnable
<1>3. QueueTypes' /\ Handed'
  BY <1>0 DEF CandInv, QueueTypes, Candidate, Runnable, Handed
<1>4. LoopTypes'
  <2>1. CASE \E f \in Fuzzer : Connect(f)
    <3>1. PICK f \in Fuzzer : Connect(f)
      BY <2>1
    <3>2. fuzzer' \in [Fuzzer -> {"down", "check", "up"}]
      BY <3>1 DEF Connect, CandInv, LoopTypes
    <3>3. UNCHANGED <<hub, config>>
      BY <3>1 DEF Connect
    <3> QED BY <3>2, <3>3 DEF CandInv, LoopTypes
  <2>2. CASE HubWake
    <3>1. hub = "sleep" /\ hub' \in {"sleep", "sync"} /\ UNCHANGED <<config, fuzzer>>
      BY <2>2 DEF HubWake
    <3> QED BY <3>1 DEF CandInv, LoopTypes
  <2> QED BY <2>1, <2>2
<1>5. Spared'
  BY <1>0, <1>1 DEF CandInv, Spared
<1> QED BY <1>1, <1>2, <1>3, <1>4, <1>5 DEF CandInv

\* Programs that can be run make candidates.
LEMMA MarkedCandidates ==
    ASSUME NEW S \in SUBSET Runnable, NEW b \in BOOLEAN
    PROVE  IsFiniteSet(Marked(S, b)) /\ Marked(S, b) \subseteq Candidate
<1> DEFINE h == [p \in S |-> [prog |-> p, minimized |-> b]]
<1>1. IsFiniteSet(S)
  BY CandidateAssumption, FS_Subset DEF Runnable
<1>2. h \in Surjection(S, Marked(S, b))
  BY DEF Surjection, Marked
<1>3. IsFiniteSet(Marked(S, b))
  BY <1>1, <1>2, FS_Surjection
<1>4. \A p \in S : [prog |-> p, minimized |-> b] \in Candidate
  BY DEF Candidate
<1> QED BY <1>3, <1>4 DEF Marked

\* Check: the first one loads the corpus.
LEMMA StepCheck ==
    ASSUME CandInv, NEW f \in Fuzzer, Check(f)
    PROVE  CandInv' /\ UNCHANGED disk
<1>0. UNCHANGED <<config, disk, fileVersion, version, unflushed, corpus, corpusSignal, hub, cached, handed>>
  BY DEF Check
<1>1. LoopTypes'
  <2>1. fuzzer' \in [Fuzzer -> {"down", "check", "up"}]
    BY DEF Check, CandInv, LoopTypes
  <2> QED BY <1>0, <2>1 DEF CandInv, LoopTypes
<1>2. CASE phase # phaseInit
  <2>1. UNCHANGED <<db, disabledHashes, candidates, loaded, phase>>
    BY <1>2 DEF Check
  <2>2. DbTypes' /\ RecordTypes' /\ QueueTypes'
    BY <1>0, <2>1 DEF CandInv, DbTypes, RecordTypes, QueueTypes, Candidate, Runnable
  <2>3. Saved' /\ Spared' /\ Handed'
    BY <1>0, <2>1 DEF CandInv, Saved, Spared, Handed
  <2> QED BY <1>0, <1>1, <2>2, <2>3 DEF CandInv
<1>3. CASE phase = phaseInit
  <2>1. /\ db' = db \ Broken /\ disabledHashes' = db' \cap config.disabled
        /\ loaded' = Loadable(db) /\ phase' = phaseLoadedCorpus
        /\ \E s, t \in Orders(Marked(loaded', Minimized)) : candidates' = s \o t
    BY <1>3 DEF Check
  <2> DEFINE M == Marked(loaded', Minimized)
  <2>2. PICK s \in Orders(M), t \in Orders(M) : candidates' = s \o t
    BY <2>1
  <2>3. loaded' \subseteq Runnable /\ loaded' \subseteq Prog
    BY <2>1 DEF Loadable, Runnable, CandInv, DbTypes
  <2>4. Minimized \in BOOLEAN
    BY SMTT(60) DEF Minimized, CandInv, DbTypes
  <2>a. IsFiniteSet(M) /\ M \subseteq Candidate
    BY <2>3, <2>4, MarkedCandidates
  <2>b. ASSUME NEW p \in loaded' PROVE \E c \in M : c.prog = p
    <3> DEFINE c == [prog |-> p, minimized |-> Minimized]
    <3>1. c \in M /\ c.prog = p
      BY DEF Marked
    <3> QED BY <3>1
  <2> HIDE DEF M
  <2>5. candidates' \in Seq(M) /\ \A c \in M : Copies(candidates', c.prog) >= 2
    BY <2>2, <2>a, CopiesTwice
  <2>6. candidates' \in Seq(Candidate) /\ \A p \in loaded' : Copies(candidates', p) >= 2
    BY <2>5, <2>a, <2>b, SeqMore
  <2>7. DbTypes' /\ RecordTypes'
    <3>1. phase' \in 0 .. 4
      BY <2>1, SMTT(60) DEF phaseLoadedCorpus
    <3> QED BY <1>0, <2>1, <3>1 DEF CandInv, DbTypes, RecordTypes, Runnable
  <2>8. QueueTypes'
    BY <1>0, <2>3, <2>6 DEF CandInv, QueueTypes, Candidate, Runnable
  <2>9. Saved'
    <3>1. Present(corpus) \subseteq db \ Broken
      BY DEF CandInv, Saved, RecordTypes, Runnable
    <3> QED BY <1>0, <2>1, <3>1 DEF CandInv, Saved
  <2>10. Spared'
    BY <1>0, <2>1 DEF Spared
  <2>11. Handed'
    <3> SUFFICES ASSUME NEW p \in loaded' PROVE handed[p] + Copies(candidates', p) >= 2
      <4>1. ~(phase' >= 2)
        BY <2>1, SMTT(60) DEF phaseLoadedCorpus
      <4> QED BY <1>0, <4>1 DEF Handed, Copies, Places
    <3>1. Copies(candidates', p) \in Nat
      BY <2>6, CopiesFinite
    <3>2. handed[p] \in Nat
      BY <2>3 DEF CandInv, QueueTypes
    <3> QED BY <2>6, <3>1, <3>2, SMTT(60)
  <2> QED BY <1>0, <1>1, <2>7, <2>8, <2>9, <2>10, <2>11 DEF CandInv
<1> QED BY <1>2, <1>3

\* Poll: candidateBatch hands out the end of the queue.
LEMMA StepPoll ==
    ASSUME CandInv, NEW f \in Fuzzer, Poll(f)
    PROVE  CandInv' /\ UNCHANGED disk
<1> DEFINE n == IF Len(candidates) < BatchSize THEN Len(candidates) ELSE BatchSize
           m == Len(candidates) - n
           rest == SubSeq(candidates, 1, m)
           batch == SubSeq(candidates, m + 1, Len(candidates))
<1>0. UNCHANGED <<config, disk, db, fileVersion, version, unflushed, corpus, disabledHashes, corpusSignal, fuzzer, loaded>>
  BY DEF Poll, database
<1>1. /\ candidates' = rest
      /\ cached' = [cached EXCEPT ![f] = @ \o batch]
      /\ handed' = [p \in Prog |-> handed[p] + Cardinality({i \in DOMAIN batch : batch[i].prog = p})]
      /\ phase' = IF rest = <<>> THEN NextPhase ELSE phase
      /\ hub' = IF phase' = phaseTriagedCorpus /\ phase # phase' THEN "sleep" ELSE hub
  BY DEF Poll, Emptied
<1>2. candidates \in Seq(Candidate) /\ m \in 0 .. Len(candidates)
  BY CandidateAssumption, SMTT(60) DEF CandInv, QueueTypes
<1>3. rest \in Seq(Candidate) /\ batch \in Seq(Candidate)
  BY <1>2, CopiesCut
<1>4. \A p : Copies(candidates, p) = Copies(rest, p) + Copies(batch, p)
  BY <1>2, CopiesCut, SMTT(60)
<1> HIDE DEF m, rest, batch
<1>5. phase \in 0 .. 4 /\ config.hub \in BOOLEAN
  BY CandidateAssumption DEF CandInv, RecordTypes
<1>6. /\ phase' = phase \/ (phase = 1 /\ rest = <<>> /\ config.hub /\ phase' = 2)
                        \/ (phase = 1 /\ rest = <<>> /\ phase' = 4)
                        \/ (phase = 3 /\ phase' = 4)
  BY <1>1, <1>5 DEF NextPhase, phaseLoadedCorpus, phaseTriagedCorpus, phaseQueriedHub, phaseTriagedHub
<1>7. DbTypes' /\ RecordTypes'
  <2>1. phase' \in 0 .. 4
    BY <1>5, <1>6, SMTT(60)
  <2> QED BY <1>0, <2>1 DEF CandInv, DbTypes, RecordTypes, Runnable
<1>8. QueueTypes'
  <2>1. cached[f] \o batch \in Seq(Candidate)
    BY <1>3, SMTT(60) DEF CandInv, QueueTypes
  <2>2. cached' \in [Fuzzer -> Seq(Candidate)]
    BY <1>1, <2>1 DEF CandInv, QueueTypes
  <2>3. \A p \in Prog : handed[p] + Copies(batch, p) \in Nat
    BY <1>3, CopiesFinite, SMTT(60) DEF CandInv, QueueTypes
  <2>4. handed' \in [Prog -> Nat]
    BY <1>1, <2>3 DEF Copies, Places
  <2> QED BY <1>0, <1>1, <1>3, <2>2, <2>4 DEF CandInv, QueueTypes, Candidate, Runnable
<1>9. LoopTypes'
  <2>1. hub' = hub \/ (hub' = "sleep" /\ config.hub)
    BY <1>1, <1>5, <1>6, SMTT(60) DEF phaseTriagedCorpus
  <2> QED BY <1>0, <2>1 DEF CandInv, LoopTypes
<1>10. Saved'
  BY <1>0 DEF CandInv, Saved
<1>11. Spared'
  <2>1. phase' >= 1 => phase >= 1
    BY <1>5, <1>6, SMTT(60)
  <2> QED BY <1>0, <2>1 DEF CandInv, Spared
<1>12. Handed'
  <2> SUFFICES ASSUME NEW p \in loaded
               PROVE  /\ handed'[p] + Copies(rest, p) >= 2
                      /\ phase' >= 2 => handed'[p] >= 2
    BY <1>0, <1>1 DEF Handed, Copies, Places
  <2>1. p \in Prog /\ handed[p] \in Nat
    BY DEF CandInv, QueueTypes
  <2>2. handed'[p] = handed[p] + Copies(batch, p)
    BY <1>1, <2>1 DEF Copies, Places
  <2>3. Copies(rest, p) \in Nat /\ Copies(batch, p) \in Nat
    BY <1>3, CopiesFinite
  <2>4. rest = <<>> => Copies(rest, p) = 0
    <3>1. Places(<<>>, p) = {}
      BY SMTT(60) DEF Places
    <3> QED BY <3>1, FS_EmptySet DEF Copies
  <2>5. /\ handed[p] + Copies(candidates, p) >= 2
        /\ phase >= 2 => handed[p] >= 2
    BY DEF CandInv, Handed
  <2>6. Copies(candidates, p) = Copies(rest, p) + Copies(batch, p)
    BY <1>4
  <2>7. phase' >= 2 => phase >= 2 \/ rest = <<>>
    BY <1>5, <1>6, SMTT(60)
  <2> QED BY <2>1, <2>2, <2>3, <2>4, <2>5, <2>6, <2>7, SMTT(60)
<1> QED BY <1>0, <1>7, <1>8, <1>9, <1>10, <1>11, <1>12 DEF CandInv

\* Triage and Find: an input comes back, or does not.
LEMMA StepInput ==
    ASSUME CandInv, NEW f \in Fuzzer, Triage(f) \/ \E p \in Prog : Find(f, p)
    PROVE  CandInv' /\ db \cap config.disabled \subseteq disk'
<1>0. UNCHANGED <<config, phase, candidates, disabledHashes, hub, fuzzer, loaded, handed>>
  BY DEF Triage, Find
<1>a. ASSUME NEW p \in Runnable, NEW q \in Simpler[p]
      PROVE  q \in Prog /\ q \notin config.disabled /\ Real[p] \in Signals
  BY CandidateAssumption DEF Runnable, CandInv, RecordTypes
<1>1. \E q \in Prog, sig \in Signals : q \notin config.disabled /\ (NewInput(q, sig) \/ UNCHANGED input)
  <2>1. CASE Triage(f)
    <3>1. PICK i \in DOMAIN cached[f] :
             \/ \E q \in IF cached[f][i].minimized THEN {cached[f][i].prog} ELSE Smaller(cached[f][i].prog) :
                    NewInput(q, Real[cached[f][i].prog])
             \/ UNCHANGED input
      BY <2>1 DEF Triage
    <3> DEFINE p == cached[f][i].prog
    <3>2. cached[f][i] \in Candidate
      BY SMTT(60) DEF CandInv, QueueTypes
    <3>3. p \in Runnable
      BY <3>2 DEF Candidate
    <3>4. p \in Prog /\ p \notin config.disabled /\ Real[p] \in Signals
      BY <3>3, CandidateAssumption DEF Runnable
    <3>5. Smaller(p) \subseteq Simpler[p]
      BY DEF Smaller
    <3>6. UNCHANGED input \/ \E q \in {p} \cup Smaller(p) : NewInput(q, Real[p])
      BY <3>1
    <3> HIDE DEF p
    <3>7. CASE UNCHANGED input
      BY <3>4, <3>7
    <3>8. ASSUME NEW q \in {p} \cup Smaller(p), NewInput(q, Real[p])
          PROVE  q \in Prog /\ q \notin config.disabled
      BY <1>a, <3>3, <3>4, <3>5
    <3> QED BY <3>4, <3>6, <3>7, <3>8
  <2>2. CASE \E p \in Prog : Find(f, p)
    <3>1. PICK p \in Prog : Find(f, p)
      BY <2>2
    <3>2. p \in Runnable /\ \E q \in Smaller(p) : NewInput(q, Real[p])
      BY <3>1 DEF Find, Runnable
    <3>3. PICK q \in Smaller(p) : NewInput(q, Real[p])
      BY <3>2
    <3>4. q \in Simpler[p]
      BY DEF Smaller
    <3> QED BY <1>a, <3>2, <3>3, <3>4
  <2> QED BY <2>1, <2>2
<1>b. PICK q \in Prog, sig \in Signals : q \notin config.disabled /\ (NewInput(q, sig) \/ UNCHANGED input)
  BY <1>1
<1>2. cached' \in [Fuzzer -> Seq(Candidate)]
  <2>1. cached \in [Fuzzer -> Seq(Candidate)]
    BY DEF CandInv, QueueTypes
  <2>2. CASE Triage(f)
    <3> DEFINE Without(i) == SubSeq(cached[f], 1, i - 1) \o SubSeq(cached[f], i + 1, Len(cached[f]))
    <3>1. PICK i \in DOMAIN cached[f] : cached' = [cached EXCEPT ![f] = Without(i)]
      BY <2>2 DEF Triage
    <3>2. SubSeq(cached[f], 1, i - 1) \in Seq(Candidate) /\ SubSeq(cached[f], i + 1, Len(cached[f])) \in Seq(Candidate)
      BY <2>1, SMTT(60)
    <3>3. Without(i) \in Seq(Candidate)
      BY <3>2, SMTT(60)
    <3> HIDE DEF Without
    <3> QED BY <2>1, <3>1, <3>3
  <2>3. CASE \E p \in Prog : Find(f, p)
    BY <2>1, <2>3 DEF Find
  <2> QED BY <2>2, <2>3
<1>3. /\ corpus' \in [Prog -> Signals] /\ Present(corpus') \subseteq Runnable
      /\ db' \subseteq db \cup {q} /\ DbTypes' /\ db \cap config.disabled \subseteq disk'
      /\ corpusSignal' \in Signals /\ Saved'
  BY <1>0, <1>b, InputStep
<1>4. RecordTypes'
  BY <1>0, <1>3 DEF CandInv, RecordTypes, Runnable
<1>5. QueueTypes' /\ LoopTypes' /\ Handed'
  BY <1>0, <1>2 DEF CandInv, QueueTypes, LoopTypes, Handed, Candidate, Runnable
<1>6. Spared'
  BY <1>0, <1>3, <1>b DEF CandInv, Spared
<1> QED BY <1>3, <1>4, <1>5, <1>6 DEF CandInv

\* HubReceive with its choice: a reply with the programs S.
Received(S) ==
    \E s \in Orders(Marked(S, FALSE)) :
        /\ candidates' = candidates \o s
        /\ hub' = IF S = {} THEN "sleep" ELSE "sync"
        /\ hubs' = IF S = {} THEN hubs ELSE hubs + 1
        /\ phase' = HubPhase(S)

\* addNewCandidates: the programs of the hub join the queue.
LEMMA StepHub ==
    ASSUME CandInv, HubReceive
    PROVE  CandInv' /\ UNCHANGED disk
<1>0. UNCHANGED <<config, disk, db, fileVersion, version, unflushed, corpus, disabledHashes, corpusSignal, fuzzer, cached, loaded, handed>>
  BY DEF HubReceive, history, database
<1>1. hub = "sync"
  BY DEF HubReceive
<1>2. PICK S \in {{}} \cup (IF hubs < MaxHub THEN SUBSET (HubProgs \ config.disabled) ELSE {}) :
         Received(S)
  BY DEF HubReceive, Received
<1>3. PICK s \in Orders(Marked(S, FALSE)) :
         /\ candidates' = candidates \o s
         /\ hub' = IF S = {} THEN "sleep" ELSE "sync"
         /\ phase' = HubPhase(S)
  BY <1>2 DEF Received
<1>4. S \subseteq Runnable
  BY <1>2, CandidateAssumption DEF Runnable
<1>5. s \in Seq(Candidate)
  <2> DEFINE M == Marked(S, FALSE)
  <2>1. IsFiniteSet(M) /\ M \subseteq Candidate
    BY <1>4, MarkedCandidates
  <2> HIDE DEF M
  <2>2. Cardinality(M) \in Nat
    BY <2>1, FS_CardinalityType
  <2>3. s \in [1 .. Cardinality(M) -> M]
    BY DEF M, Orders, Injection, IsInjective
  <2>4. s \in Seq(M)
    BY <2>2, <2>3, SMTT(60)
  <2> QED BY <2>1, <2>4, SeqMore
<1>6. candidates \in Seq(Candidate) /\ phase \in 0 .. 4
  BY DEF CandInv, QueueTypes, RecordTypes
<1>7. candidates' \in Seq(Candidate) /\ \A p : Copies(candidates', p) >= Copies(candidates, p)
  BY <1>3, <1>5, <1>6, CopiesAdd
<1>8. phase' = phase \/ (phase = 2 /\ phase' = 3)
  BY <1>3 DEF HubPhase, phaseTriagedCorpus, phaseQueriedHub
<1>9. DbTypes' /\ RecordTypes' /\ QueueTypes'
  <2>1. phase' \in 0 .. 4
    BY <1>6, <1>8, SMTT(60)
  <2> QED BY <1>0, <1>7, <2>1 DEF CandInv, DbTypes, RecordTypes, QueueTypes, Candidate, Runnable
<1>10. LoopTypes'
  BY <1>0, <1>1, <1>3 DEF CandInv, LoopTypes
<1>11. Saved' /\ Spared'
  <2>1. phase' >= 1 => phase >= 1
    BY <1>6, <1>8, SMTT(60)
  <2> QED BY <1>0, <2>1 DEF CandInv, Saved, Spared
<1>12. Handed'
  <2> SUFFICES ASSUME NEW p \in loaded
               PROVE  /\ handed[p] + Copies(candidates', p) >= 2
                      /\ phase' >= 2 => handed[p] >= 2
    BY <1>0 DEF Handed, Copies, Places
  <2>1. handed[p] \in Nat
    BY DEF CandInv, QueueTypes
  <2>2. Copies(candidates, p) \in Nat /\ Copies(candidates', p) \in Nat
    BY <1>6, <1>7, CopiesFinite
  <2>3. /\ handed[p] + Copies(candidates, p) >= 2
        /\ phase >= 2 => handed[p] >= 2
    BY DEF CandInv, Handed
  <2> QED BY <1>6, <1>7, <1>8, <2>1, <2>2, <2>3, SMTT(60)
<1> QED BY <1>0, <1>9, <1>10, <1>11, <1>12 DEF CandInv

\* Crashes of VMs, failures of the hub, and restarts.
LEMMA StepFault ==
    ASSUME CandInv, HubFail \/ Restart \/ \E f \in Fuzzer : Crash(f)
    PROVE  CandInv' /\ UNCHANGED disk
<1>1. CASE HubFail
  <2>1. hub = "sync" /\ hub' = "sleep" /\ UNCHANGED <<config, disk, db, fileVersion, version, unflushed, manager, fuzzer, cached, history>>
    BY <1>1 DEF HubFail, database
  <2>2. DbTypes' /\ RecordTypes' /\ QueueTypes' /\ Saved' /\ Spared' /\ Handed'
    BY <2>1 DEF CandInv, DbTypes, RecordTypes, QueueTypes, Candidate, Saved, Spared, Handed, Runnable, manager, history
  <2>3. LoopTypes'
    BY <2>1 DEF CandInv, LoopTypes
  <2> QED BY <2>1, <2>2, <2>3 DEF CandInv
<1>2. CASE Restart
  <2>1. Start' /\ UNCHANGED disk
    BY <1>2 DEF Restart, Start, CandInv, DbTypes
  <2>2. Start' => CandInv'
    BY Started, PTL
  <2> QED BY <2>1, <2>2
<1>3. ASSUME NEW f \in Fuzzer, Crash(f) PROVE CandInv' /\ UNCHANGED disk
  <2>1. UNCHANGED <<config, disk, db, fileVersion, version, unflushed, manager, hub, history>>
    BY <1>3 DEF Crash, database
  <2>2. fuzzer' \in [Fuzzer -> {"down", "check", "up"}] /\ cached' \in [Fuzzer -> Seq(Candidate)]
    <3>1. <<>> \in Seq(Candidate)
      BY SMTT(60)
    <3> QED BY <1>3, <3>1 DEF Crash, CandInv, LoopTypes, QueueTypes
  <2>3. DbTypes' /\ RecordTypes' /\ Saved' /\ Spared' /\ Handed'
    BY <2>1 DEF CandInv, DbTypes, RecordTypes, Saved, Spared, Handed, Runnable, manager, history
  <2>4. QueueTypes'
    BY <2>1, <2>2 DEF CandInv, QueueTypes, Candidate, Runnable, manager, history
  <2>5. LoopTypes'
    BY <2>1, <2>2 DEF CandInv, LoopTypes
  <2> QED BY <2>1, <2>3, <2>4, <2>5 DEF CandInv
<1> QED BY <1>1, <1>2, <1>3

-----------------------------------------------------------------------------
(* The theorems *)

\* Every step keeps the invariant, and the records of disabled programs.
LEMMA NextStep ==
    ASSUME CandInv, Next
    PROVE  CandInv' /\ (db \cap config.disabled) \ Broken \subseteq disk'
<1>0. db \cap config.disabled \subseteq disk
  BY DEF CandInv, DbTypes
<1>1. CASE (\E f \in Fuzzer : Connect(f)) \/ HubWake
  BY <1>1, StepMinimize
<1>2. CASE \E f \in Fuzzer : Check(f) \/ Poll(f)
  BY <1>0, <1>2, StepCheck, StepPoll
<1>3. CASE \E f \in Fuzzer : Triage(f) \/ \E p \in Prog : Find(f, p)
  BY <1>3, StepInput
<1>4. CASE HubReceive
  BY <1>0, <1>4, StepHub
<1>5. CASE HubFail \/ Restart \/ \E f \in Fuzzer : Crash(f)
  BY <1>0, <1>5, StepFault
<1> QED BY <1>1, <1>2, <1>3, <1>4, <1>5 DEF Next

\* The invariant of the proofs.
THEOREM CandidatesInvariant == Spec => []CandInv
<1>1. Init => CandInv
  <2>1. Init => Start
    BY CandidateAssumption DEF Init, Start
  <2> QED BY <2>1, Started
<1>2. CandInv /\ [Next]_vars => CandInv'
  <2> SUFFICES ASSUME CandInv, [Next]_vars PROVE CandInv'
    OBVIOUS
  <2>1. CASE Next
    BY <2>1, NextStep
  <2>2. CASE UNCHANGED vars
    BY <2>2 DEF CandInv, DbTypes, RecordTypes, QueueTypes, Candidate, LoopTypes, Saved, Spared, Handed, Runnable,
                vars, database, manager, history
  <2> QED BY <2>1, <2>2
<1> QED BY <1>1, <1>2, PTL DEF Spec

\* What is queued, cached or in the corpus can be run in this configuration, and
\* every record in memory is on disk, unless the last Flush failed.
THEOREM CandidatesTypes == Spec => []TypeOK
<1> QED BY CandidatesInvariant, TypesSuffice, PTL

\* Every element of the corpus signal is claimed by an input with a record, after every
\* step of newInput and minimizeCorpus; the record is on disk, or waits for the next
\* Flush after one that failed.
THEOREM ClaimsArePersistent == Spec => []ClaimsSurvive
<1>1. CandInv => ClaimsSurvive
  BY DEF CandInv, Saved, DbTypes, ClaimsSurvive
<1> QED BY <1>1, CandidatesInvariant, PTL

\* minimizeCorpus deletes records only when every loaded program was handed out
\* twice by candidateBatch.
THEOREM LoadedHandedTwice == Spec => []HandedTwice
<1>1. CandInv => HandedTwice
  BY DEF CandInv, Handed, HandedTwice, phaseTriagedCorpus
<1> QED BY <1>1, CandidatesInvariant, PTL

\* No step deletes the record of a disabled program.
THEOREM DisabledAreKept == Spec => DisabledKept
<1>1. CandInv /\ [Next]_vars => [(db \cap config.disabled) \ Broken \subseteq disk']_vars
  BY NextStep
<1> QED BY <1>1, CandidatesInvariant, PTL DEF Spec, DisabledKept
=============================================================================
