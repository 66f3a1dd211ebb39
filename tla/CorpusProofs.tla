---------------------------- MODULE CorpusProofs ----------------------------
(***************************************************************************)
(* No signal is lost between the fuzzers and the manager, nor by           *)
(* minimizeCorpus, for any number of fuzzers, programs, elements,          *)
(* priorities and sizes of a reply.                                        *)
(***************************************************************************)
EXTENDS Corpus, FiniteSetTheorems, WellFoundedInduction, TLAPS

USE ZenonT(30)

Prio == Absent .. MaxPrio
Input == Prog \X Signals

-----------------------------------------------------------------------------
(* Signals *)

\* A non-empty set of priorities has a highest one.
LEMMA HighestPrio ==
    ASSUME NEW S \in SUBSET Prio, S # {}
    PROVE  \E x \in S : \A y \in S : y =< x
<1> DEFINE T == {MaxPrio - x : x \in S}
<1>0. MaxPrio \in Nat /\ \A x \in S : x \in Int /\ MaxPrio - x \in Nat
  BY PrioAssumption, SMTT(60) DEF Prio, Absent
<1>1. T \subseteq Nat /\ T # {}
  <2>1. PICK x \in S : TRUE
    OBVIOUS
  <2>2. MaxPrio - x \in T
    OBVIOUS
  <2> QED BY <1>0, <2>2
<1>2. PICK t \in T : \A u \in T : ~(<<u, t>> \in OpToRel(<, Nat))
  BY <1>1, NatLessThanWellFounded, WFMin
<1>3. \A u \in T : ~(u < t)
  BY <1>1, <1>2 DEF OpToRel
<1>4. PICK x \in S : t = MaxPrio - x
  OBVIOUS
<1>5. \A y \in S : y =< x
  <2> TAKE y \in S
  <2>1. MaxPrio - y \in T
    OBVIOUS
  <2>2. ~(MaxPrio - y < MaxPrio - x)
    BY <1>3, <1>4, <2>1
  <2> HIDE DEF T
  <2> QED BY <1>0, <2>2, SMTT(60)
<1> QED BY <1>5

\* Diff and Merge yield signals, and what they hold of every element.
LEMMA SignalOps ==
    ASSUME NEW s \in Signals, NEW t \in Signals
    PROVE  /\ Nil \in Signals
           /\ Diff(s, t) \in Signals /\ Merge(s, t) \in Signals
           /\ Diff(s, t) = Nil => \A e \in Elem : t[e] =< s[e]
           /\ \A e \in Elem : Diff(s, t)[e] = IF s[e] >= t[e] THEN Absent ELSE t[e]
           /\ \A e \in Elem : Merge(s, t)[e] = IF s[e] < t[e] THEN t[e] ELSE s[e]
<1>0. Absent \in Prio /\ Prio \subseteq Int /\ \A x \in Prio : Absent =< x
  BY PrioAssumption, SMTT(60) DEF Absent, Prio
<1>1. \A e \in Elem : s[e] \in Prio /\ t[e] \in Prio
  BY DEF Signals, Prio
<1>2. Nil \in Signals
  BY <1>0 DEF Nil, Signals, Prio
<1>3. \A e \in Elem : /\ Diff(s, t)[e] = IF s[e] >= t[e] THEN Absent ELSE t[e]
                      /\ Merge(s, t)[e] = IF s[e] < t[e] THEN t[e] ELSE s[e]
  BY DEF Diff, Merge
<1>4. Diff(s, t) \in Signals /\ Merge(s, t) \in Signals
  BY <1>0, <1>1 DEF Diff, Merge, Signals, Prio
<1>5. ASSUME Diff(s, t) = Nil, NEW e \in Elem PROVE t[e] =< s[e]
  <2>1. Diff(s, t)[e] = Absent
    BY <1>5 DEF Nil
  <2> QED BY <1>0, <1>1, <1>3, <2>1
<1> QED BY <1>2, <1>3, <1>4, <1>5

\* Nil is below every signal, and priorities are integers.
LEMMA SignalRange ==
    ASSUME NEW s \in Signals, NEW e \in Elem
    PROVE  s[e] \in Int /\ Absent \in Int /\ Absent =< s[e] /\ Nil[e] = Absent
  BY PrioAssumption, SMTT(60) DEF Signals, Absent, Nil

\* The two parts of a split are parts, and nothing is left out.
LEMMA SplitParts ==
    ASSUME NEW s \in Signals, NEW n, NEW sp \in Split(s, n)
    PROVE  /\ sp \in Signals \X Signals
           /\ \A e \in Elem : /\ sp[1][e] =< s[e] /\ sp[2][e] =< s[e]
                              /\ sp[1][e] = s[e] \/ sp[2][e] = s[e]
<1> DEFINE D == {e \in Elem : s[e] # Absent}
<1>1. PICK E \in SUBSET D : sp = <<Restricted(s, E), Restricted(s, D \ E)>>
  BY DEF Split
<1>2. sp[1] = Restricted(s, E) /\ sp[2] = Restricted(s, D \ E)
  BY <1>1
<1>3. ASSUME NEW F
      PROVE  /\ Restricted(s, F) \in Signals
             /\ \A e \in Elem : Restricted(s, F)[e] = IF e \in F THEN s[e] ELSE Absent
  BY SignalOps, PrioAssumption, SMTT(60) DEF Restricted, Signals, Absent
<1>4. ASSUME NEW e \in Elem
      PROVE  /\ sp[1][e] =< s[e] /\ sp[2][e] =< s[e]
             /\ sp[1][e] = s[e] \/ sp[2][e] = s[e]
  BY <1>2, <1>3, SignalRange, SMTT(60)
<1>5. sp \in Signals \X Signals
  BY <1>1, <1>3
<1> QED BY <1>4, <1>5

\* The signal of a set of inputs exists, is below what each of them is below, and
\* above each of them.
LEMMA SigOfBound ==
    ASSUME NEW I \in SUBSET Input
    PROVE  /\ SigOf(I) \in Signals
           /\ \A u \in Signals : (\A i \in I : Below(i[2], u)) => Below(SigOf(I), u)
           /\ \A i \in I : Below(i[2], SigOf(I))
<1> DEFINE Is(e, p) == /\ p = Absent \/ \E i \in I : i[2][e] = p
                       /\ \A i \in I : i[2][e] =< p
<1>1. ASSUME NEW e \in Elem PROVE \E p \in Absent .. MaxPrio : Is(e, p)
  <2> DEFINE S == {i[2][e] : i \in I}
  <2>1. \A i \in I : i[2] \in Signals /\ i[2][e] \in Prio
    BY DEF Input, Signals, Prio
  <2>2. S \in SUBSET Prio
    BY <2>1
  <2>3. CASE S = {}
    <3>1. I = {}
      BY <2>3
    <3> QED BY <3>1, PrioAssumption, SMTT(60) DEF Absent
  <2>4. CASE S # {}
    <3>1. PICK p \in S : \A y \in S : y =< p
      BY <2>2, <2>4, HighestPrio
    <3>2. p \in Absent .. MaxPrio /\ Is(e, p)
      BY <2>2, <3>1 DEF Prio
    <3> QED BY <3>2
  <2> QED BY <2>3, <2>4
<1>2. ASSUME NEW e \in Elem
      PROVE  SigOf(I)[e] \in Absent .. MaxPrio /\ Is(e, SigOf(I)[e])
  <2>1. SigOf(I)[e] = CHOOSE p \in Absent .. MaxPrio : Is(e, p)
    BY DEF SigOf
  <2> HIDE DEF Is
  <2> QED BY <1>1, <2>1
<1>3. SigOf(I) \in Signals
  <2>1. SigOf(I) = [e \in Elem |-> SigOf(I)[e]]
    BY SMTT(60) DEF SigOf
  <2> QED BY <1>2, <2>1 DEF Signals
<1>4. ASSUME NEW u \in Signals, \A i \in I : Below(i[2], u) PROVE Below(SigOf(I), u)
  <2> SUFFICES ASSUME NEW e \in Elem PROVE SigOf(I)[e] =< u[e]
    BY DEF Below
  <2>1. CASE SigOf(I)[e] = Absent
    BY <2>1, SignalRange
  <2>2. CASE \E i \in I : i[2][e] = SigOf(I)[e]
    BY <1>4, <2>2 DEF Below
  <2> QED BY <1>2, <2>1, <2>2
<1>5. ASSUME NEW i \in I PROVE Below(i[2], SigOf(I))
  BY <1>2 DEF Below
<1> QED BY <1>3, <1>4, <1>5

-----------------------------------------------------------------------------
(* The invariant *)

States == {"down", "connecting", "up"}
PollState == [st : {"idle", "request", "reply"}, sig : Signals, inps : SUBSET Input]

ServerTypes ==
    /\ maxSignal \in Signals /\ corpusSignal \in Signals
    /\ corpus \in [Prog -> Signals]
    /\ lastMinCorpus \in 0 .. Cardinality(Prog)
    /\ newMaxSignal \in [Fuzzer -> Signals]
    /\ inputs \in [Fuzzer -> SUBSET Input]

FuzzerTypes ==
    /\ state \in [Fuzzer -> States]
    /\ snapshot \in [Fuzzer -> SUBSET Input] /\ sent \in [Fuzzer -> SUBSET Input]
    /\ fMax \in [Fuzzer -> Signals] /\ fCorpus \in [Fuzzer -> Signals] /\ fNew \in [Fuzzer -> Signals]
    /\ poll \in [Fuzzer -> PollState]

WorkTypes ==
    /\ hashes \in [Fuzzer -> SUBSET Prog] /\ queue \in [Fuzzer -> SUBSET Prog]
    /\ running \in [Fuzzer -> SUBSET [p : Prog, diff : Signals]]
    /\ triaging \in [Fuzzer -> SUBSET [p : Prog, new : Signals]]

Types == ServerTypes /\ FuzzerTypes /\ WorkTypes

Leq(s, t, e) == s[e] =< t[e]

\* Every input on its way, and every one of the corpus, counts as corpus signal.
Claimed ==
    /\ \A p \in Prog : Below(corpus[p], corpusSignal)
    /\ \A f \in Fuzzer : \A i \in inputs[f] \cup snapshot[f] \cup sent[f] \cup poll[f].inps :
           Below(i[2], corpusSignal)

\* What a fuzzer reports it has in its max signal.
Reports(f) ==
    /\ Below(fNew[f], fMax[f])
    /\ poll[f].st = "request" => Below(poll[f].sig, fMax[f])

\* What waits for a fuzzer is max signal of the manager.
Waits(f) ==
    /\ Below(newMaxSignal[f], maxSignal)
    /\ poll[f].st = "reply" => Below(poll[f].sig, maxSignal)

\* MaxSignalReaches and NewSignalReported, element by element.
Reaches(f) ==
    state[f] = "up" => \A e \in Elem :
        \/ Leq(maxSignal, fMax[f], e) \/ Leq(maxSignal, newMaxSignal[f], e)
        \/ poll[f].st = "reply" /\ Leq(maxSignal, poll[f].sig, e)

Reported(f) ==
    \A e \in Elem :
        \/ Leq(fMax[f], maxSignal, e) \/ Leq(fMax[f], corpusSignal, e) \/ Leq(fMax[f], fNew[f], e)
        \/ poll[f].st = "request" /\ Leq(fMax[f], poll[f].sig, e)

Flows == \A f \in Fuzzer : Reports(f) /\ Waits(f) /\ Reaches(f) /\ Reported(f)

CorpusInv == Types /\ Claimed /\ Flows

\* The types of the proof are those of the specification.
LEMMA TypesSuffice == Types => TypeOK
<1> SUFFICES ASSUME Types PROVE TypeOK
  OBVIOUS
<1>1. ASSUME NEW f \in Fuzzer
      PROVE  /\ {fMax[f], fCorpus[f], fNew[f], newMaxSignal[f], poll[f].sig} \subseteq Signals
             /\ inputs[f] \cup snapshot[f] \cup sent[f] \cup poll[f].inps \subseteq Prog \X Signals
             /\ hashes[f] \cup queue[f] \subseteq Prog
  <2>1. poll[f] \in PollState
    BY DEF Types, FuzzerTypes
  <2>2. poll[f].sig \in Signals /\ poll[f].inps \in SUBSET Input
    BY <2>1 DEF PollState
  <2> QED BY <2>2, SMTT(60) DEF Types, ServerTypes, FuzzerTypes, WorkTypes, Input
<1> QED BY <1>1 DEF TypeOK, Types, ServerTypes

\* Nothing of a poll that is idle.
LEMMA IdleType == Idle \in PollState /\ Idle.st = "idle" /\ Idle.inps = {}
<1>1. Nil \in Signals
  BY PrioAssumption, SMTT(60) DEF Nil, Signals, Absent
<1> QED BY <1>1 DEF Idle, PollState

\* minimizeCorpus drops inputs and changes none.
LEMMA MinimizedParts ==
    ASSUME NEW c \in [Prog -> Signals], NEW d \in Minimized(c)
    PROVE  d \in [Prog -> Signals] /\ \A p \in Prog : d[p] = c[p] \/ d[p] = Nil
<1>1. PICK S : d = [p \in Prog |-> IF p \in S THEN c[p] ELSE Nil]
  BY DEF Minimized
<1>2. Nil \in Signals
  BY PrioAssumption, SMTT(60) DEF Nil, Signals, Absent
<1> QED BY <1>1, <1>2

-----------------------------------------------------------------------------
(* Types *)

\* Initially everything is empty.
LEMMA TypesInit == Init => Types
<1> SUFFICES ASSUME Init PROVE Types
  OBVIOUS
<1>1. Nil \in Signals
  BY PrioAssumption, SMTT(60) DEF Nil, Signals, Absent
<1>2. 0 \in 0 .. Cardinality(Prog)
  BY ProgAssumption, FS_CardinalityType, SMTT(60)
<1>3. ServerTypes
  BY <1>1, <1>2 DEF Init, ServerTypes
<1>4. FuzzerTypes
  BY <1>1, IdleType DEF Init, FuzzerTypes, States
<1>5. WorkTypes
  BY DEF Init, WorkTypes
<1> QED BY <1>3, <1>4, <1>5 DEF Types

\* Connect keeps the types.
LEMMA TypesConnect ==
    ASSUME Types, NEW f \in Fuzzer, ConnectSnapshot(f) \/ ConnectRegister(f)
    PROVE  Types'
<1> USE DEF Types
<1>1. CASE ConnectSnapshot(f)
  <2>1. corpus' \in [Prog -> Signals]
    BY <1>1, MinimizedParts DEF ConnectSnapshot, ServerTypes
  <2>2. lastMinCorpus' \in 0 .. Cardinality(Prog)
    <3>1. ASSUME NEW S \in SUBSET Prog PROVE Cardinality(S) \in 0 .. Cardinality(Prog)
      <4>1. IsFiniteSet(S) /\ Cardinality(S) =< Cardinality(Prog)
        BY ProgAssumption, FS_Subset
      <4> QED BY <4>1, ProgAssumption, FS_CardinalityType, SMTT(60)
    <3>2. {p \in Prog : corpus'[p] # Nil} \in SUBSET Prog
      OBVIOUS
    <3>3. lastMinCorpus' = lastMinCorpus \/ lastMinCorpus' = Cardinality({p \in Prog : corpus'[p] # Nil})
      BY <1>1 DEF ConnectSnapshot
    <3> QED BY <3>1, <3>2, <3>3 DEF ServerTypes
  <2>3. ServerTypes'
    BY <1>1, <2>1, <2>2 DEF ConnectSnapshot, ServerTypes
  <2>4. {<<p, corpus'[p]>> : p \in {q \in Prog : corpus'[q] # Nil}} \in SUBSET Input
    BY <2>1, SMTT(60) DEF Input
  <2>5. FuzzerTypes'
    BY <1>1, <2>4 DEF ConnectSnapshot, FuzzerTypes, States
  <2>6. WorkTypes'
    BY <1>1 DEF ConnectSnapshot, WorkTypes
  <2> QED BY <2>3, <2>5, <2>6
<1>2. CASE ConnectRegister(f)
  <2>1. ServerTypes'
    BY <1>2 DEF ConnectRegister, ServerTypes, FuzzerTypes
  <2>2. FuzzerTypes'
    BY <1>2 DEF ConnectRegister, FuzzerTypes, States
  <2>3. WorkTypes'
    BY <1>2 DEF ConnectRegister, WorkTypes
  <2> QED BY <2>1, <2>2, <2>3
<1> QED BY <1>1, <1>2

\* PollServe with its choices: the split sp of what waits for f, and the batch b.
Served(f, sp, b) ==
    /\ newMaxSignal' = [g \in Fuzzer |->
          IF g = f THEN sp[2]
          ELSE IF g \in Registered THEN Merge(newMaxSignal[g], Diff(maxSignal, poll[f].sig))
          ELSE newMaxSignal[g]]
    /\ inputs' = [inputs EXCEPT ![f] = @ \ b]
    /\ poll' = [poll EXCEPT ![f] = [st |-> "reply", sig |-> sp[1], inps |-> b]]

\* The parts of the new max signal and of the inputs that Poll replies with.
LEMMA ServeParts ==
    ASSUME Types, NEW f \in Fuzzer, PollServe(f)
    PROVE  \E sp \in Signals \X Signals, b \in SUBSET inputs[f] :
             /\ \A e \in Elem : /\ sp[1][e] =< newMaxSignal[f][e] /\ sp[2][e] =< newMaxSignal[f][e]
                                /\ sp[1][e] = newMaxSignal[f][e] \/ sp[2][e] = newMaxSignal[f][e]
             /\ Served(f, sp, b)
<1>1. newMaxSignal[f] \in Signals
  BY DEF Types, ServerTypes
<1>2. PICK sp \in Split(newMaxSignal[f], SplitSize), b \in {{}} \cup Batches(inputs[f]) : Served(f, sp, b)
  BY DEF PollServe, Served
<1>3. /\ sp \in Signals \X Signals
      /\ \A e \in Elem : /\ sp[1][e] =< newMaxSignal[f][e] /\ sp[2][e] =< newMaxSignal[f][e]
                         /\ sp[1][e] = newMaxSignal[f][e] \/ sp[2][e] = newMaxSignal[f][e]
  BY <1>1, SplitParts
<1>4. b \in SUBSET inputs[f]
  BY DEF Batches
<1> QED BY <1>2, <1>3, <1>4

\* The types of a poll.
LEMMA PollFields ==
    ASSUME Types, NEW f \in Fuzzer
    PROVE  /\ poll[f] \in PollState /\ poll[f].sig \in Signals /\ poll[f].inps \in SUBSET Input
           /\ fMax[f] \in Signals /\ fCorpus[f] \in Signals /\ fNew[f] \in Signals
           /\ newMaxSignal[f] \in Signals /\ inputs[f] \in SUBSET Input
           /\ maxSignal \in Signals /\ corpusSignal \in Signals
<1>1. poll[f] \in PollState
  BY DEF Types, FuzzerTypes
<1>2. poll[f].sig \in Signals /\ poll[f].inps \in SUBSET Input
  BY <1>1 DEF PollState
<1> QED BY <1>1, <1>2 DEF Types, ServerTypes, FuzzerTypes

\* A poll keeps the types.
LEMMA TypesPoll ==
    ASSUME Types, NEW f \in Fuzzer, PollRequest(f) \/ PollServe(f) \/ PollApply(f)
    PROVE  Types'
<1> USE DEF Types
<1>0. Nil \in Signals
  BY PrioAssumption, SMTT(60) DEF Nil, Signals, Absent
<1>1. CASE PollRequest(f)
  <2>1. [st |-> "request", sig |-> fNew[f], inps |-> {}] \in PollState
    BY PollFields DEF PollState
  <2>2. FuzzerTypes'
    BY <1>0, <1>1, <2>1 DEF PollRequest, FuzzerTypes
  <2>3. ServerTypes' /\ WorkTypes'
    BY <1>1 DEF PollRequest, ServerTypes, WorkTypes, server
  <2> QED BY <2>2, <2>3
<1>2. CASE PollServe(f)
  <2> DEFINE d == Diff(maxSignal, poll[f].sig)
  <2>1. d \in Signals
    BY PollFields, SignalOps
  <2>2. maxSignal' \in Signals
    BY <1>2, <2>1, PollFields, SignalOps, SMTT(60) DEF PollServe
  <2>a. PICK sp \in Signals \X Signals, b \in SUBSET inputs[f] : Served(f, sp, b)
    BY <1>2, ServeParts
  <2>3. /\ newMaxSignal' = [g \in Fuzzer |->
              IF g = f THEN sp[2]
              ELSE IF g \in Registered THEN Merge(newMaxSignal[g], d)
              ELSE newMaxSignal[g]]
        /\ inputs' = [inputs EXCEPT ![f] = @ \ b]
        /\ poll' = [poll EXCEPT ![f] = [st |-> "reply", sig |-> sp[1], inps |-> b]]
    BY <2>a DEF Served
  <2> HIDE DEF d
  <2>4. \A g \in Fuzzer : Merge(newMaxSignal[g], d) \in Signals
    BY <2>1, PollFields, SignalOps
  <2>5. newMaxSignal' \in [Fuzzer -> Signals]
    BY <2>3, <2>4, PollFields
  <2>6. inputs' \in [Fuzzer -> SUBSET Input]
    BY <2>3 DEF ServerTypes
  <2>7. [st |-> "reply", sig |-> sp[1], inps |-> b] \in PollState
    BY <2>3, PollFields DEF PollState
  <2>8. poll' \in [Fuzzer -> PollState]
    BY <2>3, <2>7 DEF FuzzerTypes
  <2>9. UNCHANGED <<corpusSignal, corpus, lastMinCorpus, state, snapshot, fMax, fCorpus, fNew,
                    hashes, running, queue, triaging, sent>>
    BY <1>2 DEF PollServe
  <2> QED BY <2>2, <2>5, <2>6, <2>8, <2>9 DEF ServerTypes, FuzzerTypes, WorkTypes
<1>3. CASE PollApply(f)
  <2> DEFINE s == SigOf(poll[f].inps)
  <2>1. s \in Signals
    BY PollFields, SigOfBound
  <2>2. fMax' = [fMax EXCEPT ![f] = Merge(Merge(fMax[f], poll[f].sig), s)]
        /\ fCorpus' = [fCorpus EXCEPT ![f] = Merge(fCorpus[f], s)]
    BY <1>3 DEF PollApply
  <2> HIDE DEF s
  <2>3. Merge(fMax[f], poll[f].sig) \in Signals /\ Merge(fCorpus[f], s) \in Signals
    BY <2>1, PollFields, SignalOps
  <2>4. Merge(Merge(fMax[f], poll[f].sig), s) \in Signals
    BY <2>1, <2>3, SignalOps
  <2>5. fMax' \in [Fuzzer -> Signals] /\ fCorpus' \in [Fuzzer -> Signals]
    BY <2>2, <2>3, <2>4 DEF FuzzerTypes
  <2>6. {i[1] : i \in poll[f].inps} \subseteq Prog
    BY PollFields DEF Input
  <2>7. hashes' \in [Fuzzer -> SUBSET Prog]
    BY <1>3, <2>6 DEF PollApply, WorkTypes
  <2>8. poll' \in [Fuzzer -> PollState]
    BY <1>3, IdleType DEF PollApply, FuzzerTypes
  <2>9. UNCHANGED <<server, state, snapshot, fNew, running, queue, triaging, sent>>
    BY <1>3 DEF PollApply
  <2> QED BY <2>5, <2>7, <2>8, <2>9 DEF ServerTypes, FuzzerTypes, WorkTypes, server
<1> QED BY <1>1, <1>2, <1>3

\* Executing and triaging keeps the types.
LEMMA TypesTriage ==
    ASSUME Types, NEW f \in Fuzzer,
           \/ \E p \in Prog : Execute(f, p)
           \/ \E r \in running[f] : ExecuteMerge(f, r)
           \/ \E p \in queue[f] : TriageStart(f, p)
           \/ \E t \in triaging[f] : TriageGiveUp(f, t)
           \/ \E i \in sent[f] : TriageAdd(f, i)
    PROVE  Types'
<1> USE DEF Types
<1>1. ASSUME NEW p \in Prog, Execute(f, p) PROVE Types'
  <2>1. Diff(fMax[f], Real[p]) \in Signals
    BY PollFields, SignalOps, ProgAssumption
  <2>2. [p |-> p, diff |-> Diff(fMax[f], Real[p])] \in [p : Prog, diff : Signals]
    BY <2>1
  <2>3. WorkTypes'
    BY <1>1, <2>2 DEF Execute, WorkTypes
  <2> QED BY <1>1, <2>3 DEF Execute, ServerTypes, FuzzerTypes, server
<1>2. ASSUME NEW r \in running[f], ExecuteMerge(f, r) PROVE Types'
  <2>1. r \in [p : Prog, diff : Signals]
    BY DEF WorkTypes
  <2>2. r.p \in Prog /\ r.diff \in Signals
    BY <2>1
  <2>3. Merge(fMax[f], r.diff) \in Signals /\ Merge(fNew[f], r.diff) \in Signals
    BY <2>2, PollFields, SignalOps
  <2>4. fMax' \in [Fuzzer -> Signals] /\ fNew' \in [Fuzzer -> Signals]
    BY <1>2, <2>3 DEF ExecuteMerge, FuzzerTypes
  <2>5. WorkTypes'
    BY <1>2, <2>2 DEF ExecuteMerge, WorkTypes
  <2> QED BY <1>2, <2>4, <2>5 DEF ExecuteMerge, ServerTypes, FuzzerTypes, server
<1>3. ASSUME NEW p \in queue[f], TriageStart(f, p) PROVE Types'
  <2> DEFINE new == Diff(fCorpus[f], Real[p])
  <2>1. p \in Prog
    BY DEF WorkTypes
  <2>2. new \in Signals
    BY <2>1, PollFields, SignalOps, ProgAssumption
  <2>3. /\ queue' = [queue EXCEPT ![f] = @ \ {p}]
        /\ triaging' = IF new = Nil THEN triaging
                       ELSE [triaging EXCEPT ![f] = @ \cup {[p |-> p, new |-> new]}]
    BY <1>3 DEF TriageStart
  <2> HIDE DEF new
  <2>4. [p |-> p, new |-> new] \in [p : Prog, new : Signals]
    BY <2>1, <2>2
  <2>5. queue' \in [Fuzzer -> SUBSET Prog] /\ triaging' \in [Fuzzer -> SUBSET [p : Prog, new : Signals]]
    BY <2>3, <2>4 DEF WorkTypes
  <2> QED BY <1>3, <2>5 DEF TriageStart, ServerTypes, FuzzerTypes, WorkTypes, server
<1>4. ASSUME NEW t \in triaging[f], TriageGiveUp(f, t) PROVE Types'
  <2>1. WorkTypes'
    BY <1>4 DEF TriageGiveUp, WorkTypes
  <2> QED BY <1>4, <2>1 DEF TriageGiveUp, ServerTypes, FuzzerTypes, server
<1>5. ASSUME NEW i \in sent[f], TriageAdd(f, i) PROVE Types'
  <2>1. i[1] \in Prog /\ i[2] \in Signals
    BY SMTT(60) DEF FuzzerTypes, Input
  <2>2. Merge(fMax[f], i[2]) \in Signals /\ Merge(fCorpus[f], i[2]) \in Signals
    BY <2>1, PollFields, SignalOps, SMTT(60)
  <2>3. fMax' \in [Fuzzer -> Signals] /\ fCorpus' \in [Fuzzer -> Signals] /\ sent' \in [Fuzzer -> SUBSET Input]
    BY <1>5, <2>2 DEF TriageAdd, FuzzerTypes
  <2>4. hashes' \in [Fuzzer -> SUBSET Prog]
    BY <1>5, <2>1 DEF TriageAdd, WorkTypes
  <2> QED BY <1>5, <2>3, <2>4 DEF TriageAdd, ServerTypes, FuzzerTypes, WorkTypes, server
<1> QED BY <1>1, <1>2, <1>3, <1>4, <1>5

\* Sending an input to the manager keeps the types.
LEMMA TypesSend ==
    ASSUME Types, NEW f \in Fuzzer, NEW t \in triaging[f], NEW q \in Prog, TriageSend(f, t, q)
    PROVE  Types' /\ t.p \in Prog /\ Real[t.p] \in Signals
<1> USE DEF Types
<1>1. t \in [p : Prog, new : Signals]
  BY DEF WorkTypes
<1>2. t.p \in Prog /\ Real[t.p] \in Signals
  BY <1>1, ProgAssumption
<1>3. <<q, Real[t.p]>> \in Input
  BY <1>2 DEF Input
<1>4. corpus[q] \in Signals /\ corpusSignal \in Signals
  BY DEF ServerTypes
<1>5. Merge(Real[t.p], corpus[q]) \in Signals
  BY <1>2, <1>4, SignalOps
<1>6. Merge(corpusSignal, Merge(Real[t.p], corpus[q])) \in Signals
  BY <1>4, <1>5, SignalOps, SMTT(60)
<1>7. /\ corpusSignal' \in Signals /\ corpus' \in [Prog -> Signals] /\ inputs' \in [Fuzzer -> SUBSET Input]
  <2>1. NewInput(f, q, Real[t.p])
    BY DEF TriageSend
  <2>2. CASE Diff(corpusSignal, Real[t.p]) = Nil
    BY <2>1, <2>2 DEF NewInput, ServerTypes
  <2>3. CASE Diff(corpusSignal, Real[t.p]) # Nil
    <3>1. /\ corpus' = [corpus EXCEPT ![q] = Merge(Real[t.p], corpus[q])]
          /\ corpusSignal' = Merge(corpusSignal, Merge(Real[t.p], corpus[q]))
          /\ inputs' = [g \in Fuzzer |-> IF g \in Registered \ {f}
                                         THEN inputs[g] \cup {<<q, Real[t.p]>>} ELSE inputs[g]]
      BY <2>1, <2>3 DEF NewInput
    <3>2. \A g \in Fuzzer : inputs[g] \in SUBSET Input /\ inputs[g] \cup {<<q, Real[t.p]>>} \in SUBSET Input
      BY <1>3 DEF ServerTypes
    <3>3. inputs' \in [Fuzzer -> SUBSET Input]
      BY <3>1, <3>2
    <3> QED BY <1>5, <1>6, <3>1, <3>3 DEF ServerTypes
  <2> QED BY <2>2, <2>3
<1>8. sent' \in [Fuzzer -> SUBSET Input] /\ triaging' \in [Fuzzer -> SUBSET [p : Prog, new : Signals]]
  BY <1>3 DEF TriageSend, FuzzerTypes, WorkTypes
<1>9. UNCHANGED <<maxSignal, lastMinCorpus, newMaxSignal, state, snapshot, fMax, fCorpus, fNew,
                  hashes, running, queue, poll>>
  BY DEF TriageSend
<1> QED BY <1>2, <1>7, <1>8, <1>9 DEF ServerTypes, FuzzerTypes, WorkTypes

\* A crash keeps the types.
LEMMA TypesCrash ==
    ASSUME Types, NEW f \in Fuzzer, Crash(f)
    PROVE  Types'
<1> USE DEF Types
<1>1. Nil \in Signals
  BY PrioAssumption, SMTT(60) DEF Nil, Signals, Absent
<1>2. ServerTypes'
  BY <1>1 DEF Crash, ServerTypes
<1>3. FuzzerTypes'
  BY <1>1, IdleType DEF Crash, FuzzerTypes, States
<1>4. WorkTypes'
  BY DEF Crash, WorkTypes
<1> QED BY <1>2, <1>3, <1>4

-----------------------------------------------------------------------------
(* The corpus signal *)

\* Below is transitive, and Merge is the least signal above its arguments.
LEMMA BelowOps ==
    ASSUME NEW s \in Signals, NEW t \in Signals, NEW u \in Signals
    PROVE  /\ Below(Nil, s) /\ Below(s, s)
           /\ Below(s, t) /\ Below(t, u) => Below(s, u)
           /\ Below(s, Merge(s, t)) /\ Below(t, Merge(s, t))
           /\ Below(s, u) /\ Below(t, u) => Below(Merge(s, t), u)
           /\ Diff(s, t) = Nil => Below(t, s)
           /\ Below(Diff(s, t), t) /\ Below(t, Merge(s, Diff(s, t)))
<1>1. Diff(s, t) \in Signals
  BY SignalOps
<1>2. ASSUME NEW e \in Elem
      PROVE  /\ s[e] \in Int /\ t[e] \in Int /\ u[e] \in Int
             /\ Absent =< s[e] /\ Absent =< t[e] /\ Nil[e] = Absent /\ Absent \in Int
             /\ Merge(s, t)[e] = IF s[e] < t[e] THEN t[e] ELSE s[e]
             /\ Diff(s, t)[e] = IF s[e] >= t[e] THEN Absent ELSE t[e]
             /\ Merge(s, Diff(s, t))[e] = IF s[e] < Diff(s, t)[e] THEN Diff(s, t)[e] ELSE s[e]
  BY <1>1, SignalOps, SignalRange, SMTT(60)
<1>3. Below(Nil, s) /\ Below(s, s)
  BY <1>2, SMTT(60) DEF Below
<1>4. Below(s, t) /\ Below(t, u) => Below(s, u)
  BY <1>2, SMTT(60) DEF Below
<1>5. Below(s, Merge(s, t)) /\ Below(t, Merge(s, t))
  BY <1>2, SMTT(60) DEF Below
<1>6. Below(s, u) /\ Below(t, u) => Below(Merge(s, t), u)
  BY <1>2 DEF Below
<1>7. Diff(s, t) = Nil => Below(t, s)
  BY SignalOps DEF Below
<1>8. Below(Diff(s, t), t) /\ Below(t, Merge(s, Diff(s, t)))
  BY <1>2, SMTT(60) DEF Below
<1> QED BY <1>3, <1>4, <1>5, <1>6, <1>7, <1>8

\* The inputs on their way to or from a fuzzer.
Carried(f) == inputs[f] \cup snapshot[f] \cup sent[f] \cup poll[f].inps

\* Steps that leave the corpus signal alone and carry no input that is not known.
LEMMA ClaimedKept ==
    ASSUME Claimed, UNCHANGED corpusSignal,
           \A p \in Prog : Below(corpus'[p], corpusSignal),
           \A g \in Fuzzer : \A i \in Carried(g)' : i \in Carried(g) \/ Below(i[2], corpusSignal)
    PROVE  Claimed'
  BY DEF Claimed, Carried

\* NewInput adds the signal of the input it sends on; every other step carries
\* inputs that were carried, or are in the corpus.
LEMMA ClaimedStep ==
    ASSUME Types, Types', Claimed, Next
    PROVE  Claimed'
<1>0. PICK f \in Fuzzer : Steps(f) \/ Crash(f) \/ \E p \in Prog : Execute(f, p)
  BY DEF Next
<1>a. \A p \in Prog : corpus[p] \in Signals /\ Below(corpus[p], corpusSignal)
  BY DEF Claimed, Types, ServerTypes
<1>b. /\ inputs \in [Fuzzer -> SUBSET Input] /\ snapshot \in [Fuzzer -> SUBSET Input]
      /\ sent \in [Fuzzer -> SUBSET Input] /\ poll \in [Fuzzer -> PollState]
  BY DEF Types, ServerTypes, FuzzerTypes
<1>c. corpusSignal \in Signals
  BY DEF Types, ServerTypes
<1>1. CASE ConnectSnapshot(f)
  <2>1. \A p \in Prog : corpus'[p] = corpus[p] \/ corpus'[p] = Nil
    BY <1>1, MinimizedParts DEF ConnectSnapshot, Types, ServerTypes
  <2>2. \A p \in Prog : Below(corpus'[p], corpusSignal)
    BY <1>a, <1>c, <2>1, BelowOps
  <2>3. ASSUME NEW g \in Fuzzer, NEW i \in Carried(g)', i \notin Carried(g)
        PROVE  Below(i[2], corpusSignal)
    <3>1. i \in snapshot'[g] /\ i \notin snapshot[g]
      BY <1>1, <2>3 DEF ConnectSnapshot, Carried
    <3>2. i \in {<<p, corpus'[p]>> : p \in {q \in Prog : corpus'[q] # Nil}}
      BY <1>1, <1>b, <3>1 DEF ConnectSnapshot
    <3>3. PICK p \in Prog : i = <<p, corpus'[p]>>
      BY <3>2
    <3> QED BY <2>2, <3>3
  <2>4. UNCHANGED corpusSignal
    BY <1>1 DEF ConnectSnapshot
  <2> QED BY <2>2, <2>3, <2>4, ClaimedKept
<1>2. CASE ConnectRegister(f)
  <2>1. UNCHANGED <<corpusSignal, corpus>> /\ \A g \in Fuzzer : Carried(g)' \subseteq Carried(g)
    BY <1>2, <1>b DEF ConnectRegister, Carried
  <2> QED BY <1>a, <2>1, ClaimedKept
<1>3. CASE PollRequest(f)
  <2>1. UNCHANGED <<corpusSignal, corpus>> /\ \A g \in Fuzzer : Carried(g)' \subseteq Carried(g)
    BY <1>3, <1>b DEF PollRequest, Carried, server
  <2> QED BY <1>a, <2>1, ClaimedKept
<1>4. CASE PollServe(f)
  <2>0. PICK sp \in Signals \X Signals, b \in SUBSET inputs[f] : Served(f, sp, b)
    BY <1>4, ServeParts
  <2>1. UNCHANGED <<corpusSignal, corpus, snapshot, sent>>
    BY <1>4 DEF PollServe
  <2>2. \A g \in Fuzzer : Carried(g)' \subseteq Carried(g)
    BY <2>0, <2>1, <1>b DEF Served, Carried
  <2> QED BY <1>a, <2>1, <2>2, ClaimedKept
<1>5. CASE PollApply(f)
  <2>1. UNCHANGED <<corpusSignal, corpus>> /\ \A g \in Fuzzer : Carried(g)' \subseteq Carried(g)
    BY <1>5, <1>b, IdleType DEF PollApply, Carried, server
  <2> QED BY <1>a, <2>1, ClaimedKept
<1>6. ASSUME NEW t \in triaging[f], NEW q \in Prog, TriageSend(f, t, q) PROVE Claimed'
  <2> DEFINE sig == Real[t.p]
             all == Merge(sig, corpus[q])
  <2>1. sig \in Signals
    BY <1>6, TypesSend
  <2>2. all \in Signals /\ corpusSignal' \in Signals
    BY <1>a, <2>1, SignalOps DEF Types, ServerTypes
  <2>3. NewInput(f, q, sig)
    BY <1>6 DEF TriageSend
  <2>4. /\ Below(corpusSignal, corpusSignal') /\ Below(sig, corpusSignal')
        /\ \A p \in Prog : corpus'[p] = corpus[p] \/ (corpus'[p] = all /\ Below(all, corpusSignal'))
    <3>1. CASE Diff(corpusSignal, sig) = Nil
      BY <1>c, <2>1, <2>3, <3>1, BelowOps DEF NewInput
    <3>2. CASE Diff(corpusSignal, sig) # Nil
      <4>1. corpusSignal' = Merge(corpusSignal, all) /\ corpus' = [corpus EXCEPT ![q] = all]
        BY <2>3, <3>2 DEF NewInput
      <4>2. Below(corpusSignal, corpusSignal') /\ Below(all, corpusSignal') /\ Below(sig, all)
        BY <1>a, <1>c, <2>1, <2>2, <4>1, BelowOps
      <4>3. Below(sig, corpusSignal')
        BY <2>1, <2>2, <4>2, BelowOps, SMTT(60)
      <4>4. \A p \in Prog : corpus'[p] = corpus[p] \/ corpus'[p] = all
        <5> HIDE DEF all
        <5> QED BY <4>1 DEF Types, ServerTypes
      <4> QED BY <4>2, <4>3, <4>4
    <3> QED BY <3>1, <3>2
  <2>5. \A p \in Prog : Below(corpus'[p], corpusSignal')
    BY <1>a, <1>c, <2>2, <2>4, BelowOps
  <2>6. ASSUME NEW g \in Fuzzer, NEW i \in Carried(g)' PROVE Below(i[2], corpusSignal')
    <3>1. i \in Carried(g) \/ i = <<q, sig>>
      <4>1. /\ sent' = [sent EXCEPT ![f] = @ \cup {<<q, sig>>}]
            /\ UNCHANGED <<snapshot, poll>>
        BY <1>6 DEF TriageSend
      <4>2. inputs'[g] \subseteq inputs[g] \cup {<<q, sig>>}
        BY <2>3 DEF NewInput
      <4> HIDE DEF sig
      <4>3. sent'[g] \subseteq sent[g] \cup {<<q, sig>>}
        BY <4>1, <1>b
      <4> QED BY <4>1, <4>2, <4>3 DEF Carried
    <3>2. CASE i \in Carried(g)
      <4>1. i[2] \in Signals /\ Below(i[2], corpusSignal)
        BY <3>2, <1>b, SMTT(60) DEF Carried, Claimed, Input, PollState
      <4> QED BY <1>c, <2>2, <2>4, <4>1, BelowOps
    <3>3. CASE i = <<q, sig>>
      BY <2>4, <3>3
    <3> QED BY <3>1, <3>2, <3>3
  <2> QED BY <2>5, <2>6 DEF Claimed, Carried
<1>7. CASE \/ \E p \in Prog : Execute(f, p)
           \/ \E r \in running[f] : ExecuteMerge(f, r)
           \/ \E p \in queue[f] : TriageStart(f, p)
           \/ \E t \in triaging[f] : TriageGiveUp(f, t)
  <2>1. UNCHANGED <<corpusSignal, corpus, inputs, snapshot, sent, poll>>
    BY <1>7 DEF Execute, ExecuteMerge, TriageStart, TriageGiveUp, server
  <2> QED BY <1>a, <2>1, ClaimedKept DEF Carried
<1>8. ASSUME NEW i \in sent[f], TriageAdd(f, i) PROVE Claimed'
  <2>1. UNCHANGED <<corpusSignal, corpus>> /\ \A g \in Fuzzer : Carried(g)' \subseteq Carried(g)
    BY <1>8, <1>b DEF TriageAdd, Carried, server
  <2> QED BY <1>a, <2>1, ClaimedKept
<1>9. CASE Crash(f)
  <2>1. UNCHANGED <<corpusSignal, corpus>> /\ \A g \in Fuzzer : Carried(g)' \subseteq Carried(g)
    BY <1>9, <1>b, IdleType DEF Crash, Carried
  <2> QED BY <1>a, <2>1, ClaimedKept
<1> QED BY <1>0, <1>1, <1>2, <1>3, <1>4, <1>5, <1>6, <1>7, <1>8, <1>9 DEF Steps

-----------------------------------------------------------------------------
(* The flow of max signal *)

Flow(f) == Reports(f) /\ Waits(f) /\ Reaches(f) /\ Reported(f)

\* The priorities of one element, which are integers.
LEMMA Priorities ==
    ASSUME Types, NEW f \in Fuzzer, NEW e \in Elem
    PROVE  /\ maxSignal[e] \in Int /\ corpusSignal[e] \in Int
           /\ fMax[f][e] \in Int /\ fNew[f][e] \in Int /\ newMaxSignal[f][e] \in Int /\ poll[f].sig[e] \in Int
  BY PollFields, SignalRange

\* A step that leaves a fuzzer and the max signal alone, and only adds to the
\* corpus signal.
LEMMA FlowKept ==
    ASSUME Types, Types', NEW g \in Fuzzer, Flow(g), Below(corpusSignal, corpusSignal'),
           UNCHANGED <<maxSignal, fMax[g], fNew[g], newMaxSignal[g], poll[g]>>,
           state'[g] = "up" => state[g] = "up"
    PROVE  Flow(g)'
<1>1. Reports(g)' /\ Waits(g)' /\ Reaches(g)'
  BY DEF Flow, Reports, Waits, Reaches, Below, Leq
<1>2. Reported(g)'
  <2> SUFFICES ASSUME NEW e \in Elem
               PROVE  \/ Leq(fMax[g], maxSignal, e) \/ Leq(fMax[g], corpusSignal', e) \/ Leq(fMax[g], fNew[g], e)
                      \/ poll[g].st = "request" /\ Leq(fMax[g], poll[g].sig, e)
    BY DEF Reported, Leq
  <2>1. corpusSignal[e] =< corpusSignal'[e] /\ corpusSignal'[e] \in Int
    BY SignalRange DEF Below, Types, ServerTypes
  <2> QED BY <2>1, Priorities, SMTT(60) DEF Flow, Reported, Leq
<1> QED BY <1>1, <1>2 DEF Flow

\* The request takes the new signal of the fuzzer with it.
LEMMA FlowRequest ==
    ASSUME Types, NEW f \in Fuzzer, Flow(f), PollRequest(f)
    PROVE  Flow(f)'
<1>1. /\ poll[f].st = "idle"
      /\ poll'[f] = [st |-> "request", sig |-> fNew[f], inps |-> {}]
      /\ fNew'[f] = Nil
      /\ UNCHANGED <<maxSignal, corpusSignal, newMaxSignal, state, fMax>>
  BY DEF PollRequest, server, Types, FuzzerTypes
<1>2. poll'[f].st = "request" /\ poll'[f].sig = fNew[f]
  BY <1>1, SMTT(60)
<1>3. Reports(f)'
  <2>1. Below(Nil, fMax[f]) /\ Below(fNew[f], fMax[f])
    BY PollFields, BelowOps DEF Flow, Reports
  <2> QED BY <1>1, <1>2, <2>1 DEF Reports
<1>4. Waits(f)'
  BY <1>1, <1>2 DEF Flow, Waits
<1>5. Reaches(f)'
  BY <1>1, <1>2 DEF Flow, Reaches, Leq
<1>6. Reported(f)'
  BY <1>1, <1>2 DEF Flow, Reported, Leq
<1> QED BY <1>3, <1>4, <1>5, <1>6 DEF Flow

\* The handler: what is new goes to the manager, and to every other fuzzer.
LEMMA FlowServe ==
    ASSUME Types, Types', NEW f \in Fuzzer, \A g \in Fuzzer : Flow(g), PollServe(f), NEW g \in Fuzzer
    PROVE  Flow(g)'
<1> DEFINE d == Diff(maxSignal, poll[f].sig)
<1>1. PICK sp \in Signals \X Signals, b \in SUBSET inputs[f] :
             /\ \A e \in Elem : /\ sp[1][e] =< newMaxSignal[f][e] /\ sp[2][e] =< newMaxSignal[f][e]
                                /\ sp[1][e] = newMaxSignal[f][e] \/ sp[2][e] = newMaxSignal[f][e]
             /\ Served(f, sp, b)
  BY ServeParts
<1>2. poll[f].st = "request" /\ maxSignal' = Merge(maxSignal, d)
      /\ UNCHANGED <<corpusSignal, state, fMax, fNew>>
  BY DEF PollServe
<1>3. /\ newMaxSignal'[f] = sp[2]
      /\ g # f => newMaxSignal'[g] = IF g \in Registered THEN Merge(newMaxSignal[g], d) ELSE newMaxSignal[g]
  BY <1>1 DEF Served
<1>4. /\ poll'[f] = [st |-> "reply", sig |-> sp[1], inps |-> b]
      /\ g # f => poll'[g] = poll[g]
  BY <1>1 DEF Served, Types, FuzzerTypes
<1>5. poll'[f].st = "reply" /\ poll'[f].sig = sp[1]
  BY <1>4, SMTT(60)
<1>6. d \in Signals
  BY PollFields, SignalOps
<1>7. ASSUME NEW e \in Elem
      PROVE  /\ maxSignal'[e] = IF maxSignal[e] < poll[f].sig[e] THEN poll[f].sig[e] ELSE maxSignal[e]
             /\ Merge(newMaxSignal[g], d)[e] = IF newMaxSignal[g][e] < d[e] THEN d[e] ELSE newMaxSignal[g][e]
             /\ d[e] = IF maxSignal[e] >= poll[f].sig[e] THEN Absent ELSE poll[f].sig[e]
             /\ Absent =< maxSignal[e] /\ Absent =< newMaxSignal[g][e] /\ Absent \in Int
  <2>1. /\ maxSignal'[e] = IF maxSignal[e] < d[e] THEN d[e] ELSE maxSignal[e]
        /\ Merge(newMaxSignal[g], d)[e] = IF newMaxSignal[g][e] < d[e] THEN d[e] ELSE newMaxSignal[g][e]
        /\ d[e] = IF maxSignal[e] >= poll[f].sig[e] THEN Absent ELSE poll[f].sig[e]
    BY <1>2, <1>6, PollFields, SignalOps, SMTT(60)
  <2>2. Absent =< maxSignal[e] /\ Absent =< newMaxSignal[g][e] /\ Absent \in Int
    BY PollFields, SignalRange
  <2> HIDE DEF d
  <2> QED BY <2>1, <2>2, Priorities, SMTT(60)
<1> HIDE DEF d
<1>8. Reports(g)'
  BY <1>2, <1>4, <1>5 DEF Flow, Reports
<1>9. CASE g = f
  <2>1. ASSUME NEW e \in Elem
        PROVE  sp[1][e] =< maxSignal'[e] /\ sp[2][e] =< maxSignal'[e]
    <3>1. newMaxSignal[f][e] =< maxSignal[e]
      BY DEF Flow, Waits, Below
    <3>2. sp[1][e] \in Int /\ sp[2][e] \in Int
      BY SignalRange
    <3> QED BY <1>1, <1>7, <3>1, <3>2, Priorities, SMTT(60)
  <2>2. Waits(f)'
    BY <1>3, <1>5, <2>1 DEF Waits, Below
  <2>3. Reaches(f)'
    <3> SUFFICES ASSUME state[f] = "up", NEW e \in Elem
                 PROVE  \/ maxSignal'[e] =< fMax[f][e] \/ maxSignal'[e] =< sp[2][e]
                        \/ maxSignal'[e] =< sp[1][e]
      BY <1>2, <1>3, <1>5 DEF Reaches, Leq
    <3>1. poll[f].sig[e] =< fMax[f][e]
      BY <1>2 DEF Flow, Reports, Below
    <3>2. maxSignal[e] =< fMax[f][e] \/ maxSignal[e] =< newMaxSignal[f][e]
      BY <1>2 DEF Flow, Reaches, Leq
    <3> QED BY <1>1, <1>7, <3>1, <3>2, Priorities
  <2>4. Reported(f)'
    <3> SUFFICES ASSUME NEW e \in Elem
                 PROVE  fMax[f][e] =< maxSignal'[e] \/ fMax[f][e] =< corpusSignal[e] \/ fMax[f][e] =< fNew[f][e]
      BY <1>2 DEF Reported, Leq
    <3>1. \/ fMax[f][e] =< maxSignal[e] \/ fMax[f][e] =< corpusSignal[e] \/ fMax[f][e] =< fNew[f][e]
          \/ fMax[f][e] =< poll[f].sig[e]
      BY DEF Flow, Reported, Leq
    <3> QED BY <1>7, <3>1, Priorities, SMTT(60)
  <2> QED BY <1>8, <1>9, <2>2, <2>3, <2>4 DEF Flow
<1>10. CASE g # f
  <2>1. ASSUME NEW e \in Elem
        PROVE  /\ maxSignal[e] =< maxSignal'[e] /\ newMaxSignal'[g][e] =< maxSignal'[e]
               /\ maxSignal'[e] \in Int
    <3>1. newMaxSignal[g][e] =< maxSignal[e]
      BY DEF Flow, Waits, Below
    <3> QED BY <1>3, <1>7, <1>10, <3>1, Priorities, SMTT(60)
  <2>2. Waits(g)'
    <3>1. poll[g].st = "reply" => \A e \in Elem : poll[g].sig[e] =< maxSignal'[e]
      BY <2>1, Priorities, SMTT(60) DEF Flow, Waits, Below
    <3> QED BY <1>4, <1>10, <2>1, <3>1 DEF Waits, Below
  <2>3. Reaches(g)'
    <3> SUFFICES ASSUME state[g] = "up", NEW e \in Elem
                 PROVE  \/ maxSignal'[e] =< fMax[g][e] \/ maxSignal'[e] =< newMaxSignal'[g][e]
                        \/ poll[g].st = "reply" /\ maxSignal'[e] =< poll[g].sig[e]
      BY <1>2, <1>4, <1>10 DEF Reaches, Leq
    <3>1. newMaxSignal'[g] = Merge(newMaxSignal[g], d)
      BY <1>3, <1>10 DEF Registered
    <3>2. \/ maxSignal[e] =< fMax[g][e] \/ maxSignal[e] =< newMaxSignal[g][e]
          \/ poll[g].st = "reply" /\ maxSignal[e] =< poll[g].sig[e]
      BY DEF Flow, Reaches, Leq
    <3>3. CASE maxSignal'[e] = maxSignal[e]
      BY <1>7, <3>1, <3>2, <3>3, Priorities, SMTT(60)
    <3>4. CASE maxSignal'[e] # maxSignal[e]
      BY <1>7, <3>1, <3>4, Priorities, SMTT(60)
    <3> QED BY <3>3, <3>4
  <2>4. Reported(g)'
    <3> SUFFICES ASSUME NEW e \in Elem
                 PROVE  \/ fMax[g][e] =< maxSignal'[e] \/ fMax[g][e] =< corpusSignal[e] \/ fMax[g][e] =< fNew[g][e]
                        \/ poll[g].st = "request" /\ fMax[g][e] =< poll[g].sig[e]
      BY <1>2, <1>4, <1>10 DEF Reported, Leq
    <3> QED BY <2>1, Priorities, SMTT(60) DEF Flow, Reported, Leq
  <2> QED BY <1>8, <2>2, <2>3, <2>4 DEF Flow
<1> QED BY <1>9, <1>10

\* A fuzzer whose max signal grows by s, which is new signal or known already.
LEMMA FlowGrows ==
    ASSUME Types, NEW f \in Fuzzer, Flow(f), NEW s \in Signals,
           UNCHANGED <<maxSignal, corpusSignal, newMaxSignal[f], state[f]>>,
           fMax'[f] = Merge(fMax[f], s),
           \/ UNCHANGED <<fNew[f], poll[f]>> /\ Below(s, corpusSignal)
           \/ fNew'[f] = Merge(fNew[f], s) /\ UNCHANGED poll[f]
    PROVE  Flow(f)'
<1>1. ASSUME NEW e \in Elem
      PROVE  /\ fMax'[f][e] = IF fMax[f][e] < s[e] THEN s[e] ELSE fMax[f][e]
             /\ Merge(fNew[f], s)[e] = IF fNew[f][e] < s[e] THEN s[e] ELSE fNew[f][e]
             /\ s[e] \in Int
  BY PollFields, SignalOps, SignalRange, SMTT(60)
<1>2. ASSUME NEW e \in Elem
      PROVE  /\ fMax[f][e] =< fMax'[f][e] /\ fMax'[f][e] \in Int
             /\ \/ fNew'[f][e] = fNew[f][e] /\ s[e] =< corpusSignal[e]
                \/ fNew'[f][e] = IF fNew[f][e] < s[e] THEN s[e] ELSE fNew[f][e]
  BY <1>1, Priorities, SMTT(60) DEF Below
<1>3. UNCHANGED poll[f]
  OBVIOUS
<1>4. Reports(f)'
  <2>1. \A e \in Elem : fNew[f][e] =< fMax[f][e]
    BY DEF Flow, Reports, Below
  <2>2. \A e \in Elem : fNew'[f][e] =< fMax'[f][e]
    BY <1>1, <1>2, <2>1, Priorities, SMTT(60)
  <2>3. poll[f].st = "request" => \A e \in Elem : poll[f].sig[e] =< fMax'[f][e]
    BY <1>2, Priorities, SMTT(60) DEF Flow, Reports, Below
  <2> QED BY <1>3, <2>2, <2>3 DEF Reports, Below
<1>5. Waits(f)'
  BY <1>3 DEF Flow, Waits
<1>6. Reaches(f)'
  <2> SUFFICES ASSUME state[f] = "up", NEW e \in Elem
               PROVE  \/ maxSignal[e] =< fMax'[f][e] \/ maxSignal[e] =< newMaxSignal[f][e]
                      \/ poll[f].st = "reply" /\ maxSignal[e] =< poll[f].sig[e]
    BY <1>3 DEF Reaches, Leq
  <2> QED BY <1>2, Priorities, SMTT(60) DEF Flow, Reaches, Leq
<1>7. Reported(f)'
  <2> SUFFICES ASSUME NEW e \in Elem
               PROVE  \/ fMax'[f][e] =< maxSignal[e] \/ fMax'[f][e] =< corpusSignal[e]
                      \/ fMax'[f][e] =< fNew'[f][e]
                      \/ poll[f].st = "request" /\ fMax'[f][e] =< poll[f].sig[e]
    BY <1>3 DEF Reported, Leq
  <2>1. \/ fMax[f][e] =< maxSignal[e] \/ fMax[f][e] =< corpusSignal[e] \/ fMax[f][e] =< fNew[f][e]
        \/ poll[f].st = "request" /\ fMax[f][e] =< poll[f].sig[e]
    BY DEF Flow, Reported, Leq
  <2> QED BY <1>1, <1>2, <2>1, Priorities, SMTT(60)
<1> QED BY <1>4, <1>5, <1>6, <1>7 DEF Flow

\* The reply adds max signal of the manager and signal of its corpus.
LEMMA FlowApply ==
    ASSUME Types, Claimed, NEW f \in Fuzzer, Flow(f), PollApply(f)
    PROVE  Flow(f)'
<1> DEFINE s == SigOf(poll[f].inps)
           m == Merge(fMax[f], poll[f].sig)
<1>1. s \in Signals /\ Below(s, corpusSignal)
  <2>1. \A i \in poll[f].inps : Below(i[2], corpusSignal)
    BY DEF Claimed
  <2> QED BY <2>1, PollFields, SigOfBound
<1>2. m \in Signals
  BY PollFields, SignalOps
<1>3. /\ poll[f].st = "reply" /\ fMax'[f] = Merge(m, s) /\ poll'[f] = Idle
      /\ UNCHANGED <<maxSignal, corpusSignal, newMaxSignal, state, fNew>>
  BY DEF PollApply, server, Types, FuzzerTypes
<1>4. ASSUME NEW e \in Elem
      PROVE  /\ m[e] = IF fMax[f][e] < poll[f].sig[e] THEN poll[f].sig[e] ELSE fMax[f][e]
             /\ fMax'[f][e] = IF m[e] < s[e] THEN s[e] ELSE m[e]
             /\ s[e] \in Int /\ m[e] \in Int /\ s[e] =< corpusSignal[e]
             /\ poll[f].sig[e] =< maxSignal[e]
  <2>1. m[e] = IF fMax[f][e] < poll[f].sig[e] THEN poll[f].sig[e] ELSE fMax[f][e]
    BY PollFields, SignalOps, SMTT(60)
  <2>2. fMax'[f][e] = IF m[e] < s[e] THEN s[e] ELSE m[e]
    BY <1>1, <1>2, <1>3, SignalOps, SMTT(60)
  <2>3. s[e] \in Int /\ m[e] \in Int
    BY <1>1, <1>2, SignalRange
  <2>4. s[e] =< corpusSignal[e] /\ poll[f].sig[e] =< maxSignal[e]
    BY <1>1, <1>3 DEF Flow, Waits, Below
  <2> QED BY <2>1, <2>2, <2>3, <2>4
<1> HIDE DEF s, m
<1>5. Reports(f)'
  <2>1. \A e \in Elem : fNew[f][e] =< fMax[f][e]
    BY DEF Flow, Reports, Below
  <2>2. \A e \in Elem : fNew[f][e] =< fMax'[f][e]
    BY <1>4, <2>1, Priorities, SMTT(60)
  <2> QED BY <1>3, <2>2, IdleType DEF Reports, Below
<1>6. Waits(f)'
  BY <1>3, IdleType DEF Flow, Waits
<1>7. Reaches(f)'
  <2> SUFFICES ASSUME state[f] = "up", NEW e \in Elem
               PROVE  maxSignal[e] =< fMax'[f][e] \/ maxSignal[e] =< newMaxSignal[f][e]
    BY <1>3 DEF Reaches, Leq
  <2>1. maxSignal[e] =< fMax[f][e] \/ maxSignal[e] =< newMaxSignal[f][e] \/ maxSignal[e] =< poll[f].sig[e]
    BY DEF Flow, Reaches, Leq
  <2> QED BY <1>4, <2>1, Priorities, SMTT(60)
<1>8. Reported(f)'
  <2> SUFFICES ASSUME NEW e \in Elem
               PROVE  fMax'[f][e] =< maxSignal[e] \/ fMax'[f][e] =< corpusSignal[e] \/ fMax'[f][e] =< fNew[f][e]
    BY <1>3 DEF Reported, Leq
  <2>1. fMax[f][e] =< maxSignal[e] \/ fMax[f][e] =< corpusSignal[e] \/ fMax[f][e] =< fNew[f][e]
    BY <1>3 DEF Flow, Reported, Leq
  <2> QED BY <1>4, <2>1, Priorities
<1> QED BY <1>5, <1>6, <1>7, <1>8 DEF Flow

\* NewInput only adds to the corpus signal.
LEMMA CorpusSignalGrows ==
    ASSUME Types, NEW f \in Fuzzer, NEW t \in triaging[f], NEW q \in Prog, TriageSend(f, t, q)
    PROVE  Below(corpusSignal, corpusSignal')
<1>1. Real[t.p] \in Signals /\ corpus[q] \in Signals /\ corpusSignal \in Signals
  BY TypesSend DEF Types, ServerTypes
<1>2. Merge(Real[t.p], corpus[q]) \in Signals
  BY <1>1, SignalOps
<1>3. corpusSignal' = corpusSignal \/ corpusSignal' = Merge(corpusSignal, Merge(Real[t.p], corpus[q]))
  BY DEF TriageSend, NewInput
<1> QED BY <1>1, <1>2, <1>3, BelowOps, SMTT(60)

\* Every step keeps the flow of every fuzzer.
LEMMA FlowsStep ==
    ASSUME CorpusInv, Types', Next
    PROVE  Flows'
<1> USE DEF CorpusInv
<1> SUFFICES ASSUME NEW g \in Fuzzer PROVE Flow(g)'
  BY DEF Flows, Flow
<1>0. PICK f \in Fuzzer : Steps(f) \/ Crash(f) \/ \E p \in Prog : Execute(f, p)
  BY DEF Next
<1>a. \A h \in Fuzzer : Flow(h)
  BY DEF Flows, Flow
<1>b. Below(corpusSignal, corpusSignal)
  BY PollFields, BelowOps
<1>c. /\ fMax \in [Fuzzer -> Signals] /\ fNew \in [Fuzzer -> Signals] /\ newMaxSignal \in [Fuzzer -> Signals]
      /\ poll \in [Fuzzer -> PollState] /\ state \in [Fuzzer -> States]
  BY DEF Types, ServerTypes, FuzzerTypes
<1>1. CASE ConnectSnapshot(f)
  <2>1. UNCHANGED <<maxSignal, corpusSignal, fMax, fNew, newMaxSignal, poll>>
    BY <1>1 DEF ConnectSnapshot
  <2>2. state'[g] = "up" => state[g] = "up"
    BY <1>1, <1>c DEF ConnectSnapshot
  <2> QED BY <1>a, <1>b, <2>1, <2>2, FlowKept
<1>2. CASE ConnectRegister(f)
  <2>1. UNCHANGED <<maxSignal, corpusSignal, fMax, fNew, poll>>
    BY <1>2 DEF ConnectRegister
  <2>2. CASE g # f
    <3>1. newMaxSignal'[g] = newMaxSignal[g] /\ state'[g] = state[g]
      BY <1>2, <1>c, <2>2 DEF ConnectRegister
    <3> QED BY <1>a, <1>b, <2>1, <3>1, FlowKept
  <2>3. CASE g = f
    <3>1. newMaxSignal'[f] = maxSignal
      BY <1>2, <1>c DEF ConnectRegister
    <3>2. Below(maxSignal, maxSignal)
      BY PollFields, BelowOps
    <3>3. Waits(f)' /\ Reaches(f)'
      BY <1>a, <2>1, <3>1, <3>2 DEF Flow, Waits, Reaches, Below, Leq
    <3>4. Reports(f)' /\ Reported(f)'
      BY <1>a, <2>1 DEF Flow, Reports, Reported, Leq
    <3> QED BY <2>3, <3>3, <3>4 DEF Flow
  <2> QED BY <2>2, <2>3
<1>3. CASE PollRequest(f)
  <2>1. CASE g # f
    <3>1. UNCHANGED <<maxSignal, corpusSignal, fMax[g], fNew[g], newMaxSignal[g], poll[g], state[g]>>
      BY <1>3, <1>c, <2>1 DEF PollRequest, server
    <3> QED BY <1>a, <1>b, <3>1, FlowKept
  <2> QED BY <1>3, <1>a, <2>1, FlowRequest
<1>4. CASE PollServe(f)
  BY <1>4, <1>a, FlowServe
<1>5. CASE PollApply(f)
  <2>1. CASE g # f
    <3>1. UNCHANGED <<maxSignal, corpusSignal, fMax[g], fNew[g], newMaxSignal[g], poll[g], state[g]>>
      BY <1>5, <1>c, <2>1 DEF PollApply, server
    <3> QED BY <1>a, <1>b, <3>1, FlowKept
  <2> QED BY <1>5, <1>a, <2>1, FlowApply
<1>6. ASSUME NEW r \in running[f], ExecuteMerge(f, r) PROVE Flow(g)'
  <2>1. UNCHANGED <<maxSignal, corpusSignal, newMaxSignal, poll, state>>
    BY <1>6 DEF ExecuteMerge, server
  <2>2. CASE g # f
    <3>1. UNCHANGED <<fMax[g], fNew[g]>>
      BY <1>6, <1>c, <2>2 DEF ExecuteMerge
    <3> QED BY <1>a, <1>b, <2>1, <3>1, FlowKept
  <2>3. CASE g = f
    <3>1. r.diff \in Signals
      BY SMTT(60) DEF Types, WorkTypes
    <3>2. fMax'[f] = Merge(fMax[f], r.diff) /\ fNew'[f] = Merge(fNew[f], r.diff)
      BY <1>6, <1>c DEF ExecuteMerge
    <3> QED BY <1>a, <2>1, <2>3, <3>1, <3>2, FlowGrows
  <2> QED BY <2>2, <2>3
<1>7. ASSUME NEW i \in sent[f], TriageAdd(f, i) PROVE Flow(g)'
  <2>1. UNCHANGED <<maxSignal, corpusSignal, newMaxSignal, poll, state, fNew>>
    BY <1>7 DEF TriageAdd, server
  <2>2. CASE g # f
    <3>1. UNCHANGED fMax[g]
      BY <1>7, <1>c, <2>2 DEF TriageAdd
    <3> QED BY <1>a, <1>b, <2>1, <3>1, FlowKept
  <2>3. CASE g = f
    <3>1. i[2] \in Signals /\ Below(i[2], corpusSignal)
      BY SMTT(60) DEF Types, FuzzerTypes, Input, Claimed
    <3>2. fMax'[f] = Merge(fMax[f], i[2])
      BY <1>7, <1>c DEF TriageAdd
    <3> QED BY <1>a, <2>1, <2>3, <3>1, <3>2, FlowGrows
  <2> QED BY <2>2, <2>3
<1>8. CASE \/ \E p \in Prog : Execute(f, p)
           \/ \E p \in queue[f] : TriageStart(f, p)
           \/ \E t \in triaging[f] : TriageGiveUp(f, t)
  <2>1. UNCHANGED <<maxSignal, corpusSignal, fMax, fNew, newMaxSignal, poll, state>>
    BY <1>8 DEF Execute, TriageStart, TriageGiveUp, server
  <2> QED BY <1>a, <1>b, <2>1, FlowKept
<1>9. ASSUME NEW t \in triaging[f], NEW q \in Prog, TriageSend(f, t, q) PROVE Flow(g)'
  <2>1. UNCHANGED <<maxSignal, fMax, fNew, newMaxSignal, poll, state>>
    BY <1>9 DEF TriageSend
  <2> QED BY <1>9, <1>a, <2>1, CorpusSignalGrows, FlowKept
<1>10. CASE Crash(f)
  <2>1. UNCHANGED <<maxSignal, corpusSignal>>
    BY <1>10 DEF Crash
  <2>2. CASE g # f
    <3>1. UNCHANGED <<fMax[g], fNew[g], newMaxSignal[g], poll[g], state[g]>>
      BY <1>10, <1>c, <2>2 DEF Crash
    <3> QED BY <1>a, <1>b, <2>1, <3>1, FlowKept
  <2>3. CASE g = f
    <3>1. fMax'[f] = Nil /\ fNew'[f] = Nil /\ newMaxSignal'[f] = Nil /\ poll'[f] = Idle /\ state'[f] = "down"
      BY <1>10, <1>c DEF Crash
    <3>2. Below(Nil, Nil) /\ Below(Nil, maxSignal)
      BY PollFields, SignalOps, BelowOps
    <3> QED BY <2>1, <2>3, <3>1, <3>2, IdleType DEF Flow, Reports, Waits, Reaches, Reported, Below, Leq
  <2> QED BY <2>2, <2>3
<1> QED BY <1>0, <1>1, <1>2, <1>3, <1>4, <1>5, <1>6, <1>7, <1>8, <1>9, <1>10 DEF Steps

-----------------------------------------------------------------------------
(* The theorems *)

\* The invariant of the proofs: types, Claimed (inputs on their way are corpus
\* signal) and Flows, which need one another.
THEOREM CorpusInvariant == Spec => []CorpusInv
<1>1. Init => CorpusInv
  <2> SUFFICES ASSUME Init PROVE CorpusInv
    OBVIOUS
  <2>1. Types
    BY TypesInit
  <2>2. Nil \in Signals /\ Below(Nil, Nil)
    BY <2>1, BelowOps DEF Types, ServerTypes, Init
  <2>3. Claimed
    BY <2>2, IdleType DEF Claimed, Init
  <2>4. Flows
    BY <2>2, IdleType DEF Flows, Reports, Waits, Reaches, Reported, Init, Below, Leq
  <2> QED BY <2>1, <2>3, <2>4 DEF CorpusInv
<1>2. CorpusInv /\ [Next]_vars => CorpusInv'
  <2> SUFFICES ASSUME CorpusInv, [Next]_vars PROVE CorpusInv'
    OBVIOUS
  <2>1. CASE Next
    <3>1. PICK f \in Fuzzer : Steps(f) \/ Crash(f) \/ \E p \in Prog : Execute(f, p)
      BY <2>1 DEF Next
    <3>2. Types'
      BY <3>1, TypesConnect, TypesPoll, TypesTriage, TypesSend, TypesCrash DEF Steps, CorpusInv
    <3>3. Claimed'
      BY <2>1, <3>2, ClaimedStep DEF CorpusInv
    <3>4. Flows'
      BY <2>1, <3>2, FlowsStep
    <3> QED BY <3>2, <3>3, <3>4 DEF CorpusInv
  <2>2. CASE UNCHANGED vars
    <3> USE <2>2 DEF vars, server
    <3>1. Types'
      BY DEF CorpusInv, Types, ServerTypes, FuzzerTypes, WorkTypes
    <3>2. Claimed'
      BY DEF CorpusInv, Claimed
    <3>3. Flows'
      BY DEF CorpusInv, Flows, Reports, Waits, Reaches, Reported, Leq
    <3> QED BY <3>1, <3>2, <3>3 DEF CorpusInv
  <2> QED BY <2>1, <2>2
<1> QED BY <1>1, <1>2, PTL DEF Spec

\* Every signal of the server and of the fuzzers has priorities of 0 .. MaxPrio,
\* and every program they name is one.
THEOREM CorpusTypes == Spec => []TypeOK
<1>1. CorpusInv => TypeOK
  BY TypesSuffice DEF CorpusInv
<1> QED BY <1>1, CorpusInvariant, PTL

\* What Poll and Connect of the server know as max signal is never lost on the
\* way to a registered fuzzer, whatever its polls, executions and crashes.
THEOREM MaxSignalArrives == Spec => []MaxSignalReaches
<1>1. CorpusInv => MaxSignalReaches
  <2> SUFFICES ASSUME CorpusInv, NEW f \in Registered, NEW e \in Elem
               PROVE  maxSignal[e] =< Merge(Merge(fMax[f], newMaxSignal[f]),
                                            IF poll[f].st = "reply" THEN poll[f].sig ELSE Nil)[e]
    BY DEF MaxSignalReaches, Below
  <2> DEFINE m == Merge(fMax[f], newMaxSignal[f])
             r == IF poll[f].st = "reply" THEN poll[f].sig ELSE Nil
  <2>0. f \in Fuzzer /\ state[f] = "up" /\ Types
    BY DEF Registered, CorpusInv
  <2>1. m \in Signals /\ r \in Signals
    BY <2>0, PollFields, SignalOps
  <2>2. m[e] = IF fMax[f][e] < newMaxSignal[f][e] THEN newMaxSignal[f][e] ELSE fMax[f][e]
    BY <2>0, PollFields, SignalOps, SMTT(60)
  <2>3. Merge(m, r)[e] = IF m[e] < r[e] THEN r[e] ELSE m[e]
    BY <2>1, SignalOps, SMTT(60)
  <2>4. m[e] \in Int /\ r[e] \in Int
    BY <2>1, SignalRange
  <2>5. maxSignal[e] =< fMax[f][e] \/ maxSignal[e] =< newMaxSignal[f][e] \/ maxSignal[e] =< r[e]
    BY <2>0 DEF CorpusInv, Flows, Reaches, Leq
  <2> HIDE DEF m, r
  <2>6. maxSignal[e] =< Merge(m, r)[e]
    BY <2>0, <2>2, <2>3, <2>4, <2>5, Priorities, SMTT(60)
  <2> QED BY <2>6 DEF m, r
<1> QED BY <1>1, CorpusInvariant, PTL

\* What a registered fuzzer counts as known is known to the manager, or it is
\* still to be reported by newSignal or by the poll on its way.
THEOREM NewSignalArrives == Spec => []NewSignalReported
<1>1. CorpusInv => NewSignalReported
  <2> SUFFICES ASSUME CorpusInv, NEW f \in Registered, NEW e \in Elem
               PROVE  fMax[f][e] =< Merge(Merge(maxSignal, corpusSignal),
                          Merge(fNew[f], IF poll[f].st = "request" THEN poll[f].sig ELSE Nil))[e]
    BY DEF NewSignalReported, Below
  <2> DEFINE m == Merge(maxSignal, corpusSignal)
             r == IF poll[f].st = "request" THEN poll[f].sig ELSE Nil
             n == Merge(fNew[f], r)
  <2>0. f \in Fuzzer /\ Types
    BY DEF Registered, CorpusInv
  <2>1. m \in Signals /\ r \in Signals
    BY <2>0, PollFields, SignalOps
  <2>2. n \in Signals
    BY <2>0, <2>1, PollFields, SignalOps, SMTT(60)
  <2>3. /\ m[e] = IF maxSignal[e] < corpusSignal[e] THEN corpusSignal[e] ELSE maxSignal[e]
        /\ n[e] = IF fNew[f][e] < r[e] THEN r[e] ELSE fNew[f][e]
    BY <2>0, <2>1, PollFields, SignalOps, SMTT(60)
  <2>4. Merge(m, n)[e] = IF m[e] < n[e] THEN n[e] ELSE m[e]
    BY <2>1, <2>2, SignalOps, SMTT(60)
  <2>5. m[e] \in Int /\ r[e] \in Int /\ n[e] \in Int
    BY <2>1, <2>2, SignalRange
  <2>6. \/ fMax[f][e] =< maxSignal[e] \/ fMax[f][e] =< corpusSignal[e]
        \/ fMax[f][e] =< fNew[f][e] \/ fMax[f][e] =< r[e]
    BY <2>0 DEF CorpusInv, Flows, Reported, Leq
  <2> HIDE DEF m, n, r
  <2>7. fMax[f][e] =< Merge(m, n)[e]
    BY <2>0, <2>3, <2>4, <2>5, <2>6, Priorities, SMTT(60)
  <2> QED BY <2>7 DEF m, n, r
<1> QED BY <1>1, CorpusInvariant, PTL

-----------------------------------------------------------------------------
(* What minimizeCorpus keeps *)

\* A non-empty set of natural numbers has a least one.
LEMMA Least ==
    ASSUME NEW S \in SUBSET Nat, S # {}
    PROVE  \E x \in S : \A y \in S : x =< y
<1>1. PICK x \in S : \A y \in S : ~(<<y, x>> \in OpToRel(<, Nat))
  BY NatLessThanWellFounded, WFMin
<1>2. \A y \in S : ~(y < x)
  BY <1>1 DEF OpToRel
<1> QED BY <1>2, SMTT(60)

\* An order of a finite set that repeats nothing names every element.
LEMMA OrderOnto ==
    ASSUME NEW D, IsFiniteSet(D), NEW o \in Injection(1 .. Cardinality(D), D), NEW p \in D
    PROVE  \E i \in 1 .. Cardinality(D) : o[i] = p
<1> DEFINE n == Cardinality(D)
<1>1. n \in Nat
  BY FS_CardinalityType
<1>2. Cardinality(1 .. n) = n
  BY <1>1, FS_Interval, SMTT(60)
<1>3. o \in Surjection(1 .. n, D)
  BY <1>2, FS_Injection
<1>4. \A x \in D : \E i \in 1 .. n : o[i] = x
  <2> HIDE DEF n
  <2> QED BY <1>3 DEF Surjection
<1> QED BY <1>4

\* Minimize keeps, for every element of an input, an input that has it with the
\* same or a higher priority.
LEMMA MinimizeCovers ==
    ASSUME NEW D, IsFiniteSet(D), NEW c \in [D -> Signals], NEW S \in Minimize(c),
           NEW p \in D, NEW e \in Elem, c[p][e] # Absent
    PROVE  \E q \in S : c[q][e] >= c[p][e]
<1> DEFINE n == Cardinality(D)
<1>1. PICK o \in Sorted(c) : S = {o[i] : i \in {k \in DOMAIN o : \E x \in Elem : Covers(c, o, x, k)}}
  BY DEF Minimize
<1>2. /\ o \in [1 .. n -> D]
      /\ \A i, j \in 1 .. n : o[i] = o[j] => i = j
  BY DEF Sorted
<1>a. o \in Injection(1 .. n, D)
  BY <1>2 DEF Injection, IsInjective
<1>b. \E i \in 1 .. n : o[i] = p
  BY <1>a, OrderOnto
<1>3. n \in Nat
  BY FS_CardinalityType
<1> HIDE DEF n
<1> DEFINE v(i) == c[o[i]][e]
<1>4. \A i \in 1 .. n : v(i) \in Int /\ Absent =< v(i) /\ v(i) =< MaxPrio
  <2> SUFFICES ASSUME NEW i \in 1 .. n PROVE v(i) \in Int /\ Absent =< v(i) /\ v(i) =< MaxPrio
    OBVIOUS
  <2>1. c[o[i]] \in [Elem -> -1 .. MaxPrio]
    BY <1>2 DEF Signals, Absent
  <2>2. c[o[i]][e] \in -1 .. MaxPrio
    BY <2>1
  <2> QED BY <2>2, PrioAssumption, SMTT(60) DEF Absent
<1>5. PICK k \in 1 .. n : o[k] = p
  BY <1>b
<1>6. PICK m \in 1 .. n : \A j \in 1 .. n : v(j) =< v(m)
  <2> DEFINE T == {v(i) : i \in 1 .. n}
  <2>1. T \in SUBSET Prio
    <3>1. \A i \in 1 .. n : v(i) \in Prio
      <4> HIDE DEF v
      <4> QED BY <1>4, PrioAssumption, SMTT(60) DEF Prio, Absent
    <3> QED BY <3>1
  <2>2. T # {}
    BY <1>5
  <2>3. PICK x \in T : \A y \in T : y =< x
    BY <2>1, <2>2, HighestPrio
  <2>4. PICK i \in 1 .. n : x = v(i)
    BY <2>3
  <2> QED BY <2>3, <2>4
<1>7. PICK i \in 1 .. n : v(i) = v(m) /\ \A j \in 1 .. n : v(j) = v(m) => i =< j
  <2> DEFINE T == {i \in 1 .. n : v(i) = v(m)}
  <2>1. T \in SUBSET Nat /\ m \in T
    BY <1>3, SMTT(60)
  <2>2. PICK i \in T : \A j \in T : i =< j
    BY <2>1, Least
  <2> QED BY <2>2
<1>8. v(i) # Absent /\ v(i) >= c[p][e]
  <2>1. v(k) = c[p][e] /\ v(k) # Absent
    BY <1>5
  <2> HIDE DEF v
  <2> QED BY <1>4, <1>5, <1>6, <1>7, <2>1, SMTT(60) DEF Absent
<1>9. Covers(c, o, e, i)
  <2>1. DOMAIN o = 1 .. n
    BY <1>2
  <2> QED BY <1>6, <1>7, <1>8, <2>1 DEF Covers
<1>10. o[i] \in S
  BY <1>1, <1>2, <1>9
<1> QED BY <1>8, <1>10

\* For every element of the corpus signal an input was sent with that priority.
Backed ==
    \A e \in Elem : corpusSignal[e] = Absent \/ \E p \in Prog : corpusSignal[e] =< corpus[p][e]

\* minimizeCorpus keeps an input for every element of the ones it drops.
LEMMA MinimizedCovers ==
    ASSUME NEW c \in [Prog -> Signals], NEW d \in Minimized(c), NEW p \in Prog, NEW e \in Elem,
           c[p][e] # Absent
    PROVE  \E q \in Prog : c[p][e] =< d[q][e]
<1> DEFINE D == {q \in Prog : c[q] # Nil}
           k == [q \in D |-> c[q]]
<1>1. PICK S \in Minimize(k) : d = [q \in Prog |-> IF q \in S THEN c[q] ELSE Nil]
  BY DEF Minimized, Contexts
<1>2. IsFiniteSet(D) /\ k \in [D -> Signals]
  BY ProgAssumption, FS_Subset
<1>3. p \in D /\ k[p][e] # Absent
  BY DEF Nil
<1>4. S \subseteq D
  <2>1. PICK o \in Sorted(k) : S = {o[i] : i \in {j \in DOMAIN o : \E x \in Elem : Covers(k, o, x, j)}}
    BY <1>1 DEF Minimize
  <2>2. DOMAIN k = D
    OBVIOUS
  <2>3. o \in [1 .. Cardinality(D) -> D]
    BY <2>2 DEF Sorted
  <2> QED BY <2>1, <2>3
<1>5. \A q \in D : k[q] = c[q]
  OBVIOUS
<1> HIDE DEF k
<1>6. PICK q \in S : k[q][e] >= k[p][e]
  BY <1>1, <1>2, <1>3, MinimizeCovers
<1>7. q \in Prog /\ c[q][e] >= c[p][e] /\ d[q] = c[q]
  BY <1>1, <1>3, <1>4, <1>5, <1>6
<1>8. c[q][e] \in Int /\ c[p][e] \in Int
  BY <1>7, SignalRange
<1>9. c[p][e] =< d[q][e]
  <2> HIDE DEF D
  <2> QED BY <1>7, <1>8, SMTT(60)
<1> QED BY <1>7, <1>9

\* NewInput adds the input with all its signal, minimizeCorpus keeps what the others
\* do not replace, and nothing else changes the corpus.
LEMMA BackedStep ==
    ASSUME Types, Types', Backed, [Next]_vars
    PROVE  Backed'
<1>1. CASE UNCHANGED <<corpus, corpusSignal>>
  BY <1>1 DEF Backed
<1>2. ASSUME NEW f \in Fuzzer, ConnectSnapshot(f) PROVE Backed'
  <2> SUFFICES ASSUME NEW e \in Elem, corpusSignal'[e] # Absent
               PROVE  \E q \in Prog : corpusSignal'[e] =< corpus'[q][e]
    BY DEF Backed
  <2>1. corpusSignal' = corpusSignal /\ (corpus' = corpus \/ corpus' \in Minimized(corpus))
    BY <1>2 DEF ConnectSnapshot
  <2>2. PICK p \in Prog : corpusSignal[e] =< corpus[p][e]
    BY <2>1 DEF Backed
  <2>3. corpus \in [Prog -> Signals] /\ corpusSignal \in Signals /\ corpus' \in [Prog -> Signals]
    BY DEF Types, ServerTypes
  <2>4. corpus[p][e] # Absent
    <3>1. corpus[p][e] \in Int /\ corpusSignal[e] \in Int /\ Absent \in Int /\ Absent =< corpusSignal[e]
      BY <2>3, SignalRange
    <3> QED BY <2>1, <2>2, <3>1, SMTT(60)
  <2>5. PICK q \in Prog : corpus[p][e] =< corpus'[q][e]
    <3>1. CASE corpus' = corpus
      <4>1. corpus[p][e] \in Int
        BY <2>3, SignalRange
      <4>2. corpus[p][e] =< corpus[p][e]
        BY <4>1, SMTT(60)
      <4> QED BY <3>1, <4>2
    <3>2. CASE corpus' \in Minimized(corpus)
      BY <2>3, <2>4, <3>2, MinimizedCovers
    <3> QED BY <2>1, <3>1, <3>2
  <2>6. corpusSignal[e] \in Int /\ corpus[p][e] \in Int /\ corpus'[q][e] \in Int
    BY <2>3, SignalRange
  <2>7. corpusSignal[e] =< corpus'[q][e]
    BY <2>2, <2>5, <2>6, SMTT(60)
  <2> QED BY <2>1, <2>7
<1>3. ASSUME NEW f \in Fuzzer, NEW t \in triaging[f], NEW q \in Prog, TriageSend(f, t, q)
      PROVE  Backed'
  <2>1. CASE UNCHANGED <<corpus, corpusSignal>>
    BY <1>1, <2>1
  <2>2. CASE ~UNCHANGED <<corpus, corpusSignal>>
    <3> DEFINE m == Merge(Real[t.p], corpus[q])
    <3>1. corpus' = [corpus EXCEPT ![q] = m] /\ corpusSignal' = Merge(corpusSignal, m)
      BY <1>3, <2>2 DEF TriageSend, NewInput
    <3>2. Real[t.p] \in Signals /\ corpus \in [Prog -> Signals] /\ corpusSignal \in Signals
      BY <1>3, TypesSend DEF Types, ServerTypes
    <3>3. \A e \in Elem : m[e] = IF Real[t.p][e] < corpus[q][e] THEN corpus[q][e] ELSE Real[t.p][e]
      BY DEF Merge
    <3>a. m \in Signals
      BY <3>2, SignalOps
    <3> HIDE DEF m
    <3>4. corpus'[q] = m /\ \A p \in Prog : p # q => corpus'[p] = corpus[p]
      BY <3>1, <3>2
    <3>5. ASSUME NEW e \in Elem, corpusSignal'[e] # Absent
          PROVE  \E p \in Prog : corpusSignal'[e] =< corpus'[p][e]
      <4>1. corpusSignal'[e] = IF corpusSignal[e] < m[e] THEN m[e] ELSE corpusSignal[e]
        BY <3>1 DEF Merge
      <4>2. /\ corpusSignal[e] \in Int /\ m[e] \in Int
            /\ \A p \in Prog : corpus[p][e] \in Int
        BY <3>2, <3>a, SignalRange
      <4>3. CASE corpusSignal[e] < m[e]
        <5>1. corpusSignal'[e] = m[e] /\ m[e] =< m[e]
          BY <4>1, <4>2, <4>3, SMTT(60)
        <5> QED BY <3>4, <5>1
      <4>4. CASE ~(corpusSignal[e] < m[e])
        <5>1. corpusSignal'[e] = corpusSignal[e]
          BY <4>1, <4>4
        <5>2. PICK p \in Prog : corpusSignal[e] =< corpus[p][e]
          BY <3>5, <5>1 DEF Backed
        <5>3. CASE p # q
          BY <3>4, <5>1, <5>2, <5>3
        <5>4. CASE p = q
          <6>1. Real[t.p][e] \in Int /\ corpus[q][e] \in Int
            BY <3>2, SignalRange
          <6>2. corpus[q][e] =< m[e]
            BY <3>3, <6>1, SMTT(60)
          <6>3. corpusSignal[e] =< m[e]
            BY <4>2, <5>2, <5>4, <6>1, <6>2, SMTT(60)
          <6> QED BY <3>4, <5>1, <6>3
        <5> QED BY <5>3, <5>4
      <4> QED BY <4>3, <4>4
    <3> QED BY <3>5 DEF Backed
  <2> QED BY <2>1, <2>2
<1>4. ASSUME \A f \in Fuzzer : ~ ConnectSnapshot(f),
             \A f \in Fuzzer : \A t \in triaging[f], q \in Prog : ~ TriageSend(f, t, q)
      PROVE  UNCHANGED <<corpus, corpusSignal>>
  BY <1>4 DEF Next, Steps, Crash, Execute, ConnectRegister, PollRequest, PollServe, PollApply,
              ExecuteMerge, TriageStart, TriageGiveUp, TriageAdd, server, vars
<1> QED BY <1>1, <1>2, <1>3, <1>4

\* minimizeCorpus keeps, for every element of corpusSignal, an input that was sent
\* with the highest priority of that element, whatever the order of equal inputs.
THEOREM CorpusBacksSignal == Spec => []CorpusClaimsSignal
<1>1. Init => Backed
  BY DEF Init, Backed, Nil
<1>2. CorpusInv /\ CorpusInv' /\ Backed /\ [Next]_vars => Backed'
  BY BackedStep DEF CorpusInv
<1>3. CorpusInv /\ Backed => CorpusClaimsSignal
  <2> SUFFICES ASSUME CorpusInv, Backed PROVE CorpusClaimsSignal
    OBVIOUS
  <2> DEFINE I == {<<p, corpus[p]>> : p \in Present}
  <2>1. corpus \in [Prog -> Signals] /\ corpusSignal \in Signals
    BY DEF CorpusInv, Types, ServerTypes
  <2>2. I \in SUBSET Input
    BY <2>1, SMTT(60) DEF Input, Present
  <2>3. SigOf(I) \in Signals /\ \A i \in I : Below(i[2], SigOf(I))
    BY <2>2, SigOfBound
  <2>4. \A p \in Present : Below(corpus[p], SigOf(I))
    <3> SUFFICES ASSUME NEW p \in Present PROVE Below(corpus[p], SigOf(I))
      OBVIOUS
    <3>1. <<p, corpus[p]>> \in I
      OBVIOUS
    <3>2. <<p, corpus[p]>>[2] = corpus[p]
      OBVIOUS
    <3> QED BY <2>3, <3>1, <3>2
  <2> DEFINE u == SigOf(I)
  <2>5. u \in Signals /\ \A p \in Present : Below(corpus[p], u)
    BY <2>3, <2>4
  <2> HIDE DEF u, I
  <2>6. ASSUME NEW e \in Elem PROVE corpusSignal[e] =< u[e]
    <3>1. /\ corpusSignal[e] \in Int /\ u[e] \in Int /\ Absent =< u[e] /\ Absent \in Int
          /\ Absent =< corpusSignal[e] /\ Nil[e] = Absent
      BY <2>1, <2>5, SignalRange
    <3>2. CASE corpusSignal[e] = Absent
      BY <3>1, <3>2
    <3>3. CASE corpusSignal[e] # Absent
      <4>1. PICK p \in Prog : corpusSignal[e] =< corpus[p][e]
        BY <3>3 DEF Backed
      <4>2. corpus[p][e] \in Int
        BY <2>1, SignalRange
      <4>3. corpus[p][e] # Absent
        BY <3>1, <3>3, <4>1, <4>2, SMTT(60)
      <4>4. p \in Present
        BY <3>1, <4>3 DEF Present
      <4>5. corpus[p][e] =< u[e]
        BY <2>5, <4>4 DEF Below
      <4> QED BY <3>1, <4>1, <4>2, <4>5, SMTT(60)
    <3> QED BY <3>2, <3>3
  <2> QED BY <2>6 DEF CorpusClaimsSignal, Below, u, I
<1> QED BY <1>1, <1>2, <1>3, CorpusInvariant, PTL DEF Spec

-----------------------------------------------------------------------------
(* What is told to every fuzzer is not lost *)

\* The programs that registered fuzzers have still to triage.
AtWork == UNION {InWork(f) : f \in Registered}

\* Those, and the ones that were lost on the way.
Owed == lost \cup AtWork

\* Every element of s is in c, or some program of W gives it.
KeptBy(s, c, W) == \A e \in Elem : s[e] =< c[e] \/ \E p \in W : s[e] =< Real[p][e]

\* What the fuzzers and the manager count as known has come to the corpus, is still to
\* be triaged or was lost; what a fuzzer takes for corpus signal is corpus signal.
Safe ==
    /\ lost \in SUBSET Prog
    /\ \A f \in Fuzzer : /\ Below(fCorpus[f], corpusSignal)
                         /\ running[f] # {} => state[f] = "up"
                         /\ \A r \in running[f] : Below(r.diff, Real[r.p])
    /\ KeptBy(maxSignal, corpusSignal, Owed)
    /\ \A f \in Fuzzer : KeptBy(fMax[f], corpusSignal, Owed)

\* A part of a part is a part.
LEMMA BelowTrans ==
    ASSUME NEW s \in Signals, NEW t \in Signals, NEW u \in Signals, Below(s, t), Below(t, u)
    PROVE  Below(s, u)
  BY BelowOps

\* Two parts make a part.
LEMMA BelowMerge ==
    ASSUME NEW s \in Signals, NEW t \in Signals, NEW u \in Signals, Below(s, u), Below(t, u)
    PROVE  Below(Merge(s, t), u)
  BY BelowOps

\* What Diff gives is a part of its second argument.
LEMMA BelowDiff ==
    ASSUME NEW s \in Signals, NEW t \in Signals
    PROVE  Diff(s, t) \in Signals /\ Below(Diff(s, t), t)
  BY SignalOps, BelowOps

\* AtWork for the values of the variables.
WorkOf(que, tri, R) == UNION {que[f] \cup {t.p : t \in tri[f]} : f \in R}

\* The work of any fuzzers is about programs.
LEMMA WorkProgs ==
    ASSUME NEW que \in [Fuzzer -> SUBSET Prog],
           NEW tri \in [Fuzzer -> SUBSET [p : Prog, new : Signals]], NEW R \in SUBSET Fuzzer
    PROVE  WorkOf(que, tri, R) \in SUBSET Prog
<1>1. ASSUME NEW f \in R
      PROVE  que[f] \cup {t.p : t \in tri[f]} \subseteq Prog
  <2>1. \A t \in tri[f] : t.p \in Prog
    <3>1. tri[f] \subseteq [p : Prog, new : Signals]
      OBVIOUS
    <3> QED BY <3>1
  <2>2. que[f] \subseteq Prog
    OBVIOUS
  <2> QED BY <2>1, <2>2
<1> QED BY <1>1 DEF WorkOf

\* What is owed is owed for programs.
LEMMA OwedProgs ==
    ASSUME Types, lost \in SUBSET Prog
    PROVE  AtWork \in SUBSET Prog /\ Owed \in SUBSET Prog
<1>1. Registered \in SUBSET Fuzzer
  BY DEF Registered
<1>2. AtWork = WorkOf(queue, triaging, Registered)
  BY DEF AtWork, InWork, WorkOf
<1>3. AtWork \in SUBSET Prog
  BY <1>1, <1>2, WorkProgs DEF Types, WorkTypes
<1> QED BY <1>3 DEF Owed

\* How signals that are kept combine.
LEMMA KeptOps ==
    ASSUME NEW s \in Signals, NEW t \in Signals, NEW c \in Signals, NEW W \in SUBSET Prog
    PROVE  /\ KeptBy(s, c, W) /\ KeptBy(t, c, W) => KeptBy(Merge(s, t), c, W)
           /\ Below(s, t) /\ KeptBy(t, c, W) => KeptBy(s, c, W)
           /\ Below(s, c) => KeptBy(s, c, W)
           /\ \A p \in W : Below(s, Real[p]) => KeptBy(s, c, W)
<1>1. \A e \in Elem : Merge(s, t)[e] = s[e] \/ Merge(s, t)[e] = t[e]
  BY DEF Merge
<1>2. ASSUME KeptBy(s, c, W), KeptBy(t, c, W) PROVE KeptBy(Merge(s, t), c, W)
  BY <1>1, <1>2 DEF KeptBy
<1>3. ASSUME Below(s, t), KeptBy(t, c, W) PROVE KeptBy(s, c, W)
  <2> SUFFICES ASSUME NEW e \in Elem PROVE s[e] =< c[e] \/ \E p \in W : s[e] =< Real[p][e]
    BY DEF KeptBy
  <2>1. s[e] \in Int /\ t[e] \in Int /\ c[e] \in Int /\ s[e] =< t[e]
    BY <1>3, SignalRange DEF Below
  <2>2. CASE t[e] =< c[e]
    BY <2>1, <2>2, SMTT(60)
  <2>3. ASSUME NEW p \in W, t[e] =< Real[p][e] PROVE s[e] =< Real[p][e]
    <3>1. Real[p] \in Signals
      BY ProgAssumption
    <3>2. Real[p][e] \in Int
      BY <3>1, SignalRange
    <3> QED BY <2>1, <2>3, <3>2, SMTT(60)
  <2> QED BY <1>3, <2>2, <2>3 DEF KeptBy
<1>4. Below(s, c) => KeptBy(s, c, W)
  BY DEF Below, KeptBy
<1>5. \A p \in W : Below(s, Real[p]) => KeptBy(s, c, W)
  BY DEF Below, KeptBy
<1> QED BY <1>2, <1>3, <1>4, <1>5

\* A signal stays kept while the programs at work leave only for the corpus.
LEMMA KeptMoves ==
    ASSUME NEW s \in Signals, NEW c \in Signals, NEW d \in Signals, NEW W \in SUBSET Prog, NEW V,
           Below(c, d), \A p \in W : p \in V \/ Below(Real[p], d), KeptBy(s, c, W)
    PROVE  KeptBy(s, d, V)
<1> SUFFICES ASSUME NEW e \in Elem PROVE s[e] =< d[e] \/ \E p \in V : s[e] =< Real[p][e]
  BY DEF KeptBy
<1>1. s[e] \in Int /\ c[e] \in Int /\ d[e] \in Int /\ c[e] =< d[e]
  BY SignalRange DEF Below
<1>2. CASE s[e] =< c[e]
  BY <1>1, <1>2, SMTT(60)
<1>3. ASSUME NEW p \in W, s[e] =< Real[p][e], p \notin V PROVE s[e] =< d[e]
  <2>1. Real[p] \in Signals /\ Real[p][e] =< d[e]
    BY <1>3, ProgAssumption DEF Below
  <2>2. Real[p][e] \in Int
    BY <2>1, SignalRange
  <2> QED BY <1>1, <1>3, <2>1, <2>2, SMTT(60)
<1> QED BY <1>2, <1>3 DEF KeptBy

\* What each step leaves alone.
LEMMA Unmoved ==
    ASSUME NEW f \in Fuzzer
    PROVE  /\ ConnectSnapshot(f) \/ ConnectRegister(f) \/ PollRequest(f) =>
                  UNCHANGED <<maxSignal, corpusSignal, fMax, fCorpus, lost>>
           /\ PollServe(f) => UNCHANGED <<corpusSignal, fMax, fCorpus, lost>>
           /\ PollApply(f) => UNCHANGED <<maxSignal, corpusSignal, lost>>
           /\ \A r \in running[f] : ExecuteMerge(f, r) =>
                  UNCHANGED <<maxSignal, corpusSignal, fCorpus, lost>>
           /\ \A p \in queue[f] : TriageStart(f, p) =>
                  UNCHANGED <<maxSignal, corpusSignal, fMax, fCorpus, lost>>
           /\ \A t \in triaging[f] : TriageGiveUp(f, t) =>
                  UNCHANGED <<maxSignal, corpusSignal, fMax, fCorpus>> /\ lost' = lost \cup {t.p}
           /\ \A t \in triaging[f], q \in Prog : TriageSend(f, t, q) =>
                  UNCHANGED <<maxSignal, fMax, fCorpus, lost>>
           /\ \A i \in sent[f] : TriageAdd(f, i) => UNCHANGED <<maxSignal, corpusSignal, lost>>
           /\ Crash(f) => UNCHANGED <<maxSignal, corpusSignal>> /\ lost' = lost \cup InWork(f)
           /\ \A p \in Prog : Execute(f, p) =>
                  UNCHANGED <<maxSignal, corpusSignal, fMax, fCorpus, lost>>
<1> USE DEF server, bounds
<1>1. ConnectSnapshot(f) \/ ConnectRegister(f) \/ PollRequest(f) =>
          UNCHANGED <<maxSignal, corpusSignal, fMax, fCorpus, lost>>
  BY DEF ConnectSnapshot, ConnectRegister, PollRequest
<1>2. PollServe(f) => UNCHANGED <<corpusSignal, fMax, fCorpus, lost>>
  BY DEF PollServe
<1>3. PollApply(f) => UNCHANGED <<maxSignal, corpusSignal, lost>>
  BY DEF PollApply
<1>4. \A r \in running[f] : ExecuteMerge(f, r) =>
          UNCHANGED <<maxSignal, corpusSignal, fCorpus, lost>>
  BY DEF ExecuteMerge
<1>5. \A p \in queue[f] : TriageStart(f, p) =>
          UNCHANGED <<maxSignal, corpusSignal, fMax, fCorpus, lost>>
  BY DEF TriageStart
<1>6. \A t \in triaging[f] : TriageGiveUp(f, t) =>
          UNCHANGED <<maxSignal, corpusSignal, fMax, fCorpus>> /\ lost' = lost \cup {t.p}
  BY DEF TriageGiveUp
<1>7. \A t \in triaging[f], q \in Prog : TriageSend(f, t, q) =>
          UNCHANGED <<maxSignal, fMax, fCorpus, lost>>
  BY DEF TriageSend
<1>8. \A i \in sent[f] : TriageAdd(f, i) => UNCHANGED <<maxSignal, corpusSignal, lost>>
  BY DEF TriageAdd
<1>9. Crash(f) => UNCHANGED <<maxSignal, corpusSignal>> /\ lost' = lost \cup InWork(f)
  BY DEF Crash
<1>10. \A p \in Prog : Execute(f, p) =>
          UNCHANGED <<maxSignal, corpusSignal, fMax, fCorpus, lost>>
  BY DEF Execute
<1> QED BY <1>1, <1>2, <1>3, <1>4, <1>5, <1>6, <1>7, <1>8, <1>9, <1>10

\* The corpus signal only grows.
LEMMA CorpusOnlyGrows ==
    ASSUME Types, [Next]_vars
    PROVE  Below(corpusSignal, corpusSignal')
<1>1. corpusSignal \in Signals
  BY DEF Types, ServerTypes
<1>2. CASE corpusSignal' = corpusSignal
  BY <1>1, <1>2, BelowOps
<1>3. ASSUME NEW f \in Fuzzer, NEW t \in triaging[f], NEW q \in Prog, TriageSend(f, t, q)
      PROVE  Below(corpusSignal, corpusSignal')
  BY <1>3, CorpusSignalGrows
<1>4. ASSUME \A f \in Fuzzer : \A t \in triaging[f], q \in Prog : ~ TriageSend(f, t, q)
      PROVE  corpusSignal' = corpusSignal
  BY <1>4, Unmoved DEF Next, Steps, server, vars
<1> QED BY <1>2, <1>3, <1>4

\* What was lost stays so.
LEMMA LostGrows ==
    ASSUME [Next]_vars
    PROVE  lost \subseteq lost'
  BY Unmoved DEF Next, Steps, vars

\* No program leaves the work of a fuzzer but for the corpus, or to be counted lost.
LEMMA WorkMoves ==
    ASSUME Types, Types', Safe, [Next]_vars, NEW p \in Owed
    PROVE  p \in Owed' \/ Below(Real[p], corpusSignal')
<1>0. CASE p \in lost
  BY <1>0, LostGrows DEF Owed
<1> SUFFICES ASSUME p \in AtWork PROVE p \in Owed' \/ Below(Real[p], corpusSignal')
  BY <1>0 DEF Owed
<1>1. PICK g \in Fuzzer : state[g] = "up" /\ p \in InWork(g)
  BY DEF AtWork, Registered
<1>2. /\ state \in [Fuzzer -> States] /\ queue \in [Fuzzer -> SUBSET Prog]
      /\ triaging \in [Fuzzer -> SUBSET [p : Prog, new : Signals]]
      /\ corpusSignal \in Signals /\ corpusSignal' \in Signals
  BY DEF Types, WorkTypes, FuzzerTypes, ServerTypes
<1>a. ASSUME state'[g] = "up", p \in InWork(g)' PROVE p \in AtWork'
  BY <1>1, <1>a DEF AtWork, Registered
<1>b. p \in AtWork' \/ p \in lost' => p \in Owed'
  BY DEF Owed
<1>3. ASSUME state'[g] = state[g], queue[g] \subseteq queue'[g], triaging[g] \subseteq triaging'[g]
      PROVE  p \in AtWork'
  <2>1. p \in InWork(g)'
    BY <1>1, <1>3 DEF InWork
  <2> QED BY <1>1, <1>3, <1>a, <2>1
<1>4. ASSUME NEW f \in Fuzzer, NEW r \in running[f], ExecuteMerge(f, r) PROVE p \in AtWork'
  <2>1. queue' = [queue EXCEPT ![f] = @ \cup {r.p}] /\ UNCHANGED <<state, triaging>>
    BY <1>4 DEF ExecuteMerge
  <2>2. queue[g] \subseteq queue'[g]
    BY <1>2, <2>1
  <2> QED BY <1>3, <2>1, <2>2
<1>5. ASSUME NEW f \in Fuzzer, NEW w \in queue[f], TriageStart(f, w)
      PROVE  p \in AtWork' \/ Below(Real[p], corpusSignal')
  <2> DEFINE new == Diff(fCorpus[f], Real[w])
  <2>1. /\ queue' = [queue EXCEPT ![f] = @ \ {w}]
        /\ triaging' = IF new = Nil THEN triaging
                       ELSE [triaging EXCEPT ![f] = @ \cup {[p |-> w, new |-> new]}]
        /\ UNCHANGED <<state, corpusSignal>>
    BY <1>5 DEF TriageStart, server
  <2>2. fCorpus[f] \in Signals /\ Below(fCorpus[f], corpusSignal) /\ w \in Prog /\ Real[w] \in Signals
    BY <1>2, ProgAssumption DEF Safe, Types, FuzzerTypes
  <2>3. new = Nil => Below(Real[w], corpusSignal)
    <3>1. new = Nil => Below(Real[w], fCorpus[f])
      BY <2>2, BelowOps
    <3> HIDE DEF new
    <3> QED BY <1>2, <2>2, <3>1, BelowTrans
  <2> HIDE DEF new
  <2>4. CASE f # g
    <3>1. queue'[g] = queue[g] /\ triaging'[g] = triaging[g]
      BY <1>2, <2>1, <2>4
    <3> QED BY <1>3, <2>1, <3>1
  <2>5. CASE f = g /\ p # w
    <3>1. queue'[g] = queue[g] \ {w} /\ triaging[g] \subseteq triaging'[g]
      BY <1>2, <2>1, <2>5
    <3>2. p \in InWork(g)'
      BY <1>1, <2>1, <2>5, <3>1 DEF InWork
    <3> QED BY <1>1, <1>a, <2>1, <3>2
  <2>6. CASE f = g /\ p = w /\ new # Nil
    <3> DEFINE t == [p |-> w, new |-> new]
    <3>1. t \in triaging'[g] /\ t.p = w
      BY <1>2, <2>1, <2>6
    <3> HIDE DEF t
    <3>2. p \in InWork(g)'
      BY <2>6, <3>1 DEF InWork
    <3> QED BY <1>1, <1>a, <2>1, <3>2
  <2>7. CASE f = g /\ p = w /\ new = Nil
    BY <2>1, <2>3, <2>7
  <2> QED BY <2>4, <2>5, <2>6, <2>7
<1>6. ASSUME NEW f \in Fuzzer, NEW t \in triaging[f], NEW q \in Prog, TriageSend(f, t, q)
      PROVE  p \in AtWork' \/ Below(Real[p], corpusSignal')
  <2>1. /\ triaging' = [triaging EXCEPT ![f] = @ \ {t}] /\ UNCHANGED <<state, queue>>
        /\ NewInput(f, q, Real[t.p])
    BY <1>6 DEF TriageSend
  <2>2. Real[t.p] \in Signals /\ corpus[q] \in Signals
    BY <1>6, TypesSend DEF Types, ServerTypes
  <2>3. Below(Real[t.p], corpusSignal')
    <3>1. CASE Diff(corpusSignal, Real[t.p]) = Nil
      <4>1. corpusSignal' = corpusSignal
        BY <2>1, <3>1 DEF NewInput
      <4> QED BY <1>2, <2>2, <3>1, <4>1, BelowOps
    <3>2. CASE Diff(corpusSignal, Real[t.p]) # Nil
      <4> DEFINE m == Merge(Real[t.p], corpus[q])
      <4>1. corpusSignal' = Merge(corpusSignal, m)
        BY <2>1, <3>2 DEF NewInput
      <4>2. m \in Signals /\ Below(Real[t.p], m)
        BY <2>2, SignalOps, BelowOps
      <4> HIDE DEF m
      <4>3. Below(m, corpusSignal')
        BY <1>2, <4>1, <4>2, BelowOps
      <4> QED BY <1>2, <2>2, <4>2, <4>3, BelowOps
    <3> QED BY <3>1, <3>2
  <2>4. CASE f # g
    <3>1. triaging'[g] = triaging[g]
      BY <1>2, <2>1, <2>4
    <3> QED BY <1>3, <2>1, <3>1
  <2>5. CASE f = g /\ p # t.p
    <3>1. triaging'[g] = triaging[g] \ {t}
      BY <1>2, <2>1, <2>5
    <3>2. p \in InWork(g)'
      BY <1>1, <2>1, <2>5, <3>1 DEF InWork
    <3> QED BY <1>1, <1>a, <2>1, <3>2
  <2> QED BY <2>3, <2>4, <2>5
<1>7. ASSUME NEW f \in Fuzzer, ConnectSnapshot(f) \/ ConnectRegister(f) PROVE p \in AtWork'
  <2>1. UNCHANGED <<queue, triaging>> /\ state'[g] = state[g]
    BY <1>1, <1>2, <1>7 DEF ConnectSnapshot, ConnectRegister
  <2> QED BY <1>3, <2>1
<1>8. ASSUME UNCHANGED <<state, queue, triaging>> PROVE p \in AtWork'
  BY <1>3, <1>8
<1>9. ASSUME NEW f \in Fuzzer,
             \/ PollRequest(f) \/ PollServe(f) \/ PollApply(f) \/ \E i \in sent[f] : TriageAdd(f, i)
             \/ \E x \in Prog : Execute(f, x)
      PROVE  UNCHANGED <<state, queue, triaging>>
  BY <1>9 DEF PollRequest, PollServe, PollApply, TriageAdd, Execute
<1>10. ASSUME NEW f \in Fuzzer, NEW t \in triaging[f], TriageGiveUp(f, t)
       PROVE  p \in AtWork' \/ p \in lost'
  <2>1. /\ triaging' = [triaging EXCEPT ![f] = @ \ {t}] /\ lost' = lost \cup {t.p}
        /\ UNCHANGED <<state, queue>>
    BY <1>10 DEF TriageGiveUp
  <2>2. CASE f # g
    <3>1. triaging'[g] = triaging[g]
      BY <1>2, <2>1, <2>2
    <3> QED BY <1>3, <2>1, <3>1
  <2>3. CASE f = g /\ p # t.p
    <3>1. triaging'[g] = triaging[g] \ {t}
      BY <1>2, <2>1, <2>3
    <3>2. p \in InWork(g)'
      BY <1>1, <2>1, <2>3, <3>1 DEF InWork
    <3> QED BY <1>1, <1>a, <2>1, <3>2
  <2> QED BY <2>1, <2>2, <2>3
<1>11. ASSUME NEW f \in Fuzzer, Crash(f) PROVE p \in AtWork' \/ p \in lost'
  <2>1. /\ state' = [state EXCEPT ![f] = "down"] /\ queue' = [queue EXCEPT ![f] = {}]
        /\ triaging' = [triaging EXCEPT ![f] = {}] /\ lost' = lost \cup InWork(f)
    BY <1>11 DEF Crash
  <2>2. CASE f = g
    BY <1>1, <2>1, <2>2
  <2>3. CASE f # g
    <3>1. state'[g] = state[g] /\ queue'[g] = queue[g] /\ triaging'[g] = triaging[g]
      BY <1>2, <2>1, <2>3
    <3> QED BY <1>3, <3>1
  <2> QED BY <2>2, <2>3
<1> QED BY <1>b, <1>4, <1>5, <1>6, <1>7, <1>8, <1>9, <1>10, <1>11 DEF Next, Steps, vars

\* What a fuzzer takes for corpus signal, and what its executions found, is so after
\* every step.
LEMMA SafeParts ==
    ASSUME CorpusInv, Types', Safe, [Next]_vars, NEW g \in Fuzzer
    PROVE  /\ Below(fCorpus'[g], corpusSignal')
           /\ running'[g] # {} => state'[g] = "up"
           /\ \A r \in running'[g] : Below(r.diff, Real[r.p])
<1> USE DEF CorpusInv
<1>1. /\ state \in [Fuzzer -> States] /\ running \in [Fuzzer -> SUBSET [p : Prog, diff : Signals]]
      /\ fCorpus \in [Fuzzer -> Signals] /\ fMax \in [Fuzzer -> Signals]
      /\ corpusSignal \in Signals /\ corpusSignal' \in Signals /\ fCorpus'[g] \in Signals
  BY DEF Types, WorkTypes, FuzzerTypes, ServerTypes
<1>2. Below(fCorpus'[g], corpusSignal')
  <2>1. ASSUME fCorpus'[g] = fCorpus[g] PROVE Below(fCorpus'[g], corpusSignal')
    <3>1. Below(fCorpus[g], corpusSignal) /\ Below(corpusSignal, corpusSignal')
      BY CorpusOnlyGrows DEF Safe
    <3> QED BY <1>1, <2>1, <3>1, BelowOps
  <2>2. ASSUME NEW s \in Signals, fCorpus'[g] = Merge(fCorpus[g], s), Below(s, corpusSignal),
               corpusSignal' = corpusSignal
        PROVE  Below(fCorpus'[g], corpusSignal')
    <3>1. fCorpus[g] \in Signals /\ Below(fCorpus[g], corpusSignal)
      BY <1>1 DEF Safe
    <3>2. Below(Merge(fCorpus[g], s), corpusSignal)
      BY <1>1, <2>2, <3>1, BelowMerge
    <3> QED BY <2>2, <3>2
  <2>3. ASSUME NEW f \in Fuzzer, PollApply(f) PROVE Below(fCorpus'[g], corpusSignal')
    <3> DEFINE s == SigOf(poll[f].inps)
    <3>1. corpusSignal' = corpusSignal /\ fCorpus' = [fCorpus EXCEPT ![f] = Merge(@, s)]
      BY <2>3 DEF PollApply, server
    <3>2. s \in Signals /\ Below(s, corpusSignal)
      <4>1. \A i \in poll[f].inps : Below(i[2], corpusSignal)
        BY DEF Claimed
      <4> QED BY <1>1, <4>1, PollFields, SigOfBound
    <3> HIDE DEF s
    <3>3. fCorpus'[g] = fCorpus[g] \/ fCorpus'[g] = Merge(fCorpus[g], s)
      BY <1>1, <3>1
    <3> QED BY <2>1, <2>2, <3>1, <3>2, <3>3
  <2>4. ASSUME NEW f \in Fuzzer, NEW i \in sent[f], TriageAdd(f, i) PROVE Below(fCorpus'[g], corpusSignal')
    <3>1. corpusSignal' = corpusSignal /\ fCorpus' = [fCorpus EXCEPT ![f] = Merge(@, i[2])]
      BY <2>4 DEF TriageAdd, server
    <3>2. i[2] \in Signals /\ Below(i[2], corpusSignal)
      <4>1. i \in Prog \X Signals
        BY DEF Types, FuzzerTypes, Input
      <4>2. i[2] \in Signals
        BY <4>1, SMTT(60)
      <4> QED BY <4>2 DEF Claimed
    <3>3. fCorpus'[g] = fCorpus[g] \/ fCorpus'[g] = Merge(fCorpus[g], i[2])
      BY <1>1, <3>1
    <3> QED BY <2>1, <2>2, <3>1, <3>2, <3>3
  <2>5. ASSUME NEW f \in Fuzzer, Crash(f) PROVE Below(fCorpus'[g], corpusSignal')
    <3>1. fCorpus' = [fCorpus EXCEPT ![f] = Nil]
      BY <2>5 DEF Crash
    <3>2. fCorpus'[g] = fCorpus[g] \/ fCorpus'[g] = Nil
      BY <1>1, <3>1
    <3> QED BY <1>1, <2>1, <3>2, BelowOps
  <2>6. ASSUME \A f \in Fuzzer : ~ PollApply(f) /\ ~ Crash(f) /\ \A i \in sent[f] : ~ TriageAdd(f, i)
        PROVE  fCorpus' = fCorpus
    BY <2>6, Unmoved DEF Next, Steps, vars
  <2> QED BY <2>1, <2>3, <2>4, <2>5, <2>6
<1>3. /\ running'[g] # {} => state'[g] = "up"
      /\ \A r \in running'[g] : Below(r.diff, Real[r.p])
  <2>1. ASSUME running'[g] \subseteq running[g], state'[g] = state[g]
        PROVE  /\ running'[g] # {} => state'[g] = "up"
               /\ \A r \in running'[g] : Below(r.diff, Real[r.p])
    BY <2>1 DEF Safe
  <2>2. ASSUME NEW f \in Fuzzer, NEW x \in Prog, Execute(f, x)
        PROVE  /\ running'[g] # {} => state'[g] = "up"
               /\ \A r \in running'[g] : Below(r.diff, Real[r.p])
    <3> DEFINE d == Diff(fMax[f], Real[x])
               n == [p |-> x, diff |-> d]
    <3>1. state[f] = "up" /\ state' = state /\ running' = [running EXCEPT ![f] = @ \cup {n}]
      BY <2>2 DEF Execute
    <3>2. Below(d, Real[x])
      BY <1>1, BelowOps, ProgAssumption
    <3>3. n.p = x /\ n.diff = d
      OBVIOUS
    <3> HIDE DEF n, d
    <3>4. CASE g # f
      <4>1. running'[g] = running[g]
        BY <1>1, <3>1, <3>4
      <4> QED BY <2>1, <3>1, <4>1
    <3>5. CASE g = f
      <4>1. running'[g] = running[g] \cup {n}
        BY <1>1, <3>1, <3>5
      <4> QED BY <3>1, <3>2, <3>3, <3>5, <4>1 DEF Safe
    <3> QED BY <3>4, <3>5
  <2>3. ASSUME NEW f \in Fuzzer, ConnectSnapshot(f) \/ ConnectRegister(f)
        PROVE  /\ running'[g] # {} => state'[g] = "up"
               /\ \A r \in running'[g] : Below(r.diff, Real[r.p])
    <3>1. /\ running' = running /\ state[f] # "up"
          /\ g # f => state'[g] = state[g]
      BY <1>1, <2>3 DEF ConnectSnapshot, ConnectRegister
    <3> QED BY <2>1, <3>1 DEF Safe
  <2>4. ASSUME NEW f \in Fuzzer, Crash(f)
        PROVE  /\ running'[g] # {} => state'[g] = "up"
               /\ \A r \in running'[g] : Below(r.diff, Real[r.p])
    <3>1. running' = [running EXCEPT ![f] = {}] /\ state' = [state EXCEPT ![f] = "down"]
      BY <2>4 DEF Crash
    <3>2. running'[g] = {} \/ (running'[g] = running[g] /\ state'[g] = state[g])
      BY <1>1, <3>1
    <3> QED BY <2>1, <3>2
  <2>5. ASSUME NEW f \in Fuzzer, NEW r \in running[f], ExecuteMerge(f, r)
        PROVE  running'[g] \subseteq running[g] /\ state'[g] = state[g]
    <3>1. running' = [running EXCEPT ![f] = @ \ {r}] /\ state' = state
      BY <2>5 DEF ExecuteMerge
    <3> QED BY <1>1, <3>1
  <2>6. ASSUME NEW f \in Fuzzer,
               \/ PollRequest(f) \/ PollServe(f) \/ PollApply(f)
               \/ \E p \in queue[f] : TriageStart(f, p)
               \/ \E t \in triaging[f] : TriageGiveUp(f, t) \/ \E q \in Prog : TriageSend(f, t, q)
               \/ \E i \in sent[f] : TriageAdd(f, i)
        PROVE  UNCHANGED <<running, state>>
    BY <2>6 DEF PollRequest, PollServe, PollApply, TriageStart, TriageGiveUp, TriageSend, TriageAdd
  <2>7. CASE UNCHANGED vars
    BY <2>1, <2>7 DEF vars
  <2>8. PICK f \in Fuzzer : Steps(f) \/ Crash(f) \/ (\E p \in Prog : Execute(f, p)) \/ UNCHANGED vars
    BY DEF Next
  <2>9. CASE Steps(f)
    BY <2>1, <2>3, <2>5, <2>6, <2>9 DEF Steps
  <2> QED BY <2>2, <2>4, <2>7, <2>8, <2>9
<1> QED BY <1>2, <1>3

\* What becomes known in a step is kept: an execution's signal is that of a program to
\* be triaged, and a poll passes on what a fuzzer or the manager knew.
LEMMA NewlyKnown ==
    ASSUME CorpusInv, Types', Safe, [Next]_vars, NEW W \in SUBSET Prog, AtWork' \subseteq W,
           KeptBy(maxSignal, corpusSignal', W),
           \A f \in Fuzzer : KeptBy(fMax[f], corpusSignal', W)
    PROVE  KeptBy(maxSignal', corpusSignal', W) /\ \A f \in Fuzzer : KeptBy(fMax'[f], corpusSignal', W)
<1> USE DEF CorpusInv
<1>1. /\ fMax \in [Fuzzer -> Signals] /\ maxSignal \in Signals /\ corpusSignal' \in Signals
      /\ corpusSignal \in Signals /\ state \in [Fuzzer -> States]
      /\ queue \in [Fuzzer -> SUBSET Prog]
      /\ running \in [Fuzzer -> SUBSET [p : Prog, diff : Signals]]
  BY DEF Types, FuzzerTypes, ServerTypes, WorkTypes
<1>2. ASSUME NEW s \in Signals, Below(s, corpusSignal) PROVE KeptBy(s, corpusSignal', W)
  <2>1. Below(s, corpusSignal')
    BY <1>1, <1>2, CorpusOnlyGrows, BelowOps
  <2> QED BY <1>1, <2>1, KeptOps
<1>3. KeptBy(maxSignal', corpusSignal', W)
  <2>1. ASSUME NEW f \in Fuzzer, PollServe(f) PROVE KeptBy(maxSignal', corpusSignal', W)
    <3> DEFINE d == Diff(maxSignal, poll[f].sig)
    <3>1. maxSignal' = Merge(maxSignal, d) /\ poll[f].st = "request"
      BY <2>1 DEF PollServe
    <3>2. poll[f].sig \in Signals
      BY PollFields
    <3>3. d \in Signals /\ Below(d, poll[f].sig)
      BY <1>1, <3>2, BelowDiff
    <3> HIDE DEF d
    <3>4. Below(poll[f].sig, fMax[f])
      BY <3>1 DEF Flows, Reports
    <3>5. Below(d, fMax[f])
      BY <1>1, <3>2, <3>3, <3>4, BelowTrans
    <3>6. KeptBy(d, corpusSignal', W)
      BY <1>1, <3>3, <3>5, KeptOps
    <3> QED BY <1>1, <3>1, <3>3, <3>6, KeptOps
  <2>2. ASSUME \A f \in Fuzzer : ~ PollServe(f) PROVE maxSignal' = maxSignal
    BY <2>2, Unmoved DEF Next, Steps, server, vars
  <2> QED BY <2>1, <2>2
<1>4. ASSUME NEW g \in Fuzzer PROVE KeptBy(fMax'[g], corpusSignal', W)
  <2>1. CASE fMax'[g] = fMax[g]
    BY <2>1
  <2>2. ASSUME NEW f \in Fuzzer, NEW r \in running[f], ExecuteMerge(f, r)
        PROVE  KeptBy(fMax'[g], corpusSignal', W)
    <3>1. /\ fMax' = [fMax EXCEPT ![f] = Merge(@, r.diff)] /\ state' = state
          /\ queue' = [queue EXCEPT ![f] = @ \cup {r.p}]
      BY <2>2 DEF ExecuteMerge
    <3>2. r.p \in Prog /\ r.diff \in Signals /\ Below(r.diff, Real[r.p]) /\ state[f] = "up"
      <4>1. r \in [p : Prog, diff : Signals]
        BY <1>1
      <4>2. r.p \in Prog /\ r.diff \in Signals
        BY <4>1
      <4>3. Below(r.diff, Real[r.p]) /\ state[f] = "up"
        BY DEF Safe
      <4> QED BY <4>2, <4>3
    <3>3. r.p \in W
      <4>1. r.p \in queue'[f] /\ state'[f] = "up"
        BY <1>1, <3>1, <3>2
      <4>2. r.p \in InWork(f)'
        BY <4>1 DEF InWork
      <4>3. r.p \in AtWork'
        BY <4>1, <4>2 DEF AtWork, Registered
      <4> QED BY <4>3
    <3>4. KeptBy(r.diff, corpusSignal', W)
      BY <1>1, <3>2, <3>3, KeptOps
    <3>5. KeptBy(Merge(fMax[f], r.diff), corpusSignal', W)
      BY <1>1, <3>2, <3>4, KeptOps
    <3>6. fMax'[g] = fMax[g] \/ fMax'[g] = Merge(fMax[f], r.diff)
      BY <1>1, <3>1
    <3> QED BY <2>1, <3>5, <3>6
  <2>3. ASSUME NEW f \in Fuzzer, PollApply(f) PROVE KeptBy(fMax'[g], corpusSignal', W)
    <3> DEFINE s == SigOf(poll[f].inps)
               m == Merge(fMax[f], poll[f].sig)
    <3>1. fMax' = [fMax EXCEPT ![f] = Merge(m, s)] /\ poll[f].st = "reply"
      BY <2>3 DEF PollApply
    <3>2. s \in Signals /\ Below(s, corpusSignal)
      <4>1. \A i \in poll[f].inps : Below(i[2], corpusSignal)
        BY DEF Claimed
      <4> QED BY <1>1, <4>1, PollFields, SigOfBound
    <3>3. poll[f].sig \in Signals /\ Below(poll[f].sig, maxSignal)
      BY <3>1, PollFields DEF Flows, Waits
    <3>4. KeptBy(poll[f].sig, corpusSignal', W)
      BY <1>1, <3>3, KeptOps
    <3>5. m \in Signals /\ KeptBy(m, corpusSignal', W)
      BY <1>1, <3>3, <3>4, SignalOps, KeptOps
    <3>6. KeptBy(s, corpusSignal', W)
      BY <1>2, <3>2
    <3> HIDE DEF s, m
    <3>7. KeptBy(Merge(m, s), corpusSignal', W)
      BY <1>1, <3>2, <3>5, <3>6, KeptOps
    <3>8. fMax'[g] = fMax[g] \/ fMax'[g] = Merge(m, s)
      BY <1>1, <3>1
    <3> QED BY <2>1, <3>7, <3>8
  <2>4. ASSUME NEW f \in Fuzzer, NEW i \in sent[f], TriageAdd(f, i) PROVE KeptBy(fMax'[g], corpusSignal', W)
    <3>1. fMax' = [fMax EXCEPT ![f] = Merge(@, i[2])]
      BY <2>4 DEF TriageAdd
    <3>2. i[2] \in Signals /\ Below(i[2], corpusSignal)
      <4>1. i \in Prog \X Signals
        BY DEF Types, FuzzerTypes, Input
      <4>2. i[2] \in Signals
        BY <4>1, SMTT(60)
      <4> QED BY <4>2 DEF Claimed
    <3>3. KeptBy(i[2], corpusSignal', W)
      BY <1>2, <3>2
    <3>4. KeptBy(Merge(fMax[f], i[2]), corpusSignal', W)
      BY <1>1, <3>2, <3>3, KeptOps
    <3>5. fMax'[g] = fMax[g] \/ fMax'[g] = Merge(fMax[f], i[2])
      BY <1>1, <3>1
    <3> QED BY <2>1, <3>4, <3>5
  <2>5. ASSUME NEW f \in Fuzzer, Crash(f) PROVE KeptBy(fMax'[g], corpusSignal', W)
    <3>1. fMax' = [fMax EXCEPT ![f] = Nil]
      BY <2>5 DEF Crash
    <3>2. fMax'[g] = fMax[g] \/ fMax'[g] = Nil
      BY <1>1, <3>1
    <3>3. Nil \in Signals /\ Below(Nil, corpusSignal)
      BY <1>1, SignalOps, BelowOps
    <3> QED BY <1>2, <2>1, <3>2, <3>3
  <2>6. ASSUME \A f \in Fuzzer : /\ ~ PollApply(f) /\ ~ Crash(f)
                                 /\ \A r \in running[f] : ~ ExecuteMerge(f, r)
                                 /\ \A i \in sent[f] : ~ TriageAdd(f, i)
        PROVE  fMax' = fMax
    BY <2>6, Unmoved DEF Next, Steps, vars
  <2> QED BY <2>1, <2>2, <2>3, <2>4, <2>5, <2>6
<1> QED BY <1>3, <1>4

\* Signal that the manager tells every fuzzer to ignore is in the corpus, or a program
\* that gives it is still to be triaged, or was waiting for its triage in a VM that
\* crashed, or failed in its triage: nothing else loses it.
THEOREM NothingElseIsLost == Spec => []LossAccounted
<1>1. Init => Safe
  <2> SUFFICES ASSUME Init PROVE Safe
    OBVIOUS
  <2>1. Nil \in Signals /\ Below(Nil, Nil)
    BY TypesInit, BelowOps DEF Types, ServerTypes, Init
  <2>2. KeptBy(Nil, Nil, Owed)
    BY <2>1 DEF KeptBy, Below
  <2>3. /\ maxSignal = Nil /\ corpusSignal = Nil /\ lost = {}
        /\ \A f \in Fuzzer : fMax[f] = Nil /\ fCorpus[f] = Nil /\ running[f] = {}
    BY DEF Init
  <2> QED BY <2>1, <2>2, <2>3 DEF Safe
<1>2. CorpusInv /\ CorpusInv' /\ Safe /\ [Next]_vars => Safe'
  <2> SUFFICES ASSUME CorpusInv, CorpusInv', Safe, [Next]_vars PROVE Safe'
    OBVIOUS
  <2>1. \A g \in Fuzzer : /\ Below(fCorpus'[g], corpusSignal')
                          /\ running'[g] # {} => state'[g] = "up"
                          /\ \A r \in running'[g] : Below(r.diff, Real[r.p])
    BY SafeParts DEF CorpusInv
  <2>2. lost' \in SUBSET Prog
    <3>1. lost \in SUBSET Prog /\ AtWork \in SUBSET Prog
      BY OwedProgs DEF Safe, CorpusInv
    <3>2. ASSUME NEW f \in Fuzzer PROVE InWork(f) \subseteq Prog
      <4>1. queue[f] \subseteq Prog /\ triaging[f] \subseteq [p : Prog, new : Signals]
        BY DEF CorpusInv, Types, WorkTypes
      <4> QED BY <4>1 DEF InWork
    <3>3. ASSUME NEW f \in Fuzzer, NEW t \in triaging[f] PROVE t.p \in Prog
      BY <3>2 DEF InWork
    <3> QED BY <3>1, <3>2, <3>3, Unmoved DEF Next, Steps, vars
  <2>3. \A p \in Owed : p \in Owed' \/ Below(Real[p], corpusSignal')
    BY WorkMoves DEF CorpusInv
  <2>4. Owed \in SUBSET Prog
    BY OwedProgs DEF Safe, CorpusInv
  <2>5. AtWork' \in SUBSET Prog /\ Owed' \in SUBSET Prog
    <3>1. Registered' \in SUBSET Fuzzer
      BY DEF Registered
    <3>2. AtWork' = WorkOf(queue', triaging', Registered')
      BY DEF AtWork, InWork, WorkOf
    <3>3. AtWork' \in SUBSET Prog
      BY <3>1, <3>2, WorkProgs DEF CorpusInv, Types, WorkTypes
    <3> QED BY <2>2, <3>3 DEF Owed
  <2>6. /\ maxSignal \in Signals /\ corpusSignal \in Signals /\ corpusSignal' \in Signals
        /\ \A f \in Fuzzer : fMax[f] \in Signals
    BY DEF CorpusInv, Types, ServerTypes, FuzzerTypes
  <2>7. Below(corpusSignal, corpusSignal')
    BY CorpusOnlyGrows DEF CorpusInv
  <2>8. KeptBy(maxSignal, corpusSignal, Owed) /\ \A f \in Fuzzer : KeptBy(fMax[f], corpusSignal, Owed)
    BY DEF Safe
  <2>9. KeptBy(maxSignal, corpusSignal', Owed')
    BY <2>3, <2>4, <2>6, <2>7, <2>8, KeptMoves
  <2>10. ASSUME NEW f \in Fuzzer PROVE KeptBy(fMax[f], corpusSignal', Owed')
    BY <2>3, <2>4, <2>6, <2>7, <2>8, KeptMoves
  <2>11. AtWork' \subseteq Owed'
    BY DEF Owed
  <2>12. /\ KeptBy(maxSignal', corpusSignal', Owed')
         /\ \A f \in Fuzzer : KeptBy(fMax'[f], corpusSignal', Owed')
    BY <2>5, <2>9, <2>10, <2>11, NewlyKnown DEF CorpusInv
  <2> QED BY <2>1, <2>2, <2>12 DEF Safe
<1>3. CorpusInv /\ Safe => LossAccounted
  <2> SUFFICES ASSUME CorpusInv, Safe
               PROVE  Below(maxSignal, Merge(corpusSignal, RealOf(Owed)))
    BY DEF LossAccounted, Owed, AtWork
  <2> DEFINE I == {<<p, Real[p]>> : p \in Owed}
             u == RealOf(Owed)
  <2>1. Owed \in SUBSET Prog
    BY OwedProgs DEF Safe, CorpusInv
  <2>2. I \in SUBSET Input
    BY <2>1, ProgAssumption, SMTT(60) DEF Input
  <2>3. u \in Signals /\ \A i \in I : Below(i[2], u)
    BY <2>2, SigOfBound DEF RealOf
  <2>4. ASSUME NEW p \in Owed PROVE Below(Real[p], u)
    <3>1. <<p, Real[p]>> \in I /\ <<p, Real[p]>>[2] = Real[p]
      OBVIOUS
    <3> QED BY <2>3, <3>1
  <2> HIDE DEF I, u
  <2>5. maxSignal \in Signals /\ corpusSignal \in Signals
    BY DEF CorpusInv, Types, ServerTypes
  <2> DEFINE m == Merge(corpusSignal, u)
  <2>6. m \in Signals /\ Below(corpusSignal, m) /\ Below(u, m)
    BY <2>3, <2>5, SignalOps, BelowOps
  <2> HIDE DEF m
  <2>7. KeptBy(maxSignal, corpusSignal, Owed)
    BY DEF Safe
  <2>8. ASSUME NEW p \in Owed PROVE p \in {} \/ Below(Real[p], m)
    <3>1. Real[p] \in Signals
      BY <2>1, ProgAssumption
    <3> QED BY <2>3, <2>4, <2>6, <3>1, BelowOps
  <2>9. KeptBy(maxSignal, m, {})
    BY <2>1, <2>5, <2>6, <2>7, <2>8, KeptMoves
  <2>10. Below(maxSignal, m)
    BY <2>9 DEF KeptBy, Below
  <2> QED BY <2>10 DEF m, u
<1> QED BY <1>1, <1>2, <1>3, CorpusInvariant, PTL DEF Spec
=============================================================================
