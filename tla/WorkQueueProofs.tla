--------------------------- MODULE WorkQueueProofs ---------------------------
(***************************************************************************)
(* For any number of procs, candidates and tasks, and any size of a batch: *)
(* the wake-up of the poll loop is never lost, and no item of work is lost *)
(* or given to two procs.                                                  *)
(***************************************************************************)
EXTENDS WorkQueue, FiniteSetTheorems, TLAPS

USE ZenonT(30)

Kind == {"high", "triageCandidate", "candidate", "triage", "smash", "dependency"}

\* There is a proc.
LEMMA SomeProc == Procs \in Nat /\ Procs > 0
  BY ProcAssumption, FS_CardinalityType, FS_EmptySet, SMTT(60) DEF Procs

\* The kinds of work are these six.
LEMMA KindsSet == Range(Kinds) = Kind
<1>1. DOMAIN Kinds = 1 .. 6
  BY SMTT(60) DEF Kinds
<1>2. /\ Kinds[1] = "high" /\ Kinds[2] = "triageCandidate" /\ Kinds[3] = "candidate"
      /\ Kinds[4] = "triage" /\ Kinds[5] = "smash" /\ Kinds[6] = "dependency"
  BY DEF Kinds
<1>3. 1 .. 6 = {1, 2, 3, 4, 5, 6}
  BY SMTT(60)
<1> QED BY <1>1, <1>2, <1>3, SMTT(60) DEF Range, Kind

\* A reply takes something from a queue that is not empty, and what it takes and
\* what it leaves are items of the queue.
LEMMA TakenSome ==
    ASSUME NEW S, NEW s \in Seq(S)
    PROVE  /\ Left(s) \in Seq(S)
           /\ Taken(s) \in Seq(S)
           /\ s # <<>> => Taken(s) # <<>>
<1> DEFINE n == IF Len(s) < Batch THEN 0 ELSE Len(s) - Batch
<1>1. Batch \in Nat /\ Batch > 0 /\ Len(s) \in Nat
  BY ItemAssumption, SMTT(60)
<1>2. n \in Nat /\ n =< Len(s) /\ (Len(s) > 0 => n < Len(s))
  BY <1>1, SMTT(60)
<1>3. Left(s) \in Seq(S) /\ Len(Left(s)) = n
  <2> HIDE DEF n
  <2>1. Left(s) = SubSeq(s, 1, n)
    BY DEF Left, n
  <2> QED BY <1>1, <1>2, <2>1, SMTT(60)
<1>4. Taken(s) \in Seq(S) /\ Len(Taken(s)) = Len(s) - n
  <2> HIDE DEF n
  <2>1. Len(s) - n \in Nat
    BY <1>1, <1>2, SMTT(60)
  <2>2. \A i \in 1 .. Len(s) - n : s[Len(s) - i + 1] \in S
    BY <1>1, <1>2, SMTT(60)
  <2>3. Taken(s) \in [1 .. Len(s) - n -> S]
    BY <1>3, <2>2 DEF Taken
  <2> QED BY <2>1, <2>3, SMTT(60)
<1>5. s # <<>> => Len(s) > 0
  BY <1>1, SMTT(60)
<1>6. s # <<>> => Len(Taken(s)) > 0
  <2> HIDE DEF n
  <2> QED BY <1>1, <1>2, <1>4, <1>5, SMTT(60)
<1>7. s # <<>> => Taken(s) # <<>>
  BY <1>6, SMTT(60)
<1> QED BY <1>3, <1>4, <1>7

\* An item taken from a queue leaves a queue.
LEMMA GiveType ==
    ASSUME NEW S, NEW q \in Seq(S), q # <<>>
    PROVE  /\ q[Len(q)] \in S /\ SubSeq(q, 1, Len(q) - 1) \in Seq(S)
           /\ Len(SubSeq(q, 1, Len(q) - 1)) = Len(q) - 1
<1>1. Len(q) \in Nat /\ Len(q) > 0
  BY SMTT(60)
<1>2. q[Len(q)] \in S
  BY <1>1, SMTT(60)
<1>3. SubSeq(q, 1, Len(q) - 1) \in Seq(S) /\ Len(SubSeq(q, 1, Len(q) - 1)) = Len(q) - 1
  <2> DEFINE n == Len(q) - 1
  <2>1. n \in Nat /\ n =< Len(q)
    BY <1>1, SMTT(60)
  <2> HIDE DEF n
  <2>2. SubSeq(q, 1, n) \in Seq(S) /\ Len(SubSeq(q, 1, n)) = n
    BY <2>1, SMTT(60)
  <2> QED BY <2>2 DEF n
<1> QED BY <1>2, <1>3

\* What the work on an item leads to is work of a kind that is not "candidate".
LEMMA FollowsKinds ==
    ASSUME NEW k, NEW j \in Follows(k), j # None
    PROVE  j \in Kind /\ j # "candidate"
  BY DEF Follows, Kind, None

-----------------------------------------------------------------------------
\* The first poll has filled the queue.
LEMMA InitInv == Init => TypeOK /\ NoLostWakeup
<1> SUFFICES ASSUME Init PROVE TypeOK /\ NoLostWakeup
  OBVIOUS
<1>1. Taken(Candidates) \in Seq(Candidate) /\ Left(Candidates) \in Seq(Candidate)
  BY TakenSome, SeqAssumption
<1>2. Taken(Candidates) \in Seq(Item)
  BY <1>1, SMTT(60) DEF Item
<1>3. <<>> \in Seq(Item)
  BY SMTT(60)
<1>4. wq \in [Range(Kinds) -> Seq(Item)]
  BY <1>2, <1>3 DEF Init
<1>5. TypeOK
  <2>1. /\ pc \in [Proc -> {"loop", "lock", "send", "dependency", "run"}]
        /\ item \in [Proc -> Item \cup {None}] /\ work \in [Proc -> Range(Kinds) \cup {None}]
        /\ \A p \in Proc : IF pc[p] \in {"send", "run"} THEN item[p] # None /\ work[p] # None
                                                     ELSE item[p] = None /\ work[p] = None
    BY DEF Init
  <2>2. /\ manager \in Seq(Candidate) /\ server \in Seq(Task) /\ fresh \subseteq Found
        /\ done \subseteq Item /\ needPoll \in 0 .. 1
    BY <1>1, SeqAssumption, SMTT(60) DEF Init
  <2>3. poller \in {"select", "check", "call", "tasks"} /\ poll \in BOOLEAN /\ need \in BOOLEAN
    BY DEF Init
  <2> QED BY <1>4, <2>1, <2>2, <2>3 DEF TypeOK
<1>6. NoLostWakeup
  BY DEF Init, NoLostWakeup
<1> QED BY <1>5, <1>6

\* A proc that takes an item has it, and the queue is a queue of items.
LEMMA GivePreserves ==
    ASSUME TypeOK, NEW p \in Proc, NEW k \in Kind, wq[k] # <<>>, Give(p, k)
    PROVE  /\ wq' \in [Range(Kinds) -> Seq(Item)]
           /\ item' \in [Proc -> Item \cup {None}] /\ work' \in [Proc -> Range(Kinds) \cup {None}]
           /\ item'[p] # None /\ work'[p] # None
           /\ \A q \in Proc \ {p} : item'[q] = item[q] /\ work'[q] = work[q]
           /\ \A j \in Kind \ {k} : wq'[j] = wq[j]
           /\ Len(wq'[k]) = Len(wq[k]) - 1
<1>1. wq[k] \in Seq(Item) /\ k \in Range(Kinds)
  BY KindsSet DEF TypeOK
<1> DEFINE rest == SubSeq(wq[k], 1, Len(wq[k]) - 1)
           last == wq[k][Len(wq[k])]
<1>2. last \in Item /\ rest \in Seq(Item) /\ Len(rest) = Len(wq[k]) - 1
  BY <1>1, GiveType
<1>3. None \notin Item /\ k # None
  BY ItemAssumption DEF Kind, None
<1>4. wq' = [wq EXCEPT ![k] = rest] /\ item' = [item EXCEPT ![p] = last]
      /\ work' = [work EXCEPT ![p] = k]
  BY DEF Give
<1> HIDE DEF rest, last
<1>5. wq' \in [Range(Kinds) -> Seq(Item)] /\ Len(wq'[k]) = Len(wq[k]) - 1
      /\ \A j \in Kind \ {k} : wq'[j] = wq[j]
  BY <1>1, <1>2, <1>4, KindsSet DEF TypeOK
<1>6. /\ item' \in [Proc -> Item \cup {None}] /\ work' \in [Proc -> Range(Kinds) \cup {None}]
      /\ item'[p] # None /\ work'[p] # None
      /\ \A q \in Proc \ {p} : item'[q] = item[q] /\ work'[q] = work[q]
  BY <1>1, <1>2, <1>3, <1>4 DEF TypeOK
<1> QED BY <1>5, <1>6

\* An item more in a queue.
LEMMA EnqueuePreserves ==
    ASSUME TypeOK, NEW k \in Kind, NEW x \in Item, Enqueue(k, x)
    PROVE  /\ wq' \in [Range(Kinds) -> Seq(Item)]
           /\ \A j \in Kind \ {k} : wq'[j] = wq[j]
<1>1. wq[k] \in Seq(Item) /\ k \in Range(Kinds)
  BY KindsSet DEF TypeOK
<1>2. Append(wq[k], x) \in Seq(Item)
  BY <1>1, SMTT(60)
<1> QED BY <1>1, <1>2, KindsSet DEF Enqueue, TypeOK

\* A program that was found waits for its triage; the candidates stay.
LEMMA FindsPreserves ==
    ASSUME TypeOK, Finds
    PROVE  /\ wq' \in [Range(Kinds) -> Seq(Item)] /\ wq'["candidate"] = wq["candidate"]
           /\ fresh' \subseteq Found
<1>1. PICK x \in fresh : Enqueue("triage", x) /\ fresh' = fresh \ {x}
  BY DEF Finds
<1>2. x \in Item /\ "triage" \in Kind /\ "candidate" \in Kind \ {"triage"}
  BY DEF TypeOK, Item, Kind
<1> QED BY <1>1, <1>2, EnqueuePreserves DEF TypeOK

\* The steps of a proc: the one that empties the queue goes on to send.
LEMMA ProcStep ==
    ASSUME TypeOK, NoLostWakeup, NEW p \in Proc, ProcNext(p)
    PROVE  TypeOK' /\ NoLostWakeup'
<1> DEFINE C == "candidate"
<1>0. C \in Kind /\ C \in Range(Kinds) /\ Kind = Range(Kinds)
  BY KindsSet DEF Kind
<1>1. CASE Dequeue(p)
  <2>1. pc[p] = "loop" /\ pc' = [pc EXCEPT ![p] = IF Empty THEN "dependency" ELSE "lock"]
        /\ UNCHANGED <<wq, item, work, needPoll, poller, poll, need, manager, server, fresh, done>>
    BY <1>1 DEF Dequeue, polling
  <2>2. TypeOK'
    BY <2>1 DEF TypeOK
  <2>3. NoLostWakeup'
    BY <2>1 DEF NoLostWakeup, TypeOK
  <2> QED BY <2>2, <2>3
<1>2. CASE DequeueLocked(p)
  <2>1. pc[p] = "lock"
        /\ UNCHANGED <<needPoll, poller, poll, need, manager, server, fresh, done>>
    BY <1>2 DEF DequeueLocked, polling
  <2>2. CASE Empty
    <3>1. pc' = [pc EXCEPT ![p] = "dependency"] /\ UNCHANGED <<wq, item, work>>
      BY <1>2, <2>2 DEF DequeueLocked
    <3>2. TypeOK'
      BY <2>1, <3>1 DEF TypeOK
    <3>3. NoLostWakeup'
      BY <2>1, <3>1 DEF NoLostWakeup, TypeOK
    <3> QED BY <3>2, <3>3
  <2>3. CASE ~Empty
    <3>1. PICK k \in Range(Kinds) :
             /\ First(k) /\ Give(p, k)
             /\ pc' = [pc EXCEPT ![p] = IF k = C /\ Wants(wq[k]) THEN "send" ELSE "run"]
      BY <1>2, <2>3 DEF DequeueLocked
    <3>2. k \in Kind /\ wq[k] # <<>>
      BY <1>0, <3>1 DEF First
    <3>3. /\ wq' \in [Range(Kinds) -> Seq(Item)]
          /\ item' \in [Proc -> Item \cup {None}] /\ work' \in [Proc -> Range(Kinds) \cup {None}]
          /\ item'[p] # None /\ work'[p] # None
          /\ \A q \in Proc \ {p} : item'[q] = item[q] /\ work'[q] = work[q]
          /\ \A j \in Kind \ {k} : wq'[j] = wq[j]
          /\ Len(wq'[k]) = Len(wq[k]) - 1
      BY <3>1, <3>2, GivePreserves
    <3>4. pc' \in [Proc -> {"loop", "lock", "send", "dependency", "run"}]
          /\ pc'[p] \in {"send", "run"} /\ \A q \in Proc \ {p} : pc'[q] = pc[q]
      BY <3>1 DEF TypeOK
    <3>5. TypeOK'
      <4>1. \A q \in Proc : IF pc'[q] \in {"send", "run"} THEN item'[q] # None /\ work'[q] # None
                                                  ELSE item'[q] = None /\ work'[q] = None
        BY <3>3, <3>4 DEF TypeOK
      <4> QED BY <2>1, <3>3, <3>4, <4>1 DEF TypeOK
    <3>6. NoLostWakeup'
      <4>1. CASE k # C
        BY <1>0, <2>1, <3>3, <3>4, <4>1 DEF NoLostWakeup
      <4>2. CASE k = C
        <5>1. wq[C] \in Seq(Item) /\ wq'[C] \in Seq(Item)
          BY <1>0, <3>3 DEF TypeOK
        <5>2. wq'[C] = <<>> => Len(wq[C]) - 1 = 0
          BY <3>3, <4>2, <5>1
        <5>3. wq'[C] = <<>> => pc'[p] = "send"
          BY <3>1, <4>2, <5>2, SomeProc DEF Wants, TypeOK
        <5> QED BY <5>3 DEF NoLostWakeup
      <4> QED BY <4>1, <4>2
    <3> QED BY <3>5, <3>6
  <2> QED BY <2>2, <2>3
<1>3. CASE SendNeed(p)
  <2>1. pc[p] = "send" /\ needPoll' = 1 /\ pc' = [pc EXCEPT ![p] = "run"]
        /\ UNCHANGED <<wq, item, work, poller, poll, need, manager, server, fresh, done>>
    BY <1>3 DEF SendNeed, polling
  <2>2. TypeOK'
    BY <2>1, SMTT(60) DEF TypeOK
  <2>3. NoLostWakeup'
    BY <2>1 DEF NoLostWakeup
  <2> QED BY <2>2, <2>3
<1>4. CASE DequeueDependency(p)
  <2>1. pc[p] = "dependency"
        /\ UNCHANGED <<needPoll, poller, poll, need, manager, server, done>>
    BY <1>4 DEF DequeueDependency, polling
  <2>2. CASE wq["dependency"] # <<>>
    <3>1. Give(p, "dependency") /\ pc' = [pc EXCEPT ![p] = "run"] /\ UNCHANGED fresh
      BY <1>4, <2>2 DEF DequeueDependency
    <3>2. "dependency" \in Kind /\ "dependency" # C
      BY DEF Kind
    <3>3. /\ wq' \in [Range(Kinds) -> Seq(Item)]
          /\ item' \in [Proc -> Item \cup {None}] /\ work' \in [Proc -> Range(Kinds) \cup {None}]
          /\ item'[p] # None /\ work'[p] # None
          /\ \A q \in Proc \ {p} : item'[q] = item[q] /\ work'[q] = work[q]
          /\ \A j \in Kind \ {"dependency"} : wq'[j] = wq[j]
      BY <2>2, <3>1, <3>2, GivePreserves
    <3>4. pc' \in [Proc -> {"loop", "lock", "send", "dependency", "run"}]
          /\ pc'[p] = "run" /\ \A q \in Proc \ {p} : pc'[q] = pc[q]
      BY <3>1 DEF TypeOK
    <3>5. TypeOK'
      <4>1. \A q \in Proc : IF pc'[q] \in {"send", "run"} THEN item'[q] # None /\ work'[q] # None
                                                  ELSE item'[q] = None /\ work'[q] = None
        BY <3>3, <3>4 DEF TypeOK
      <4> QED BY <2>1, <3>1, <3>3, <3>4, <4>1 DEF TypeOK
    <3>6. NoLostWakeup'
      BY <1>0, <2>1, <3>2, <3>3, <3>4 DEF NoLostWakeup
    <3> QED BY <3>5, <3>6
  <2>3. CASE ~(wq["dependency"] # <<>>)
    <3>1. /\ pc' = [pc EXCEPT ![p] = "loop"] /\ UNCHANGED <<item, work>>
          /\ UNCHANGED <<wq, fresh>> \/ Finds
      BY <1>4, <2>3 DEF DequeueDependency
    <3>2. /\ wq' \in [Range(Kinds) -> Seq(Item)] /\ wq'[C] = wq[C] /\ fresh' \subseteq Found
      <4>1. CASE UNCHANGED <<wq, fresh>>
        BY <4>1 DEF TypeOK
      <4>2. CASE Finds
        BY <4>2, FindsPreserves
      <4> QED BY <3>1, <4>1, <4>2
    <3>3. TypeOK'
      BY <2>1, <3>1, <3>2 DEF TypeOK
    <3>4. NoLostWakeup'
      BY <2>1, <3>1, <3>2 DEF NoLostWakeup, TypeOK
    <3> QED BY <3>3, <3>4
  <2> QED BY <2>2, <2>3
<1>5. CASE Run(p)
  <2>1. /\ pc[p] = "run" /\ pc' = [pc EXCEPT ![p] = "loop"]
        /\ item' = [item EXCEPT ![p] = None] /\ work' = [work EXCEPT ![p] = None]
        /\ UNCHANGED <<needPoll, poller, poll, need, manager, server, fresh>>
    BY <1>5 DEF Run, polling
  <2>2. item[p] \in Item
    BY <2>1 DEF TypeOK
  <2>3. wq' \in [Range(Kinds) -> Seq(Item)] /\ wq'[C] = wq[C] /\ done' \subseteq Item
    <3>1. PICK k \in Follows(work[p]) :
             IF k = None THEN done' = done \cup {item[p]} /\ UNCHANGED wq
                         ELSE Enqueue(k, item[p]) /\ UNCHANGED done
      BY <1>5 DEF Run
    <3>2. CASE k = None
      BY <2>2, <3>1, <3>2 DEF TypeOK
    <3>3. CASE k # None
      <4>1. k \in Kind /\ C \in Kind \ {k}
        BY <1>0, <3>3, FollowsKinds
      <4> QED BY <2>2, <3>1, <3>3, <4>1, EnqueuePreserves DEF TypeOK
    <3> QED BY <3>2, <3>3
  <2>4. TypeOK'
    BY <2>1, <2>3 DEF TypeOK
  <2>5. NoLostWakeup'
    BY <2>1, <2>3 DEF NoLostWakeup, TypeOK
  <2> QED BY <2>4, <2>5
<1>6. CASE Execute(p)
  <2>1. UNCHANGED <<pc, item, work, needPoll, poller, poll, need, manager, server, done>>
    BY <1>6 DEF Execute, procs, polling
  <2>2. /\ wq' \in [Range(Kinds) -> Seq(Item)] /\ wq'[C] = wq[C] /\ fresh' \subseteq Found
    BY <1>6, FindsPreserves DEF Execute
  <2>3. TypeOK'
    BY <2>1, <2>2 DEF TypeOK
  <2>4. NoLostWakeup'
    BY <2>1, <2>2 DEF NoLostWakeup
  <2> QED BY <2>3, <2>4
<1> QED BY <1>1, <1>2, <1>3, <1>4, <1>5, <1>6 DEF ProcNext

\* The steps of the poll loop: a wake-up is dropped only when there are candidates.
LEMMA PollerStep ==
    ASSUME TypeOK, NoLostWakeup, PollerNext
    PROVE  TypeOK' /\ NoLostWakeup'
<1> DEFINE C == "candidate"
<1>0. C \in Kind /\ C \in Range(Kinds) /\ Kind = Range(Kinds)
  BY KindsSet DEF Kind
<1>1. CASE Select
  <2>1. TypeOK'
    <3>1. needPoll' \in 0 .. 1
      BY <1>1, SMTT(60) DEF Select, TypeOK
    <3>2. poll' \in BOOLEAN
      BY <1>1 DEF Select
    <3> QED BY <1>1, <3>1, <3>2 DEF Select, TypeOK, procs
  <2>2. NoLostWakeup'
    BY <1>1 DEF Select, NoLostWakeup, procs
  <2> QED BY <2>1, <2>2
<1>2. CASE CheckNeed
  <2>1. wq[C] = <<>> => need'
    BY <1>2, SomeProc DEF CheckNeed
  <2>2. TypeOK'
    <3>1. need' \in BOOLEAN
      <4>1. (Len(wq[C]) < Procs) \in BOOLEAN
        BY SMTT(60)
      <4>2. need' = (Len(wq[C]) < Procs)
        BY <1>2 DEF CheckNeed
      <4> QED BY <4>1, <4>2
    <3>2. poller' \in {"select", "check", "call", "tasks"} /\ poll' \in BOOLEAN
      BY <1>2 DEF CheckNeed
    <3> QED BY <1>2, <3>1, <3>2 DEF CheckNeed, TypeOK, procs
  <2>3. NoLostWakeup'
    BY <1>2, <2>1 DEF CheckNeed, NoLostWakeup, procs
  <2> QED BY <2>2, <2>3
<1>3. CASE Poll
  <2>1. manager \in Seq(Candidate) /\ wq[C] \in Seq(Item)
    BY <1>0 DEF TypeOK
  <2>2. /\ Left(manager) \in Seq(Candidate) /\ Taken(manager) \in Seq(Candidate)
        /\ manager # <<>> => Taken(manager) # <<>>
    BY <2>1, TakenSome
  <2>3. Taken(manager) \in Seq(Item)
    BY <2>2, SMTT(60) DEF Item
  <2>4. wq[C] \o Taken(manager) \in Seq(Item)
    BY <2>1, <2>3, SMTT(60)
  <2>5. Taken(manager) # <<>> => wq[C] \o Taken(manager) # <<>>
    BY <2>1, <2>3, SMTT(60)
  <2>6. wq' \in [Range(Kinds) -> Seq(Item)] /\ manager' \in Seq(Candidate)
    BY <1>0, <1>3, <2>1, <2>2, <2>4 DEF Poll, TypeOK
  <2>7. TypeOK'
    BY <1>3, <2>6 DEF Poll, TypeOK, procs
  <2>8. NoLostWakeup'
    <3>1. CASE need
      <4>1. wq'[C] = wq[C] \o Taken(manager) /\ manager' = Left(manager)
        BY <1>0, <1>3, <3>1 DEF Poll, TypeOK
      <4>2. manager = <<>> => Left(manager) = <<>>
        BY SMTT(60) DEF Left
      <4> QED BY <2>2, <2>5, <4>1, <4>2 DEF NoLostWakeup
    <3>2. CASE ~need
      BY <1>3, <3>2 DEF Poll, NoLostWakeup, procs
    <3> QED BY <3>1, <3>2
  <2> QED BY <2>7, <2>8
<1>4. CASE GetTasks
  <2>1. server \in Seq(Task)
    BY DEF TypeOK
  <2>2. Left(server) \in Seq(Task) /\ Taken(server) \in Seq(Task)
    BY <2>1, TakenSome
  <2>3. Taken(server) \in Seq(Item)
    BY <2>2, SMTT(60) DEF Item
  <2>4. PICK k \in {"high", "dependency"} : wq' = [wq EXCEPT ![k] = @ \o Taken(server)]
    BY <1>4 DEF GetTasks
  <2>5. k \in Kind /\ k # C /\ wq[k] \in Seq(Item)
    BY <1>0 DEF Kind, TypeOK
  <2>6. wq[k] \o Taken(server) \in Seq(Item)
    BY <2>3, <2>5, SMTT(60)
  <2>7. wq' \in [Range(Kinds) -> Seq(Item)] /\ wq'[C] = wq[C]
    BY <1>0, <2>4, <2>5, <2>6 DEF TypeOK
  <2>8. TypeOK'
    BY <1>4, <2>2, <2>7 DEF GetTasks, TypeOK, procs
  <2>9. NoLostWakeup'
    BY <1>4, <2>7 DEF GetTasks, NoLostWakeup, procs
  <2> QED BY <2>8, <2>9
<1> QED BY <1>1, <1>2, <1>3, <1>4 DEF PollerNext

\* Types and wake-ups together are inductive.
LEMMA WorkQueueInvariant == Spec => [](TypeOK /\ NoLostWakeup)
<1>1. ASSUME TypeOK, NoLostWakeup, [Next]_vars PROVE TypeOK' /\ NoLostWakeup'
  <2>1. CASE UNCHANGED vars
    BY <1>1, <2>1 DEF vars, procs, polling, TypeOK, NoLostWakeup
  <2>2. CASE PollerNext
    BY <1>1, <2>2, PollerStep
  <2>3. ASSUME NEW p \in Proc, ProcNext(p) PROVE TypeOK' /\ NoLostWakeup'
    BY <1>1, <2>3, ProcStep
  <2> QED BY <1>1, <2>1, <2>2, <2>3 DEF Next
<1> QED BY <1>1, InitInv, PTL DEF Spec

\* Queues hold items, and a proc has an item exactly while it works on it.
THEOREM WorkQueueTypes == Spec => []TypeOK
  BY WorkQueueInvariant, PTL

\* dequeue sends its wake-up after it has given the lock back, and pollLoop drops
\* one that it finds out of date: even so the procs never run out of candidates
\* while the manager has some and nobody asks for them.
THEOREM WakeupsArrive == Spec => []NoLostWakeup
  BY WorkQueueInvariant, PTL

-----------------------------------------------------------------------------
(* Every item of work is in one place *)

\* The places of x in a queue.
Pos(q, x) == {j \in DOMAIN q : q[j] = x}

Out(x) == x \in Range(manager) \cup Range(server) \cup fresh
Nowhere(x) == \A k \in Kind : Pos(wq[k], x) = {}
Somewhere(x) == \E k \in Kind, i \in Nat : /\ Pos(wq[k], x) = {i}
                                           /\ \A l \in Kind \ {k} : Pos(wq[l], x) = {}
Unheld(x) == \A p \in Proc : item[p] # x
Held(x) == \E p \in Proc : item[p] = x /\ \A q \in Proc \ {p} : item[q] # x

\* WorkConserved, by cases: x is with the manager or the server, or done, or in
\* one place of one queue, or with one proc.
OnePlace(x) ==
    \/ Out(x) /\ x \notin done /\ Nowhere(x) /\ Unheld(x)
    \/ ~Out(x) /\ x \in done /\ Nowhere(x) /\ Unheld(x)
    \/ ~Out(x) /\ x \notin done /\ Somewhere(x) /\ Unheld(x)
    \/ ~Out(x) /\ x \notin done /\ Nowhere(x) /\ Held(x)

\* What is handed out next is handed out once.
ConsInv == (\A x \in Item : OnePlace(x)) /\ IsInjective(manager) /\ IsInjective(server)

\* One more at the end of a queue.
LEMMA PosAppend ==
    ASSUME NEW S, NEW q \in Seq(S), NEW y \in S, NEW x
    PROVE  /\ x # y => Pos(Append(q, y), x) = Pos(q, x)
           /\ x = y /\ Pos(q, x) = {} => \E i \in Nat : Pos(Append(q, y), x) = {i}
<1> DEFINE n == Len(q)
           r == Append(q, y)
<1>1. /\ n \in Nat /\ DOMAIN q = 1 .. n /\ DOMAIN r = 1 .. n + 1
      /\ \A i \in 1 .. n : r[i] = q[i]
      /\ r[n + 1] = y
  BY SMTT(60)
<1>2. /\ \A i \in 1 .. n + 1 : i \in 1 .. n \/ i = n + 1
      /\ \A i \in 1 .. n : i \in 1 .. n + 1
      /\ n + 1 \in 1 .. n + 1 /\ n + 1 \in Nat
  BY <1>1, SMTT(60)
<1> HIDE DEF n, r
<1>3. x # y => Pos(r, x) = Pos(q, x)
  BY <1>1, <1>2 DEF Pos
<1>4. x = y /\ Pos(q, x) = {} => Pos(r, x) = {n + 1}
  BY <1>1, <1>2 DEF Pos
<1> QED BY <1>2, <1>3, <1>4 DEF r

\* The last one of a queue is taken.
LEMMA PosCut ==
    ASSUME NEW S, NEW q \in Seq(S), q # <<>>, NEW x
    PROVE  LET r == SubSeq(q, 1, Len(q) - 1)
               y == q[Len(q)]
           IN  /\ x # y => Pos(r, x) = Pos(q, x)
               /\ x = y => Pos(q, x) # {} /\ \A i : Pos(q, x) = {i} => Pos(r, x) = {}
<1> DEFINE n == Len(q)
           m == Len(q) - 1
           r == SubSeq(q, 1, m)
           y == q[n]
<1>1. n \in Nat /\ m \in Nat /\ n = m + 1 /\ DOMAIN q = 1 .. n
  BY SMTT(60)
<1>2. DOMAIN r = 1 .. m /\ \A i \in 1 .. m : r[i] = q[i]
  <2>1. m \in Nat /\ m <= Len(q)
    BY <1>1, SMTT(60)
  <2> HIDE DEF m
  <2> QED BY <2>1, SMTT(60)
<1> HIDE DEF n, m, r
<1>3. /\ \A i \in 1 .. n : i \in 1 .. m \/ i = n
      /\ \A i \in 1 .. m : i \in 1 .. n /\ i # n
      /\ n \in 1 .. n
  BY <1>1, SMTT(60)
<1>4. x # y => Pos(r, x) = Pos(q, x)
  BY <1>1, <1>2, <1>3 DEF Pos
<1>5. x = y => n \in Pos(q, x)
  BY <1>1, <1>3 DEF Pos
<1>6. \A i \in Pos(r, x) : i \in Pos(q, x) /\ i # n
  BY <1>1, <1>2, <1>3 DEF Pos
<1>7. ASSUME x = y, NEW i, Pos(q, x) = {i} PROVE Pos(r, x) = {}
  BY <1>5, <1>6, <1>7
<1> QED BY <1>4, <1>5, <1>7 DEF n, m, r

\* A batch at the end of a queue.
LEMMA PosJoin ==
    ASSUME NEW S, NEW q \in Seq(S), NEW r \in Seq(S), NEW x
    PROVE  /\ x \notin Range(r) => Pos(q \o r, x) = Pos(q, x)
           /\ x \in Range(r) /\ IsInjective(r) /\ Pos(q, x) = {} => \E i \in Nat : Pos(q \o r, x) = {i}
<1> DEFINE m == Len(q)
           n == Len(r)
           s == q \o r
<1>1. /\ m \in Nat /\ n \in Nat /\ DOMAIN q = 1 .. m /\ DOMAIN r = 1 .. n /\ DOMAIN s = 1 .. m + n
      /\ \A i \in 1 .. m : s[i] = q[i]
      /\ \A i \in 1 .. n : s[m + i] = r[i]
  BY SMTT(60)
<1>2. /\ \A i \in 1 .. m + n : i \in 1 .. m \/ (i - m \in 1 .. n /\ i = m + (i - m))
      /\ \A i \in 1 .. m : i \in 1 .. m + n
      /\ \A i \in 1 .. n : m + i \in 1 .. m + n /\ m + i \in Nat
  BY <1>1, SMTT(60)
<1> HIDE DEF m, n, s
<1>3. ASSUME x \notin Range(r) PROVE Pos(s, x) = Pos(q, x)
  <2>1. \A i \in 1 .. n : r[i] # x
    BY <1>1, <1>3 DEF Range
  <2>2. ASSUME NEW i \in 1 .. m + n, s[i] = x PROVE i \in 1 .. m /\ q[i] = x
    <3>1. ~(i - m \in 1 .. n /\ i = m + (i - m))
      BY <1>1, <2>1, <2>2
    <3>2. i \in 1 .. m
      BY <1>2, <3>1
    <3> QED BY <1>1, <2>2, <3>2
  <2>3. \A i \in 1 .. m : q[i] = x => i \in 1 .. m + n /\ s[i] = x
    BY <1>1, <1>2
  <2> QED BY <1>1, <2>2, <2>3 DEF Pos
<1>4. ASSUME x \in Range(r), IsInjective(r), Pos(q, x) = {} PROVE \E i \in Nat : Pos(s, x) = {i}
  <2>1. PICK j \in 1 .. n : r[j] = x
    BY <1>1, <1>4 DEF Range
  <2>2. m + j \in 1 .. m + n /\ m + j \in Nat /\ s[m + j] = x
    BY <1>1, <1>2, <2>1
  <2>3. ASSUME NEW i \in 1 .. m + n, s[i] = x PROVE i = m + j
    <3>1. ~(i \in 1 .. m)
      BY <1>1, <1>4, <2>3 DEF Pos
    <3>2. i - m \in 1 .. n /\ i = m + (i - m)
      BY <1>2, <3>1
    <3>3. r[i - m] = x
      BY <1>1, <2>3, <3>2
    <3>4. i - m = j
      BY <1>1, <1>4, <2>1, <3>2, <3>3 DEF IsInjective
    <3> QED BY <3>2, <3>4
  <2>4. Pos(s, x) = {m + j}
    BY <1>1, <2>2, <2>3 DEF Pos
  <2> QED BY <2>2, <2>4
<1> QED BY <1>3, <1>4 DEF s

\* A reply splits what it takes from: every element is handed out or left, not both.
LEMMA BatchSplit ==
    ASSUME NEW S, NEW s \in Seq(S), IsInjective(s)
    PROVE  /\ IsInjective(Left(s)) /\ IsInjective(Taken(s))
           /\ \A x : x \in Range(s) <=> x \in Range(Left(s)) \/ x \in Range(Taken(s))
           /\ \A x : ~(x \in Range(Left(s)) /\ x \in Range(Taken(s)))
<1> DEFINE n == Len(s)
           m == IF Len(s) < Batch THEN 0 ELSE Len(s) - Batch
           l == Left(s)
           t == Taken(s)
<1>1. Batch \in Nat /\ n \in Nat /\ DOMAIN s = 1 .. n
  BY ItemAssumption, SMTT(60)
<1>2. m \in Nat /\ m <= n
  BY <1>1, SMTT(60)
<1>3. l = SubSeq(s, 1, m)
  BY DEF Left
<1> HIDE DEF n, m, l, t
<1>4. DOMAIN l = 1 .. m /\ Len(l) = m /\ \A i \in 1 .. m : l[i] = s[i]
  BY <1>1, <1>2, <1>3, SMTT(60) DEF n
<1>5. DOMAIN t = 1 .. n - m /\ \A i \in 1 .. n - m : t[i] = s[n - i + 1]
  BY <1>4 DEF Taken, t, l, n
<1>6. /\ \A i \in 1 .. n : i \in 1 .. m \/ (n - i + 1 \in 1 .. n - m /\ n - (n - i + 1) + 1 = i)
      /\ \A i \in 1 .. m : i \in 1 .. n
      /\ \A i \in 1 .. n - m : n - i + 1 \in 1 .. n /\ ~(n - i + 1 \in 1 .. m)
      /\ \A i, j \in 1 .. n - m : n - i + 1 = n - j + 1 => i = j
  BY <1>1, <1>2, SMTT(60)
<1>7. \A i, j \in 1 .. n : s[i] = s[j] => i = j
  BY <1>1 DEF IsInjective
<1>8. IsInjective(l)
  <2> SUFFICES ASSUME NEW i \in 1 .. m, NEW j \in 1 .. m, l[i] = l[j] PROVE i = j
    BY <1>4 DEF IsInjective
  <2>1. s[i] = s[j] /\ i \in 1 .. n /\ j \in 1 .. n
    BY <1>4, <1>6
  <2> QED BY <1>7, <2>1
<1>9. IsInjective(t)
  <2> SUFFICES ASSUME NEW i \in 1 .. n - m, NEW j \in 1 .. n - m, t[i] = t[j] PROVE i = j
    BY <1>5 DEF IsInjective
  <2>1. s[n - i + 1] = s[n - j + 1] /\ n - i + 1 \in 1 .. n /\ n - j + 1 \in 1 .. n
    BY <1>5, <1>6
  <2>2. n - i + 1 = n - j + 1
    BY <1>7, <2>1
  <2> QED BY <1>6, <2>2
<1>10. ASSUME NEW x PROVE x \in Range(s) <=> x \in Range(l) \/ x \in Range(t)
  <2>1. ASSUME NEW i \in 1 .. n, x = s[i] PROVE x \in Range(l) \/ x \in Range(t)
    <3>1. CASE i \in 1 .. m
      BY <1>4, <2>1, <3>1 DEF Range
    <3>2. CASE n - i + 1 \in 1 .. n - m /\ n - (n - i + 1) + 1 = i
      <4>1. t[n - i + 1] = s[i]
        BY <1>5, <3>2
      <4> QED BY <1>5, <2>1, <3>2, <4>1 DEF Range
    <3> QED BY <1>6, <3>1, <3>2
  <2>2. ASSUME NEW i \in 1 .. m, x = l[i] PROVE x \in Range(s)
    BY <1>1, <1>4, <1>6, <2>2 DEF Range
  <2>3. ASSUME NEW i \in 1 .. n - m, x = t[i] PROVE x \in Range(s)
    BY <1>1, <1>5, <1>6, <2>3 DEF Range
  <2> QED BY <1>1, <1>4, <1>5, <2>1, <2>2, <2>3 DEF Range
<1>11. ASSUME NEW x, x \in Range(l), x \in Range(t) PROVE FALSE
  <2>1. PICK i \in 1 .. m : x = s[i]
    BY <1>4, <1>11 DEF Range
  <2>2. PICK j \in 1 .. n - m : x = s[n - j + 1]
    BY <1>5, <1>11 DEF Range
  <2>3. i \in 1 .. n /\ n - j + 1 \in 1 .. n /\ ~(n - j + 1 \in 1 .. m)
    BY <1>6
  <2>4. i = n - j + 1
    BY <1>7, <2>1, <2>2, <2>3
  <2> QED BY <2>3, <2>4
<1> QED BY <1>8, <1>9, <1>10, <1>11 DEF l, t

\* An item that nothing moves stays in its one place.
LEMMA SamePlace ==
    ASSUME NEW x, OnePlace(x), Out(x)' <=> Out(x), x \in done' <=> x \in done,
           \A k \in Kind : Pos(wq'[k], x) = Pos(wq[k], x),
           \A p \in Proc : item'[p] = x <=> item[p] = x
    PROVE  OnePlace(x)'
<1>1. Nowhere(x) => Nowhere(x)'
  BY DEF Nowhere
<1>2. Somewhere(x) => Somewhere(x)'
  BY DEF Somewhere
<1>3. Unheld(x) => Unheld(x)'
  BY DEF Unheld
<1>4. Held(x) => Held(x)'
  BY DEF Held
<1> QED BY <1>1, <1>2, <1>3, <1>4 DEF OnePlace

\* dequeue and dequeueDependency: the item taken is with the proc, and nowhere else.
LEMMA GiveMoves ==
    ASSUME TypeOK, NEW x \in Item, OnePlace(x), NEW p \in Proc, item[p] = None,
           NEW k \in Kind, wq[k] # <<>>, Give(p, k), UNCHANGED <<manager, server, fresh, done>>
    PROVE  OnePlace(x)'
<1> DEFINE y == wq[k][Len(wq[k])]
           r == SubSeq(wq[k], 1, Len(wq[k]) - 1)
<1>1. wq[k] \in Seq(Item) /\ x # None
  BY KindsSet, ItemAssumption DEF TypeOK
<1>2. /\ x # y => Pos(r, x) = Pos(wq[k], x)
      /\ x = y => Pos(wq[k], x) # {} /\ \A i : Pos(wq[k], x) = {i} => Pos(r, x) = {}
  BY <1>1, PosCut
<1>3. wq' = [wq EXCEPT ![k] = r] /\ item' = [item EXCEPT ![p] = y]
  BY DEF Give
<1> HIDE DEF y, r
<1>4. wq'[k] = r /\ \A l \in Kind \ {k} : wq'[l] = wq[l]
  BY <1>3, KindsSet DEF TypeOK
<1>5. item'[p] = y /\ \A q \in Proc \ {p} : item'[q] = item[q]
  BY <1>3 DEF TypeOK
<1>6. Out(x)' <=> Out(x)
  BY DEF Out
<1>7. CASE x = y
  <2>1. ~Nowhere(x)
    BY <1>2, <1>7 DEF Nowhere
  <2>2. ~Out(x) /\ x \notin done /\ Somewhere(x) /\ Unheld(x)
    BY <2>1 DEF OnePlace
  <2>3. (\E i : Pos(wq[k], x) = {i}) /\ \A l \in Kind \ {k} : Pos(wq[l], x) = {}
    BY <1>2, <1>7, <2>2 DEF Somewhere
  <2>4. Nowhere(x)'
    BY <1>2, <1>4, <1>7, <2>3 DEF Nowhere
  <2>5. Held(x)'
    BY <1>5, <1>7, <2>2 DEF Held, Unheld
  <2> QED BY <1>6, <2>2, <2>4, <2>5 DEF OnePlace
<1>8. CASE x # y
  <2>1. \A l \in Kind : Pos(wq'[l], x) = Pos(wq[l], x)
    BY <1>2, <1>4, <1>8
  <2>2. \A q \in Proc : item'[q] = x <=> item[q] = x
    BY <1>1, <1>5, <1>8
  <2> QED BY <1>6, <2>1, <2>2, SamePlace
<1> QED BY <1>7, <1>8

\* An item from a proc, or a program just found, comes to the end of one queue.
LEMMA EnqueueMoves ==
    ASSUME TypeOK, NEW x \in Item, OnePlace(x), NEW y \in Item, NEW k \in Kind, Enqueue(k, y),
           x = y => ~Out(x)' /\ Nowhere(x) /\ x \notin done /\ Unheld(x)',
           x # y => (Out(x)' <=> Out(x)) /\ \A q \in Proc : item'[q] = x <=> item[q] = x,
           UNCHANGED done
    PROVE  OnePlace(x)'
<1> DEFINE r == Append(wq[k], y)
<1>1. wq[k] \in Seq(Item)
  BY KindsSet DEF TypeOK
<1>2. /\ x # y => Pos(r, x) = Pos(wq[k], x)
      /\ x = y /\ Pos(wq[k], x) = {} => \E i \in Nat : Pos(r, x) = {i}
  BY <1>1, PosAppend, SMTT(60)
<1>3. wq' = [wq EXCEPT ![k] = r]
  BY DEF Enqueue
<1> HIDE DEF r
<1>4. wq'[k] = r /\ \A l \in Kind \ {k} : wq'[l] = wq[l]
  BY <1>3, KindsSet DEF TypeOK
<1>5. CASE x = y
  <2>1. Somewhere(x)'
    BY <1>2, <1>4, <1>5 DEF Somewhere, Nowhere
  <2> QED BY <1>5, <2>1 DEF OnePlace
<1>6. CASE x # y
  <2>1. \A l \in Kind : Pos(wq'[l], x) = Pos(wq[l], x)
    BY <1>2, <1>4, <1>6
  <2> QED BY <1>6, <2>1, SamePlace
<1> QED BY <1>5, <1>6

\* A reply moves its batch from the manager or the server to one queue.
LEMMA BatchMoves ==
    ASSUME TypeOK, NEW x \in Item, OnePlace(x), NEW t \in Seq(Item), IsInjective(t),
           NEW k \in Kind, wq' = [wq EXCEPT ![k] = @ \o t],
           x \in Range(t) => Out(x) /\ ~Out(x)',
           x \notin Range(t) => (Out(x)' <=> Out(x)),
           UNCHANGED <<item, done>>
    PROVE  OnePlace(x)'
<1> DEFINE r == wq[k] \o t
<1>1. wq[k] \in Seq(Item)
  BY KindsSet DEF TypeOK
<1>2. /\ x \notin Range(t) => Pos(r, x) = Pos(wq[k], x)
      /\ x \in Range(t) /\ Pos(wq[k], x) = {} => \E i \in Nat : Pos(r, x) = {i}
  BY <1>1, PosJoin, SMTT(60)
<1>3. wq' = [wq EXCEPT ![k] = r]
  OBVIOUS
<1> HIDE DEF r
<1>4. wq'[k] = r /\ \A l \in Kind \ {k} : wq'[l] = wq[l]
  BY <1>3, KindsSet DEF TypeOK
<1>5. CASE x \in Range(t)
  <2>1. x \notin done /\ Nowhere(x) /\ Unheld(x)
    BY <1>5 DEF OnePlace
  <2>2. Somewhere(x)'
    BY <1>2, <1>4, <1>5, <2>1 DEF Somewhere, Nowhere
  <2>3. Unheld(x)'
    BY <2>1 DEF Unheld
  <2> QED BY <1>5, <2>1, <2>2, <2>3 DEF OnePlace
<1>6. CASE x \notin Range(t)
  <2>1. \A l \in Kind : Pos(wq'[l], x) = Pos(wq[l], x)
    BY <1>2, <1>4, <1>6
  <2> QED BY <1>6, <2>1, SamePlace
<1> QED BY <1>5, <1>6

\* What a sequence holds.
LEMMA RangeIn == ASSUME NEW S, NEW s \in Seq(S), NEW x \in Range(s) PROVE x \in S
<1>1. \A i \in DOMAIN s : s[i] \in S
  BY SMTT(60)
<1> QED BY <1>1 DEF Range

\* The candidates, the tasks and the programs found by fuzzing are different.
LEMMA Sources ==
    ASSUME TypeOK, NEW x
    PROVE  /\ x \in Range(manager) => x \in Candidate /\ x \notin Range(server) /\ x \notin fresh
           /\ x \in Range(server) => x \in Task /\ x \notin Range(manager) /\ x \notin fresh
           /\ x \in fresh => x \in Item /\ x \notin Range(manager) /\ x \notin Range(server)
<1>1. x \in Range(manager) => x \in Candidate
  BY RangeIn DEF TypeOK
<1>2. x \in Range(server) => x \in Task
  BY RangeIn DEF TypeOK
<1>3. x \in fresh => x \in Found
  BY DEF TypeOK
<1>4. /\ x \in Candidate => x \notin Task /\ x \notin Found
      /\ x \in Task => x \notin Found
  BY ItemAssumption
<1> QED BY <1>1, <1>2, <1>3, <1>4 DEF Item

\* A step of a proc moves one item, or none.
LEMMA ProcConserves ==
    ASSUME TypeOK, ConsInv, NEW p \in Proc, ProcNext(p)
    PROVE  ConsInv'
<1>0. manager' = manager /\ server' = server
  BY DEF ProcNext, Dequeue, DequeueLocked, SendNeed, DequeueDependency, Execute, Run
<1> SUFFICES ASSUME NEW x \in Item PROVE OnePlace(x)'
  BY <1>0 DEF ConsInv
<1>1. OnePlace(x)
  BY DEF ConsInv
<1>2. ASSUME UNCHANGED <<wq, item, fresh, done>> PROVE OnePlace(x)'
  <2>1. Out(x)' <=> Out(x)
    BY <1>0, <1>2 DEF Out
  <2> QED BY <1>1, <1>2, <2>1, SamePlace
<1>3. CASE Dequeue(p) \/ SendNeed(p)
  BY <1>2, <1>3 DEF Dequeue, SendNeed
<1>4. CASE DequeueLocked(p)
  <2>1. CASE Empty
    BY <1>2, <1>4, <2>1 DEF DequeueLocked
  <2>2. CASE ~Empty
    <3>1. PICK k \in Range(Kinds) : First(k) /\ Give(p, k)
      BY <1>4, <2>2 DEF DequeueLocked
    <3>2. k \in Kind /\ wq[k] # <<>> /\ item[p] = None
      BY <1>4, <3>1, KindsSet DEF First, DequeueLocked, TypeOK
    <3>3. UNCHANGED <<manager, server, fresh, done>>
      BY <1>4 DEF DequeueLocked
    <3> QED BY <1>1, <3>1, <3>2, <3>3, GiveMoves
  <2> QED BY <2>1, <2>2
<1>5. ASSUME Finds, UNCHANGED <<item, done>> PROVE OnePlace(x)'
  <2>1. PICK y \in fresh : Enqueue("triage", y) /\ fresh' = fresh \ {y}
    BY <1>5 DEF Finds
  <2>2. y \in Item /\ y \notin Range(manager) /\ y \notin Range(server) /\ "triage" \in Kind
    BY Sources DEF Kind
  <2>3. Out(y) /\ ~Out(y)'
    BY <1>0, <2>1, <2>2 DEF Out
  <2>4. x = y => ~Out(x)' /\ Nowhere(x) /\ x \notin done /\ Unheld(x)'
    BY <1>1, <1>5, <2>3 DEF OnePlace, Unheld
  <2>5. x # y => (Out(x)' <=> Out(x)) /\ \A q \in Proc : item'[q] = x <=> item[q] = x
    BY <1>0, <1>5, <2>1 DEF Out
  <2> QED BY <1>1, <1>5, <2>1, <2>2, <2>4, <2>5, EnqueueMoves
<1>6. CASE DequeueDependency(p)
  <2>1. CASE wq["dependency"] # <<>>
    <3>1. Give(p, "dependency") /\ UNCHANGED <<manager, server, fresh, done>>
      BY <1>6, <2>1 DEF DequeueDependency
    <3>2. "dependency" \in Kind /\ item[p] = None
      BY <1>6 DEF Kind, DequeueDependency, TypeOK
    <3> QED BY <1>1, <2>1, <3>1, <3>2, GiveMoves
  <2>2. CASE ~(wq["dependency"] # <<>>)
    BY <1>2, <1>5, <1>6, <2>2 DEF DequeueDependency
  <2> QED BY <2>1, <2>2
<1>7. CASE Execute(p)
  BY <1>5, <1>7 DEF Execute, procs
<1>8. CASE Run(p)
  <2> DEFINE y == item[p]
  <2>1. PICK k \in Follows(work[p]) :
           IF k = None THEN done' = done \cup {y} /\ UNCHANGED wq
                       ELSE Enqueue(k, y) /\ UNCHANGED done
    BY <1>8 DEF Run
  <2>2. item' = [item EXCEPT ![p] = None] /\ fresh' = fresh /\ y # None /\ y \in Item
    BY <1>8 DEF Run, TypeOK
  <2>3. item'[p] = None /\ \A q \in Proc \ {p} : item'[q] = item[q]
    BY <2>2 DEF TypeOK
  <2>4. x # None /\ (Out(x)' <=> Out(x))
    BY <1>0, <2>2, ItemAssumption DEF Out
  <2>5. x = y => ~Out(x) /\ x \notin done /\ Nowhere(x) /\ Held(x) /\ ~Unheld(x)
    BY <1>1 DEF OnePlace, Unheld
  <2>6. x = y => Unheld(x)'
    <3>1. x = y => \A q \in Proc \ {p} : item[q] # x
      BY <2>5 DEF Held
    <3> QED BY <2>3, <2>4, <3>1 DEF Unheld
  <2>7. x # y => \A q \in Proc : item'[q] = x <=> item[q] = x
    BY <2>3, <2>4
  <2> HIDE DEF y
  <2>8. CASE k # None
    <3>1. k \in Kind /\ Enqueue(k, y) /\ UNCHANGED done
      BY <2>1, <2>8, FollowsKinds
    <3> QED BY <1>1, <2>2, <2>4, <2>5, <2>6, <2>7, <3>1, EnqueueMoves
  <2>9. CASE k = None
    <3>1. done' = done \cup {y} /\ wq' = wq
      BY <2>1, <2>9
    <3>2. CASE x = y
      <4>1. Nowhere(x)'
        BY <2>5, <3>1, <3>2 DEF Nowhere
      <4> QED BY <2>4, <2>5, <2>6, <3>1, <3>2, <4>1 DEF OnePlace
    <3>3. CASE x # y
      BY <1>1, <2>4, <2>7, <3>1, <3>3, SamePlace
    <3> QED BY <3>2, <3>3
  <2> QED BY <2>8, <2>9
<1> QED BY <1>3, <1>4, <1>6, <1>7, <1>8 DEF ProcNext

\* A step of the poll loop moves a batch, or nothing.
LEMMA PollerConserves ==
    ASSUME TypeOK, ConsInv, PollerNext
    PROVE  ConsInv'
<1>0. UNCHANGED <<item, fresh, done>>
  BY DEF PollerNext, Select, CheckNeed, Poll, GetTasks, procs
<1>1. CASE UNCHANGED <<wq, manager, server>>
  <2> SUFFICES ASSUME NEW x \in Item PROVE OnePlace(x)'
    BY <1>1 DEF ConsInv
  <2>1. OnePlace(x) /\ (Out(x)' <=> Out(x))
    BY <1>0, <1>1 DEF ConsInv, Out
  <2> QED BY <1>0, <1>1, <2>1, SamePlace
<1>2. CASE Poll /\ need
  <2> DEFINE t == Taken(manager)
  <2>1. /\ wq' = [wq EXCEPT !["candidate"] = @ \o t] /\ manager' = Left(manager) /\ server' = server
        /\ "candidate" \in Kind
    BY <1>2 DEF Poll, Kind
  <2>2. manager \in Seq(Candidate) /\ IsInjective(manager)
    BY DEF TypeOK, ConsInv
  <2>3. /\ IsInjective(Left(manager)) /\ IsInjective(t)
        /\ \A x : x \in Range(manager) <=> x \in Range(Left(manager)) \/ x \in Range(t)
        /\ \A x : ~(x \in Range(Left(manager)) /\ x \in Range(t))
    BY <2>2, BatchSplit
  <2>4. t \in Seq(Item)
    <3>1. t \in Seq(Candidate)
      BY <2>2, TakenSome
    <3> QED BY <3>1, SMTT(60) DEF Item
  <2> HIDE DEF t
  <2>5. ASSUME NEW x \in Item PROVE OnePlace(x)'
    <3>1. x \in Range(t) => Out(x) /\ ~Out(x)'
      BY <1>0, <2>1, <2>3, Sources DEF Out
    <3>2. x \notin Range(t) => (Out(x)' <=> Out(x))
      BY <1>0, <2>1, <2>3 DEF Out
    <3>3. OnePlace(x)
      BY DEF ConsInv
    <3> QED BY <1>0, <2>1, <2>3, <2>4, <3>1, <3>2, <3>3, BatchMoves
  <2> QED BY <2>1, <2>3, <2>5 DEF ConsInv
<1>3. CASE GetTasks
  <2> DEFINE t == Taken(server)
  <2>1. PICK k \in {"high", "dependency"} : wq' = [wq EXCEPT ![k] = @ \o t]
    BY <1>3 DEF GetTasks
  <2>2. k \in Kind /\ server' = Left(server) /\ manager' = manager
    BY <1>3 DEF GetTasks, Kind
  <2>3. server \in Seq(Task) /\ IsInjective(server)
    BY DEF TypeOK, ConsInv
  <2>4. /\ IsInjective(Left(server)) /\ IsInjective(t)
        /\ \A x : x \in Range(server) <=> x \in Range(Left(server)) \/ x \in Range(t)
        /\ \A x : ~(x \in Range(Left(server)) /\ x \in Range(t))
    BY <2>3, BatchSplit
  <2>5. t \in Seq(Item)
    <3>1. t \in Seq(Task)
      BY <2>3, TakenSome
    <3> QED BY <3>1, SMTT(60) DEF Item
  <2> HIDE DEF t
  <2>6. ASSUME NEW x \in Item PROVE OnePlace(x)'
    <3>1. x \in Range(t) => Out(x) /\ ~Out(x)'
      BY <1>0, <2>2, <2>4, Sources DEF Out
    <3>2. x \notin Range(t) => (Out(x)' <=> Out(x))
      BY <1>0, <2>2, <2>4 DEF Out
    <3>3. OnePlace(x)
      BY DEF ConsInv
    <3> QED BY <1>0, <2>1, <2>2, <2>4, <2>5, <3>1, <3>2, <3>3, BatchMoves
  <2> QED BY <2>2, <2>4, <2>6 DEF ConsInv
<1> QED BY <1>1, <1>2, <1>3 DEF PollerNext, Select, CheckNeed, Poll

\* Where a batch without repetitions has its items.
LEMMA PosInjective ==
    ASSUME NEW S, NEW t \in Seq(S), IsInjective(t), NEW x
    PROVE  /\ x \notin Range(t) => Pos(t, x) = {}
           /\ x \in Range(t) => \E i \in Nat : Pos(t, x) = {i}
<1>1. \A i \in DOMAIN t : i \in Nat
  BY SMTT(60)
<1>2. x \notin Range(t) => Pos(t, x) = {}
  BY DEF Range, Pos
<1>3. ASSUME x \in Range(t) PROVE \E i \in Nat : Pos(t, x) = {i}
  <2>1. PICK i \in DOMAIN t : t[i] = x
    BY <1>3 DEF Range
  <2>2. Pos(t, x) = {i}
    BY <2>1 DEF Pos, IsInjective
  <2> QED BY <1>1, <2>2
<1> QED BY <1>2, <1>3

\* The first poll has moved the first batch.
LEMMA InitConserves == Init => ConsInv
<1> SUFFICES ASSUME Init PROVE ConsInv
  OBVIOUS
<1> DEFINE t == Taken(Candidates)
<1>1. /\ IsInjective(Left(Candidates)) /\ IsInjective(t)
      /\ \A x : x \in Range(Candidates) <=> x \in Range(Left(Candidates)) \/ x \in Range(t)
      /\ \A x : ~(x \in Range(Left(Candidates)) /\ x \in Range(t))
  BY SeqAssumption, ItemAssumption, BatchSplit
<1>2. /\ manager = Left(Candidates) /\ server = Tasks /\ fresh = Found /\ done = {}
      /\ \A p \in Proc : item[p] = None
      /\ "candidate" \in Kind /\ wq["candidate"] = t /\ \A k \in Kind \ {"candidate"} : wq[k] = <<>>
  BY KindsSet DEF Init, Kind
<1>3. t \in Seq(Candidate)
  BY SeqAssumption, TakenSome
<1> HIDE DEF t
<1>4. ASSUME NEW x \in Item PROVE OnePlace(x)
  <2>1. /\ x \notin Range(t) => Pos(t, x) = {}
        /\ x \in Range(t) => \E i \in Nat : Pos(t, x) = {i}
    BY <1>1, <1>3, PosInjective
  <2>2. \A k \in Kind \ {"candidate"} : Pos(wq[k], x) = {}
    <3>1. DOMAIN <<>> = {}
      BY SMTT(60)
    <3> QED BY <1>2, <3>1 DEF Pos
  <2>3. Unheld(x) /\ x \notin done
    BY <1>2, ItemAssumption DEF Unheld
  <2>4. CASE x \in Range(t)
    <3>1. Somewhere(x)
      BY <1>2, <2>1, <2>2, <2>4 DEF Somewhere
    <3>2. ~Out(x)
      BY <1>1, <1>2, <2>4, ItemAssumption DEF Out, Candidate, Task
    <3> QED BY <2>3, <3>1, <3>2 DEF OnePlace
  <2>5. CASE x \notin Range(t)
    <3>1. Nowhere(x)
      BY <1>2, <2>1, <2>2, <2>5 DEF Nowhere
    <3>2. Out(x)
      BY <1>1, <1>2, <2>5 DEF Out, Item, Candidate, Task
    <3> QED BY <2>3, <3>1, <3>2 DEF OnePlace
  <2> QED BY <2>4, <2>5
<1> QED BY <1>1, <1>2, <1>4, ItemAssumption DEF ConsInv

\* The cases of OnePlace each name one element of Places.
LEMMA OneIsOne == ASSUME NEW x \in Item, OnePlace(x) PROVE Cardinality(Places(x)) = 1
<1> DEFINE O == {<<"out", 0>> : y \in {x} \cap (Range(manager) \cup Range(server) \cup fresh)}
           D == {<<"done", 0>> : y \in {x} \cap done}
           Q == UNION {{<<k, i>> : i \in {j \in DOMAIN wq[k] : wq[k][j] = x}} : k \in Range(Kinds)}
           P == {<<"proc", p>> : p \in {q \in Proc : item[q] = x}}
<1>1. Places(x) = O \cup D \cup Q \cup P
  BY DEF Places
<1>2. Out(x) => O = {<<"out", 0>>}
  BY DEF Out
<1>3. ~Out(x) => O = {}
  BY DEF Out
<1>4. (x \in done => D = {<<"done", 0>>}) /\ (x \notin done => D = {})
  OBVIOUS
<1>5. Q = UNION {{<<k, i>> : i \in Pos(wq[k], x)} : k \in Kind}
  BY KindsSet DEF Pos
<1> HIDE DEF O, D, Q
<1>6. Nowhere(x) => Q = {}
  BY <1>5 DEF Nowhere
<1>7. ASSUME Somewhere(x) PROVE \E e : Q = {e}
  <2>1. PICK k \in Kind, i \in Nat : Pos(wq[k], x) = {i} /\ \A l \in Kind \ {k} : Pos(wq[l], x) = {}
    BY <1>7 DEF Somewhere
  <2>2. {<<k, j>> : j \in Pos(wq[k], x)} = {<<k, i>>}
    <3>1. Pos(wq[k], x) = {i}
      BY <2>1
    <3> QED BY <3>1
  <2>3. \A l \in Kind \ {k} : {<<l, j>> : j \in Pos(wq[l], x)} = {}
    BY <2>1
  <2>4. \A e \in Q : e = <<k, i>>
    <3> SUFFICES ASSUME NEW l \in Kind, NEW e \in {<<l, j>> : j \in Pos(wq[l], x)} PROVE e = <<k, i>>
      BY <1>5
    <3>1. CASE l = k
      BY <2>2, <3>1
    <3>2. CASE l # k
      <4>1. l \in Kind \ {k}
        BY <3>2
      <4>2. {<<l, j>> : j \in Pos(wq[l], x)} = {}
        BY <2>3, <4>1
      <4> HIDE <2>3
      <4> QED BY <4>2
    <3> QED BY <3>1, <3>2
  <2>5. <<k, i>> \in Q
    BY <1>5, <2>2
  <2>6. Q = {<<k, i>>}
    BY <2>4, <2>5
  <2> QED BY <2>6
<1>8. Unheld(x) => P = {}
  BY DEF Unheld
<1>9. ASSUME Held(x) PROVE \E e : P = {e}
  <2>1. PICK p \in Proc : item[p] = x /\ \A q \in Proc \ {p} : item[q] # x
    BY <1>9 DEF Held
  <2>2. \A q : q \in {r \in Proc : item[r] = x} <=> q = p
    BY <2>1
  <2>3. P = {<<"proc", p>>}
    BY <2>2
  <2> QED BY <2>3
<1> HIDE DEF P
<1>10. \E e : Places(x) = {e}
  <2>1. CASE Out(x) /\ x \notin done /\ Nowhere(x) /\ Unheld(x)
    BY <1>1, <1>2, <1>4, <1>6, <1>8, <2>1
  <2>2. CASE ~Out(x) /\ x \in done /\ Nowhere(x) /\ Unheld(x)
    BY <1>1, <1>3, <1>4, <1>6, <1>8, <2>2
  <2>3. CASE ~Out(x) /\ x \notin done /\ Somewhere(x) /\ Unheld(x)
    BY <1>1, <1>3, <1>4, <1>7, <1>8, <2>3
  <2>4. CASE ~Out(x) /\ x \notin done /\ Nowhere(x) /\ Held(x)
    BY <1>1, <1>3, <1>4, <1>6, <1>9, <2>4
  <2> QED BY <2>1, <2>2, <2>3, <2>4 DEF OnePlace
<1> QED BY <1>10, FS_Singleton

\* However the procs interleave between RUnlock and Lock of dequeue, and whatever
\* the poll loop does meanwhile, no candidate, task or program found by fuzzing is
\* lost, and none is given to two procs.
THEOREM NoWorkLost == Spec => []WorkConserved
<1>1. ASSUME TypeOK, ConsInv, [Next]_vars PROVE ConsInv'
  <2>1. CASE UNCHANGED vars
    <3> SUFFICES ASSUME NEW x \in Item PROVE OnePlace(x)'
      BY <1>1, <2>1 DEF ConsInv, vars
    <3>1. OnePlace(x) /\ (Out(x)' <=> Out(x)) /\ UNCHANGED <<wq, item, done>>
      BY <1>1, <2>1 DEF ConsInv, Out, vars, procs
    <3> QED BY <3>1, SamePlace
  <2>2. CASE PollerNext
    BY <1>1, <2>2, PollerConserves
  <2>3. ASSUME NEW p \in Proc, ProcNext(p) PROVE ConsInv'
    BY <1>1, <2>3, ProcConserves
  <2> QED BY <1>1, <2>1, <2>2, <2>3 DEF Next
<1>2. ConsInv => WorkConserved
  BY OneIsOne DEF ConsInv, WorkConserved
<1> QED BY <1>1, <1>2, InitConserves, WorkQueueInvariant, PTL DEF Spec
=============================================================================
