--------------------------- MODULE TaskTableProofs ---------------------------
(***************************************************************************)
(* The ways of a task, for any tasks, addresses, fuzzers and limits: the   *)
(* lists and the table keep their form, no assertion on the way of a       *)
(* result fails, and a renewed task is sent again.                         *)
(***************************************************************************)
EXTENDS TaskTable, FiniteSetTheorems, WellFoundedInduction, TLAPS

USE ZenonT(30)

\* The entries with the data of one run at the most.
GoodEntry == {m \in Entry : Len(m.trd) <= 1}
GoodTables == UNION {[S -> GoodEntry] : S \in SUBSET Task}

\* What waits for a run, with addresses of K: it has no data.
Fresh(K) == {m \in Message : m.trd = <<>> /\ m.unc \subseteq K}

\* The results of one run, with addresses of K.
Result(K) == {m \in Message : Len(m.trd) <= 1 /\ m.unc \subseteq K}

\* Every address that is on its way is known to the manager, and only results
\* carry data.
OnTheWay ==
    \A f \in Fuzzer :
        /\ work[f] \subseteq Fresh(open \cup closed)
        /\ Elements(tasks[f]) \subseteq Fresh(open \cup closed)
        /\ Elements(return[f]) \subseteq Result(open \cup closed)

\* The inductive invariant.
IInv == TypeOK /\ AssertionsHold /\ OnTheWay

\* Table new still has what table old has not settled, while o are uncovered.
Keeps(new, old, o) ==
    /\ DOMAIN old \subseteq DOMAIN new
    /\ \A t \in DOMAIN old :
           /\ old[t].cov \subseteq new[t].cov
           /\ old[t].status = Untested =>
                  /\ new[t].status = Untested
                  /\ (old[t].unc \cap o) \ new[t].cov \subseteq new[t].unc

\* What the loops over the results can come to from table old.
AccFrom(old, o) ==
    {acc \in [table : GoodTables, stop : {"", "nil map"}] : Keeps(acc.table, old, o)}

-----------------------------------------------------------------------------
(* Loops *)

\* A set of numbers that has 0 and with each number the next one has all up to n.
LEMMA UpTo ==
    ASSUME NEW n \in Nat, NEW D, 0 \in D,
           \A i \in 0 .. n : i \in D /\ i # n => i + 1 \in D
    PROVE  \A i \in 0 .. n : i \in D
<1> DEFINE T == {i \in 0 .. n : i \notin D}
<1> SUFFICES ASSUME T # {} PROVE FALSE
  OBVIOUS
<1>1. T \subseteq Nat
  BY SMTT(60)
<1>2. PICK t \in T : \A u \in T : ~(<<u, t>> \in OpToRel(<, Nat))
  BY <1>1, NatLessThanWellFounded, WFMin
<1>3. \A u \in T : ~(u < t)
  BY <1>1, <1>2 DEF OpToRel
<1>4. t \in 0 .. n /\ t \notin D /\ t # 0
  OBVIOUS
<1>5. t - 1 \in 0 .. n /\ t - 1 # n /\ t - 1 < t /\ (t - 1) + 1 = t
  BY <1>4, SMTT(60)
<1>6. t - 1 \in D
  BY <1>3, <1>5
<1> QED BY <1>4, <1>5, <1>6

\* The states g of a loop of n turns that starts with x.
History(n, x, step, g) == g[0] = x /\ \A i \in 1 .. n : g[i] = step[i][g[i - 1]]

\* A loop that keeps its state in S has a history in S.
LEMMA Iteration ==
    ASSUME NEW S, NEW n \in Nat, NEW x \in S, NEW step \in [1 .. n -> [S -> S]]
    PROVE  \E g \in [0 .. n -> S] : History(n, x, step, g)
<1> DEFINE Until(k, g) == g[0] = x /\ \A i \in 1 .. k : g[i] = step[i][g[i - 1]]
           D == {k \in 0 .. n : \E g \in [0 .. k -> S] : Until(k, g)}
<1>1. 0 \in D
  <2>1. [i \in 0 .. 0 |-> x] \in [0 .. 0 -> S] /\ Until(0, [i \in 0 .. 0 |-> x])
    BY SMTT(60)
  <2>2. 0 \in 0 .. n
    BY SMTT(60)
  <2> QED BY <2>1, <2>2
<1>2. ASSUME NEW k \in 0 .. n, k \in D, k # n
      PROVE  k + 1 \in D
  <2>1. PICK g \in [0 .. k -> S] : Until(k, g)
    BY <1>2
  <2>2. k \in Nat /\ k + 1 \in 1 .. n /\ k + 1 \in 0 .. n
    BY <1>2, SMTT(60)
  <2> DEFINE h == [i \in 0 .. (k + 1) |-> IF i = k + 1 THEN step[k + 1][g[k]] ELSE g[i]]
  <2>3. g[k] \in S
    BY <2>2, SMTT(60)
  <2>4. step[k + 1][g[k]] \in S
    BY <2>2, <2>3
  <2>5. h \in [0 .. (k + 1) -> S]
    BY <2>2, <2>4, SMTT(60)
  <2>6. h[0] = x
    BY <2>1, <2>2, SMTT(60)
  <2>7. ASSUME NEW i \in 1 .. (k + 1)
        PROVE  h[i] = step[i][h[i - 1]]
    <3>1. CASE i = k + 1
      <4>1. h[i] = step[k + 1][g[k]] /\ h[i - 1] = g[k]
        BY <2>2, <3>1, SMTT(60)
      <4> QED BY <3>1, <4>1
    <3>2. CASE i # k + 1
      <4>1. i \in 1 .. k /\ h[i] = g[i] /\ h[i - 1] = g[i - 1]
        BY <2>2, <3>2, SMTT(60)
      <4> HIDE DEF h
      <4> QED BY <2>1, <4>1
    <3> QED BY <3>1, <3>2
  <2> HIDE DEF h
  <2>8. Until(k + 1, h)
    BY <2>6, <2>7
  <2> QED BY <2>2, <2>5, <2>8
<1>3. n \in 0 .. n
  BY SMTT(60)
<1> HIDE DEF D
<1>4. n \in D
  BY <1>1, <1>2, <1>3, UpTo
<1> QED BY <1>4 DEF D, History

-----------------------------------------------------------------------------
(* One result *)

\* A list of one element at the most.
LEMMA ShortSeq ==
    ASSUME NEW S, NEW q \in Seq(S), Len(q) <= 1, q # <<>>
    PROVE  Len(q) = 1
<1>1. Len(q) \in Nat /\ Len(q) > 0
  BY SMTT(60)
<1> DEFINE n == Len(q)
<1> HIDE DEF n
<1>2. n \in Nat /\ n > 0 /\ n <= 1
  BY <1>1 DEF n
<1>3. n = 1
  BY <1>2, SMTT(60)
<1> QED BY <1>3 DEF n

\* The fields of the entries, the messages and the data.
LEMMA Fields ==
    /\ \A m \in Entry : /\ m.unc \in SUBSET Addr /\ m.cov \in SUBSET Addr
                        /\ m.status \in 0 .. 4 /\ m.count \in 0 .. TaskCountLimitation
                        /\ m.sends \in 0 .. MaxSends /\ m.trd \in Seq(Trd)
    /\ \A m \in Message : /\ m.t \in Task /\ m.unc \in SUBSET Addr /\ m.cov \in SUBSET Addr
                          /\ m.status \in 0 .. 4 /\ m.trd \in Seq(Trd)
    /\ \A d \in Trd : d.unc \in SUBSET Addr /\ d.cov \in SUBSET Addr /\ d.nil \in BOOLEAN
BY DEF Entry, Message, Trd, Untested, Covered

\* The bounded counters and the statuses stay within their bounds.
LEMMA LowerHigher ==
    /\ \A n \in Nat : \A m \in 0 .. n : Lower(m + 1, n) \in 0 .. n
    /\ \A m, n \in 0 .. 4 : Higher(m, n) \in 0 .. 4
BY SMTT(60) DEF Lower, Higher

\* The data of two runs merge into data.
LEMMA MergeData ==
    ASSUME NEW m \in Trd, NEW d \in Trd
    PROVE  mergeTaskRunTimeData(m, d) \in Trd
<1>1. /\ m.unc \in SUBSET Addr /\ m.cov \in SUBSET Addr
      /\ d.unc \in SUBSET Addr /\ d.cov \in SUBSET Addr
  BY Fields
<1> DEFINE cov == m.cov \cup d.cov
           unc == (m.unc \cup d.unc) \ cov
<1>2. cov \in SUBSET Addr /\ unc \in SUBSET Addr
  BY <1>1
<1>3. mergeTaskRunTimeData(m, d) = [m EXCEPT !.cov = cov, !.unc = unc]
  BY DEF mergeTaskRunTimeData
<1> HIDE DEF cov, unc
<1> QED BY <1>2, <1>3 DEF Trd

\* The data of a result never differ in number from those of the table.
LEMMA StopsOnlyForNil ==
    ASSUME NEW m \in GoodEntry, NEW K, NEW s \in Result(K)
    PROVE  mergeStops(m, s) \in {"", "nil map"}
<1>1. /\ m.trd \in Seq(Trd) /\ Len(m.trd) <= 1
      /\ s.trd \in Seq(Trd) /\ Len(s.trd) <= 1
  BY Fields DEF GoodEntry, Result
<1>2. m.trd # <<>> /\ s.trd # <<>> => Len(m.trd) = Len(s.trd)
  BY <1>1, ShortSeq
<1> QED BY <1>2 DEF mergeStops

\* The entries, with the statuses as numbers.
EntryRecord ==
    [unc : SUBSET Addr, cov : SUBSET Addr, status : 0 .. 4,
     count : 0 .. TaskCountLimitation, sends : 0 .. MaxSends, trd : Seq(Trd)]

\* An entry stays one when mergeTask writes its fields.
LEMMA EntryMerged ==
    ASSUME NEW m \in GoodEntry, NEW u \in SUBSET Addr, NEW v \in SUBSET Addr, NEW w \in 0 .. 4,
           NEW x \in 0 .. TaskCountLimitation, NEW z \in Seq(Trd), Len(z) <= 1
    PROVE  [m EXCEPT !.count = x, !.cov = v, !.unc = u, !.status = w, !.trd = z] \in GoodEntry
<1> DEFINE r == [m EXCEPT !.count = x, !.cov = v, !.unc = u, !.status = w, !.trd = z]
<1>1. GoodEntry = {e \in EntryRecord : Len(e.trd) <= 1}
  BY DEF GoodEntry, Entry, EntryRecord, Untested, Covered
<1>2. m \in EntryRecord /\ Len(m.trd) <= 1
  BY <1>1
<1>3. r \in EntryRecord /\ r.trd = z
  BY <1>2 DEF EntryRecord
<1> QED BY <1>1, <1>2, <1>3

\* An entry stays one when it is sent.
LEMMA EntrySent ==
    ASSUME NEW m \in GoodEntry, NEW u \in SUBSET Addr, NEW w \in 0 .. 4, NEW y \in 0 .. MaxSends,
           NEW z \in Seq(Trd), Len(z) <= 1
    PROVE  [m EXCEPT !.unc = u, !.status = w, !.sends = y, !.trd = z] \in GoodEntry
<1> DEFINE r == [m EXCEPT !.unc = u, !.status = w, !.sends = y, !.trd = z]
<1>1. GoodEntry = {e \in EntryRecord : Len(e.trd) <= 1}
  BY DEF GoodEntry, Entry, EntryRecord, Untested, Covered
<1>2. m \in EntryRecord /\ Len(m.trd) <= 1
  BY <1>1
<1>3. r \in EntryRecord /\ r.trd = z
  BY <1>2 DEF EntryRecord
<1> QED BY <1>1, <1>2, <1>3

\* An entry stays one when addTask renews it.
LEMMA EntryRenewed ==
    ASSUME NEW m \in GoodEntry, NEW u \in SUBSET Addr, NEW w \in 0 .. 4,
           NEW x \in 0 .. TaskCountLimitation
    PROVE  [m EXCEPT !.unc = u, !.status = w, !.count = x] \in GoodEntry
<1> DEFINE r == [m EXCEPT !.unc = u, !.status = w, !.count = x]
<1>1. GoodEntry = {e \in EntryRecord : Len(e.trd) <= 1}
  BY DEF GoodEntry, Entry, EntryRecord, Untested, Covered
<1>2. m \in EntryRecord /\ Len(m.trd) <= 1
  BY <1>1
<1>3. r \in EntryRecord /\ r.trd = m.trd
  BY <1>2 DEF EntryRecord
<1> QED BY <1>1, <1>2, <1>3

\* An entry stays one when its uncovered addresses change.
LEMMA EntryTrimmed ==
    ASSUME NEW m \in GoodEntry, NEW u \in SUBSET Addr
    PROVE  [m EXCEPT !.unc = u] \in GoodEntry
<1> DEFINE r == [m EXCEPT !.unc = u]
<1>1. GoodEntry = {e \in EntryRecord : Len(e.trd) <= 1}
  BY DEF GoodEntry, Entry, EntryRecord, Untested, Covered
<1>2. m \in EntryRecord /\ Len(m.trd) <= 1
  BY <1>1
<1>3. r \in EntryRecord /\ r.trd = m.trd
  BY <1>2 DEF EntryRecord
<1> QED BY <1>1, <1>2, <1>3

\* A record with the fields of an entry is an entry.
LEMMA EntryMade ==
    ASSUME NEW u \in SUBSET Addr, NEW v \in SUBSET Addr, NEW w \in 0 .. 4,
           NEW x \in 0 .. TaskCountLimitation, NEW y \in 0 .. MaxSends,
           NEW z \in Seq(Trd), Len(z) <= 1
    PROVE  [unc |-> u, cov |-> v, status |-> w, count |-> x, sends |-> y, trd |-> z] \in GoodEntry
BY DEF GoodEntry, Entry, Untested, Covered

\* What mergeTask makes of the data.
MergedData(m, s) ==
    IF m.trd = <<>> THEN s.trd
    ELSE [i \in 1 .. Len(m.trd) |->
            IF s.trd = <<>> THEN m.trd[i] ELSE mergeTaskRunTimeData(m.trd[i], s.trd[i])]

\* If the numbers agree, the merged data are those of one run.
LEMMA MergedDataType ==
    ASSUME NEW m \in GoodEntry, NEW K, NEW s \in Result(K)
    PROVE  MergedData(m, s) \in Seq(Trd) /\ Len(MergedData(m, s)) <= 1
<1>1. /\ m.trd \in Seq(Trd) /\ Len(m.trd) <= 1
      /\ s.trd \in Seq(Trd) /\ Len(s.trd) <= 1
  BY Fields DEF GoodEntry, Result
<1>2. CASE m.trd = <<>>
  BY <1>1, <1>2 DEF MergedData
<1>3. CASE m.trd # <<>>
  <2>1. Len(m.trd) = 1
    BY <1>1, <1>3, ShortSeq
  <2> DEFINE d == IF s.trd = <<>> THEN m.trd[1] ELSE mergeTaskRunTimeData(m.trd[1], s.trd[1])
  <2>2. m.trd[1] \in Trd
    BY <1>1, <2>1, SMTT(60)
  <2>3. s.trd # <<>> => s.trd[1] \in Trd
    <3> SUFFICES ASSUME s.trd # <<>> PROVE s.trd[1] \in Trd
      OBVIOUS
    <3>1. Len(s.trd) = 1
      BY <1>1, ShortSeq
    <3> QED BY <1>1, <3>1, SMTT(60)
  <2>4. d \in Trd
    BY <2>2, <2>3, MergeData
  <2>5. MergedData(m, s) = [i \in 1 .. 1 |-> d]
    <3>1. \A i \in 1 .. 1 : i = 1
      BY SMTT(60)
    <3> QED BY <1>3, <2>1, <3>1 DEF MergedData
  <2> HIDE DEF d
  <2> QED BY <2>4, <2>5, SMTT(60)
<1> QED BY <1>2, <1>3

\* mergeTask, field by field, makes an entry of an entry.
LEMMA MergeTaskFacts ==
    ASSUME NEW m \in GoodEntry, NEW K, NEW s \in Result(K)
    PROVE  /\ mergeTask(m, s) \in GoodEntry
           /\ mergeTask(m, s).cov = m.cov \cup s.cov
           /\ mergeTask(m, s).unc = (m.unc \ (m.cov \cup s.cov)) \cup s.unc
           /\ m.status = Untested => mergeTask(m, s).status = Untested
<1> DEFINE count == Lower(m.count + 1, TaskCountLimitation)
           cov == m.cov \cup s.cov
           unc == (m.unc \ (m.cov \cup s.cov)) \cup s.unc
           status == IF m.status = Untested THEN m.status ELSE Higher(m.status, s.status)
           trd == MergedData(m, s)
<1>1. m \in Entry /\ s \in Message
  BY DEF GoodEntry, Result
<1>2. count \in 0 .. TaskCountLimitation
  BY <1>1, Fields, LowerHigher, TaskAssumption
<1>3. cov \in SUBSET Addr /\ unc \in SUBSET Addr
  BY <1>1, Fields
<1>4. status \in 0 .. 4
  BY <1>1, Fields, LowerHigher
<1>5. trd \in Seq(Trd) /\ Len(trd) <= 1
  BY MergedDataType
<1>6. mergeTask(m, s) = [m EXCEPT !.count = count, !.cov = cov, !.unc = unc,
                                  !.status = status, !.trd = trd]
  BY DEF mergeTask, MergedData
<1>7. m.status = Untested => status = Untested
  OBVIOUS
<1> HIDE DEF count, cov, unc, status, trd
<1>8. mergeTask(m, s) \in GoodEntry
  <2>1. [m EXCEPT !.count = count, !.cov = cov, !.unc = unc,
                  !.status = status, !.trd = trd] \in GoodEntry
    BY <1>2, <1>3, <1>4, <1>5, EntryMerged
  <2> QED BY <1>6, <2>1
<1>9. /\ mergeTask(m, s).cov = cov
      /\ mergeTask(m, s).unc = unc
      /\ mergeTask(m, s).status = status
  BY <1>1, <1>6 DEF Entry
<1> QED BY <1>7, <1>8, <1>9 DEF cov, unc

\* A table is a function from some tasks to entries.
LEMMA TableFacts ==
    ASSUME NEW tbl \in GoodTables
    PROVE  DOMAIN tbl \in SUBSET Task /\ \A t \in DOMAIN tbl : tbl[t] \in GoodEntry
BY DEF GoodTables

\* A function from some tasks to entries is a table.
LEMMA TableMade ==
    ASSUME NEW S \in SUBSET Task, NEW tbl \in [S -> GoodEntry]
    PROVE  tbl \in GoodTables /\ DOMAIN tbl = S
BY DEF GoodTables

\* An entry made of a result.
LEMMA EntryOfType ==
    ASSUME NEW K, NEW s \in Result(K)
    PROVE  EntryOf(s) \in GoodEntry
<1>1. s \in Message /\ Len(s.trd) <= 1
  BY DEF Result
<1>2. s.unc \in SUBSET Addr /\ s.cov \in SUBSET Addr /\ s.status \in 0 .. 4 /\ s.trd \in Seq(Trd)
  BY <1>1, Fields
<1>3. 1 \in 0 .. TaskCountLimitation /\ 0 \in 0 .. MaxSends
  BY TaskAssumption, SMTT(60)
<1> QED BY <1>1, <1>2, <1>3, EntryMade DEF EntryOf

\* What a result makes of the entry of its task.
NewEntry(tbl, s, o) ==
    IF s.t \in DOMAIN tbl THEN [mergeTask(tbl[s.t], s) EXCEPT !.unc = @ \cap o] ELSE EntryOf(s)

\* It is an entry, and keeps what the task has not settled.
LEMMA NewEntryFacts ==
    ASSUME NEW tbl \in GoodTables, NEW o \in SUBSET Addr, NEW K, NEW s \in Result(K)
    PROVE  /\ NewEntry(tbl, s, o) \in GoodEntry
           /\ s.t \in DOMAIN tbl =>
                /\ tbl[s.t].cov \subseteq NewEntry(tbl, s, o).cov
                /\ tbl[s.t].status = Untested => NewEntry(tbl, s, o).status = Untested
                /\ (tbl[s.t].unc \cap o) \ NewEntry(tbl, s, o).cov \subseteq NewEntry(tbl, s, o).unc
<1>1. CASE s.t \notin DOMAIN tbl
  BY <1>1, EntryOfType DEF NewEntry
<1>2. CASE s.t \in DOMAIN tbl
  <2> DEFINE m == tbl[s.t]
             e == mergeTask(m, s)
             r == [e EXCEPT !.unc = e.unc \cap o]
  <2>1. m \in GoodEntry
    BY <1>2, TableFacts
  <2>2. /\ e \in GoodEntry
        /\ e.cov = m.cov \cup s.cov
        /\ e.unc = (m.unc \ (m.cov \cup s.cov)) \cup s.unc
        /\ m.status = Untested => e.status = Untested
    BY <2>1, MergeTaskFacts
  <2> HIDE DEF m, e
  <2>3. NewEntry(tbl, s, o) = r
    BY <1>2 DEF NewEntry, m, e
  <2>4. e.unc \cap o \in SUBSET Addr
    OBVIOUS
  <2>5. r \in GoodEntry
    BY <2>2, <2>4, EntryTrimmed
  <2>6. r.cov = e.cov /\ r.status = e.status /\ r.unc = e.unc \cap o
    BY <2>2 DEF GoodEntry, Entry
  <2> HIDE DEF r
  <2>7. (m.unc \cap o) \ r.cov \subseteq r.unc
    BY <2>2, <2>6
  <2> QED BY <2>2, <2>3, <2>5, <2>6, <2>7 DEF m
<1> QED BY <1>1, <1>2

\* What is kept, but for what is covered, is kept in two steps.
LEMMA KeptTwice ==
    ASSUME NEW o, NEW u, NEW v, NEW w, NEW b, NEW c, b \subseteq c,
           (u \cap o) \ b \subseteq v, (v \cap o) \ c \subseteq w
    PROVE  (u \cap o) \ c \subseteq w
OBVIOUS

\* A table that keeps what old has is one that the loops can come to.
LEMMA AccMade ==
    ASSUME NEW old, NEW o, NEW tbl \in GoodTables, Keeps(tbl, old, o)
    PROVE  [table |-> tbl, stop |-> ""] \in AccFrom(old, o)
<1> DEFINE r == [table |-> tbl, stop |-> ""]
<1>1. r \in [table : GoodTables, stop : {"", "nil map"}]
  OBVIOUS
<1>2. r.table = tbl
  OBVIOUS
<1> QED BY <1>1, <1>2 DEF AccFrom

\* One turn of the loop over the results.
LEMMA MergedStep ==
    ASSUME NEW old, NEW o \in SUBSET Addr, NEW c, NEW acc \in AccFrom(old, o),
           NEW s \in Result(o \cup c)
    PROVE  Merged(acc, s, o, c) \in AccFrom(old, o)
<1> DEFINE tbl == acc.table
           why == IF s.t \in DOMAIN tbl THEN mergeStops(tbl[s.t], s) ELSE ""
           new == [t \in DOMAIN tbl \cup {s.t} |-> IF t = s.t THEN NewEntry(tbl, s, o) ELSE tbl[t]]
<1>1. /\ acc \in [table : GoodTables, stop : {"", "nil map"}]
      /\ tbl \in GoodTables /\ Keeps(tbl, old, o)
  BY DEF AccFrom
<1>2. s \in Message /\ s.t \in Task /\ s.unc \subseteq o \cup c
  BY Fields DEF Result
<1>3. CASE acc.stop # ""
  BY <1>3 DEF Merged
<1>4. CASE acc.stop = "" /\ why # ""
  <2>1. why = "nil map"
    BY <1>1, <1>4, TableFacts, StopsOnlyForNil
  <2>2. Merged(acc, s, o, c) = [acc EXCEPT !.stop = why]
    BY <1>4 DEF Merged
  <2>3. [acc EXCEPT !.stop = why] \in [table : GoodTables, stop : {"", "nil map"}]
    BY <1>1, <2>1
  <2>4. [acc EXCEPT !.stop = why].table = tbl
    BY <1>1
  <2> QED BY <1>1, <2>2, <2>3, <2>4 DEF AccFrom
<1>5. CASE acc.stop = "" /\ why = ""
  <2>1. Merged(acc, s, o, c) = [table |-> new, stop |-> ""]
    BY <1>2, <1>5 DEF Merged, NewEntry
  <2>2. new \in GoodTables /\ DOMAIN new = DOMAIN tbl \cup {s.t}
    <3>1. DOMAIN tbl \cup {s.t} \in SUBSET Task
      BY <1>1, <1>2, TableFacts
    <3>2. NewEntry(tbl, s, o) \in GoodEntry
      BY <1>1, NewEntryFacts
    <3>3. new \in [DOMAIN tbl \cup {s.t} -> GoodEntry]
      BY <1>1, <3>2, TableFacts
    <3> QED BY <3>1, <3>3, TableMade
  <2>3. Keeps(new, old, o)
    <3>1. DOMAIN old \subseteq DOMAIN new
      BY <1>1, <2>2 DEF Keeps
    <3>2. ASSUME NEW t \in DOMAIN old
          PROVE  /\ old[t].cov \subseteq new[t].cov
                 /\ old[t].status = Untested =>
                        /\ new[t].status = Untested
                        /\ (old[t].unc \cap o) \ new[t].cov \subseteq new[t].unc
      <4>1. /\ t \in DOMAIN tbl
            /\ old[t].cov \subseteq tbl[t].cov
            /\ old[t].status = Untested =>
                   /\ tbl[t].status = Untested
                   /\ (old[t].unc \cap o) \ tbl[t].cov \subseteq tbl[t].unc
        BY <1>1 DEF Keeps
      <4>2. /\ tbl[t].cov \subseteq new[t].cov
            /\ tbl[t].status = Untested => new[t].status = Untested
            /\ (tbl[t].unc \cap o) \ new[t].cov \subseteq new[t].unc
        <5>1. CASE t = s.t
          <6>1. new[t] = NewEntry(tbl, s, o)
            BY <5>1
          <6> QED BY <1>1, <4>1, <5>1, <6>1, NewEntryFacts
        <5>2. CASE t # s.t
          <6>1. new[t] = tbl[t]
            BY <4>1, <5>2
          <6> QED BY <6>1
        <5> QED BY <5>1, <5>2
      <4> HIDE DEF new, tbl
      <4>3. old[t].cov \subseteq new[t].cov
        BY <4>1, <4>2
      <4>4. ASSUME old[t].status = Untested
            PROVE  (old[t].unc \cap o) \ new[t].cov \subseteq new[t].unc
        BY <4>1, <4>2, <4>4, KeptTwice
      <4> QED BY <4>1, <4>2, <4>3, <4>4
    <3> QED BY <3>1, <3>2 DEF Keeps
  <2> HIDE DEF new
  <2> QED BY <2>1, <2>2, <2>3, AccMade
<1> QED BY <1>3, <1>4, <1>5

\* The results of one fuzzer.
LEMMA MergedListIn ==
    ASSUME NEW old, NEW o \in SUBSET Addr, NEW c, NEW acc \in AccFrom(old, o),
           NEW q \in Seq(Result(o \cup c))
    PROVE  MergedList(acc, q, o, c) \in AccFrom(old, o)
<1> DEFINE n == Len(q)
           S == AccFrom(old, o)
           F(g) == [i \in 0 .. n |-> IF i = 0 THEN acc ELSE Merged(g[i - 1], q[i], o, c)]
           step == [i \in 1 .. n |-> [x \in S |-> Merged(x, q[i], o, c)]]
           upTo == CHOOSE g : g = F(g)
<1>1. n \in Nat /\ \A i \in 1 .. n : q[i] \in Result(o \cup c)
  BY SMTT(60)
<1> HIDE DEF n, S
<1>2. \A i \in 1 .. n : \A x \in S : Merged(x, q[i], o, c) \in S
  BY <1>1, MergedStep DEF S
<1>3. \E g : g = F(g)
  <2>1. step \in [1 .. n -> [S -> S]]
    BY <1>2
  <2>2. acc \in S
    BY DEF S
  <2> HIDE DEF step
  <2>3. PICK g \in [0 .. n -> S] : History(n, acc, step, g)
    BY <1>1, <2>1, <2>2, Iteration
  <2>4. \A i \in 0 .. n : g[i] = IF i = 0 THEN acc ELSE Merged(g[i - 1], q[i], o, c)
    <3> SUFFICES ASSUME NEW i \in 0 .. n, i # 0
                 PROVE  g[i] = Merged(g[i - 1], q[i], o, c)
      BY <2>3 DEF History
    <3>1. i \in 1 .. n /\ i - 1 \in 0 .. n
      BY <1>1, SMTT(60)
    <3>2. g[i - 1] \in S
      BY <3>1
    <3> QED BY <2>3, <3>1, <3>2 DEF History, step
  <2> QED BY <2>4
<1>4. upTo = F(upTo)
  BY <1>3
<1>5. MergedList(acc, q, o, c) = upTo[n]
  BY DEF MergedList, n
<1> HIDE DEF upTo
<1> DEFINE D == {i \in 0 .. n : upTo[i] \in S}
<1>6. 0 \in D
  <2>1. 0 \in 0 .. n
    BY <1>1, SMTT(60)
  <2>2. upTo[0] = acc
    BY <1>4, <2>1
  <2> QED BY <2>1, <2>2 DEF S
<1>7. ASSUME NEW i \in 0 .. n, i \in D, i # n
      PROVE  i + 1 \in D
  <2>1. i + 1 \in 0 .. n /\ i + 1 \in 1 .. n /\ i + 1 # 0 /\ (i + 1) - 1 = i
    BY <1>1, <1>7, SMTT(60)
  <2>2. upTo[i + 1] = Merged(upTo[i], q[i + 1], o, c)
    BY <1>4, <2>1
  <2> QED BY <1>2, <1>7, <2>1, <2>2
<1>8. n \in 0 .. n
  BY <1>1, SMTT(60)
<1> HIDE DEF D
<1>9. n \in D
  BY <1>1, <1>6, <1>7, <1>8, UpTo
<1> QED BY <1>5, <1>9 DEF D, S

\* The results of all fuzzers, for the lists ret that they have left.
LEMMA MergedAllIn ==
    ASSUME NEW old, NEW o \in SUBSET Addr, NEW c, NEW acc \in AccFrom(old, o),
           NEW fs \in Seq(Fuzzer),
           \A f \in Fuzzer : return[f] \in Seq(Result(o \cup c))
    PROVE  MergedAll(acc, fs, o, c) \in AccFrom(old, o)
<1> DEFINE n == Len(fs)
           S == AccFrom(old, o)
           F(g) == [k \in 0 .. n |-> IF k = 0 THEN acc ELSE MergedList(g[k - 1], return[fs[k]], o, c)]
           step == [k \in 1 .. n |-> [x \in S |-> MergedList(x, return[fs[k]], o, c)]]
           upTo == CHOOSE g : g = F(g)
<1>1. n \in Nat /\ \A k \in 1 .. n : fs[k] \in Fuzzer
  BY SMTT(60)
<1> HIDE DEF n, S
<1>2. \A k \in 1 .. n : \A x \in S : MergedList(x, return[fs[k]], o, c) \in S
  BY <1>1, MergedListIn DEF S
<1>3. \E g : g = F(g)
  <2>1. step \in [1 .. n -> [S -> S]]
    BY <1>2
  <2>2. acc \in S
    BY DEF S
  <2> HIDE DEF step
  <2>3. PICK g \in [0 .. n -> S] : History(n, acc, step, g)
    BY <1>1, <2>1, <2>2, Iteration
  <2>4. \A k \in 0 .. n : g[k] = IF k = 0 THEN acc ELSE MergedList(g[k - 1], return[fs[k]], o, c)
    <3> SUFFICES ASSUME NEW k \in 0 .. n, k # 0
                 PROVE  g[k] = MergedList(g[k - 1], return[fs[k]], o, c)
      BY <2>3 DEF History
    <3>1. k \in 1 .. n /\ k - 1 \in 0 .. n
      BY <1>1, SMTT(60)
    <3>2. g[k - 1] \in S
      BY <3>1
    <3> QED BY <2>3, <3>1, <3>2 DEF History, step
  <2> QED BY <2>4
<1>4. upTo = F(upTo)
  BY <1>3
<1>5. MergedAll(acc, fs, o, c) = upTo[n]
  BY DEF MergedAll, n
<1> HIDE DEF upTo
<1> DEFINE D == {k \in 0 .. n : upTo[k] \in S}
<1>6. 0 \in D
  <2>1. 0 \in 0 .. n
    BY <1>1, SMTT(60)
  <2>2. upTo[0] = acc
    BY <1>4, <2>1
  <2> QED BY <2>1, <2>2 DEF S
<1>7. ASSUME NEW k \in 0 .. n, k \in D, k # n
      PROVE  k + 1 \in D
  <2>1. k + 1 \in 0 .. n /\ k + 1 \in 1 .. n /\ k + 1 # 0 /\ (k + 1) - 1 = k
    BY <1>1, <1>7, SMTT(60)
  <2>2. upTo[k + 1] = MergedList(upTo[k], return[fs[k + 1]], o, c)
    BY <1>4, <2>1
  <2> QED BY <1>2, <1>7, <2>1, <2>2
<1>8. n \in 0 .. n
  BY <1>1, SMTT(60)
<1> HIDE DEF D
<1>9. n \in D
  BY <1>1, <1>6, <1>7, <1>8, UpTo
<1> QED BY <1>5, <1>9 DEF D, S

-----------------------------------------------------------------------------
(* The tasks that are sent *)

\* The two ways to say that the entries have one run's data at the most.
LEMMA TablesAreGood ==
    \A tbl : tbl \in GoodTables <=>
        (\E S \in SUBSET Task : tbl \in [S -> Entry]) /\ \A t \in DOMAIN tbl : Len(tbl[t].trd) <= 1
<1> SUFFICES ASSUME NEW tbl
             PROVE  tbl \in GoodTables <=>
                      (\E S \in SUBSET Task : tbl \in [S -> Entry]) /\ \A t \in DOMAIN tbl : Len(tbl[t].trd) <= 1
  OBVIOUS
<1>1. ASSUME tbl \in GoodTables
      PROVE  (\E S \in SUBSET Task : tbl \in [S -> Entry]) /\ \A t \in DOMAIN tbl : Len(tbl[t].trd) <= 1
  <2>1. PICK S \in SUBSET Task : tbl \in [S -> GoodEntry]
    BY <1>1 DEF GoodTables
  <2>2. tbl \in [S -> Entry] /\ \A t \in DOMAIN tbl : Len(tbl[t].trd) <= 1
    BY <2>1 DEF GoodEntry
  <2> QED BY <2>2
<1>2. ASSUME \E S \in SUBSET Task : tbl \in [S -> Entry], \A t \in DOMAIN tbl : Len(tbl[t].trd) <= 1
      PROVE  tbl \in GoodTables
  <2>1. PICK S \in SUBSET Task : tbl \in [S -> Entry]
    BY <1>2
  <2>2. tbl \in [S -> GoodEntry]
    BY <1>2, <2>1 DEF GoodEntry
  <2> QED BY <2>2 DEF GoodTables
<1> QED BY <1>1, <1>2

\* addTask keeps every entry, and what is untested stays so.
LEMMA AddTaskFacts ==
    ASSUME TypeOK, NEW add \in SUBSET (Task \X Addr), NEW o
    PROVE  addTask(add) \in GoodTables /\ Keeps(addTask(add), table, o)
<1> DEFINE S == DOMAIN table \cup {d[1] : d \in add}
           as(t) == {a \in Addr : <<t, a>> \in add}
           made1(t) == [unc |-> as(t), cov |-> {}, status |-> Untested, count |-> 0, sends |-> 0,
                        trd |-> <<>>]
           renewed(t) == [table[t] EXCEPT !.unc = table[t].unc \cup as(t), !.status = Untested, !.count = 0]
           e(t) == IF as(t) = {} THEN table[t] ELSE IF t \in DOMAIN table THEN renewed(t) ELSE made1(t)
<1>1. table \in GoodTables
  BY TablesAreGood DEF TypeOK
<1>2. S \in SUBSET Task
  <2>1. \A d \in add : d[1] \in Task
    BY SMTT(60)
  <2> QED BY <1>1, <2>1, TableFacts
<1>3. ASSUME NEW t \in S, as(t) = {}
      PROVE  t \in DOMAIN table
  <2> SUFFICES ASSUME NEW d \in add, t = d[1] PROVE FALSE
    OBVIOUS
  <2>1. d[2] \in Addr /\ d = <<t, d[2]>>
    BY SMTT(60)
  <2> QED BY <1>3, <2>1
<1>4. ASSUME NEW t \in S, as(t) # {}, t \notin DOMAIN table
      PROVE  made1(t) \in GoodEntry
  <2>1. as(t) \in SUBSET Addr /\ {} \in SUBSET Addr
    OBVIOUS
  <2>2. Untested \in 0 .. 4 /\ 0 \in 0 .. TaskCountLimitation /\ 0 \in 0 .. MaxSends
    BY TaskAssumption, SMTT(60) DEF Untested
  <2>3. <<>> \in Seq(Trd) /\ Len(<<>>) <= 1
    BY SMTT(60)
  <2> HIDE DEF as
  <2> QED BY <2>1, <2>2, <2>3, EntryMade
<1>5. ASSUME NEW t \in DOMAIN table
      PROVE  /\ table[t] \in GoodEntry
             /\ renewed(t) \in GoodEntry
             /\ renewed(t).unc = table[t].unc \cup as(t)
             /\ renewed(t).cov = table[t].cov
             /\ renewed(t).status = Untested
  <2>1. table[t] \in GoodEntry
    BY <1>1, TableFacts
  <2>2. table[t] \in Entry
    BY <2>1 DEF GoodEntry
  <2>3. table[t].unc \cup as(t) \in SUBSET Addr
    BY <2>2, Fields
  <2>4. Untested \in 0 .. 4 /\ 0 \in 0 .. TaskCountLimitation
    BY TaskAssumption, SMTT(60) DEF Untested
  <2> HIDE DEF as
  <2>5. renewed(t) \in GoodEntry
    BY <2>1, <2>3, <2>4, EntryRenewed
  <2>6. /\ renewed(t).unc = table[t].unc \cup as(t)
        /\ renewed(t).cov = table[t].cov
        /\ renewed(t).status = Untested
    BY <2>2 DEF Entry
  <2> QED BY <2>1, <2>5, <2>6
<1>6. addTask(add) = [t \in S |-> e(t)]
  BY DEF addTask
<1>7. \A t \in S : e(t) \in GoodEntry
  <2> HIDE DEF S, as, made1, renewed
  <2> QED BY <1>3, <1>4, <1>5
<1>8. \A t \in DOMAIN table : /\ table[t].cov \subseteq e(t).cov
                              /\ table[t].status = Untested => e(t).status = Untested
                              /\ table[t].unc \subseteq e(t).unc
  <2> SUFFICES ASSUME NEW t \in DOMAIN table
               PROVE  /\ table[t].cov \subseteq e(t).cov
                      /\ table[t].status = Untested => e(t).status = Untested
                      /\ table[t].unc \subseteq e(t).unc
    OBVIOUS
  <2> HIDE DEF as, renewed
  <2>1. e(t) = table[t] \/ e(t) = renewed(t)
    OBVIOUS
  <2> HIDE DEF e
  <2> QED BY <1>5, <2>1
<1> HIDE DEF e
<1>9. addTask(add) \in [S -> GoodEntry]
  BY <1>6, <1>7
<1>10. addTask(add) \in GoodTables
  BY <1>2, <1>9, TableMade
<1>11. Keeps(addTask(add), table, o)
  BY <1>6, <1>8 DEF Keeps
<1> QED BY <1>10, <1>11

\* The entry that is sent.
LEMMA SentEntryFacts ==
    ASSUME NEW m \in GoodEntry, NEW o \in SUBSET Addr
    PROVE  /\ SentEntry(m, o) \in GoodEntry
           /\ SentEntry(m, o).unc = m.unc \cap o
           /\ SentEntry(m, o).cov = m.cov
<1> DEFINE u == m.unc \cap o
           w == IF m.status = Untested THEN Testing ELSE m.status
           y == Lower(m.sends + 1, MaxSends)
           z == IF m.status = Untested THEN m.trd ELSE <<>>
<1>1. m \in Entry /\ Len(m.trd) <= 1
  BY DEF GoodEntry
<1>2. u \in SUBSET Addr
  OBVIOUS
<1>3. w \in 0 .. 4
  <2>1. 1 \in 0 .. 4
    BY SMTT(60)
  <2> QED BY <1>1, <2>1, Fields DEF Testing
<1>4. y \in 0 .. MaxSends
  BY <1>1, Fields, LowerHigher, TaskAssumption
<1>5. z \in Seq(Trd) /\ Len(z) <= 1
  <2>1. <<>> \in Seq(Trd) /\ Len(<<>>) <= 1
    BY SMTT(60)
  <2> QED BY <1>1, <2>1, Fields
<1>6. SentEntry(m, o) = [m EXCEPT !.unc = u, !.status = w, !.sends = y, !.trd = z]
  BY DEF SentEntry
<1> HIDE DEF u, w, y, z
<1>7. [m EXCEPT !.unc = u, !.status = w, !.sends = y, !.trd = z] \in GoodEntry
  BY <1>2, <1>3, <1>4, <1>5, EntrySent
<1>8. SentEntry(m, o).unc = u /\ SentEntry(m, o).cov = m.cov
  BY <1>1, <1>6 DEF Entry
<1> QED BY <1>6, <1>7, <1>8 DEF u

\* Table new is tbl after the tasks of q have been sent.
PickedWell(tbl, new, o, q) ==
    /\ DOMAIN new = DOMAIN tbl
    /\ \A t \in DOMAIN tbl :
           /\ new[t].cov = tbl[t].cov
           /\ tbl[t].unc \cap o \subseteq new[t].unc
           /\ t \in Elements(q) => new[t].unc \subseteq o
           /\ t \notin Elements(q) => new[t].status = tbl[t].status

\* What the loop over the sorted tasks does to the table.
LEMMA PickedFacts ==
    ASSUME NEW tbl \in GoodTables, NEW o \in SUBSET Addr, NEW q, NEW seen
    PROVE  Picked(tbl, o, q, seen) \in GoodTables /\ PickedWell(tbl, Picked(tbl, o, q, seen), o, q)
<1> DEFINE trimmed(t) == [tbl[t] EXCEPT !.unc = tbl[t].unc \cap o]
           e(t) == IF t \in Elements(q) THEN SentEntry(tbl[t], o)
                   ELSE IF t \in seen THEN trimmed(t) ELSE tbl[t]
<1>1. ASSUME NEW t \in DOMAIN tbl
      PROVE  /\ tbl[t] \in GoodEntry
             /\ trimmed(t) \in GoodEntry
             /\ trimmed(t).cov = tbl[t].cov
             /\ trimmed(t).unc = tbl[t].unc \cap o
             /\ trimmed(t).status = tbl[t].status
  <2>1. tbl[t] \in GoodEntry
    BY TableFacts
  <2>2. tbl[t] \in Entry
    BY <2>1 DEF GoodEntry
  <2>3. tbl[t].unc \cap o \in SUBSET Addr
    OBVIOUS
  <2>4. trimmed(t) \in GoodEntry
    BY <2>1, <2>3, EntryTrimmed
  <2>5. /\ trimmed(t).cov = tbl[t].cov
        /\ trimmed(t).unc = tbl[t].unc \cap o
        /\ trimmed(t).status = tbl[t].status
    BY <2>2 DEF Entry
  <2> QED BY <2>1, <2>4, <2>5
<1>2. Picked(tbl, o, q, seen) = [t \in DOMAIN tbl |-> e(t)]
  BY DEF Picked
<1> HIDE DEF trimmed
<1>3. ASSUME NEW t \in DOMAIN tbl
      PROVE  /\ e(t) \in GoodEntry
             /\ e(t).cov = tbl[t].cov
             /\ tbl[t].unc \cap o \subseteq e(t).unc
             /\ t \in Elements(q) => e(t).unc \subseteq o
             /\ t \notin Elements(q) => e(t).status = tbl[t].status
  <2>1. CASE t \in Elements(q)
    <3>1. e(t) = SentEntry(tbl[t], o)
      BY <2>1
    <3>2. /\ SentEntry(tbl[t], o) \in GoodEntry
          /\ SentEntry(tbl[t], o).unc = tbl[t].unc \cap o
          /\ SentEntry(tbl[t], o).cov = tbl[t].cov
      BY <1>1, SentEntryFacts
    <3> HIDE DEF e
    <3> QED BY <2>1, <3>1, <3>2
  <2>2. CASE t \notin Elements(q)
    <3>1. e(t) = trimmed(t) \/ e(t) = tbl[t]
      BY <2>2
    <3> HIDE DEF e
    <3>2. CASE e(t) = trimmed(t)
      BY <1>1, <2>2, <3>2
    <3>3. CASE e(t) = tbl[t]
      BY <1>1, <2>2, <3>3
    <3> QED BY <3>1, <3>2, <3>3
  <2> QED BY <2>1, <2>2
<1> HIDE DEF e
<1>4. DOMAIN tbl \in SUBSET Task
  BY TableFacts
<1>5. Picked(tbl, o, q, seen) \in [DOMAIN tbl -> GoodEntry]
  BY <1>2, <1>3
<1>6. Picked(tbl, o, q, seen) \in GoodTables /\ DOMAIN Picked(tbl, o, q, seen) = DOMAIN tbl
  BY <1>4, <1>5, TableMade
<1> QED BY <1>2, <1>3, <1>6 DEF PickedWell

\* A list that may be sent has tasks of the table, each of them once.
LEMMA SendingsFacts ==
    ASSUME NEW tbl \in GoodTables, NEW o, NEW q \in Sendings(tbl, o)
    PROVE  /\ Len(q) \in Nat /\ q \in Seq(DOMAIN tbl)
           /\ \A i, j \in 1 .. Len(q) : q[i] = q[j] => i = j
<1> DEFINE wanting == Wanting(tbl, o)
           n == Lower(Cardinality(wanting), TaskQueueNumber + 1)
<1>1. wanting \subseteq DOMAIN tbl
  BY DEF Wanting
<1>2. IsFiniteSet(wanting)
  BY <1>1, TableFacts, TaskAssumption, FS_Subset
<1>3. Cardinality(wanting) \in Nat
  BY <1>2, FS_CardinalityType
<1>4. n \in Nat
  BY <1>3, TaskAssumption, SMTT(60) DEF Lower
<1>5. /\ q \in [1 .. n -> wanting]
      /\ \A i, j \in 1 .. n : i < j => q[i] # q[j]
  BY DEF Sendings
<1> HIDE DEF n, wanting
<1>6. q \in Seq(DOMAIN tbl) /\ Len(q) = n
  BY <1>1, <1>4, <1>5, SMTT(60)
<1>7. \A i, j \in 1 .. n : q[i] = q[j] => i = j
  <2> SUFFICES ASSUME NEW i \in 1 .. n, NEW j \in 1 .. n, q[i] = q[j], i # j PROVE FALSE
    OBVIOUS
  <2>1. i < j \/ j < i
    BY <1>4, SMTT(60)
  <2> QED BY <1>5, <2>1
<1> QED BY <1>4, <1>6, <1>7

\* The copies that are left for every fuzzer.
Copies(q, tbl) == [i \in 1 .. Len(q) |-> CopyOf(q[i], tbl[q[i]])]

\* A copy is a message without data.
LEMMA CopyOfFacts ==
    ASSUME NEW m \in GoodEntry, NEW t \in Task, NEW K, m.unc \subseteq K
    PROVE  CopyOf(t, m) \in Fresh(K) /\ CopyOf(t, m).t = t /\ CopyOf(t, m).unc = m.unc
<1>1. m \in Entry
  BY DEF GoodEntry
<1>2. m.unc \in SUBSET Addr /\ m.cov \in SUBSET Addr /\ m.status \in 0 .. 4
  BY <1>1, Fields
<1>3. <<>> \in Seq(Trd)
  BY SMTT(60)
<1>4. CopyOf(t, m) \in Message
  BY <1>2, <1>3 DEF CopyOf, Message, Untested, Covered
<1>5. CopyOf(t, m).t = t /\ CopyOf(t, m).unc = m.unc /\ CopyOf(t, m).trd = <<>>
  BY DEF CopyOf
<1> QED BY <1>4, <1>5 DEF Fresh

\* Every task of q is in the list, with the addresses it has in the table.
AllIn(q, tbl, list) ==
    \A t \in Elements(q) : \E i \in DOMAIN list : list[i].t = t /\ list[i].unc = tbl[t].unc

\* The copies are a list without data, of addresses that are uncovered.
LEMMA CopiesFacts ==
    ASSUME NEW tbl \in GoodTables, NEW K, NEW q \in Seq(DOMAIN tbl),
           \A i, j \in 1 .. Len(q) : q[i] = q[j] => i = j,
           \A t \in Elements(q) : tbl[t].unc \subseteq K
    PROVE  /\ Copies(q, tbl) \in Lists
           /\ Elements(Copies(q, tbl)) \subseteq Fresh(K)
           /\ AllIn(q, tbl, Copies(q, tbl))
<1> DEFINE n == Len(q)
           cs == Copies(q, tbl)
<1>1. n \in Nat /\ \A i \in 1 .. n : q[i] \in DOMAIN tbl
  BY SMTT(60)
<1>2. \A i \in 1 .. n : q[i] \in Elements(q)
  BY DEF Elements
<1>3. ASSUME NEW i \in 1 .. n
      PROVE  /\ cs[i] \in Fresh(K)
             /\ cs[i].t = q[i] /\ cs[i].unc = tbl[q[i]].unc
  <2>1. cs[i] = CopyOf(q[i], tbl[q[i]])
    BY DEF Copies
  <2>2. q[i] \in Task /\ tbl[q[i]] \in GoodEntry /\ tbl[q[i]].unc \subseteq K
    BY <1>1, <1>2, TableFacts
  <2> QED BY <2>1, <2>2, CopyOfFacts
<1>4. cs = [i \in 1 .. n |-> cs[i]]
  BY DEF Copies
<1> HIDE DEF cs, n
<1>5. cs \in Seq(Fresh(K)) /\ Len(cs) = n /\ DOMAIN cs = 1 .. n
  BY <1>1, <1>3, <1>4, SMTT(60)
<1>6. cs \in Seq(Message)
  <2>1. \A i \in 1 .. n : cs[i] \in Message
    BY <1>3 DEF Fresh
  <2> QED BY <1>1, <1>4, <2>1, SMTT(60)
<1>7. cs \in Lists
  <2>1. \A i, j \in 1 .. n : cs[i].t = cs[j].t => i = j
    <3> SUFFICES ASSUME NEW i \in 1 .. n, NEW j \in 1 .. n, cs[i].t = cs[j].t PROVE i = j
      OBVIOUS
    <3>1. q[i] = q[j]
      BY <1>3
    <3> QED BY <3>1 DEF n
  <2> QED BY <1>5, <1>6, <2>1 DEF Lists
<1>8. Elements(cs) \subseteq Fresh(K)
  BY <1>3, <1>5 DEF Elements
<1>9. \A t \in Elements(q) : \E i \in DOMAIN cs : cs[i].t = t /\ cs[i].unc = tbl[t].unc
  <2> SUFFICES ASSUME NEW t \in Elements(q)
               PROVE  \E i \in DOMAIN cs : cs[i].t = t /\ cs[i].unc = tbl[t].unc
    OBVIOUS
  <2>1. PICK i \in 1 .. n : t = q[i]
    BY DEF Elements, n
  <2> QED BY <1>3, <1>5, <2>1
<1> QED BY <1>7, <1>8, <1>9 DEF cs, AllIn

\* Table new has what old has not settled, or it has been sent with list.
SentWell(old, new, list, o) ==
    \A t \in DOMAIN old :
        old[t].status = Untested =>
            /\ (old[t].unc \cap o) \ new[t].cov \subseteq new[t].unc
            /\ new[t].status # Untested =>
                   \E i \in DOMAIN list : list[i].t = t /\ new[t].unc \subseteq list[i].unc

\* What the loop over the sorted tasks sends, and the table it leaves.
LEMMA SendFacts ==
    ASSUME NEW old, NEW o \in SUBSET Addr, NEW tbl \in GoodTables, Keeps(tbl, old, o),
           NEW q \in Sendings(tbl, o), NEW seen, NEW K, o \subseteq K
    PROVE  /\ Picked(tbl, o, q, seen) \in GoodTables
           /\ Copies(q, Picked(tbl, o, q, seen)) \in Lists
           /\ Elements(Copies(q, Picked(tbl, o, q, seen))) \subseteq Fresh(K)
           /\ SentWell(old, Picked(tbl, o, q, seen), Copies(q, Picked(tbl, o, q, seen)), o)
<1> DEFINE new == Picked(tbl, o, q, seen)
           list == Copies(q, new)
<1>1. new \in GoodTables /\ PickedWell(tbl, new, o, q)
  BY PickedFacts
<1> HIDE DEF new
<1>2. /\ q \in Seq(DOMAIN new)
      /\ \A i, j \in 1 .. Len(q) : q[i] = q[j] => i = j
  <2>1. DOMAIN new = DOMAIN tbl
    BY <1>1 DEF PickedWell
  <2>2. q \in Seq(DOMAIN tbl) /\ \A i, j \in 1 .. Len(q) : q[i] = q[j] => i = j
    BY SendingsFacts
  <2> QED BY <2>1, <2>2
<1>3. \A t \in Elements(q) : t \in DOMAIN tbl
  <2>1. \A i \in 1 .. Len(q) : q[i] \in DOMAIN new
    BY <1>2, SMTT(60)
  <2> QED BY <1>1, <2>1 DEF Elements, PickedWell
<1>4. \A t \in Elements(q) : new[t].unc \subseteq K
  BY <1>1, <1>3 DEF PickedWell
<1>5. list \in Lists /\ Elements(list) \subseteq Fresh(K) /\ AllIn(q, new, list)
  BY <1>1, <1>2, <1>4, CopiesFacts
<1> HIDE DEF list
<1>6. ASSUME NEW t \in DOMAIN old, old[t].status = Untested
      PROVE  /\ (old[t].unc \cap o) \ new[t].cov \subseteq new[t].unc
             /\ new[t].status # Untested =>
                    \E i \in DOMAIN list : list[i].t = t /\ new[t].unc \subseteq list[i].unc
  <2>1. /\ t \in DOMAIN tbl /\ tbl[t].status = Untested
        /\ (old[t].unc \cap o) \ tbl[t].cov \subseteq tbl[t].unc
    BY <1>6 DEF Keeps
  <2>2. new[t].cov = tbl[t].cov /\ tbl[t].unc \cap o \subseteq new[t].unc
    BY <1>1, <2>1 DEF PickedWell
  <2>3. (old[t].unc \cap o) \ new[t].cov \subseteq new[t].unc
    BY <2>1, <2>2
  <2>4. ASSUME new[t].status # Untested
        PROVE  \E i \in DOMAIN list : list[i].t = t /\ new[t].unc \subseteq list[i].unc
    <3>1. t \in Elements(q)
      BY <1>1, <2>1, <2>4 DEF PickedWell
    <3> QED BY <1>5, <3>1 DEF AllIn
  <2> QED BY <2>3, <2>4
<1>7. SentWell(old, new, list, o)
  BY <1>6 DEF SentWell
<1> QED BY <1>1, <1>5, <1>7 DEF list, new

-----------------------------------------------------------------------------
(* One Update *)

\* More addresses allow more messages.
LEMMA MoreKnown ==
    ASSUME NEW K, NEW L, K \subseteq L
    PROVE  Fresh(K) \subseteq Fresh(L) /\ Result(K) \subseteq Result(L)
BY DEF Fresh, Result

\* The lists that Update merges have only results.
LEMMA ResultsWait ==
    ASSUME TypeOK, OnTheWay, NEW K, open \cup closed \subseteq K
    PROVE  \A f \in Fuzzer : return[f] \in Seq(Result(K))
<1> SUFFICES ASSUME NEW f \in Fuzzer PROVE return[f] \in Seq(Result(K))
  OBVIOUS
<1> DEFINE q == return[f]
<1>1. q \in Seq(Message)
  BY DEF TypeOK, Lists
<1>2. Elements(q) \subseteq Result(K)
  BY MoreKnown DEF OnTheWay
<1>3. \A i \in 1 .. Len(q) : q[i] \in Result(K)
  BY <1>2 DEF Elements
<1> HIDE DEF q
<1>4. q \in Seq(Result(K))
  BY <1>1, <1>3, SMTT(60)
<1> QED BY <1>4 DEF q

\* An order of the fuzzers is a list of them.
LEMMA MapOrdersFacts ==
    ASSUME TypeOK, NEW fs \in MapOrders(known)
    PROVE  fs \in Seq(Fuzzer)
<1> DEFINE n == Cardinality(known)
<1>1. known \subseteq Fuzzer
  BY DEF TypeOK
<1>2. n \in Nat
  BY <1>1, TaskAssumption, FS_Subset, FS_CardinalityType
<1>3. fs \in [1 .. n -> known]
  BY DEF MapOrders
<1> HIDE DEF n
<1> QED BY <1>1, <1>2, <1>3, SMTT(60)

\* The loops over the results fail no assertion, and keep what is not settled.
LEMMA MergedFacts ==
    ASSUME IInv, NEW o \in SUBSET Addr, NEW c, open \cup closed \subseteq o \cup c,
           NEW add \in SUBSET (Task \X Addr), NEW fs \in MapOrders(known)
    PROVE  MergedAll([table |-> addTask(add), stop |-> ""], fs, o, c) \in AccFrom(table, o)
<1>1. addTask(add) \in GoodTables /\ Keeps(addTask(add), table, o)
  BY AddTaskFacts DEF IInv
<1>2. [table |-> addTask(add), stop |-> ""] \in AccFrom(table, o)
  BY <1>1, AccMade
<1>3. fs \in Seq(Fuzzer)
  BY MapOrdersFacts DEF IInv
<1>4. \A f \in Fuzzer : return[f] \in Seq(Result(o \cup c))
  BY ResultsWait DEF IInv
<1> QED BY <1>2, <1>3, <1>4, MergedAllIn

\* The step formula of RenewedIsSent.
Resent ==
    \A t \in DOMAIN table :
        table[t].status = Untested =>
            /\ (table[t].unc \cap open') \ table'[t].cov \subseteq table'[t].unc
            /\ table'[t].status # Untested =>
                   \A f \in known : \E i \in DOMAIN tasks'[f] :
                       tasks'[f][i].t = t /\ table'[t].unc \subseteq tasks'[f][i].unc

\* An address never becomes unknown again, and is not both uncovered and covered.
LEMMA UpdateAddresses ==
    ASSUME TypeOK, NEW cov \in SUBSET open,
           NEW add \in SUBSET (Task \X (Addr \ (closed \cup cov))), UpdateWith(cov, add)
    PROVE  /\ add \in SUBSET (Task \X Addr)
           /\ open' \in SUBSET Addr /\ closed' \in SUBSET (Addr \ open')
           /\ open \cup closed \subseteq open' \cup closed'
<1> DEFINE new == {d[2] : d \in add}
<1>1. new \subseteq Addr \ (closed \cup cov) /\ add \in SUBSET (Task \X Addr)
  BY SMTT(60)
<1>2. open' = (open \ cov) \cup new /\ closed' = closed \cup cov
  BY DEF UpdateWith
<1>3. open \in SUBSET Addr /\ closed \in SUBSET (Addr \ open)
  BY DEF TypeOK
<1> HIDE DEF new
<1> QED BY <1>1, <1>2, <1>3

\* One Update fails no assertion and leaves well formed lists and tables.
LEMMA UpdateKeeps ==
    ASSUME IInv, NEW cov \in SUBSET open,
           NEW add \in SUBSET (Task \X (Addr \ (closed \cup cov))), UpdateWith(cov, add)
    PROVE  /\ table' \in GoodTables /\ stop' \in {"", "nil map"}
           /\ tasks' \in [Fuzzer -> Lists]
           /\ \A f \in Fuzzer : Elements(tasks'[f]) \subseteq Fresh(open' \cup closed')
           /\ Resent
<1> DEFINE start == [table |-> addTask(add), stop |-> ""]
           K == open' \cup closed'
<1>1. /\ add \in SUBSET (Task \X Addr) /\ open' \in SUBSET Addr
      /\ open \cup closed \subseteq open' \cup closed'
  BY UpdateAddresses DEF IInv
<1>2. PICK merged \in {MergedAll(start, fs, open', closed') : fs \in MapOrders(known)} :
        /\ stop' = merged.stop
        /\ IF ~late \/ merged.stop # ""
           THEN table' = merged.table /\ UNCHANGED tasks
           ELSE \E q \in Sendings(merged.table, open') :
                    /\ \E seen \in Seen(merged.table, open', q) :
                           table' = Picked(merged.table, open', q, seen)
                    /\ tasks' = [f \in Fuzzer |->
                                   IF f \in known THEN Copies(q, table') ELSE tasks[f]]
  BY DEF UpdateWith, Copies
<1>3. merged \in AccFrom(table, open')
  <2>1. PICK fs \in MapOrders(known) : merged = MergedAll(start, fs, open', closed')
    OBVIOUS
  <2> QED BY <1>1, <2>1, MergedFacts
<1>4. merged.table \in GoodTables /\ merged.stop \in {"", "nil map"} /\ Keeps(merged.table, table, open')
  BY <1>3 DEF AccFrom
<1>5. stop' \in {"", "nil map"}
  BY <1>2, <1>4
<1>6. /\ tasks \in [Fuzzer -> Lists] /\ known \subseteq Fuzzer
      /\ \A f \in Fuzzer : Elements(tasks[f]) \subseteq Fresh(K)
  BY <1>1, MoreKnown DEF IInv, TypeOK, OnTheWay
<1>7. CASE ~late \/ merged.stop # ""
  <2>1. table' = merged.table /\ tasks' = tasks
    BY <1>2, <1>7
  <2>2. Resent
    BY <1>4, <2>1 DEF Keeps, Resent
  <2> QED BY <1>4, <1>5, <1>6, <2>1, <2>2
<1>8. CASE ~(~late \/ merged.stop # "")
  <2>1. PICK q \in Sendings(merged.table, open') :
          /\ \E seen \in Seen(merged.table, open', q) :
                 table' = Picked(merged.table, open', q, seen)
          /\ tasks' = [f \in Fuzzer |-> IF f \in known THEN Copies(q, table') ELSE tasks[f]]
    BY <1>2, <1>8
  <2>2. PICK seen : table' = Picked(merged.table, open', q, seen)
    BY <2>1
  <2>3. open' \subseteq K
    OBVIOUS
  <2> HIDE DEF K
  <2>4. /\ table' \in GoodTables
        /\ Copies(q, table') \in Lists
        /\ Elements(Copies(q, table')) \subseteq Fresh(K)
        /\ SentWell(table, table', Copies(q, table'), open')
    BY <1>1, <1>4, <2>2, <2>3, SendFacts
  <2>5. tasks' \in [Fuzzer -> Lists]
    BY <1>6, <2>1, <2>4
  <2>6. \A f \in Fuzzer : Elements(tasks'[f]) \subseteq Fresh(K)
    <3> SUFFICES ASSUME NEW f \in Fuzzer PROVE Elements(tasks'[f]) \subseteq Fresh(K)
      OBVIOUS
    <3>1. tasks'[f] = Copies(q, table') \/ tasks'[f] = tasks[f]
      BY <2>1
    <3> QED BY <1>6, <2>4, <3>1
  <2>7. \A f \in known : tasks'[f] = Copies(q, table')
    BY <1>6, <2>1
  <2>8. Resent
    <3> SUFFICES ASSUME NEW t \in DOMAIN table, table[t].status = Untested
                 PROVE  /\ (table[t].unc \cap open') \ table'[t].cov \subseteq table'[t].unc
                        /\ table'[t].status # Untested =>
                             \A f \in known : \E i \in DOMAIN tasks'[f] :
                                 tasks'[f][i].t = t /\ table'[t].unc \subseteq tasks'[f][i].unc
      BY DEF Resent
    <3>1. /\ (table[t].unc \cap open') \ table'[t].cov \subseteq table'[t].unc
          /\ table'[t].status # Untested =>
               \E i \in DOMAIN Copies(q, table') :
                   Copies(q, table')[i].t = t /\ table'[t].unc \subseteq Copies(q, table')[i].unc
      BY <2>4 DEF SentWell
    <3> QED BY <2>7, <3>1
  <2> QED BY <1>5, <2>4, <2>5, <2>6, <2>8 DEF K
<1> QED BY <1>7, <1>8

-----------------------------------------------------------------------------
(* The lists *)

\* pop leaves a part of the list, and pickTask returns a part of it.
LEMMA ListRest ==
    ASSUME NEW q \in Lists, NEW n \in Nat, n <= Len(q)
    PROVE  /\ SubSeq(q, n + 1, Len(q)) \in Lists
           /\ Elements(SubSeq(q, n + 1, Len(q))) \subseteq Elements(q)
           /\ {q[i] : i \in 1 .. n} \subseteq Elements(q)
<1> DEFINE r == SubSeq(q, n + 1, Len(q))
           l == Len(q)
<1>1. q \in Seq(Message) /\ \A i, j \in 1 .. l : q[i].t = q[j].t => i = j
  BY DEF Lists
<1>2. /\ l \in Nat /\ n <= l
      /\ r \in Seq(Message) /\ Len(r) = l - n
      /\ \A i \in 1 .. (l - n) : r[i] = q[i + n]
  BY <1>1, SMTT(60)
<1> HIDE DEF r, l
<1>3. /\ \A i \in 1 .. (l - n) : i + n \in 1 .. l
      /\ \A i, j \in 1 .. (l - n) : i + n = j + n => i = j
      /\ \A i \in 1 .. n : i \in 1 .. l
  BY <1>2, SMTT(60)
<1>4. r \in Lists
  <2>1. ASSUME NEW i \in 1 .. Len(r), NEW j \in 1 .. Len(r), r[i].t = r[j].t
        PROVE  i = j
    <3>1. q[i + n].t = q[j + n].t
      BY <1>2, <2>1
    <3>2. i + n = j + n
      BY <1>1, <1>2, <1>3, <3>1
    <3> QED BY <1>2, <1>3, <3>2
  <2> QED BY <1>2, <2>1 DEF Lists
<1>5. Elements(r) \subseteq Elements(q)
  BY <1>2, <1>3 DEF Elements, l
<1>6. {q[i] : i \in 1 .. n} \subseteq Elements(q)
  BY <1>3 DEF Elements, l
<1> QED BY <1>4, <1>5, <1>6 DEF r, l

\* ReturnTasks leaves a list in which each task is once.
LEMMA AddTaskList ==
    ASSUME NEW q \in Lists, NEW m \in Message
    PROVE  AddTask(q, m) \in Lists /\ Elements(AddTask(q, m)) \subseteq Elements(q) \cup {m}
<1> DEFINE r == Append(q, m)
           l == Len(q)
<1>1. q \in Seq(Message) /\ \A i, j \in 1 .. l : q[i].t = q[j].t => i = j
  BY DEF Lists
<1>2. CASE \E i \in 1 .. l : q[i].t = m.t
  BY <1>2 DEF AddTask
<1>3. CASE ~\E i \in 1 .. l : q[i].t = m.t
  <2>1. /\ l \in Nat /\ r \in Seq(Message) /\ Len(r) = l + 1
        /\ \A i \in 1 .. l : r[i] = q[i]
        /\ r[l + 1] = m
    BY <1>1, SMTT(60)
  <2>2. AddTask(q, m) = r
    BY <1>3 DEF AddTask
  <2> HIDE DEF r, l
  <2>3. \A i \in 1 .. (l + 1) : i \in 1 .. l \/ i = l + 1
    BY <2>1, SMTT(60)
  <2>4. ASSUME NEW i \in 1 .. Len(r), NEW j \in 1 .. Len(r), r[i].t = r[j].t
        PROVE  i = j
    BY <1>1, <1>3, <2>1, <2>3, <2>4
  <2>5. r \in Lists
    BY <2>1, <2>4 DEF Lists
  <2>6. Elements(r) \subseteq Elements(q) \cup {m}
    BY <2>1, <2>3 DEF Elements, l
  <2> QED BY <2>2, <2>5, <2>6
<1> QED BY <1>2, <1>3

\* Message m with the fields that a run writes.
Ran(m, u, v, w, z) == [m EXCEPT !.unc = u, !.cov = v, !.status = w, !.trd = z]

\* A message with the data of one run at the most is a result.
LEMMA ResultRun ==
    ASSUME NEW K, NEW m \in Message, NEW u \in SUBSET Addr, u \subseteq K, NEW v \in SUBSET Addr,
           NEW w \in 0 .. 4, NEW z \in Seq(Trd), Len(z) <= 1
    PROVE  Ran(m, u, v, w, z) \in Result(K)
<1>1. /\ Ran(m, u, v, w, z) \in Message
      /\ Ran(m, u, v, w, z).unc = u /\ Ran(m, u, v, w, z).trd = z
  BY DEF Ran, Message, Untested, Covered
<1> QED BY <1>1 DEF Result

\* A run of a task without data leaves the data of one run at the most.
LEMMA ResultsFacts ==
    ASSUME NEW K, NEW m \in Fresh(K), NEW r \in Results(m)
    PROVE  r \in Result(K)
<1>1. /\ m \in Message /\ m.trd = <<>> /\ m.unc \subseteq K
      /\ m.unc \in SUBSET Addr /\ m.cov \in SUBSET Addr /\ m.status \in 0 .. 4
  BY Fields DEF Fresh
<1>2. PICK x \in SUBSET m.unc, y \in SUBSET m.unc, ok \in BOOLEAN, s \in {Unstable, Tested} :
        r = ResultOf(m, x, y, ok, s)
  BY SMTT(60) DEF Results
<1> DEFINE u == m.unc \ (x \cup y)
           v == m.cov \cup x \cup y
           w == IF u = {} THEN Covered ELSE IF ~ok THEN Unstable ELSE Higher(m.status, s)
           d == [unc |-> u, cov |-> y \ x, nil |-> u = {}]
           z == IF ok THEN Append(m.trd, d) ELSE m.trd
<1>3. r = Ran(m, u, v, w, z)
  BY <1>2 DEF ResultOf, Ran
<1>4. u \in SUBSET Addr /\ v \in SUBSET Addr /\ u \subseteq K
  BY <1>1
<1>5. w \in 0 .. 4
  <2>1. Covered \in 0 .. 4 /\ Unstable \in 0 .. 4 /\ Tested \in 0 .. 4
    BY SMTT(60) DEF Covered, Unstable, Tested
  <2>2. s \in 0 .. 4
    BY <2>1
  <2>3. Higher(m.status, s) \in 0 .. 4
    BY <1>1, <2>2, LowerHigher
  <2> HIDE DEF u
  <2> QED BY <2>1, <2>3
<1>6. d \in Trd
  <2>1. y \ x \in SUBSET Addr
    BY <1>1
  <2> HIDE DEF u
  <2> QED BY <1>4, <2>1 DEF Trd
<1> HIDE DEF d
<1>7. Append(<<>>, d) \in Seq(Trd) /\ Len(Append(<<>>, d)) = 1 /\ <<>> \in Seq(Trd) /\ Len(<<>>) = 0
  BY <1>6, SMTT(60)
<1>8. 1 <= 1 /\ 0 <= 1
  BY SMTT(60)
<1>9. z \in Seq(Trd) /\ Len(z) <= 1
  BY <1>1, <1>7, <1>8
<1> HIDE DEF u, v, w, z
<1>10. Ran(m, u, v, w, z) \in Result(K)
  BY <1>1, <1>4, <1>5, <1>9, ResultRun
<1> QED BY <1>3, <1>10

-----------------------------------------------------------------------------
(* The steps *)

\* The initial state.
LEMMA InitHolds == Init => IInv
<1> SUFFICES ASSUME Init PROVE IInv
  OBVIOUS
<1>1. <<>> \in Lists /\ Elements(<<>>) = {}
  <2>1. <<>> \in Seq(Message) /\ Len(<<>>) = 0 /\ 1 .. 0 = {}
    BY SMTT(60)
  <2> QED BY <2>1 DEF Lists, Elements
<1>2. (\E S \in SUBSET Task : table \in [S -> Entry]) /\ DOMAIN table = {}
  <2>1. <<>> \in [{} -> Entry] /\ DOMAIN <<>> = {}
    BY SMTT(60)
  <2> QED BY <2>1 DEF Init
<1>3. 0 \in 0 .. MaxAdds /\ 0 \in 0 .. MaxChecks
  BY TaskAssumption, SMTT(60)
<1>4. made \in [add : 0 .. MaxAdds, check : 0 .. MaxChecks]
  BY <1>3 DEF Init
<1>5. TypeOK
  BY <1>1, <1>2, <1>3, <1>4 DEF Init, TypeOK
<1>6. OnTheWay
  BY <1>1 DEF Init, OnTheWay
<1> QED BY <1>5, <1>6 DEF IInv, AssertionsHold, Init

\* Connect changes only the process and the names that are known.
LEMMA ConnectStep ==
    ASSUME IInv, NEW f \in Fuzzer, Connect(f)
    PROVE  IInv'
<1>1. /\ UNCHANGED <<table, open, closed, late, tasks, return, work, stop, made>>
      /\ phase' \in [Fuzzer -> {"down", "connecting", "up"}]
      /\ known' \in SUBSET Fuzzer
  <2>1. phase \in [Fuzzer -> {"down", "connecting", "up"}] /\ known \in SUBSET Fuzzer
    BY DEF IInv, TypeOK
  <2>2. CASE ConnectAgain(f)
    BY <2>1, <2>2 DEF ConnectAgain, serverVars
  <2>3. CASE ConnectBegin(f)
    BY <2>1, <2>3 DEF ConnectBegin, serverVars
  <2>4. CASE ConnectEnd(f)
    BY <2>1, <2>4 DEF ConnectEnd
  <2> QED BY <2>2, <2>3, <2>4 DEF Connect
<1> QED BY <1>1 DEF IInv, TypeOK, AssertionsHold, OnTheWay

\* The race and the clock change only stop and late.
LEMMA ManagerStep ==
    ASSUME IInv, MapRace \/ TimePasses
    PROVE  IInv'
<1>1. /\ UNCHANGED <<table, open, closed, tasks, return, phase, known, work, made>>
      /\ stop' \in {stop, "race"} /\ late' \in BOOLEAN
  BY DEF IInv, TypeOK, MapRace, TimePasses, fuzzerVars
<1> QED BY <1>1 DEF IInv, TypeOK, AssertionsHold, OnTheWay

\* A fuzzer that dies loses its work.
LEMMA DiesStep ==
    ASSUME IInv, NEW f \in Fuzzer, Dies(f), UNCHANGED <<serverVars, tasks, return, made>>
    PROVE  IInv'
<1>1. phase \in [Fuzzer -> {"down", "connecting", "up"}] /\ work \in [Fuzzer -> SUBSET Message]
  BY DEF IInv, TypeOK
<1>2. phase' \in [Fuzzer -> {"down", "connecting", "up"}] /\ work' \in [Fuzzer -> SUBSET Message]
  BY <1>1 DEF Dies
<1>3. \A g \in Fuzzer : work'[g] \subseteq work[g]
  BY <1>1 DEF Dies
<1>4. UNCHANGED <<table, open, closed, late, known, stop, tasks, return, made>>
  BY DEF serverVars
<1>5. OnTheWay'
  BY <1>3, <1>4 DEF IInv, OnTheWay
<1> QED BY <1>2, <1>4, <1>5 DEF IInv, TypeOK, AssertionsHold

\* What a fuzzer fetches carries no data.
LEMMA GetTasksStep ==
    ASSUME IInv, NEW f \in Fuzzer, GetTasks(f)
    PROVE  IInv'
<1> DEFINE q == tasks[f]
           n == Lower(Len(q), TaskQueueNumber)
           rest == SubSeq(q, n + 1, Len(q))
           first == {q[i] : i \in 1 .. n}
<1>1. /\ tasks \in [Fuzzer -> Lists] /\ work \in [Fuzzer -> SUBSET Message] /\ q \in Lists
      /\ Elements(q) \subseteq Fresh(open \cup closed)
  BY DEF IInv, TypeOK, OnTheWay
<1>2. /\ tasks' = [tasks EXCEPT ![f] = rest]
      /\ work' = [work EXCEPT ![f] = work[f] \cup first]
  BY DEF GetTasks
<1>3. UNCHANGED <<table, open, closed, late, known, stop, return, phase, made>>
  BY DEF GetTasks, serverVars
<1>4. n \in Nat /\ n <= Len(q)
  <2> DEFINE l == Len(q)
  <2>1. q \in Seq(Message)
    BY <1>1 DEF Lists
  <2> HIDE DEF q
  <2>2. l \in Nat
    BY <2>1, SMTT(60)
  <2> HIDE DEF l
  <2>3. Lower(l, TaskQueueNumber) \in Nat /\ Lower(l, TaskQueueNumber) <= l
    BY <2>2, TaskAssumption, SMTT(60) DEF Lower
  <2> QED BY <2>3 DEF l
<1> HIDE DEF n, q
<1>5. rest \in Lists /\ Elements(rest) \subseteq Elements(q) /\ first \subseteq Elements(q)
  BY <1>1, <1>4, ListRest
<1> HIDE DEF rest, first
<1>6. first \subseteq Message
  BY <1>1, <1>5 DEF Fresh
<1>7. tasks' \in [Fuzzer -> Lists] /\ work' \in [Fuzzer -> SUBSET Message]
  BY <1>1, <1>2, <1>5, <1>6
<1>8. ASSUME NEW g \in Fuzzer
      PROVE  /\ work'[g] \subseteq Fresh(open \cup closed)
             /\ Elements(tasks'[g]) \subseteq Fresh(open \cup closed)
  <2>1. /\ work[g] \subseteq Fresh(open \cup closed)
        /\ Elements(tasks[g]) \subseteq Fresh(open \cup closed)
    BY DEF IInv, OnTheWay
  <2>2. CASE g = f
    <3>1. work'[g] = work[g] \cup first /\ tasks'[g] = rest
      BY <1>1, <1>2, <2>2
    <3> QED BY <1>1, <1>5, <2>1, <3>1
  <2>3. CASE g # f
    <3>1. work'[g] = work[g] /\ tasks'[g] = tasks[g]
      BY <1>1, <1>2, <2>3
    <3> QED BY <2>1, <3>1
  <2> QED BY <2>2, <2>3
<1>9. OnTheWay'
  BY <1>3, <1>8 DEF IInv, OnTheWay
<1> QED BY <1>3, <1>7, <1>9 DEF IInv, TypeOK, AssertionsHold

\* A task that a fuzzer makes for itself has no data and a known address.
LEMMA CheckInputStep ==
    ASSUME IInv, NEW f \in Fuzzer, NEW t \in Task, NEW a \in Addr, CheckInput(f, t, a)
    PROVE  IInv'
<1> DEFINE m == [t |-> t, kind |-> "Check", unc |-> {a}, cov |-> {}, status |-> Untested, trd |-> <<>>]
<1>1. work \in [Fuzzer -> SUBSET Message] /\ made \in [add : 0 .. MaxAdds, check : 0 .. MaxChecks]
  BY DEF IInv, TypeOK
<1>2. m \in Fresh(open \cup closed)
  <2>1. <<>> \in Seq(Trd) /\ Untested \in 0 .. 4
    BY SMTT(60) DEF Untested
  <2>2. a \in open \cup closed
    BY DEF CheckInput
  <2>3. m \in Message
    BY <2>1 DEF Message, Untested, Covered
  <2>4. m.trd = <<>> /\ m.unc = {a}
    OBVIOUS
  <2> QED BY <2>2, <2>3, <2>4 DEF Fresh
<1>3. work' = [work EXCEPT ![f] = work[f] \cup {m}]
  BY DEF CheckInput
<1>4. UNCHANGED <<table, open, closed, late, known, stop, tasks, return, phase>>
  BY DEF CheckInput, serverVars
<1> HIDE DEF m
<1>5. work' \in [Fuzzer -> SUBSET Message]
  BY <1>1, <1>2, <1>3 DEF Fresh
<1>6. made' \in [add : 0 .. MaxAdds, check : 0 .. MaxChecks]
  <2>1. made.check \in 0 .. MaxChecks /\ made.check < MaxChecks
    BY <1>1 DEF CheckInput
  <2>2. made.check + 1 \in 0 .. MaxChecks
    BY <2>1, TaskAssumption, SMTT(60)
  <2>3. made' = [made EXCEPT !.check = made.check + 1]
    BY DEF CheckInput
  <2> QED BY <1>1, <2>2, <2>3
<1>7. \A g \in Fuzzer : work'[g] \subseteq Fresh(open \cup closed)
  <2> SUFFICES ASSUME NEW g \in Fuzzer PROVE work'[g] \subseteq Fresh(open \cup closed)
    OBVIOUS
  <2>1. work'[g] = work[g] \/ work'[g] = work[g] \cup {m}
    BY <1>1, <1>3
  <2>2. work[g] \subseteq Fresh(open \cup closed)
    BY DEF IInv, OnTheWay
  <2> QED BY <1>2, <2>1, <2>2
<1>8. OnTheWay'
  BY <1>4, <1>7 DEF IInv, OnTheWay
<1> QED BY <1>4, <1>5, <1>6, <1>8 DEF IInv, TypeOK, AssertionsHold

\* What a fuzzer returns has the data of one run at the most.
LEMMA DependencyStep ==
    ASSUME IInv, NEW f \in Fuzzer, NEW m \in work[f], Dependency(f, m)
    PROVE  IInv'
<1> DEFINE K == open \cup closed
<1>1. /\ work \in [Fuzzer -> SUBSET Message] /\ return \in [Fuzzer -> Lists]
      /\ m \in Fresh(K)
      /\ \A g \in Fuzzer : work[g] \subseteq Fresh(K) /\ Elements(return[g]) \subseteq Result(K)
  BY DEF IInv, TypeOK, OnTheWay
<1>2. PICK r \in Results(m) : return' = [return EXCEPT ![f] = AddTask(return[f], r)]
  BY DEF Dependency
<1>3. work' = [work EXCEPT ![f] = work[f] \ {m}]
  BY DEF Dependency
<1>4. UNCHANGED <<table, open, closed, late, known, stop, tasks, phase, made>>
  BY DEF Dependency, serverVars
<1> HIDE DEF K
<1>5. r \in Result(K) /\ r \in Message
  BY <1>1, ResultsFacts DEF Result
<1> DEFINE list == AddTask(return[f], r)
<1>6. list \in Lists /\ Elements(list) \subseteq Elements(return[f]) \cup {r}
  BY <1>1, <1>5, AddTaskList
<1> HIDE DEF list
<1>7. work' \in [Fuzzer -> SUBSET Message] /\ \A g \in Fuzzer : work'[g] \subseteq work[g]
  BY <1>1, <1>3
<1>8. return' = [return EXCEPT ![f] = list]
  BY <1>2 DEF list
<1>9. return' \in [Fuzzer -> Lists]
  BY <1>1, <1>6, <1>8
<1>10. \A g \in Fuzzer : Elements(return'[g]) \subseteq Result(K)
  <2> SUFFICES ASSUME NEW g \in Fuzzer PROVE Elements(return'[g]) \subseteq Result(K)
    OBVIOUS
  <2>1. CASE g = f
    <3>1. return'[g] = list
      BY <1>1, <1>8, <2>1
    <3> QED BY <1>1, <1>5, <1>6, <3>1
  <2>2. CASE g # f
    <3>1. return'[g] = return[g]
      BY <1>1, <1>8, <2>2
    <3> QED BY <1>1, <3>1
  <2> QED BY <2>1, <2>2
<1>11. OnTheWay'
  BY <1>1, <1>4, <1>7, <1>10 DEF IInv, OnTheWay, K
<1> QED BY <1>4, <1>7, <1>9, <1>11 DEF IInv, TypeOK, AssertionsHold

\* Update fails no assertion, and sends a renewed task before it settles it.
LEMMA UpdateStep ==
    ASSUME IInv, Update
    PROVE  IInv' /\ Resent
<1>0. PICK cov \in SUBSET open : \E add \in SUBSET (Task \X (Addr \ (closed \cup cov))) :
        /\ made.add + Cardinality(add) <= MaxAdds
        /\ made' = [made EXCEPT !.add = made.add + Cardinality(add)]
        /\ UpdateWith(cov, add)
  BY DEF Update
<1>1. PICK add \in SUBSET (Task \X (Addr \ (closed \cup cov))) :
        /\ made.add + Cardinality(add) <= MaxAdds
        /\ made' = [made EXCEPT !.add = made.add + Cardinality(add)]
        /\ UpdateWith(cov, add)
  BY <1>0
<1>2. UNCHANGED <<late, known, phase, work>>
  BY DEF Update, fuzzerVars
<1>3. /\ add \in SUBSET (Task \X Addr)
      /\ open' \in SUBSET Addr /\ closed' \in SUBSET (Addr \ open')
      /\ open \cup closed \subseteq open' \cup closed'
  BY <1>1, UpdateAddresses DEF IInv
<1>4. /\ table' \in GoodTables /\ stop' \in {"", "nil map"}
      /\ tasks' \in [Fuzzer -> Lists]
      /\ \A f \in Fuzzer : Elements(tasks'[f]) \subseteq Fresh(open' \cup closed')
      /\ Resent
  BY <1>1, UpdateKeeps
<1>5. (\E S \in SUBSET Task : table' \in [S -> Entry]) /\ \A t \in DOMAIN table' : Len(table'[t].trd) <= 1
  BY <1>4, TablesAreGood
<1>6. /\ return' \in [Fuzzer -> Lists]
      /\ \A f \in Fuzzer : Elements(return'[f]) \subseteq Result(open' \cup closed')
  <2>1. <<>> \in Lists /\ Elements(<<>>) = {}
    <3>1. <<>> \in Seq(Message) /\ Len(<<>>) = 0 /\ 1 .. 0 = {}
      BY SMTT(60)
    <3> QED BY <3>1 DEF Lists, Elements
  <2>2. return' = [f \in Fuzzer |-> IF f \in known THEN <<>> ELSE return[f]]
    BY <1>1 DEF UpdateWith
  <2>3. return \in [Fuzzer -> Lists]
    BY DEF IInv, TypeOK
  <2>4. \A f \in Fuzzer : Elements(return[f]) \subseteq Result(open' \cup closed')
    BY <1>3, MoreKnown DEF IInv, OnTheWay
  <2>5. return' \in [Fuzzer -> Lists]
    BY <2>1, <2>2, <2>3
  <2>6. ASSUME NEW f \in Fuzzer
        PROVE  Elements(return'[f]) \subseteq Result(open' \cup closed')
    <3>1. return'[f] = <<>> \/ return'[f] = return[f]
      BY <2>2
    <3> QED BY <2>1, <2>4, <3>1
  <2> QED BY <2>5, <2>6
<1>7. made' \in [add : 0 .. MaxAdds, check : 0 .. MaxChecks]
  <2> DEFINE n == Cardinality(add)
  <2>1. made \in [add : 0 .. MaxAdds, check : 0 .. MaxChecks]
    BY DEF IInv, TypeOK
  <2>2. n \in Nat
    <3>1. IsFiniteSet(Task \X Addr)
      BY TaskAssumption, FS_Product
    <3> QED BY <1>3, <3>1, FS_Subset, FS_CardinalityType
  <2> HIDE DEF n
  <2>3. made.add \in 0 .. MaxAdds /\ made.add + n <= MaxAdds
    BY <1>1, <2>1 DEF n
  <2>4. made.add + n \in 0 .. MaxAdds
    BY <2>2, <2>3, TaskAssumption, SMTT(60)
  <2>5. made' = [made EXCEPT !.add = made.add + n]
    BY <1>1 DEF n
  <2> QED BY <2>1, <2>4, <2>5
<1>8. \A f \in Fuzzer : work'[f] \subseteq Fresh(open' \cup closed')
  BY <1>2, <1>3, MoreKnown DEF IInv, OnTheWay
<1>9. OnTheWay'
  BY <1>4, <1>6, <1>8 DEF OnTheWay
<1>10. TypeOK'
  BY <1>2, <1>3, <1>4, <1>5, <1>6, <1>7 DEF IInv, TypeOK
<1> QED BY <1>4, <1>9, <1>10 DEF IInv, AssertionsHold

\* Only Update touches the table.
LEMMA NextStep ==
    ASSUME IInv, [Next]_vars
    PROVE  IInv' /\ (Resent \/ UNCHANGED vars)
<1>1. ASSUME table' = table, open' = open
      PROVE  Resent
  BY <1>1 DEF Resent
<1>2. ASSUME NEW f \in Fuzzer, Connect(f)
      PROVE  IInv' /\ Resent
  <2>1. table' = table /\ open' = open
    BY <1>2 DEF Connect, ConnectAgain, ConnectBegin, ConnectEnd, serverVars
  <2> QED BY <1>1, <1>2, <2>1, ConnectStep
<1>3. ASSUME NEW f \in Fuzzer, GetTasks(f)
      PROVE  IInv' /\ Resent
  <2>1. table' = table /\ open' = open
    BY <1>3 DEF GetTasks, serverVars
  <2> QED BY <1>1, <1>3, <2>1, GetTasksStep
<1>4. ASSUME NEW f \in Fuzzer, \E m \in work[f] : Dependency(f, m)
      PROVE  IInv' /\ Resent
  <2>1. PICK m \in work[f] : Dependency(f, m)
    BY <1>4
  <2>2. table' = table /\ open' = open
    BY <2>1 DEF Dependency, serverVars
  <2> QED BY <1>1, <2>1, <2>2, DependencyStep
<1>5. ASSUME NEW f \in Fuzzer, Crash(f) \/ \E m \in work[f] : DependencyPanics(f, m)
      PROVE  IInv' /\ Resent
  <2>1. Dies(f) /\ UNCHANGED <<serverVars, tasks, return, made>>
    BY <1>5 DEF Crash, DependencyPanics
  <2>2. table' = table /\ open' = open
    BY <2>1 DEF serverVars
  <2> QED BY <1>1, <2>1, <2>2, DiesStep
<1>6. ASSUME NEW f \in Fuzzer, \E t \in Task, a \in Addr : CheckInput(f, t, a)
      PROVE  IInv' /\ Resent
  <2>1. PICK t \in Task, a \in Addr : CheckInput(f, t, a)
    BY <1>6
  <2>2. table' = table /\ open' = open
    BY <2>1 DEF CheckInput, serverVars
  <2> QED BY <1>1, <2>1, <2>2, CheckInputStep
<1>7. ASSUME MapRace \/ TimePasses
      PROVE  IInv' /\ Resent
  <2>1. table' = table /\ open' = open
    BY <1>7 DEF MapRace, TimePasses
  <2> QED BY <1>1, <1>7, <2>1, ManagerStep
<1>8. ASSUME Update
      PROVE  IInv' /\ Resent
  BY <1>8, UpdateStep
<1>9. ASSUME UNCHANGED vars
      PROVE  IInv'
  BY <1>9 DEF vars, IInv, TypeOK, AssertionsHold, OnTheWay
<1> QED BY <1>2, <1>3, <1>4, <1>5, <1>6, <1>7, <1>8, <1>9 DEF Next, Run

-----------------------------------------------------------------------------
\* The inductive invariant holds in every state: every list has a task once, the
\* table has one run's data at the most for each, what waits for a run has none,
\* and every address on its way is known to the manager.
THEOREM InvariantHolds == Spec => []IInv
<1>1. IInv /\ [Next]_vars => IInv'
  BY NextStep
<1> QED BY <1>1, InitHolds, PTL DEF Spec

\* The state stays well formed: AddTask, pop, mergeTask and the copies that
\* Update makes keep each task once in a list, with one run's data at the most.
THEOREM TypesHold == Spec => []TypeOK
<1>1. IInv => TypeOK
  BY DEF IInv
<1> QED BY <1>1, InvariantHolds, PTL

\* The assertions of mergeTask and updateUncoveredAddress hold, whatever
\* fuzzers die, return late or return what they were sent before.
THEOREM AssertionsAlwaysHold == Spec => []AssertionsHold
<1>1. IInv => AssertionsHold
  BY DEF IInv
<1> QED BY <1>1, InvariantHolds, PTL

\* A task that addTask renews is not settled by a late result: only sending it,
\* with every address of it that is uncovered, makes it anything but untested.
THEOREM RenewedTaskIsSent == Spec => RenewedIsSent
<1>1. IInv /\ [Next]_vars => [Resent]_vars
  BY NextStep
<1>2. Spec => [][Resent]_vars
  BY <1>1, InvariantHolds, PTL DEF Spec
<1> QED BY <1>2 DEF RenewedIsSent, Resent
==============================================================================
