------------------------------ MODULE DbProofs ------------------------------
(***************************************************************************)
(* The database implements Store for any keys, values, versions and        *)
(* compaction threshold, however long its file grows, and the file stays   *)
(* bounded.                                                                *)
(***************************************************************************)
EXTENDS Db, FiniteSetTheorems, WellFoundedInduction, TLAPS

USE ZenonT(30)

Log == Seq(Record \cup {Torn})
Content == [Key -> Val \cup {None}]

\* A bounded, non-empty set of numbers has a largest element.
LEMMA LargestExists ==
    ASSUME NEW n \in Nat, NEW S \in SUBSET (1 .. n), S # {}
    PROVE  \E x \in S : \A y \in S : y =< x
<1> DEFINE T == {n - x : x \in S}
<1>1. T \subseteq Nat /\ T # {}
  <2>1. \A x \in S : n - x \in Nat
    BY SMTT(60)
  <2>2. PICK x \in S : TRUE
    OBVIOUS
  <2>3. n - x \in T
    OBVIOUS
  <2> QED BY <2>1, <2>3
<1>2. PICK t \in T : \A u \in T : ~(<<u, t>> \in OpToRel(<, Nat))
  BY <1>1, NatLessThanWellFounded, WFMin
<1>3. \A u \in T : ~(u < t)
  BY <1>1, <1>2 DEF OpToRel
<1>4. PICK x \in S : t = n - x
  OBVIOUS
<1>5. \A y \in S : y =< x
  <2> TAKE y \in S
  <2>1. n - y \in T
    OBVIOUS
  <2> QED BY <2>1, <1>3, <1>4, SMTT(60)
<1> QED BY <1>5

\* Either some record of the log counts for k, or none is about k.
LEMMA LastExists ==
    ASSUME NEW s \in Log, NEW k,
           NEW i \in 1 .. Len(s), Intact(s, i), s[i].key = k
    PROVE  \E j \in 1 .. Len(s) : IsLast(s, j, k)
<1> DEFINE S == {j \in 1 .. Len(s) : Intact(s, j) /\ s[j].key = k}
<1>1. Len(s) \in Nat
  BY SMTT(60) DEF Log
<1>2. S \in SUBSET (1 .. Len(s)) /\ S # {}
  OBVIOUS
<1>3. PICK j \in S : \A y \in S : y =< j
  BY <1>1, <1>2, LargestExists
<1>4. \A y \in 1 .. Len(s) : y > j /\ Intact(s, y) => s[y].key # k
  BY <1>1, <1>3, SMTT(60)
<1> QED BY <1>3, <1>4 DEF IsLast

\* Apply takes the value of the record that counts.
LEMMA ApplyLast ==
    ASSUME NEW m, NEW s \in Log, NEW k \in Key,
           NEW i \in 1 .. Len(s), IsLast(s, i, k)
    PROVE  Apply(m, s)[k] = s[i].val
<1>1. \A j \in 1 .. Len(s) : IsLast(s, j, k) => j = i
  <2> SUFFICES ASSUME NEW j \in 1 .. Len(s), IsLast(s, j, k) PROVE j = i
    OBVIOUS
  <2>1. Len(s) \in Nat
    BY SMTT(60) DEF Log
  <2>2. ~(j > i) /\ ~(i > j)
    BY DEF IsLast
  <2> QED BY <2>1, <2>2, SMTT(60)
<1>2. (CHOOSE j \in 1 .. Len(s) : IsLast(s, j, k)) = i
  BY <1>1
<1> QED BY <1>2 DEF Apply

\* Apply keeps what no record is about.
LEMMA ApplyKeeps ==
    ASSUME NEW m, NEW s \in Log, NEW k \in Key,
           \A i \in 1 .. Len(s) : Intact(s, i) => s[i].key # k
    PROVE  Apply(m, s)[k] = m[k]
BY DEF Apply, IsLast

\* Apply yields for a key the value it had or that of a record about it.
LEMMA ApplyValue ==
    ASSUME NEW m, NEW s \in Log, NEW k \in Key
    PROVE  \/ Apply(m, s)[k] = m[k]
           \/ \E i \in 1 .. Len(s) : /\ Intact(s, i) /\ s[i].key = k
                                     /\ Apply(m, s)[k] = s[i].val
<1>1. CASE \E i \in 1 .. Len(s) : Intact(s, i) /\ s[i].key = k
  <2>1. PICK i \in 1 .. Len(s) : IsLast(s, i, k)
    BY <1>1, LastExists
  <2> QED BY <2>1, ApplyLast, SMTT(60) DEF IsLast
<1>2. CASE ~ \E i \in 1 .. Len(s) : Intact(s, i) /\ s[i].key = k
  BY <1>2, ApplyKeeps
<1> QED BY <1>1, <1>2

\* The records of a log are records before the first torn one.
LEMMA IntactRecord ==
    ASSUME NEW s \in Log, NEW i \in 1 .. Len(s), Intact(s, i)
    PROVE  s[i] \in Record
BY SMTT(60) DEF Log, Intact

\* Records applied to a cache make a cache.
LEMMA ApplyType ==
    ASSUME NEW m \in Content, NEW s \in Log
    PROVE  Apply(m, s) \in Content
<1>1. \A k \in Key : Apply(m, s)[k] \in Val \cup {None}
  <2> TAKE k \in Key
  <2>1. CASE Apply(m, s)[k] = m[k]
    BY <2>1 DEF Content
  <2>2. CASE \E i \in 1 .. Len(s) : Intact(s, i) /\ s[i].key = k /\ Apply(m, s)[k] = s[i].val
    <3>1. PICK i \in 1 .. Len(s) : Intact(s, i) /\ Apply(m, s)[k] = s[i].val
      BY <2>2
    <3>2. s[i] \in Record
      BY <3>1, IntactRecord
    <3> QED BY <3>1, <3>2 DEF Record
  <2> QED BY <2>1, <2>2, ApplyValue, SMTT(60)
<1>2. Apply(m, s) = [k \in Key |-> Apply(m, s)[k]]
  BY DEF Apply
<1> QED BY <1>1, <1>2 DEF Content

\* Two contents are equal when they agree on every key.
LEMMA ContentEqual ==
    ASSUME NEW m \in Content, NEW n \in Content, \A k \in Key : m[k] = n[k]
    PROVE  m = n
BY SMTT(60) DEF Content

\* A log without a torn record.
Whole(s) == \A i \in 1 .. Len(s) : s[i] # Torn

\* deserializeDB reaches every record of a log without a torn one.
LEMMA WholeIntact ==
    ASSUME NEW s \in Log, Whole(s), NEW i \in 1 .. Len(s)
    PROVE  Intact(s, i)
<1>1. Len(s) \in Nat
  BY SMTT(60) DEF Log
<1> QED BY <1>1, SMTT(60) DEF Whole, Intact

\* Where the records of a concatenation come from, and which are read.
LEMMA ConcatIntact ==
    ASSUME NEW s \in Log, Whole(s), NEW t \in Log
    PROVE  /\ s \o t \in Log
           /\ Len(s \o t) = Len(s) + Len(t) /\ Len(s) \in Nat /\ Len(t) \in Nat
           /\ \A i \in 1 .. Len(s) : (s \o t)[i] = s[i] /\ Intact(s \o t, i)
           /\ \A i \in 1 .. Len(t) : /\ (s \o t)[Len(s) + i] = t[i]
                                     /\ Intact(s \o t, Len(s) + i) <=> Intact(t, i)
<1>1. /\ s \o t \in Log
      /\ Len(s \o t) = Len(s) + Len(t) /\ Len(s) \in Nat /\ Len(t) \in Nat
  BY SMTT(60) DEF Log
<1>2. \A i \in 1 .. Len(s) : (s \o t)[i] = s[i]
  BY SMTT(60) DEF Log
<1>3. \A i \in 1 .. Len(t) : (s \o t)[Len(s) + i] = t[i]
  BY SMTT(60) DEF Log
<1>4. \A i \in 1 .. Len(s) : Intact(s \o t, i)
  BY <1>1, <1>2, SMTT(60) DEF Intact, Whole
<1>5. ASSUME NEW i \in 1 .. Len(t), Intact(t, i) PROVE Intact(s \o t, Len(s) + i)
  <2> SUFFICES ASSUME NEW j \in 1 .. Len(s) + i PROVE (s \o t)[j] # Torn
    BY DEF Intact
  <2>1. CASE j =< Len(s)
    BY <2>1, <1>1, <1>2, SMTT(60) DEF Whole
  <2>2. CASE j > Len(s)
    <3>1. j - Len(s) \in 1 .. i /\ j - Len(s) \in 1 .. Len(t) /\ j = Len(s) + (j - Len(s))
      BY <2>2, <1>1, SMTT(60)
    <3> QED BY <3>1, <1>3, <1>5 DEF Intact
  <2> QED BY <2>1, <2>2, <1>1, SMTT(60)
<1>6. ASSUME NEW i \in 1 .. Len(t), Intact(s \o t, Len(s) + i) PROVE Intact(t, i)
  <2> SUFFICES ASSUME NEW j \in 1 .. i PROVE t[j] # Torn
    BY DEF Intact
  <2>1. Len(s) + j \in 1 .. Len(s) + i /\ j \in 1 .. Len(t)
    BY <1>1, SMTT(60)
  <2> QED BY <2>1, <1>3, <1>6 DEF Intact
<1> QED BY <1>1, <1>2, <1>3, <1>4, <1>5, <1>6

\* Appending to a log without torn records applies the new records to what the
\* log yields: what Flush relies on.
LEMMA ApplyConcat ==
    ASSUME NEW m, NEW s \in Log, Whole(s), NEW t \in Log, NEW k \in Key
    PROVE  Apply(m, s \o t)[k] = Apply(Apply(m, s), t)[k]
<1> DEFINE st == s \o t
<1> HIDE DEF st
<1>c. /\ st \in Log
      /\ Len(st) = Len(s) + Len(t) /\ Len(s) \in Nat /\ Len(t) \in Nat
      /\ \A i \in 1 .. Len(s) : st[i] = s[i] /\ Intact(st, i)
      /\ \A i \in 1 .. Len(t) : /\ st[Len(s) + i] = t[i]
                                /\ Intact(st, Len(s) + i) <=> Intact(t, i)
  BY ConcatIntact DEF st
<1>s. \A j \in 1 .. Len(st) : j > Len(s) => j - Len(s) \in 1 .. Len(t) /\ j = Len(s) + (j - Len(s))
  BY <1>c, SMTT(60)
<1>1. CASE \E i \in 1 .. Len(t) : Intact(t, i) /\ t[i].key = k
  <2>1. PICK i \in 1 .. Len(t) : IsLast(t, i, k)
    BY <1>1, LastExists
  <2>2. Len(s) + i \in 1 .. Len(st)
    BY <1>c, SMTT(60)
  <2>3. Intact(st, Len(s) + i) /\ st[Len(s) + i].key = k
    BY <2>1, <1>c DEF IsLast
  <2>4. ASSUME NEW j \in 1 .. Len(st), j > Len(s) + i, Intact(st, j) PROVE st[j].key # k
    <3>1. j > Len(s) /\ j - Len(s) > i
      BY <2>4, <1>c, SMTT(60)
    <3>2. j - Len(s) \in 1 .. Len(t) /\ Intact(t, j - Len(s)) /\ st[j] = t[j - Len(s)]
      BY <3>1, <2>4, <1>c, <1>s
    <3> QED BY <3>1, <3>2, <2>1 DEF IsLast
  <2>5. IsLast(st, Len(s) + i, k)
    BY <2>3, <2>4 DEF IsLast
  <2>6. Apply(m, st)[k] = t[i].val
    BY <2>2, <2>5, <1>c, ApplyLast, SMTT(60)
  <2> QED BY <2>1, <2>6, ApplyLast, SMTT(60) DEF st
<1>2. CASE \A i \in 1 .. Len(t) : Intact(t, i) => t[i].key # k
  <2>0. Apply(Apply(m, s), t)[k] = Apply(m, s)[k]
    BY <1>2, ApplyKeeps
  <2>n. \A j \in 1 .. Len(st) : j > Len(s) /\ Intact(st, j) => st[j].key # k
    BY <1>2, <1>c, <1>s
  <2>1. CASE \E i \in 1 .. Len(s) : s[i].key = k
    <3>1. PICK i \in 1 .. Len(s) : IsLast(s, i, k)
      BY <2>1, WholeIntact, LastExists
    <3>2. i \in 1 .. Len(st) /\ Intact(st, i) /\ st[i] = s[i]
      BY <1>c, SMTT(60)
    <3>3. ASSUME NEW j \in 1 .. Len(st), j > i, Intact(st, j) PROVE st[j].key # k
      <4>1. CASE j > Len(s)
        BY <4>1, <3>3, <2>n
      <4>2. CASE j \in 1 .. Len(s)
        BY <4>2, <3>3, <3>1, <1>c, WholeIntact DEF IsLast
      <4> QED BY <4>1, <4>2, <1>c, SMTT(60)
    <3>4. IsLast(st, i, k)
      BY <3>1, <3>2, <3>3 DEF IsLast
    <3>5. Apply(m, st)[k] = s[i].val
      BY <3>2, <3>4, <1>c, ApplyLast, SMTT(60)
    <3> QED BY <3>1, <3>5, <2>0, ApplyLast DEF st
  <2>2. CASE \A i \in 1 .. Len(s) : s[i].key # k
    <3>1. \A j \in 1 .. Len(st) : Intact(st, j) => st[j].key # k
      <4> TAKE j \in 1 .. Len(st)
      <4>1. CASE j > Len(s)
        BY <4>1, <2>n
      <4>2. CASE j \in 1 .. Len(s)
        BY <4>2, <2>2, <1>c
      <4> QED BY <4>1, <4>2, <1>c, SMTT(60)
    <3>2. Apply(m, st)[k] = m[k]
      BY <3>1, <1>c, ApplyKeeps
    <3>3. Apply(m, s)[k] = m[k]
      BY <2>2, ApplyKeeps
    <3> QED BY <3>2, <3>3, <2>0 DEF st
  <2> QED BY <2>1, <2>2
<1> QED BY <1>1, <1>2

\* A torn record contributes nothing.
LEMMA ApplyTorn ==
    ASSUME NEW m, NEW k \in Key
    PROVE  Apply(m, <<Torn>>)[k] = m[k]
<1>1. <<Torn>> \in Log /\ Len(<<Torn>>) = 1 /\ <<Torn>>[1] = Torn
  BY SMTT(60) DEF Log
<1>2. \A i \in 1 .. Len(<<Torn>>) : ~Intact(<<Torn>>, i)
  BY <1>1, SMTT(60) DEF Intact
<1> QED BY <1>1, <1>2, ApplyKeeps

\* An empty log changes nothing.
LEMMA ApplyEmpty ==
    ASSUME NEW m, NEW k \in Key
    PROVE  Apply(m, <<>>)[k] = m[k]
<1>1. <<>> \in Log /\ \A i \in 1 .. Len(<<>>) : FALSE
  BY SMTT(60) DEF Log
<1> QED BY <1>1, ApplyKeeps

\* A buffer of serialised records is a log without torn records.
LEMMA BufferWhole ==
    ASSUME NEW buf \in Seq(Record)
    PROVE  buf \in Log /\ Whole(buf) /\ Len(buf) \in Nat
<1>1. \A i \in 1 .. Len(buf) : buf[i] \in Record
  BY SMTT(60)
<1> QED BY <1>1, TornAssumption, SMTT(60) DEF Log, Whole, Record

\* What a write that ended early has left is a log.
LEMMA CutLog ==
    ASSUME NEW buf \in Seq(Record), NEW p \in Cut(buf) \cup {buf}
    PROVE  p \in Log
<1>1. CASE p = buf
  BY <1>1, BufferWhole
<1>2. CASE p \in Cut(buf)
  <2>1. PICK n \in 0 .. Len(buf) - 1 :
            p = SubSeq(buf, 1, n) \/ p = Append(SubSeq(buf, 1, n), Torn)
    BY <1>2 DEF Cut
  <2> DEFINE q == SubSeq(buf, 1, n)
  <2>2. q \in Seq(Record)
    BY <2>1, BufferWhole, SMTT(60)
  <2> HIDE DEF q
  <2>3. q \in Log
    BY <2>2, BufferWhole
  <2>4. Append(q, Torn) = q \o <<Torn>>
    BY <2>2, SMTT(60)
  <2>5. q \o <<Torn>> \in Log
    BY <2>3, SMTT(60) DEF Log
  <2> QED BY <2>1, <2>3, <2>4, <2>5 DEF q
<1> QED BY <1>1, <1>2

\* The value it yields for a key is the old one or that of a record of the
\* buffer.
LEMMA PartValue ==
    ASSUME NEW buf \in Seq(Record), NEW p \in Cut(buf) \cup {buf}, NEW m, NEW k \in Key
    PROVE  \/ Apply(m, p)[k] = m[k]
           \/ \E i \in 1 .. Len(buf) : buf[i].key = k /\ Apply(m, p)[k] = buf[i].val
<1>b. buf \in Log /\ Whole(buf) /\ Len(buf) \in Nat
  BY BufferWhole
<1>1. CASE p = buf
  BY <1>1, <1>b, ApplyValue, SMTT(60)
<1>2. CASE p \in Cut(buf)
  <2>1. PICK n \in 0 .. Len(buf) - 1 :
            p = SubSeq(buf, 1, n) \/ p = Append(SubSeq(buf, 1, n), Torn)
    BY <1>2 DEF Cut
  <2> DEFINE q == SubSeq(buf, 1, n)
  <2>2. q \in Seq(Record) /\ Len(q) = n /\ n \in Nat /\ \A i \in 1 .. n : q[i] = buf[i]
    BY <2>1, <1>b, SMTT(60)
  <2> HIDE DEF q
  <2>3. q \in Log /\ Whole(q)
    BY <2>2, BufferWhole
  <2>4. \/ Apply(m, q)[k] = m[k]
        \/ \E i \in 1 .. Len(buf) : buf[i].key = k /\ Apply(m, q)[k] = buf[i].val
    BY <2>2, <2>3, <1>b, ApplyValue, SMTT(60)
  <2>5. CASE p = q
    BY <2>3, <2>4, <2>5
  <2>6. CASE p = Append(q, Torn)
    <3>1. p = q \o <<Torn>> /\ <<Torn>> \in Log
      BY <2>6, <2>2, SMTT(60) DEF Log
    <3>2. Apply(m, p)[k] = Apply(Apply(m, q), <<Torn>>)[k]
      BY <3>1, <2>3, ApplyConcat, SMTT(60)
    <3>3. Apply(m, p)[k] = Apply(m, q)[k]
      BY <3>2, ApplyTorn
    <3> QED BY <3>3, <2>4
  <2> QED BY <2>1, <2>5, <2>6 DEF q
<1> QED BY <1>1, <1>2

\* Writing the whole buffer after a part of it has the effect of writing it
\* once: why Flush may retry.
LEMMA PartAgain ==
    ASSUME NEW buf \in Seq(Record), NEW p \in Cut(buf) \cup {buf}, NEW m, NEW k \in Key
    PROVE  Apply(Apply(m, p), buf)[k] = Apply(m, buf)[k]
<1>b. buf \in Log /\ Whole(buf)
  BY BufferWhole
<1>1. CASE \E i \in 1 .. Len(buf) : buf[i].key = k
  <2>1. PICK i \in 1 .. Len(buf) : IsLast(buf, i, k)
    BY <1>1, <1>b, WholeIntact, LastExists
  <2> QED BY <2>1, <1>b, ApplyLast, SMTT(60)
<1>2. CASE \A i \in 1 .. Len(buf) : buf[i].key # k
  <2>1. Apply(Apply(m, p), buf)[k] = Apply(m, p)[k]
    BY <1>2, <1>b, ApplyKeeps
  <2>2. Apply(m, buf)[k] = m[k]
    BY <1>2, <1>b, ApplyKeeps
  <2>3. Apply(m, p)[k] = m[k]
    BY <1>2, PartValue, SMTT(60)
  <2> QED BY <2>1, <2>2, <2>3
<1> QED BY <1>1, <1>2

\* compact writes a file that is read back as the cache, whatever the order in
\* which it iterates the map.
LEMMA ListingReplay ==
    ASSUME NEW m \in Content, NEW f \in Listings(m)
    PROVE  /\ f \in Log /\ Whole(f)
           /\ Size(m) \in Nat
           /\ Replay(f) = m
<1>1. Size(m) \in Nat
  <2>1. Present(m) \subseteq Key
    BY DEF Present
  <2>2. IsFiniteSet(Present(m))
    BY <2>1, KeyAssumption, FS_Subset
  <2> QED BY <2>2, FS_CardinalityType DEF Size
<1> DEFINE R == {[key |-> k, val |-> m[k]] : k \in Present(m)}
<1>2. f \in [1 .. Size(m) -> R] /\ \A k \in Present(m) : \E i \in DOMAIN f : f[i].key = k
  BY DEF Listings
<1>3. R \subseteq Record
  BY SMTT(60) DEF Record, Present, Content
<1>4. f \in Seq(Record) /\ Len(f) = Size(m)
  BY <1>1, <1>2, <1>3, SMTT(60)
<1>5. f \in Log /\ Whole(f)
  BY <1>4, BufferWhole
<1>6. \A i \in 1 .. Len(f) : f[i].key \in Present(m) /\ f[i].val = m[f[i].key]
  BY <1>2, <1>4, SMTT(60)
<1>7. ASSUME NEW k \in Key PROVE Replay(f)[k] = m[k]
  <2>1. CASE k \in Present(m)
    <3>1. PICK i \in 1 .. Len(f) : f[i].key = k
      BY <2>1, <1>2, <1>4
    <3>2. PICK j \in 1 .. Len(f) : IsLast(f, j, k)
      BY <3>1, <1>5, WholeIntact, LastExists
    <3>3. Replay(f)[k] = f[j].val
      BY <3>2, <1>5, ApplyLast, SMTT(60) DEF Replay
    <3> QED BY <3>2, <3>3, <1>6 DEF IsLast
  <2>2. CASE k \notin Present(m)
    <3>1. \A i \in 1 .. Len(f) : f[i].key # k
      BY <2>2, <1>6
    <3>2. Replay(f)[k] = Empty[k]
      BY <3>1, <1>5, ApplyKeeps DEF Replay
    <3> QED BY <2>2, <3>2 DEF Empty, Present
  <2> QED BY <2>1, <2>2
<1>8. Empty \in Content
  BY DEF Empty, Content
<1>9. Replay(f) \in Content
  BY <1>5, <1>8, ApplyType DEF Replay
<1> QED BY <1>1, <1>5, <1>7, <1>9, ContentEqual

-----------------------------------------------------------------------------
\* The cache is what a restart would read with pending applied to it, unless
\* records are buried behind a torn one.
InSync == up /\ ~Buried => \A k \in Key : Apply(Replay(file), pending)[k] = records[k]

\* The inductive invariant.
DbInv == TypeOK /\ InSync

\* Open makes a cache of any file.
LEMMA ReplayType ==
    ASSUME NEW f \in Log
    PROVE  Replay(f) \in Content
<1>1. Empty \in Content
  BY DEF Empty, Content
<1> QED BY <1>1, ApplyType DEF Replay

\* A cache has a number of records.
LEMMA SizeType ==
    ASSUME NEW m \in Content
    PROVE  Size(m) \in Nat
<1>1. Present(m) \subseteq Key
  BY DEF Present
<1>2. IsFiniteSet(Present(m))
  BY <1>1, KeyAssumption, FS_Subset
<1> QED BY <1>2, FS_CardinalityType DEF Size

\* deserializeDB counts a number of records.
LEMMA ReadCountType ==
    ASSUME NEW f \in Log
    PROVE  ReadCount(f) \in Nat
<1>1. Len(f) \in Nat
  BY SMTT(60) DEF Log
<1>2. IsFiniteSet(1 .. Len(f))
  BY <1>1, FS_Interval, SMTT(60)
<1>3. {i \in 1 .. Len(f) : Intact(f, i)} \subseteq 1 .. Len(f)
  OBVIOUS
<1>4. IsFiniteSet({i \in 1 .. Len(f) : Intact(f, i)})
  BY <1>2, <1>3, FS_Subset
<1> QED BY <1>4, FS_CardinalityType DEF ReadCount

\* A whole or partial write of pending: what the file yields for a key is what
\* Store allows, and writing pending again would still bring it up to date.
LEMMA AppendPart ==
    ASSUME DbInv, up, NEW p \in Cut(pending) \cup {pending},
           file' = file \o p, ~Buried'
    PROVE  /\ file' \in Log
           /\ \A k \in Key : /\ Replay(file')[k] \in May[k]
                             /\ Apply(Replay(file'), pending)[k] = records[k]
           /\ p = pending => \A k \in Key : Replay(file')[k] = records[k]
<1>t. file \in Log /\ pending \in Seq(Record) /\ Len(file) \in Nat
  BY SMTT(60) DEF DbInv, TypeOK, Log
<1>p. p \in Log /\ Len(p) \in Nat
  BY <1>t, CutLog, SMTT(60) DEF Log
<1>1. CASE p = <<>>
  <2>1. file' = file
    BY <1>1, <1>t, SMTT(60) DEF Log
  <2>2. ~Buried
    BY <2>1 DEF Buried
  <2>3. \A k \in Key : Apply(Replay(file), pending)[k] = records[k]
    BY <2>2 DEF DbInv, InSync
  <2>4. \A k \in Key : Replay(file)[k] \in May[k]
    BY DEF May
  <2>5. p = pending => \A k \in Key : Replay(file)[k] = records[k]
    BY <1>1, <2>3, ApplyEmpty
  <2> QED BY <1>t, <2>1, <2>3, <2>4, <2>5
<1>2. CASE p # <<>>
  <2>1. Len(p) > 0
    BY <1>2, <1>p, SMTT(60) DEF Log
  <2>2. Whole(file)
    <3> SUFFICES ASSUME NEW i \in 1 .. Len(file), file[i] = Torn PROVE FALSE
      BY DEF Whole
    <3>1. Len(file') = Len(file) + Len(p) /\ file'[i] = file[i]
      BY <1>t, <1>p, SMTT(60) DEF Log
    <3>2. i \in 1 .. Len(file') - 1
      BY <3>1, <2>1, <1>t, <1>p, SMTT(60)
    <3> QED BY <3>1, <3>2 DEF Buried
  <2>3. ~Buried
    BY <2>2, <1>t, SMTT(60) DEF Buried, Whole
  <2>4. \A k \in Key : Apply(Replay(file), pending)[k] = records[k]
    BY <2>3 DEF DbInv, InSync
  <2>5. \A k \in Key : Replay(file')[k] = Apply(Replay(file), p)[k]
    BY <2>2, <1>t, <1>p, ApplyConcat, SMTT(60) DEF Replay
  <2>6. \A k \in Key : Replay(file')[k] \in May[k]
    <3> TAKE k \in Key
    <3> DEFINE d == Replay(file)
    <3> HIDE DEF d
    <3>1. \/ Apply(d, p)[k] = d[k]
          \/ \E i \in 1 .. Len(pending) : pending[i].key = k /\ Apply(d, p)[k] = pending[i].val
      BY <1>t, PartValue, SMTT(60)
    <3> QED BY <3>1, <2>5 DEF May, d
  <2>7. file' \in Log
    BY <1>t, <1>p, SMTT(60) DEF Log
  <2>8. Replay(file') = Apply(Replay(file), p)
    <3>1. Replay(file') \in Content /\ Apply(Replay(file), p) \in Content
      BY <2>7, <1>t, <1>p, ReplayType, ApplyType
    <3> QED BY <3>1, <2>5, ContentEqual
  <2>9. \A k \in Key : Apply(Replay(file'), pending)[k] = records[k]
    BY <2>8, <2>4, <1>t, PartAgain
  <2>10. p = pending => \A k \in Key : Replay(file')[k] = records[k]
    BY <2>4, <2>5
  <2> QED BY <2>6, <2>7, <2>9, <2>10
<1> QED BY <1>1, <1>2

\* What every step is to Store.
StoreStep == Buried' \/ Mirror!Next

\* The values a restart may find for a key are values.
LEMMA MayType ==
    ASSUME NEW f \in Log, NEW p \in Seq(Record)
    PROVE  [k \in Key |-> {Replay(f)[k]}
                 \cup {p[i].val : i \in {j \in 1 .. Len(p) : p[j].key = k}}]
              \in [Key -> SUBSET (Val \cup {None})]
<1>1. \A k \in Key : Replay(f)[k] \in Val \cup {None}
  BY ReplayType DEF Content
<1>2. \A i \in 1 .. Len(p) : p[i] \in Record
  BY SMTT(60)
<1>3. \A i \in 1 .. Len(p) : p[i].val \in Val \cup {None}
  BY <1>2 DEF Record
<1> QED BY <1>1, <1>3

\* The cache is among the values a restart may find.
LEMMA CacheInMay ==
    ASSUME DbInv, up, ~Buried, NEW k \in Key
    PROVE  records[k] \in May[k]
<1>1. pending \in Log /\ Whole(pending)
  BY BufferWhole DEF DbInv, TypeOK
<1> DEFINE d == Replay(file)
<1>2. Apply(d, pending)[k] = records[k]
  BY DEF DbInv, InSync
<1> HIDE DEF d
<1>3. \/ Apply(d, pending)[k] = d[k]
      \/ \E i \in 1 .. Len(pending) : pending[i].key = k /\ Apply(d, pending)[k] = pending[i].val
  BY <1>1, ApplyValue, SMTT(60)
<1> QED BY <1>2, <1>3 DEF May, d

\* Steps that change neither the file nor the cache nor pending.
LEMMA IdleStep ==
    ASSUME DbInv, up, UNCHANGED <<file, up, records, pending>>, TypeOK'
    PROVE  DbInv' /\ StoreStep
<1>1. DbInv'
  BY DEF DbInv, InSync, Buried, Replay
<1>2. CASE Buried'
  BY <1>1, <1>2 DEF StoreStep
<1>3. CASE ~Buried'
  <2>1. ~Buried
    BY <1>3 DEF Buried
  <2>2. UNCHANGED <<Replay(file), May>>
    BY DEF May, Replay
  <2>3. \A k \in Key : records[k] \in May[k] /\ Replay(file)[k] \in May[k]
    BY <2>1, CacheInMay DEF May
  <2>4. Replay(file) \in Content
    BY ReplayType DEF DbInv, TypeOK, Log
  <2>5. May \in [Key -> SUBSET (Val \cup {None})]
    BY MayType DEF DbInv, TypeOK, Log, May
  <2>6. Mirror!Leak
    BY <2>2, <2>3, <2>4, <2>5 DEF Mirror!Leak, Mirror!Content, Content
  <2> QED BY <1>1, <2>6 DEF StoreStep, Mirror!Next
<1> QED BY <1>2, <1>3

\* A successful compaction: the file is the cache again, even if records had
\* been buried in the old one.
LEMMA CompactStep ==
    ASSUME DbInv, up, Compact, UNCHANGED <<up, records>>, version' \in Version
    PROVE  DbInv' /\ StoreStep
<1>1. records \in Content
  BY DEF DbInv, TypeOK, Content
<1>2. file' \in Log /\ Whole(file') /\ Size(records) \in Nat /\ Replay(file') = records
  BY <1>1, ListingReplay DEF Compact
<1>3. TypeOK'
  <2>1. <<>> \in Seq(Record)
    BY SMTT(60)
  <2> QED BY <1>2, <2>1 DEF DbInv, TypeOK, Compact, Log
<1>4. \A k \in Key : Apply(Replay(file'), pending')[k] = records'[k]
  BY <1>2, ApplyEmpty DEF Compact
<1>5. DbInv'
  BY <1>3, <1>4 DEF DbInv, InSync
<1>6. Replay(file)' = records /\ May' = [k \in Key |-> {records[k]}]
  BY <1>2, SMTT(60) DEF Compact, May, Replay
<1>7. Mirror!Sync
  BY <1>6 DEF Mirror!Sync
<1> QED BY <1>5, <1>7 DEF StoreStep, Mirror!Next

\* Flush, also as the body of BumpVersion.
LEMMA FlushStep ==
    ASSUME DbInv, up, FlushBody, UNCHANGED <<up, records, version>>
    PROVE  DbInv' /\ StoreStep
<1>t. file \in Log /\ pending \in Seq(Record) /\ version \in Version
  BY DEF DbInv, TypeOK, Log
<1>1. CASE FlushAppends
  <2>1. file' = file \o pending /\ pending' = <<>>
    BY <1>1 DEF FlushAppends
  <2>2. TypeOK'
    BY <1>1, <1>t, BufferWhole, SMTT(60) DEF FlushAppends, DbInv, TypeOK, Log
  <2>3. CASE Buried'
    BY <2>2, <2>3 DEF DbInv, InSync, StoreStep
  <2>4. CASE ~Buried'
    <3>1. \A k \in Key : Replay(file')[k] = records[k]
      BY <2>1, <2>4, AppendPart
    <3>2. Replay(file') = records
      <4>1. Replay(file') \in Content /\ records \in Content
        BY <2>2, ReplayType DEF TypeOK, Log, DbInv, Content
      <4> QED BY <3>1, <4>1, ContentEqual
    <3>3. \A k \in Key : Apply(Replay(file'), pending')[k] = records'[k]
      BY <2>1, <3>2, ApplyEmpty
    <3>4. Replay(file)' = records /\ May' = [k \in Key |-> {records[k]}]
      BY <2>1, <3>2, SMTT(60) DEF May, Replay
    <3>5. Mirror!Sync
      BY <3>4 DEF Mirror!Sync
    <3> QED BY <2>2, <3>3, <3>5 DEF DbInv, InSync, StoreStep, Mirror!Next
  <2> QED BY <2>3, <2>4
<1>2. CASE FlushFails
  <2>1. PICK p \in Cut(pending) : file' = file \o p
    BY <1>2 DEF FlushFails
  <2>2. pending' = pending /\ UNCHANGED <<fileVersion, uncompacted>> /\ retried' \in BOOLEAN
    BY <1>2 DEF FlushFails
  <2>3. p \in Log
    BY <1>t, CutLog
  <2>4. TypeOK'
    BY <2>1, <2>2, <2>3, SMTT(60) DEF DbInv, TypeOK, Log
  <2>5. CASE Buried'
    BY <2>4, <2>5 DEF DbInv, InSync, StoreStep
  <2>6. CASE ~Buried'
    <3>1. \A k \in Key : Replay(file')[k] \in May[k] /\ Apply(Replay(file'), pending)[k] = records[k]
      BY <2>1, <2>6, AppendPart
    <3>2. DbInv'
      BY <2>2, <2>4, <3>1 DEF DbInv, InSync
    <3>3. \A k \in Key : records[k] \in May'[k]
      <4> TAKE k \in Key
      <4> DEFINE d == Replay(file')
      <4>1. Apply(d, pending)[k] = records[k]
        BY <3>1
      <4>2. pending \in Log
        BY <1>t, BufferWhole
      <4> HIDE DEF d
      <4>3. \/ Apply(d, pending)[k] = d[k]
            \/ \E i \in 1 .. Len(pending) : pending[i].key = k /\ Apply(d, pending)[k] = pending[i].val
        BY <4>2, ApplyValue, SMTT(60)
      <4> QED BY <4>1, <4>3, <2>2 DEF May, d
    <3>4. \A k \in Key : Replay(file')[k] \in May'[k] /\ May'[k] \subseteq May[k]
      BY <3>1, <2>2, SMTT(60) DEF May
    <3>5. Replay(file') \in Content
      BY <2>4, ReplayType DEF TypeOK, Log
    <3>6. May' \in [Key -> SUBSET (Val \cup {None})]
      BY <2>4, MayType DEF TypeOK, Log, May
    <3>7. Mirror!Leak
      BY <3>3, <3>4, <3>5, <3>6 DEF Mirror!Leak, Mirror!Content, Content
    <3> QED BY <3>2, <3>7 DEF StoreStep, Mirror!Next
  <2> QED BY <2>5, <2>6
<1>3. CASE FlushCompacts
  <2>1. CASE Compact
    BY <2>1, <1>t, CompactStep
  <2>2. CASE CompactFails
    <3>1. TypeOK'
      BY <2>2 DEF CompactFails, diskVars, DbInv, TypeOK
    <3> QED BY <2>2, <3>1, IdleStep DEF CompactFails, diskVars
  <2> QED BY <1>3, <2>1, <2>2 DEF FlushCompacts
<1> QED BY <1>1, <1>2, <1>3 DEF FlushBody

\* One more record decides for its key and for no other.
LEMMA ApplyAppend ==
    ASSUME NEW buf \in Seq(Record), NEW r \in Record, NEW m, NEW l \in Key
    PROVE  Apply(m, Append(buf, r))[l] = IF l = r.key THEN r.val ELSE Apply(m, buf)[l]
<1> DEFINE one == <<r>>
<1>1. one \in Seq(Record) /\ Len(one) = 1 /\ one[1] = r /\ Append(buf, r) = buf \o one
  BY SMTT(60)
<1> HIDE DEF one
<1>2. buf \in Log /\ Whole(buf) /\ one \in Log /\ Whole(one)
  BY <1>1, BufferWhole
<1>3. Apply(m, Append(buf, r))[l] = Apply(Apply(m, buf), one)[l]
  BY <1>1, <1>2, ApplyConcat, SMTT(60)
<1>4. CASE l = r.key
  <2>1. 1 \in 1 .. Len(one) /\ Intact(one, 1) /\ \A j \in 1 .. Len(one) : ~(j > 1)
    BY <1>1, <1>2, WholeIntact, SMTT(60)
  <2>2. IsLast(one, 1, l)
    BY <2>1, <1>1, <1>4 DEF IsLast
  <2>3. Apply(Apply(m, buf), one)[l] = one[1].val
    BY <2>1, <2>2, <1>2, ApplyLast, SMTT(60)
  <2> QED BY <1>1, <1>3, <1>4, <2>3
<1>5. CASE l # r.key
  <2>1. \A i \in 1 .. Len(one) : one[i].key # l
    BY <1>1, <1>5, SMTT(60)
  <2>2. Apply(Apply(m, buf), one)[l] = Apply(m, buf)[l]
    BY <2>1, <1>2, ApplyKeeps
  <2> QED BY <1>3, <1>5, <2>2
<1> QED BY <1>4, <1>5

\* Save and Delete: one record is added to the cache and to pending.
LEMMA PutStep ==
    ASSUME DbInv, up, NEW k \in Key, NEW v \in Val \cup {None},
           records' = [records EXCEPT ![k] = v],
           pending' = Append(pending, [key |-> k, val |-> v]),
           uncompacted' = uncompacted + 1,
           UNCHANGED <<diskVars, up, version, retried>>
    PROVE  DbInv' /\ StoreStep
<1> DEFINE r == [key |-> k, val |-> v]
<1>t. /\ file \in Log /\ pending \in Seq(Record) /\ Len(pending) \in Nat
      /\ r \in Record /\ records \in Content
      /\ file' = file
  BY SMTT(60) DEF DbInv, TypeOK, Log, Record, Content, diskVars
<1>a. /\ pending' \in Seq(Record) /\ Len(pending') = Len(pending) + 1
      /\ \A i \in 1 .. Len(pending) : pending'[i] = pending[i]
      /\ pending'[Len(pending) + 1] = r
  BY <1>t, SMTT(60)
<1>1. TypeOK'
  BY <1>a, <1>t, SMTT(60) DEF DbInv, TypeOK, diskVars
<1>2. \A m : \A l \in Key : Apply(m, pending')[l] = IF l = k THEN v ELSE Apply(m, pending)[l]
  BY <1>t, ApplyAppend, SMTT(60)
<1>3. InSync'
  <2> SUFFICES ASSUME up', ~Buried', NEW l \in Key
               PROVE  Apply(Replay(file'), pending')[l] = records'[l]
    BY DEF InSync
  <2>1. ~Buried
    BY <1>t DEF Buried
  <2>2. Apply(Replay(file), pending)[l] = records[l]
    BY <2>1 DEF DbInv, InSync
  <2>3. Apply(Replay(file), pending')[l] = IF l = k THEN v ELSE Apply(Replay(file), pending)[l]
    BY <1>2
  <2> QED BY <1>t, <2>2, <2>3 DEF Content
<1>4. Mirror!Put(k, v)
  <2>1. ASSUME NEW l \in Key
        PROVE  {pending'[i].val : i \in {j \in 1 .. Len(pending') : pending'[j].key = l}}
                 = {pending[i].val : i \in {j \in 1 .. Len(pending) : pending[j].key = l}}
                     \cup (IF l = k THEN {v} ELSE {})
    <3>1. \A j \in 1 .. Len(pending') : j \in 1 .. Len(pending) \/ j = Len(pending) + 1
      BY <1>a, <1>t, SMTT(60)
    <3>2. \A j \in 1 .. Len(pending) : j \in 1 .. Len(pending')
      BY <1>a, <1>t, SMTT(60)
    <3>3. Len(pending) + 1 \in 1 .. Len(pending')
      BY <1>a, <1>t, SMTT(60)
    <3> QED BY <3>1, <3>2, <3>3, <1>a, SMTT(60)
  <2>2. Replay(file)' = Replay(file)
    BY <1>t DEF Replay
  <2>3. \A l \in Key : May'[l] = IF l = k THEN May[l] \cup {v} ELSE May[l]
    BY <2>1, <2>2 DEF May
  <2>4. May' = [May EXCEPT ![k] = @ \cup {v}]
    <3>1. May' = [l \in Key |-> May'[l]] /\ May = [l \in Key |-> May[l]]
      BY DEF May
    <3> QED BY <2>3, <3>1
  <2> QED BY <2>2, <2>4 DEF Mirror!Put
<1> QED BY <1>1, <1>3, <1>4 DEF DbInv, StoreStep, Mirror!Next

\* Open keeps the invariant and is a step of Store.
LEMMA OpenStep ==
    ASSUME DbInv, Open
    PROVE  DbInv' /\ StoreStep
<1>t. file \in Log
  BY DEF DbInv, TypeOK, Log
<1>1. Replay(file) \in Content /\ ReadCount(file) \in Nat
  BY <1>t, ReplayType, ReadCountType
<1>2. records' = Replay(file) /\ pending' = <<>> /\ up' = TRUE
  BY DEF Open
<1>3. file' \in Log /\ uncompacted' \in Nat /\ Replay(file') = Replay(file)
  <2>1. CASE file' \in Listings(records') /\ uncompacted' = Size(records')
    BY <2>1, <1>1, <1>2, ListingReplay
  <2>2. CASE file' = file /\ uncompacted' = ReadCount(file)
    BY <2>2, <1>1, <1>t
  <2> QED BY <2>1, <2>2 DEF Open
<1>4. TypeOK'
  <2>1. <<>> \in Seq(Record)
    BY SMTT(60)
  <2> QED BY <1>1, <1>2, <1>3, <2>1 DEF Open, DbInv, TypeOK, Log, Content
<1>5. \A k \in Key : Apply(Replay(file'), pending')[k] = records'[k]
  BY <1>2, <1>3, ApplyEmpty
<1>6. DbInv'
  BY <1>4, <1>5 DEF DbInv, InSync
<1>7. Replay(file)' = Replay(file) /\ May' = [k \in Key |-> {Replay(file)[k]}]
  BY <1>2, <1>3, SMTT(60) DEF May, Replay
<1>8. Mirror!Recover
  BY <1>2, <1>7 DEF Open, Mirror!Recover
<1> QED BY <1>6, <1>8 DEF StoreStep, Mirror!Next

\* A kill at any byte of a write keeps the invariant and is a step of Store.
LEMMA CrashStep ==
    ASSUME DbInv, Crash
    PROVE  DbInv' /\ StoreStep
<1>t. file \in Log /\ pending \in Seq(Record)
  BY DEF DbInv, TypeOK, Log
<1>1. file' = file \/ \E p \in Cut(pending) \cup {pending} : file' = file \o p
  BY DEF Crash
<1>2. file' \in Log
  <2>1. \A p \in Cut(pending) \cup {pending} : p \in Log
    BY <1>t, CutLog
  <2>2. \A p \in Log : file \o p \in Log
    BY <1>t, SMTT(60) DEF Log
  <2> QED BY <1>1, <1>t, <2>1, <2>2
<1>3. TypeOK'
  <2>1. <<>> \in Seq(Record) /\ Empty \in [Key -> Val \cup {None}]
    BY SMTT(60) DEF Empty
  <2> QED BY <1>2, <2>1 DEF Crash, DbInv, TypeOK, Log
<1>4. DbInv'
  BY <1>3 DEF DbInv, InSync, Crash
<1>5. CASE Buried'
  BY <1>4, <1>5 DEF StoreStep
<1>6. CASE ~Buried'
  <2>1. \A k \in Key : Replay(file')[k] \in May[k]
    <3>1. CASE file' = file
      BY <3>1 DEF May
    <3>2. CASE \E p \in Cut(pending) \cup {pending} : file' = file \o p
      BY <3>2, <1>6, AppendPart DEF Crash
    <3> QED BY <1>1, <3>1, <3>2
  <2>2. Replay(file') \in Content
    BY <1>2, ReplayType
  <2>3. \A k \in Key : May'[k] = {Replay(file')[k]}
    BY SMTT(60) DEF Crash, May
  <2>4. May' \in [Key -> SUBSET (Val \cup {None})]
    BY <1>3, MayType DEF TypeOK, Log, May
  <2>5. Mirror!Leak
    BY <2>1, <2>2, <2>3, <2>4 DEF Mirror!Leak, Mirror!Content, Content, Crash
  <2> QED BY <1>4, <2>5 DEF StoreStep, Mirror!Next
<1> QED BY <1>5, <1>6

\* A new database has the invariant.
LEMMA InitInv == Init => DbInv
<1> SUFFICES ASSUME Init PROVE DbInv
  OBVIOUS
<1>1. <<>> \in Seq(Record) /\ <<>> \in Seq(Record \cup {Torn}) /\ Empty \in [Key -> Val \cup {None}]
  BY SMTT(60) DEF Empty
<1>2. (CHOOSE v \in Version : TRUE) \in Version
  BY VersionAssumption
<1> QED BY <1>1, <1>2 DEF Init, DbInv, TypeOK, InSync

\* Every call keeps the invariant and is a step of Store or none.
LEMMA NextInv == DbInv /\ [Next]_vars => DbInv' /\ (StoreStep \/ UNCHANGED vars)
<1> SUFFICES ASSUME DbInv, [Next]_vars PROVE DbInv' /\ (StoreStep \/ UNCHANGED vars)
  OBVIOUS
<1>1. CASE Open
  BY <1>1, OpenStep
<1>2. ASSUME NEW k \in Key, NEW v \in Val, Save(k, v) PROVE DbInv' /\ StoreStep
  BY <1>2, PutStep DEF Save
<1>3. ASSUME NEW k \in Key, Delete(k) PROVE DbInv' /\ StoreStep
  BY <1>3, PutStep DEF Delete
<1>4. CASE Flush
  BY <1>4, FlushStep DEF Flush
<1>5. ASSUME NEW v \in Version, BumpVersion(v) PROVE DbInv' /\ StoreStep
  <2>1. up /\ version' = v /\ UNCHANGED <<up, records>>
    BY <1>5 DEF BumpVersion
  <2>2. CASE version = v /\ FlushBody
    BY <2>1, <2>2, FlushStep
  <2>3. CASE Compact
    BY <2>1, <2>3, CompactStep
  <2>4. CASE CompactFails
    <3>1. TypeOK'
      BY <2>1, <2>4 DEF CompactFails, diskVars, DbInv, TypeOK
    <3> QED BY <2>1, <2>4, <3>1, IdleStep DEF CompactFails, diskVars
  <2> QED BY <1>5, <2>2, <2>3, <2>4 DEF BumpVersion
<1>6. CASE Crash
  BY <1>6, CrashStep
<1>7. CASE UNCHANGED vars
  BY <1>7 DEF vars, DbInv, TypeOK, InSync, Buried, Replay
<1> QED BY <1>1, <1>2, <1>3, <1>4, <1>5, <1>6, <1>7 DEF Next

\* Save, Delete, Flush, BumpVersion, Open and a crash at any point keep the
\* types of the cache, of pending and of the file.
THEOREM DbTypes == Spec => []TypeOK
<1>1. DbInv => TypeOK
  BY DEF DbInv
<1> QED BY <1>1, InitInv, NextInv, PTL DEF Spec

\* The database of pkg/db implements Store: a restart finds for every key the
\* value of the last successful Flush or one given since, as long as nothing is
\* appended behind a torn record.
THEOREM DbImplementsStore == Spec => Mirror!Init /\ MirrorsMemory
<1>1. Init => Mirror!Init
  <2> SUFFICES ASSUME Init PROVE Mirror!Init
    OBVIOUS
  <2>1. Replay(<<>>) = Empty
    <3>1. <<>> \in Log
      BY SMTT(60) DEF Log
    <3>2. Replay(<<>>) \in Content /\ Empty \in Content
      BY <3>1, ReplayType DEF Empty, Content
    <3> QED BY <3>2, ApplyEmpty, ContentEqual DEF Replay
  <2>2. May = [k \in Key |-> {None}]
    BY <2>1, SMTT(60) DEF Init, May, Empty
  <2> QED BY <2>1, <2>2 DEF Init, Mirror!Init, Empty
<1>2. DbInv /\ [Next]_vars => [Buried' \/ Mirror!Next]_vars
  BY NextInv DEF StoreStep
<1> QED BY <1>1, <1>2, InitInv, NextInv, PTL DEF Spec, MirrorsMemory

-----------------------------------------------------------------------------
(* The length of the file *)

\* db.uncompacted counts the records of the file and of pending, as long as no
\* Flush failed half way and no record is torn.
Counted == up /\ ~retried /\ Whole(file) => uncompacted = Len(file) + Len(pending)

\* A product does not get smaller with its factor.
LEMMA Monotone == ASSUME NEW a \in Nat, NEW b \in Nat, NEW c \in Nat, b <= c PROVE a * b <= a * c
<1>1. PICK d \in Nat : c = b + d
  <2>1. c - b \in Nat /\ c = b + (c - b)
    BY SMTT(60)
  <2> QED BY <2>1
<1>2. a * c = a * b + a * d
  BY <1>1, SMTT(60)
<1>3. a * d \in Nat /\ a * b \in Nat /\ a * c \in Nat
  BY SMTT(60)
<1> DEFINE x == a * b
           y == a * d
           z == a * c
<1>4. x \in Nat /\ y \in Nat /\ z = x + y
  BY <1>2, <1>3
<1> HIDE DEF x, y, z
<1>5. x <= z
  BY <1>4, SMTT(60)
<1> QED BY <1>5 DEF x, z

\* A file as long as the number of live records is not worth compacting: 9/10 of
\* it is no more than that.
LEMMA FreshFile == ASSUME NEW m \in Content PROVE ~MostlyGarbage(Size(m), m)
<1> DEFINE s == Size(m)
           u == s \div Div
<1>1. s \in Nat /\ Div \in Nat /\ Div > 0 /\ Mul \in Nat /\ Mul <= Div
  BY SizeType, BoundAssumption, SMTT(60)
<1> HIDE DEF s
<1>2. u \in Nat /\ u * Div <= s
  BY <1>1, SMTT(60)
<1> HIDE DEF u
<1>3. u * Mul <= u * Div
  BY <1>1, <1>2, Monotone
<1>4. u * Mul \in Nat /\ u * Div \in Nat
  BY <1>1, <1>2, SMTT(60)
<1> DEFINE x == u * Mul
           y == u * Div
<1>5. x \in Nat /\ y \in Nat /\ x <= y /\ y <= s
  BY <1>2, <1>3, <1>4
<1> HIDE DEF x, y
<1>6. ~(x > s)
  BY <1>1, <1>5, SMTT(60)
<1> QED BY <1>6 DEF MostlyGarbage, x, u, s

\* Open counts all records of a file without torn ones.
LEMMA ReadAll == ASSUME NEW f \in Log, Whole(f) PROVE ReadCount(f) = Len(f)
<1>1. Len(f) \in Nat
  BY SMTT(60) DEF Log
<1>2. {i \in 1 .. Len(f) : Intact(f, i)} = 1 .. Len(f)
  BY WholeIntact
<1> DEFINE n == Len(f)
<1>3. Cardinality(1 .. n) = n
  <2>1. n \in Int /\ 1 \in Int
    BY <1>1, SMTT(60)
  <2>2. Cardinality(1 .. n) = IF 1 > n THEN 0 ELSE n - 1 + 1
    BY <2>1, FS_Interval
  <2> HIDE DEF n
  <2>3. n \in Nat
    BY <1>1 DEF n
  <2> QED BY <2>2, <2>3, SMTT(60)
<1> QED BY <1>2, <1>3 DEF ReadCount

\* A listing has one record for each live key.
LEMMA ListingLength == ASSUME NEW m \in Content, NEW f \in Listings(m) PROVE Len(f) = Size(m)
<1>1. Size(m) \in Nat /\ DOMAIN f = 1 .. Size(m) /\ f \in Log
  BY SizeType, ListingReplay DEF Listings
<1> QED BY <1>1, SMTT(60) DEF Log

\* compact leaves a file of the live records only, and counts them.
LEMMA CompactBounds ==
    ASSUME TypeOK, Compact, records' = records
    PROVE  Counted' /\ FileBounded'
<1>1. records \in Content /\ file' \in Listings(records)
  BY DEF TypeOK, Content, Compact
<1>2. Len(file') = Size(records) /\ Size(records) \in Nat
  BY <1>1, ListingLength, SizeType
<1>3. Counted'
  <2>1. pending' = <<>> /\ uncompacted' = Size(records)
    BY DEF Compact
  <2>2. Len(pending') = 0
    BY <2>1, SMTT(60)
  <2>3. Size(records) = Size(records) + 0
    BY <1>2, SMTT(60)
  <2> QED BY <1>2, <2>1, <2>2, <2>3 DEF Counted
<1>4. ~MostlyGarbage(Len(file'), records')
  BY <1>1, <1>2, FreshFile
<1> QED BY <1>3, <1>4 DEF FileBounded

\* A Flush that writes nothing of pending leaves the count right; one that writes
\* all of it has found the count too small for a compaction.
LEMMA FlushBounds ==
    ASSUME TypeOK, Counted, FileBounded, FlushBody, UNCHANGED <<up, records>>
    PROVE  Counted' /\ FileBounded'
<1>t. file \in Log /\ pending \in Seq(Record) /\ Len(file) \in Nat /\ Len(pending) \in Nat
  BY SMTT(60) DEF TypeOK, Log
<1>1. CASE FlushAppends
  <2>1. /\ file' = file \o pending /\ pending' = <<>> /\ uncompacted' = uncompacted
        /\ retried' = retried /\ ~MostlyGarbage(uncompacted, records)
    BY <1>1 DEF FlushAppends
  <2>2. Len(file') = Len(file) + Len(pending) /\ Len(pending') = 0
    BY <1>t, <2>1, SMTT(60) DEF Log
  <2>3. Whole(file') => Whole(file)
    <3>1. \A i \in 1 .. Len(file) : i \in 1 .. Len(file') /\ file'[i] = file[i]
      BY <1>t, <2>1, <2>2, SMTT(60) DEF Log
    <3> QED BY <3>1 DEF Whole
  <2>4. Counted'
    <3>1. uncompacted = Len(file) + Len(pending) => uncompacted = Len(file) + Len(pending) + 0
      BY <1>t, SMTT(60)
    <3> QED BY <2>1, <2>2, <2>3, <3>1 DEF Counted
  <2>5. FileBounded'
    <3>1. up /\ ~retried /\ Whole(file') => Len(file') = uncompacted
      BY <2>2, <2>3 DEF Counted
    <3> QED BY <2>1, <3>1 DEF FileBounded, Whole
  <2> QED BY <2>4, <2>5
<1>2. CASE FlushFails
  <2>1. UNCHANGED <<uncompacted, pending>> /\ retried' = (retried \/ file' # file)
    BY <1>2 DEF FlushFails
  <2>2. pending # <<>>
    <3>1. PICK part \in Cut(pending) : file' = file \o part
      BY <1>2 DEF FlushFails
    <3>2. PICK n \in 0 .. Len(pending) - 1 : TRUE
      BY <3>1 DEF Cut
    <3>3. Len(pending) > 0
      BY <1>t, <3>2, SMTT(60)
    <3> QED BY <3>3, SMTT(60)
  <2>3. Counted'
    BY <2>1 DEF Counted
  <2>4. FileBounded'
    BY <2>1, <2>2 DEF FileBounded
  <2> QED BY <2>3, <2>4
<1>3. CASE Compact
  BY <1>3, CompactBounds
<1>4. CASE CompactFails
  BY <1>4 DEF CompactFails, diskVars, Counted, FileBounded
<1> QED BY <1>1, <1>2, <1>3, <1>4 DEF FlushBody, FlushCompacts

\* Open counts what it reads and compacts if that is too much.
LEMMA OpenBounds == ASSUME TypeOK, Open PROVE Counted' /\ FileBounded'
<1>1. file \in Log /\ Len(file) \in Nat
  BY SMTT(60) DEF TypeOK, Log
<1>2. records' \in Content
  BY <1>1, ReplayType DEF Open
<1>3. pending' = <<>> /\ Len(pending') = 0
  BY SMTT(60) DEF Open
<1>4. CASE file' \in Listings(records') /\ uncompacted' = Size(records')
  <2>1. Len(file') = Size(records') /\ Size(records') \in Nat
    BY <1>2, <1>4, ListingLength, SizeType
  <2>2. Size(records') = Size(records') + 0
    BY <2>1, SMTT(60)
  <2>3. ~MostlyGarbage(Len(file'), records')
    BY <1>2, <2>1, FreshFile
  <2> QED BY <1>3, <1>4, <2>1, <2>2, <2>3 DEF Counted, FileBounded
<1>5. CASE /\ file' = file /\ uncompacted' = ReadCount(file)
           /\ ~MostlyGarbage(ReadCount(file), records')
  <2>1. Whole(file) => ReadCount(file) = Len(file)
    BY <1>1, ReadAll
  <2>2. Len(file) = Len(file) + 0
    BY <1>1, SMTT(60)
  <2> QED BY <1>3, <1>5, <2>1, <2>2 DEF Counted, FileBounded, Whole
<1> QED BY <1>4, <1>5 DEF Open

\* The file stays proportional to the live records: Flush never leaves a file
\* without torn or rewritten records that it, or the next Open, would compact.
THEOREM FileStaysBounded == Spec => []FileBounded
<1>1. Init => Counted /\ FileBounded
  BY DEF Init, Counted, FileBounded
<1>2. ASSUME DbInv, Counted, FileBounded, [Next]_vars PROVE Counted' /\ FileBounded'
  <2>0. TypeOK
    BY <1>2 DEF DbInv
  <2>1. CASE Open
    BY <2>0, <2>1, OpenBounds
  <2>2. ASSUME NEW r \in Record, pending' = Append(pending, r), uncompacted' = uncompacted + 1,
               UNCHANGED <<file, up, retried>>
        PROVE  Counted' /\ FileBounded'
    <3>1. Len(pending') = Len(pending) + 1 /\ Len(pending) \in Nat /\ Len(file) \in Nat
      BY <2>0, <2>2, SMTT(60) DEF TypeOK
    <3>2. pending' # <<>>
      BY <3>1, SMTT(60)
    <3>3. uncompacted = Len(file) + Len(pending) => uncompacted + 1 = Len(file) + (Len(pending) + 1)
      BY <3>1, SMTT(60)
    <3> QED BY <1>2, <2>2, <3>1, <3>2, <3>3 DEF Counted, FileBounded
  <2>3. ASSUME NEW k \in Key, NEW v \in Val, Save(k, v) PROVE Counted' /\ FileBounded'
    <3>1. [key |-> k, val |-> v] \in Record
      BY DEF Record
    <3> QED BY <2>2, <2>3, <3>1 DEF Save, diskVars
  <2>4. ASSUME NEW k \in Key, Delete(k) PROVE Counted' /\ FileBounded'
    <3>1. [key |-> k, val |-> None] \in Record
      BY DEF Record
    <3> QED BY <2>2, <2>4, <3>1 DEF Delete, diskVars
  <2>5. CASE Flush
    BY <1>2, <2>0, <2>5, FlushBounds DEF Flush
  <2>6. ASSUME NEW v \in Version, BumpVersion(v) PROVE Counted' /\ FileBounded'
    <3>1. UNCHANGED <<up, records>>
      BY <2>6 DEF BumpVersion
    <3>2. CASE FlushBody
      BY <1>2, <2>0, <3>1, <3>2, FlushBounds
    <3>3. CASE Compact
      BY <2>0, <3>1, <3>3, CompactBounds
    <3>4. CASE CompactFails
      BY <1>2, <3>1, <3>4 DEF CompactFails, diskVars, Counted, FileBounded
    <3> QED BY <2>6, <3>2, <3>3, <3>4 DEF BumpVersion
  <2>7. CASE Crash
    BY <2>7 DEF Crash, Counted, FileBounded
  <2>8. CASE UNCHANGED vars
    BY <1>2, <2>8 DEF vars, Counted, FileBounded
  <2> QED BY <1>2, <2>1, <2>3, <2>4, <2>5, <2>6, <2>7, <2>8 DEF Next
<1> QED BY <1>1, <1>2, InitInv, NextInv, PTL DEF Spec
=============================================================================
