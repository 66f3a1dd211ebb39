---------------------------------- MODULE Db ----------------------------------
(***************************************************************************)
(* pkg/db/db.go: the key-value database of syz-manager and syz-hub.  Save  *)
(* and Delete change the cached Records and serialise a record into        *)
(* pending; Flush appends pending to the file, or rewrites the file when   *)
(* most of its records are superseded; Open replays the file.              *)
(*                                                                         *)
(* The file is the sequence of its records; Torn stands for a record that  *)
(* was cut off.  deserializeDB stops there: what is behind it is read as   *)
(* its continuation and fails the magic test (at worst one record with a   *)
(* key no caller uses is made of the bytes around the cut).  A write can   *)
(* fail (disk full), or the process can be killed during it, after any     *)
(* number of bytes.  Loss of writes that returned (a power failure) is not *)
(* modelled.  The file always has a header: Open compacts an empty one and *)
(* compact replaces the file by a rename within its directory.             *)
(***************************************************************************)
EXTENDS Integers, Sequences, FiniteSets

CONSTANTS
    Key,
    Val,       \* the pairs (Val, Seq) of a Record
    Version,   \* user versions
    None,      \* no record; as the value of a record in the file: seqDeleted
    Torn,      \* a record that was cut off
    Div, Mul,  \* 10 and 9 of uncompacted/10*9
    MaxWrites  \* bound: records in the file and pending

ASSUME KeyAssumption == IsFiniteSet(Key)
ASSUME NoneAssumption == None \notin Val
ASSUME BoundAssumption == Div \in Nat \ {0} /\ Mul \in 0 .. Div /\ MaxWrites \in Nat
ASSUME VersionAssumption == Version # {}
ASSUME TornAssumption == Torn \notin [key : Key, val : Val \cup {None}]

VARIABLES
    file,         \* the records of the file
    fileVersion,  \* the version in its header
    up,           \* the process that opened the database runs
    records,      \* db.Records: [Key -> Val \cup {None}]
    pending,      \* db.pending: the records of the buffer (<<>>: nil)
    uncompacted,  \* db.uncompacted
    version,      \* db.Version
    retried       \* history: since the last Open or compact, a failed Flush
                  \* left records in the file that the next one writes again

diskVars == <<file, fileVersion>>
vars == <<file, fileVersion, up, records, pending, uncompacted, version, retried>>

Record == [key : Key, val : Val \cup {None}]
Empty == [k \in Key |-> None]

\* deserializeDB reaches record i of log s: nothing up to it is torn.
Intact(s, i) == \A j \in 1 .. i : s[j] # Torn

\* Record i is the one of log s that counts for k.
IsLast(s, i, k) ==
    /\ Intact(s, i)
    /\ s[i].key = k
    /\ \A j \in 1 .. Len(s) : j > i /\ Intact(s, j) => s[j].key # k

\* The records m after those of log s have been applied in order.
Apply(m, s) ==
    [k \in Key |-> IF \E i \in 1 .. Len(s) : IsLast(s, i, k)
                   THEN s[CHOOSE i \in 1 .. Len(s) : IsLast(s, i, k)].val
                   ELSE m[k]]

\* The Records and the count deserializeDB returns for file f.
Replay(f) == Apply(Empty, f)
ReadCount(f) == Cardinality({i \in 1 .. Len(f) : Intact(f, i)})

Present(m) == {k \in Key : m[k] # None}
Size(m) == Cardinality(Present(m))

\* The files compact may write for m: map iteration order is unspecified.
Listings(m) ==
    {s \in [1 .. Size(m) -> {[key |-> k, val |-> m[k]] : k \in Present(m)}] :
        \A k \in Present(m) : \E i \in DOMAIN s : s[i].key = k}

\* The test of Open and Flush for a file that is worth rewriting.
MostlyGarbage(u, m) == (u \div Div) * Mul > Size(m)

-----------------------------------------------------------------------------
Init ==
    /\ file = <<>> /\ fileVersion = CHOOSE v \in Version : TRUE
    /\ up = FALSE
    /\ records = Empty /\ pending = <<>> /\ uncompacted = 0
    /\ version = fileVersion
    /\ retried = FALSE

\* compact: the cache becomes the file, under its name only when complete.
Compact ==
    /\ file' \in Listings(records)
    /\ fileVersion' = version'
    /\ uncompacted' = Size(records)
    /\ pending' = <<>>
    /\ retried' = FALSE

\* compact fails before or in the rename: the file is the old one.
CompactFails == UNCHANGED <<diskVars, uncompacted, pending, retried>>

\* What a write of buf that ends early leaves at the end of the file: whole
\* records, and possibly a part of the next one.
Cut(buf) ==
    {SubSeq(buf, 1, n) : n \in 0 .. Len(buf) - 1}
       \cup {Append(SubSeq(buf, 1, n), Torn) : n \in 0 .. Len(buf) - 1}

\* The three ways of Flush: it appends pending, fails to, or compacts.
FlushAppends ==
    /\ ~MostlyGarbage(uncompacted, records)
    /\ pending # <<>>
    /\ file' = file \o pending
    /\ pending' = <<>>
    /\ UNCHANGED <<fileVersion, uncompacted, retried>>

FlushFails ==
    /\ ~MostlyGarbage(uncompacted, records)
    /\ Len(file) + 2 * Len(pending) < MaxWrites
    /\ \E part \in Cut(pending) : file' = file \o part
    /\ retried' = (retried \/ file' # file)
    /\ UNCHANGED <<fileVersion, uncompacted, pending>>

FlushCompacts ==
    /\ MostlyGarbage(uncompacted, records)
    /\ Compact \/ CompactFails

FlushBody == FlushAppends \/ FlushFails \/ FlushCompacts

\* Faulty variant: Open takes the number of live records for the length of the
\* file.
Open_Recount ==
    /\ ~up /\ up' = TRUE
    /\ records' = Replay(file)
    /\ version' = fileVersion
    /\ UNCHANGED <<diskVars>>
    /\ pending' = <<>> /\ retried' = FALSE
    /\ uncompacted' = Size(records')

Open ==
    /\ ~up /\ up' = TRUE
    /\ records' = Replay(file)
    /\ version' = fileVersion
    /\ UNCHANGED fileVersion
    /\ pending' = <<>> /\ retried' = FALSE
    /\ IF Size(records') = 0 \/ MostlyGarbage(ReadCount(file), records')
       THEN file' \in Listings(records') /\ uncompacted' = Size(records')
       ELSE file' = file /\ uncompacted' = ReadCount(file)

Save(k, v) ==
    /\ up
    /\ Len(file) + Len(pending) < MaxWrites
    /\ records[k] # v
    /\ records' = [records EXCEPT ![k] = v]
    /\ pending' = Append(pending, [key |-> k, val |-> v])
    /\ uncompacted' = uncompacted + 1
    /\ UNCHANGED <<diskVars, up, version, retried>>

Delete(k) ==
    /\ up
    /\ Len(file) + Len(pending) < MaxWrites
    /\ records[k] # None
    /\ records' = [records EXCEPT ![k] = None]
    /\ pending' = Append(pending, [key |-> k, val |-> None])
    /\ uncompacted' = uncompacted + 1
    /\ UNCHANGED <<diskVars, up, version, retried>>

Flush ==
    /\ up
    /\ UNCHANGED <<up, records, version>>
    /\ FlushBody

BumpVersion(v) ==
    /\ up
    /\ version' = v
    /\ IF version = v THEN FlushBody ELSE Compact \/ CompactFails
    /\ UNCHANGED <<up, records>>

\* Faulty variant: compact writes over the file itself, and is cut off.
Crash_InPlace ==
    /\ up /\ up' = FALSE
    /\ file' = file \/ file' = <<>>
    /\ UNCHANGED fileVersion
    /\ records' = Empty /\ pending' = <<>> /\ uncompacted' = 0
    /\ version' = fileVersion /\ retried' = FALSE

\* The process is killed, possibly in the write of a Flush.
Crash ==
    /\ up /\ up' = FALSE
    /\ \/ file' = file
       \/ /\ ~MostlyGarbage(uncompacted, records)
          /\ \E part \in Cut(pending) \cup {pending} : file' = file \o part
    /\ UNCHANGED fileVersion
    /\ records' = Empty /\ pending' = <<>> /\ uncompacted' = 0
    /\ version' = fileVersion /\ retried' = FALSE

Next ==
    \/ Open
    \/ \E k \in Key, v \in Val : Save(k, v)
    \/ \E k \in Key : Delete(k)
    \/ Flush
    \/ \E v \in Version : BumpVersion(v)
    \/ Crash

Spec == Init /\ [][Next]_vars

-----------------------------------------------------------------------------
(* Properties *)

\* The cache and the log hold records of the type Record, and the count that
\* triggers compaction is a natural number.
TypeOK ==
    /\ file \in Seq(Record \cup {Torn})
    /\ fileVersion \in Version /\ version \in Version
    /\ up \in BOOLEAN
    /\ records \in [Key -> Val \cup {None}]
    /\ pending \in Seq(Record)
    /\ uncompacted \in Nat
    /\ retried \in BOOLEAN

\* Records were appended behind a torn one: Open does not cut a torn tail off,
\* and Flush retries a failed write at the end of the file.
Buried == \E i \in 1 .. Len(file) - 1 : file[i] = Torn

\* The values the next restart may find for k.
May == [k \in Key |-> {Replay(file)[k]}
                          \cup {pending[i].val : i \in {j \in 1 .. Len(pending) : pending[j].key = k}}]

Mirror == INSTANCE Store WITH mem <- records, disk <- Replay(file), may <- May

\* The database implements Store, whatever write fails and wherever the process
\* is killed, until records are appended behind a torn one; a compaction makes
\* good even for that.
MirrorsMemory == [][Buried' \/ Mirror!Next]_vars

\* The file stays proportional to the live records: when Flush has written
\* everything, the superseded records of a file without torn or rewritten ones
\* are too few for another compaction, now and after a restart.
FileBounded ==
    up /\ pending = <<>> /\ ~retried /\ (\A i \in 1 .. Len(file) : file[i] # Torn)
        => ~MostlyGarbage(Len(file), records)
=============================================================================
