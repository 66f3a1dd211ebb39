-------------------------------- MODULE Store --------------------------------
(***************************************************************************)
(* What a database "cached in memory and mirrored on disk" (pkg/db) owes   *)
(* to a program that may be killed at any time: for every key the disk     *)
(* holds the value of the last synchronisation or one the key was given    *)
(* since then, a synchronisation brings the disk up to date, and a restart *)
(* continues from the disk.  Keys are independent: after a failed write    *)
(* that is retried, the disk may mix the states of two moments.            *)
(***************************************************************************)
CONSTANTS Key, Val, None

VARIABLES
    up,    \* the program runs
    mem,   \* [Key -> Val \cup {None}], the cache; meaningless while down
    disk,  \* [Key -> Val \cup {None}], what a restart would read
    may    \* [Key -> SUBSET (Val \cup {None})]: what disk may come to hold

storeVars == <<up, mem, disk, may>>

Content == [Key -> Val \cup {None}]

Init == ~up /\ disk = [k \in Key |-> None] /\ may = [k \in Key |-> {None}]

\* The program gives k the value v (None: deletes it) in the cache.
Put(k, v) ==
    /\ up
    /\ mem' = [mem EXCEPT ![k] = v]
    /\ may' = [may EXCEPT ![k] = @ \cup {v}]
    /\ UNCHANGED <<up, disk>>

\* The disk is brought up to date.
Sync ==
    /\ up
    /\ disk' = mem
    /\ may' = [k \in Key |-> {mem[k]}]
    /\ UNCHANGED <<up, mem>>

\* A part of what is waiting reaches the disk; the program goes on or dies.
Leak ==
    /\ disk' \in Content
    /\ \A k \in Key : disk'[k] \in may'[k] /\ may'[k] \subseteq may[k]
    /\ may' \in [Key -> SUBSET (Val \cup {None})]
    /\ up
    /\ up' => mem' = mem /\ \A k \in Key : mem[k] \in may'[k]

\* A restart reads the disk.
Recover ==
    /\ ~up /\ up'
    /\ mem' = disk
    /\ may' = [k \in Key |-> {disk[k]}]
    /\ disk' = disk

Next ==
    \/ \E k \in Key, v \in Val \cup {None} : Put(k, v)
    \/ Sync
    \/ Leak
    \/ Recover

Spec == Init /\ [][Next]_storeVars
=============================================================================
