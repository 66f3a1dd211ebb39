----------------------------- MODULE TaskTable ------------------------------
(***************************************************************************)
(* The tasks between their making and their results: the table of the      *)
(* manager (Server.dataRunTime.Tasks), the copies that Update leaves for   *)
(* each fuzzer, GetTasks, the run of a task in a fuzzer, ReturnTasks and   *)
(* the merge of the results in the next Update.  pkg/dra/DependencyRPC.go, *)
(* pkg/dra/DependencyRPCServer.go, syz-fuzzer/dependency.go.               *)
(*                                                                         *)
(* A task is known by its hash; the four TaskRunTimeData that one run      *)
(* appends are one record, since they are merged position by position.     *)
(* Protobuf sends an empty map as nothing: the receiver has a nil map,     *)
(* which it can read and range over but not write to.                      *)
(*                                                                         *)
(* HighTask is left out: Update drops its content before it is copied to   *)
(* the fuzzers.                                                            *)
(***************************************************************************)
EXTENDS Integers, Sequences, FiniteSets

CONSTANTS
    Task,                \* the hashes of the tasks
    Addr,                \* the uncovered addresses
    Fuzzer,              \* the names of the VMs
    TaskQueueNumber,     \* default.go
    TaskCountLimitation, \* default.go
    MaxSends,            \* a task sent more often counts as sent so often
    MaxAdds,             \* the tasks made from dependencies
    MaxChecks,           \* the tasks that the fuzzers make for themselves
    MaxWork              \* a fuzzer with so many tasks waiting asks for none

ASSUME TaskAssumption ==
    /\ IsFiniteSet(Task) /\ IsFiniteSet(Addr) /\ IsFiniteSet(Fuzzer)
    /\ TaskQueueNumber \in Nat \ {0} /\ TaskCountLimitation \in Nat \ {0}
    /\ MaxSends \in Nat \ {0} /\ MaxAdds \in Nat /\ MaxChecks \in Nat /\ MaxWork \in Nat \ {0}

\* The TaskStatus values; every one between testing and tested is Unstable.
Untested == 0
Testing == 1
Unstable == 2
Tested == 3
Covered == 4

VARIABLES
    table,    \* ss.dataRunTime.Tasks
    open,     \* the keys of ss.dataDependency.UncoveredAddress
    closed,   \* the keys of ss.dataResult.CoveredAddress among Addr
    late,     \* TimeStart seconds have passed
    tasks,    \* [Fuzzer -> ...]: dataRunTime.Tasks of each syzFuzzer
    return,   \* [Fuzzer -> ...]: dataRunTime.Return of each syzFuzzer
    phase,    \* [Fuzzer -> ...]: the process in the VM
    known,    \* the keys of ss.fuzzers
    work,     \* [Fuzzer -> ...]: the tasks in the work queue of the process, equal ones once
    stop,     \* why the manager has stopped
    made      \* the tasks made: by addTask, by the fuzzers

vars == <<table, open, closed, late, tasks, return, phase, known, work, stop, made>>
serverVars == <<table, open, closed, late, known, stop>>
fuzzerVars == <<phase, work>>

Trd == [unc : SUBSET Addr, cov : SUBSET Addr, nil : BOOLEAN]

Entry ==
    [unc : SUBSET Addr, cov : SUBSET Addr, status : Untested .. Covered,
     count : 0 .. TaskCountLimitation, sends : 0 .. MaxSends, trd : Seq(Trd)]

\* What fuzzers are sent and return: task t, with the kind of its list.
Message ==
    [t : Task, kind : {"Normal", "Check"}, unc : SUBSET Addr, cov : SUBSET Addr,
     status : Untested .. Covered, trd : Seq(Trd)]

\* A list in which each task is at most once.
Lists == {q \in Seq(Message) : \A i, j \in 1 .. Len(q) : q[i].t = q[j].t => i = j}

\* A task is in each list at most once, with one run's data at the most.
TypeOK ==
    /\ \E S \in SUBSET Task : table \in [S -> Entry]
    /\ \A t \in DOMAIN table : Len(table[t].trd) <= 1
    /\ open \in SUBSET Addr /\ closed \in SUBSET (Addr \ open)
    /\ late \in BOOLEAN
    /\ tasks \in [Fuzzer -> Lists] /\ return \in [Fuzzer -> Lists]
    /\ phase \in [Fuzzer -> {"down", "connecting", "up"}]
    /\ known \in SUBSET Fuzzer
    /\ work \in [Fuzzer -> SUBSET Message]
    /\ stop \in {"", "race", "nil map", "mergeTask", "updateUncoveredAddress"}
    /\ made \in [add : 0 .. MaxAdds, check : 0 .. MaxChecks]

Init ==
    /\ table = <<>>
    /\ open = {} /\ closed = {}
    /\ late = FALSE
    /\ tasks = [f \in Fuzzer |-> <<>>]
    /\ return = [f \in Fuzzer |-> <<>>]
    /\ phase = [f \in Fuzzer |-> "down"]
    /\ known = {}
    /\ work = [f \in Fuzzer |-> {}]
    /\ stop = ""
    /\ made = [add |-> 0, check |-> 0]

Alive == stop = ""

Lower(m, n) == IF m <= n THEN m ELSE n
Higher(m, n) == IF m <= n THEN n ELSE m

-----------------------------------------------------------------------------
(* Connect, GetTasks, ReturnTasks *)

\* A known name is kept with its lists, whatever happened to its process.
ConnectAgain(f) ==
    /\ Alive
    /\ phase[f] = "down" /\ f \in known
    /\ phase' = [phase EXCEPT ![f] = "up"]
    /\ UNCHANGED <<serverVars, tasks, return, work, made>>

\* The write of ss.fuzzers under MuFuzzer begins and ends.
ConnectBegin(f) ==
    /\ Alive
    /\ phase[f] = "down" /\ f \notin known
    /\ \A g \in Fuzzer : phase[g] # "connecting"
    /\ phase' = [phase EXCEPT ![f] = "connecting"]
    /\ UNCHANGED <<serverVars, tasks, return, work, made>>

ConnectEnd(f) ==
    /\ Alive
    /\ phase[f] = "connecting"
    /\ phase' = [phase EXCEPT ![f] = "up"]
    /\ known' = known \cup {f}
    /\ UNCHANGED <<table, open, closed, late, stop, tasks, return, work, made>>

\* GetTasks, ReturnTasks and Update read ss.fuzzers without the lock; the runtime
\* stops the process when it notices a read during a write.
MapRace ==
    /\ Alive
    /\ \E f \in Fuzzer : phase[f] = "connecting"
    /\ stop' = "race"
    /\ UNCHANGED <<table, open, closed, late, known, tasks, return, fuzzerVars, made>>

\* pickTask and pop: the first TaskQueueNumber tasks, to the queue of the fuzzer.
GetTasks(f) ==
    /\ Alive
    /\ phase[f] = "up" /\ tasks[f] # <<>>
    /\ Cardinality(work[f]) < MaxWork
    /\ LET number == Lower(Len(tasks[f]), TaskQueueNumber)
       IN /\ tasks' = [tasks EXCEPT ![f] = SubSeq(@, number + 1, Len(@))]
          /\ work' = [work EXCEPT ![f] = @ \cup {tasks[f][i] : i \in 1 .. number}]
    /\ UNCHANGED <<serverVars, return, phase, made>>

\* Mutant: a waiting result of the task is joined by the second one.
AddTask_Twice(q, m) == Append(q, m)

\* Tasks.AddTask: a hash that is in the list already is left as it is.
AddTask(q, m) == IF \E i \in 1 .. Len(q) : q[i].t = m.t THEN q ELSE Append(q, m)

-----------------------------------------------------------------------------
(* The fuzzer *)

\* A fuzzer comes to the condition of address a with a new input, and finds a
\* writer: checkInput runs a task of its own, whose maps are not nil.
CheckInput(f, t, a) ==
    /\ Alive
    /\ phase[f] = "up" /\ made.check < MaxChecks
    /\ a \in open \cup closed
    /\ made' = [made EXCEPT !.check = @ + 1]
    /\ work' = [work EXCEPT ![f] = @ \cup
                  {[t |-> t, kind |-> "Check", unc |-> {a}, cov |-> {}, status |-> Untested,
                    trd |-> <<>>]}]
    /\ UNCHANGED <<serverVars, tasks, return, phase>>

\* The result of a run of m: x covered by the programs on their own, y by the
\* programs together, ok the check of write and condition, s the best status.
ResultOf(m, x, y, ok, s) ==
    LET unc == m.unc \ (x \cup y)
    IN [m EXCEPT
          !.unc = unc,
          !.cov = @ \cup x \cup y,
          !.status = IF unc = {} THEN Covered ELSE IF ~ok THEN Unstable ELSE Higher(@, s),
          !.trd = IF ok THEN Append(@, [unc |-> unc, cov |-> y \ x, nil |-> unc = {}]) ELSE @]

Results(m) ==
    {ResultOf(m, x, y, ok, s) :
        x \in SUBSET m.unc, y \in SUBSET m.unc, ok \in BOOLEAN, s \in {Unstable, Tested}}

\* The write task.CoveredAddress[ua] = r to the nil map of a task from the wire.
WritesNil(m, r) == m.kind = "Normal" /\ m.cov = {} /\ r.cov # {}

\* dependency: the run, and ReturnTasks.
Dependency(f, m) ==
    /\ Alive
    /\ phase[f] = "up" /\ m \in work[f]
    /\ \E r \in Results(m) :
           /\ ~WritesNil(m, r)
           /\ return' = [return EXCEPT ![f] = AddTask(@, r)]
    /\ work' = [work EXCEPT ![f] = @ \ {m}]
    /\ UNCHANGED <<serverVars, tasks, phase, made>>

Dies(f) ==
    /\ phase' = [phase EXCEPT ![f] = "down"]
    /\ work' = [work EXCEPT ![f] = {}]

\* The run writes to a nil map: the process panics with the whole work queue.
DependencyPanics(f, m) ==
    /\ Alive
    /\ phase[f] = "up" /\ m \in work[f]
    /\ \E r \in Results(m) : WritesNil(m, r)
    /\ Dies(f)
    /\ UNCHANGED <<serverVars, tasks, return, made>>

\* The VM crashes, or a call of the process fails, which ends it.
Crash(f) ==
    /\ Alive
    /\ phase[f] = "up"
    /\ Dies(f)
    /\ UNCHANGED <<serverVars, tasks, return, made>>

-----------------------------------------------------------------------------
(* Update: the results *)

\* mergeTaskRunTimeData: nothing is added to a nil UncoveredAddress.
mergeTaskRunTimeData(m, d) ==
    LET cov == m.cov \cup d.cov
    IN [m EXCEPT !.cov = cov, !.unc = (@ \cup d.unc) \ cov]

NilTrd(m, d) == m.nil /\ ~(d.unc \subseteq m.cov \cup d.cov)

\* Mutant: a result settles also a task that addTask has renewed.
mergeTask_Renewed(m, s) ==
    [m EXCEPT
       !.count = Lower(@ + 1, TaskCountLimitation),
       !.cov = @ \cup s.cov,
       !.unc = (@ \ (m.cov \cup s.cov)) \cup s.unc,
       !.status = Higher(@, s.status),
       !.trd = IF @ = <<>> THEN s.trd
               ELSE [i \in 1 .. Len(@) |->
                       IF s.trd = <<>> THEN @[i] ELSE mergeTaskRunTimeData(@[i], s.trd[i])]]

\* mergeTask: what the result leaves uncovered is added also if it is covered.
mergeTask(m, s) ==
    [m EXCEPT
       !.count = Lower(@ + 1, TaskCountLimitation),
       !.cov = @ \cup s.cov,
       !.unc = (@ \ (m.cov \cup s.cov)) \cup s.unc,
       !.status = IF @ = Untested THEN @ ELSE Higher(@, s.status),
       !.trd = IF @ = <<>> THEN s.trd
               ELSE [i \in 1 .. Len(@) |->
                       IF s.trd = <<>> THEN @[i] ELSE mergeTaskRunTimeData(@[i], s.trd[i])]]

\* Why merging s into m stops the manager, if it does.
mergeStops(m, s) ==
    IF m.trd = <<>> \/ s.trd = <<>> THEN ""
    ELSE IF Len(m.trd) # Len(s.trd) THEN "mergeTask"
    ELSE IF \E i \in 1 .. Len(m.trd) : NilTrd(m.trd[i], s.trd[i]) THEN "nil map"
    ELSE ""

\* A result whose task the table does not know becomes an entry of it.
EntryOf(s) ==
    [unc |-> s.unc, cov |-> s.cov, status |-> s.status, count |-> 1,
     sends |-> 0, trd |-> s.trd]

\* One turn of the loop over the results: merge, drop what is not uncovered any
\* more, and updateUncoveredAddress, which must know every address of the result.
Merged(acc, s, o, c) ==
    IF acc.stop # "" THEN acc
    ELSE LET why == IF s.t \in DOMAIN acc.table THEN mergeStops(acc.table[s.t], s) ELSE ""
             new == IF s.t \in DOMAIN acc.table
                    THEN [mergeTask(acc.table[s.t], s) EXCEPT !.unc = @ \cap o]
                    ELSE EntryOf(s)
         IN IF why # "" THEN [acc EXCEPT !.stop = why]
            ELSE [table |-> [t \in DOMAIN acc.table \cup {s.t} |->
                               IF t = s.t THEN new ELSE acc.table[t]],
                  stop |-> IF s.unc \subseteq o \cup c THEN "" ELSE "updateUncoveredAddress"]

\* The results q of one fuzzer.
MergedList(acc, q, o, c) ==
    LET upTo[i \in 0 .. Len(q)] == IF i = 0 THEN acc ELSE Merged(upTo[i - 1], q[i], o, c)
    IN upTo[Len(q)]

\* The results that the fuzzers have left, fuzzer by fuzzer in the order fs.
MergedAll(acc, fs, o, c) ==
    LET upTo[k \in 0 .. Len(fs)] ==
            IF k = 0 THEN acc ELSE MergedList(upTo[k - 1], return[fs[k]], o, c)
    IN upTo[Len(fs)]

\* The orders in which a map with the keys S may be ranged over.
MapOrders(S) == {q \in [1 .. Cardinality(S) -> S] : \A i, j \in DOMAIN q : q[i] = q[j] => i = j}

-----------------------------------------------------------------------------
(* Update: the tasks *)

\* addTask of the tasks and addresses add: a known task is tried afresh, with
\* one more address.
addTask(add) ==
    [t \in DOMAIN table \cup {d[1] : d \in add} |->
       LET as == {a \in Addr : <<t, a>> \in add}
       IN IF as = {} THEN table[t]
          ELSE IF t \in DOMAIN table
          THEN [table[t] EXCEPT !.unc = @ \cup as, !.status = Untested, !.count = 0]
          ELSE [unc |-> as, cov |-> {}, status |-> Untested, count |-> 0, sends |-> 0, trd |-> <<>>]]


\* Entry m is to be sent while the addresses o are uncovered.
Wanted(m, o) ==
    /\ m.unc \cap o # {}
    /\ \/ m.status = Untested
       \/ m.status < Tested /\ m.count < TaskCountLimitation

\* The entry that is sent; only the copy of an untested one loses its data.
SentEntry(m, o) ==
    [m EXCEPT !.unc = @ \cap o,
              !.status = IF @ = Untested THEN Testing ELSE @,
              !.sends = Lower(@ + 1, MaxSends),
              !.trd = IF m.status = Untested THEN @ ELSE <<>>]

\* Mutant: the copy of an untested entry keeps its data too.
CopyOf_Kept(t, m) ==
    [t |-> t, kind |-> "Normal", unc |-> m.unc, cov |-> m.cov, status |-> m.status,
     trd |-> m.trd]

CopyOf(t, m) ==
    [t |-> t, kind |-> "Normal", unc |-> m.unc, cov |-> m.cov, status |-> m.status,
     trd |-> <<>>]

\* sort.Slice by Priority, which starts alike and falls with every sending; the
\* priorities of the addresses decide among equals, in any way.
MayPrecede(tbl, t, u) == tbl[t].sends >= tbl[u].sends

Wanting(tbl, o) == {t \in DOMAIN tbl : Wanted(tbl[t], o)}

Elements(q) == {q[i] : i \in 1 .. Len(q)}

\* What the loop over the sorted tasks may send: the first wanted ones, one more
\* than TaskQueueNumber if there are so many.
Sendings(tbl, o) ==
    LET wanting == Wanting(tbl, o)
        n == Lower(Cardinality(wanting), TaskQueueNumber + 1)
    IN {q \in [1 .. n -> wanting] :
          /\ \A i, j \in 1 .. n : i < j => q[i] # q[j] /\ MayPrecede(tbl, q[i], q[j])
          /\ \A t \in wanting \ Elements(q) : MayPrecede(tbl, q[n], t)}

\* The tasks it may have come to by then: all of them, or, if it ends early,
\* those that are sorted before the last one sent.
Seen(tbl, o, q) ==
    IF Len(q) <= TaskQueueNumber THEN {DOMAIN tbl}
    ELSE {seen \in SUBSET DOMAIN tbl :
            /\ seen \cap Wanting(tbl, o) = Elements(q)
            /\ \A t \in seen : MayPrecede(tbl, t, q[Len(q)])
            /\ \A t \in DOMAIN tbl \ seen : MayPrecede(tbl, q[Len(q)], t)}

\* The table after q has been sent; the entries that have been seen lose the
\* addresses that are not uncovered any more.
Picked(tbl, o, q, seen) ==
    [t \in DOMAIN tbl |->
       IF t \in Elements(q) THEN SentEntry(tbl[t], o)
       ELSE IF t \in seen THEN [tbl[t] EXCEPT !.unc = @ \cap o]
       ELSE tbl[t]]

\* One Update: addresses cov turn out covered, the dependencies add come, the
\* results are merged, the tasks sorted and sent to the fuzzers, in place of what
\* they have not fetched.  Before TimeStart seconds nothing is sent.
UpdateWith(cov, add) ==
    /\ open' = (open \ cov) \cup {d[2] : d \in add}
    /\ closed' = closed \cup cov
    /\ return' = [f \in Fuzzer |-> IF f \in known THEN <<>> ELSE return[f]]
    /\ \E merged \in {MergedAll([table |-> addTask(add), stop |-> ""], fs, open', closed') :
                          fs \in MapOrders(known)} :
           /\ stop' = merged.stop
           /\ IF ~late \/ merged.stop # ""
              THEN /\ table' = merged.table
                   /\ UNCHANGED tasks
              ELSE \E q \in Sendings(merged.table, open') :
                       /\ \E seen \in Seen(merged.table, open', q) :
                              table' = Picked(merged.table, open', q, seen)
                       /\ tasks' = [f \in Fuzzer |->
                                      IF f \in known
                                      THEN [i \in 1 .. Len(q) |-> CopyOf(q[i], table'[q[i]])]
                                      ELSE tasks[f]]

\* An Update to which the fuzzers bring nothing but results.
UpdateQuiet ==
    /\ Alive
    /\ UpdateWith({}, {})
    /\ UNCHANGED <<late, known, fuzzerVars, made>>

Update ==
    /\ Alive
    /\ \E cov \in SUBSET open : \E add \in SUBSET (Task \X (Addr \ (closed \cup cov))) :
           /\ made.add + Cardinality(add) <= MaxAdds
           /\ made' = [made EXCEPT !.add = @ + Cardinality(add)]
           /\ UpdateWith(cov, add)
    /\ UNCHANGED <<late, known, fuzzerVars>>

\* TimeStart seconds after the start of the manager.
TimePasses ==
    /\ Alive /\ ~late
    /\ late' = TRUE
    /\ UNCHANGED <<table, open, closed, known, stop, tasks, return, fuzzerVars, made>>

-----------------------------------------------------------------------------
Connect(f) == ConnectAgain(f) \/ ConnectBegin(f) \/ ConnectEnd(f)

\* A run ends with its result or with a panic.
Run(f) == \E m \in work[f] : Dependency(f, m) \/ DependencyPanics(f, m)

Next ==
    \/ \E f \in Fuzzer :
           \/ Connect(f) \/ GetTasks(f) \/ Run(f) \/ Crash(f)
           \/ \E t \in Task, a \in Addr : CheckInput(f, t, a)
    \/ MapRace
    \/ Update
    \/ TimePasses

Spec == Init /\ [][Next]_vars

\* The ticker of the manager calls Update for ever, whether or not anything new
\* comes, a VM is restarted, a fuzzer polls and its procs take every task.  No run is
\* obliged to end without a panic, and no VM to stop crashing.
Fairness ==
    /\ WF_vars(UpdateQuiet) /\ WF_vars(TimePasses)
    /\ \A f \in Fuzzer :
           /\ WF_vars(Connect(f)) /\ SF_vars(GetTasks(f))
           /\ WF_vars(Run(f))

LiveSpec == Spec /\ Fairness

-----------------------------------------------------------------------------
\* The assertions on the way of a result hold: "mergeTask with error number of
\* TaskRunTimeData", because what is sent carries no data of an earlier run, and
\* "updateUncoveredAddress : can not find the uaTS", because an address that has
\* been uncovered stays known, also to a fuzzer with an old copy of the maps.
AssertionsHold == stop \notin {"mergeTask", "updateUncoveredAddress"}

\* A task that addTask renews, with a new address, is not settled by a late
\* result of an earlier run: only sending it again, with every address of it
\* that is still uncovered, makes it anything but untested.  Until then it loses
\* no address but those that are covered.
RenewedIsSent ==
    [][\A t \in DOMAIN table :
         table[t].status = Untested =>
             /\ (table[t].unc \cap open') \ table'[t].cov \subseteq table'[t].unc
             /\ table'[t].status # Untested =>
                    \A f \in known : \E i \in DOMAIN tasks'[f] :
                        tasks'[f][i].t = t /\ table'[t].unc \subseteq tasks'[f][i].unc]_vars

\* Task t has an uncovered address and has not been tried as often as it should.
Due(t) ==
    /\ t \in DOMAIN table
    /\ table[t].unc \cap open # {}
    /\ table[t].status = Untested \/ (table[t].status < Tested /\ table[t].count < TaskCountLimitation)

\* A fuzzer dies with task t in its work queue.
DiesWith(t) ==
    \E f \in Fuzzer : /\ \E m \in work[f] : m.t = t
                      /\ Crash(f) \/ \E m \in work[f] : DependencyPanics(f, m)

=============================================================================
