------------------------------- MODULE VmLoop -------------------------------
(***************************************************************************)
(* syz-manager/manager.go, vmLoop: one goroutine shares the VMs between    *)
(* fuzzing and the reproduction of crashes; every VM and every             *)
(* reproduction has a goroutine that answers on a channel.  With it        *)
(* runInstance, saveCrash, needRepro, saveRepro and saveFailedRepro, and   *)
(* the part of hub.go that fetches reproducers of other managers.          *)
(*                                                                         *)
(* The VMs are alike, so they are counted.  A crash is known by its title; *)
(* all crashes from the hub have one title.  Goroutines that wait to send  *)
(* on a channel are served in order, so a channel and its waiting senders  *)
(* are one sequence.                                                       *)
(***************************************************************************)
EXTENDS Integers, Sequences, FiniteSets

CONSTANTS
    vmCount,            \* the size of the pool
    Title,              \* the titles of the crashes of the kernel
    Leak,               \* the titles with MemoryLeakPrefix
    External,           \* "external repro", the title of the crashes from the hub
    NoCrash,            \* a VM was restarted without crash
    maxReproAttempts,   \* manager.go
    HubQueueSize,       \* the size of hubReproQueue
    MaxCrashes          \* bound: the crashes of VMs and the reproducers from the hub

ASSUME VmAssumption ==
    /\ vmCount \in Nat \ {0}
    /\ External \notin Title /\ NoCrash \notin Title \cup {External}
    /\ maxReproAttempts \in Nat /\ HubQueueSize \in Nat /\ MaxCrashes \in Nat
ASSUME TitleAssumption == IsFiniteSet(Title) /\ Leak \subseteq Title

Titles == Title \cup {External}

instancesPerRepro == IF vmCount < 4 THEN vmCount ELSE 4

\* How a reproduction of a title ends: no reproducer, one that crashes under the
\* title, or one that crashes under another title.
Outcome == {"none"} \cup Titles

VARIABLES
    dash,            \* a dashboard is configured
    pc,              \* where the loop is
    phase,           \* mgr.phase has come to phaseTriagedHub
    seen,            \*   the loop's copy of it
    instances,       \* the VMs at the loop's disposal
    running,         \* the VMs that fuzz
    stopping,        \* the VMs that have taken a stop request
    runDone,         \* the results of runInstance
    pendingRepro,    \* [Titles -> Nat]: the crashes that wait to be queued
    reproducing,     \* the titles queued or being reproduced
    reproQueue,      \* the titles queued, taken from the end
    reproInstances,  \* the VMs in use by reproductions
    active,          \* the titles whose reproduction runs
    reproDone,       \* the results of repro.Run
    stopPending,     \* a stop request was issued
    stopRequest,     \* the loop offers a stop request
    shutdown,        \* vm.Shutdown: open, closed, or seen by the loop
    hub,             \* the hub's goroutine: whether it may fetch a reproducer
    hubReproQueue,   \* the crashes in the channel of this name
    repro,           \* the titles with a repro.prog in the crash directory
    failed,          \* [Title -> Nat]: the repro0, repro1, ... there
    crashes,         \* the crashes and the reproducers from the hub so far
    attempts         \* history: the failed reproductions of each title

vmVars == <<instances, running, stopping, runDone>>
reproVars == <<pendingRepro, reproducing, reproQueue, reproInstances, active, reproDone>>
stopVars == <<stopPending, stopRequest, shutdown>>
hubVars == <<hub, hubReproQueue>>
fileVars == <<repro, failed, attempts>>
vars == <<dash, pc, phase, seen, vmVars, reproVars, stopVars, hubVars, fileVars, crashes>>

\* No counter of VMs falls below zero, the files of failed reproductions stay
\* within their number, and the channels hold what their senders send.
TypeOK ==
    /\ dash \in BOOLEAN
    /\ pc \in {"top", "select", "end"}
    /\ phase \in BOOLEAN /\ seen \in BOOLEAN
    /\ instances \in Nat /\ running \in Nat /\ stopping \in Nat
    /\ runDone \in Seq(Title \cup {NoCrash})
    /\ pendingRepro \in [Titles -> Nat]
    /\ reproducing \in SUBSET Titles
    /\ reproQueue \in Seq(Titles)
    /\ reproInstances \in Nat
    /\ active \in SUBSET Titles
    /\ reproDone \in Seq([title : Titles, res : Outcome])
    /\ stopPending \in BOOLEAN /\ stopRequest \in BOOLEAN
    /\ shutdown \in {"open", "closed", "seen"}
    /\ hub \in {"asks", "fetches"}
    /\ hubReproQueue \in 0 .. HubQueueSize
    /\ repro \in SUBSET Titles
    /\ failed \in [Title -> 0 .. maxReproAttempts]
    /\ crashes \in 0 .. MaxCrashes
    /\ attempts \in [Title -> Nat]

Init ==
    /\ dash \in BOOLEAN
    /\ pc = "top"
    /\ phase = FALSE /\ seen = FALSE
    /\ instances = vmCount /\ running = 0 /\ stopping = 0
    /\ runDone = <<>>
    /\ pendingRepro = [t \in Titles |-> 0]
    /\ reproducing = {} /\ reproQueue = <<>> /\ reproInstances = 0
    /\ active = {} /\ reproDone = <<>>
    /\ stopPending = FALSE /\ stopRequest = FALSE
    /\ shutdown = "open"
    /\ hub = "asks" /\ hubReproQueue = 0
    /\ repro = {} /\ failed = [t \in Title |-> 0]
    /\ crashes = 0
    /\ attempts = [t \in Title |-> 0]

-----------------------------------------------------------------------------
(* The turn of the loop before it waits *)

\* needLocalRepro (the reports of the model are not corrupted).
needLocalRepro(t) == t \notin repro /\ failed[t] < maxReproAttempts

\* Mutant: what is pending was needed when the crash was saved.
needRepro_Then(t) == {TRUE}

\* needRepro: the answers it may give; the dashboard decides as it likes, but is
\* not asked about memory leaks.
needRepro(t) ==
    IF t = External \/ (dash /\ t \in Leak) THEN {TRUE}
    ELSE IF dash THEN BOOLEAN ELSE {needLocalRepro(t)}

\* The pending crashes, title by title in any order, when needed are the titles
\* that needRepro is asked about and grants: one crash of a title that is not
\* being reproduced is queued, all of them are dropped if it is not needed.
Pending(needed, order) ==
    /\ needed \subseteq {t \in Titles \ reproducing : pendingRepro[t] > 0 /\ TRUE \in needRepro(t)}
    /\ \A t \in Titles \ (reproducing \cup needed) : pendingRepro[t] > 0 => FALSE \in needRepro(t)
    /\ Len(order) = Cardinality(needed) /\ {order[i] : i \in 1 .. Len(order)} = needed
    /\ pendingRepro' = [t \in Titles |->
                          IF t \in reproducing THEN pendingRepro[t]
                          ELSE IF t \in needed THEN pendingRepro[t] - 1
                          ELSE 0]
    /\ reproducing' = reproducing \cup needed

CanRepro(queued, used) == phase /\ queued > 0 /\ used + instancesPerRepro <= vmCount

\* k reproductions of the queue q start, the last ones first.
Starts(q, k) ==
    /\ reproQueue' = SubSeq(q, 1, Len(q) - k)
    /\ active' = active \cup {q[i] : i \in Len(q) - k + 1 .. Len(q)}
    /\ reproInstances' = reproInstances + k * instancesPerRepro

\* Mutant: a VM that comes back always fuzzes again.
Spread_Greedy(q) ==
    IF shutdown = "seen"
    THEN Starts(q, 0) /\ UNCHANGED <<instances, running>>
    ELSE \E k \in {IF CanRepro(Len(q), reproInstances) /\ instances >= instancesPerRepro THEN 1 ELSE 0} :
           /\ Starts(q, k)
           /\ instances' = 0
           /\ running' = running + instances - k * instancesPerRepro

\* Mutant: VMs are started also after the shutdown.
Spread_Restart(q) ==
    /\ Starts(q, 0)
    /\ instances' = 0
    /\ running' = running + instances

\* As many reproductions as the queue and the VMs allow; the rest of the VMs
\* fuzz, unless they are kept for a reproduction that has not enough yet.
Spread(q) ==
    IF shutdown = "seen"
    THEN Starts(q, 0) /\ UNCHANGED <<instances, running>>
    ELSE \E k \in 0 .. Len(q) :
           LET left == instances - k * instancesPerRepro
               can(j) == CanRepro(Len(q) - j, reproInstances + j * instancesPerRepro)
           IN /\ \A j \in 0 .. k - 1 : can(j)
              /\ left >= 0
              /\ can(k) => left < instancesPerRepro
              /\ Starts(q, k)
              /\ instances' = IF can(k) THEN left ELSE 0
              /\ running' = IF can(k) THEN running ELSE running + left

LoopTop ==
    /\ pc = "top"
    /\ ~(shutdown = "seen" /\ instances = vmCount)
    /\ pc' = "select"
    /\ seen' = phase
    /\ \E needed \in SUBSET Titles : \E order \in [1 .. Cardinality(needed) -> needed] :
           /\ Pending(needed, order)
           /\ Spread(reproQueue \o order)
    /\ stopRequest' = (~stopPending /\ CanRepro(Len(reproQueue'), reproInstances'))
    /\ UNCHANGED <<dash, phase, stopping, runDone, reproDone, stopPending, shutdown, hubVars, fileVars,
                   crashes>>

\* Every VM is back after the shutdown.
LoopEnd ==
    /\ pc = "top"
    /\ shutdown = "seen" /\ instances = vmCount
    /\ pc' = "end"
    /\ UNCHANGED <<dash, phase, seen, vmVars, reproVars, stopVars, hubVars, fileVars, crashes>>

-----------------------------------------------------------------------------
(* The cases of the select *)

\* A VM that fuzzes takes the stop request.
SelectStop ==
    /\ pc = "select" /\ stopRequest /\ running > 0
    /\ pc' = "top"
    /\ running' = running - 1 /\ stopping' = stopping + 1
    /\ stopPending' = TRUE
    /\ UNCHANGED <<dash, phase, seen, instances, runDone, reproVars, stopRequest, shutdown, hubVars,
                   fileVars, crashes>>

\* saveCrash: the crash is kept for reproduction, or not.
SelectRunDone ==
    /\ pc = "select" /\ runDone # <<>>
    /\ pc' = "top"
    /\ runDone' = Tail(runDone)
    /\ instances' = instances + 1
    /\ stopPending' = FALSE
    /\ IF Head(runDone) = NoCrash \/ shutdown = "seen"
       THEN UNCHANGED pendingRepro
       ELSE \E needed \in needRepro(Head(runDone)) :
              pendingRepro' = [pendingRepro EXCEPT ![Head(runDone)] = IF needed THEN @ + 1 ELSE @]
    /\ UNCHANGED <<dash, phase, seen, running, stopping, reproducing, reproQueue, reproInstances, active,
                   reproDone, stopRequest, shutdown, hubVars, fileVars, crashes>>

\* saveFailedRepro and saveRepro: files in the crash directory, unless the result
\* was reported to the dashboard.  A failed attempt at a memory leak leaves nothing.
SaveResult(t, res) ==
    /\ \E reported \in IF dash THEN BOOLEAN ELSE {FALSE} :
          /\ repro' = IF res = "none" \/ reported THEN repro ELSE repro \cup {res}
          /\ failed' = IF res # "none" \/ t \in Leak \cup {External} \/ reported THEN failed
                       ELSE [failed EXCEPT ![t] = IF @ < maxReproAttempts THEN @ + 1 ELSE @]
    /\ attempts' = IF res # "none" \/ t = External THEN attempts ELSE [attempts EXCEPT ![t] = @ + 1]

\* Mutant: the VMs of a reproduction stay accounted to it.
SelectReproDone_Keeps ==
    /\ pc = "select" /\ reproDone # <<>>
    /\ pc' = "top"
    /\ reproDone' = Tail(reproDone)
    /\ reproducing' = reproducing \ {Head(reproDone).title}
    /\ instances' = instances + instancesPerRepro
    /\ SaveResult(Head(reproDone).title, Head(reproDone).res)
    /\ UNCHANGED <<dash, phase, seen, running, stopping, runDone, pendingRepro, reproQueue, active,
                   reproInstances, stopVars, hubVars, crashes>>

\* Mutant: the title of the report, not of the crash, is free again.
SelectReproDone_Title ==
    /\ pc = "select" /\ reproDone # <<>>
    /\ pc' = "top"
    /\ reproDone' = Tail(reproDone)
    /\ reproducing' = reproducing \ {Head(reproDone).res}
    /\ instances' = instances + instancesPerRepro
    /\ reproInstances' = reproInstances - instancesPerRepro
    /\ SaveResult(Head(reproDone).title, Head(reproDone).res)
    /\ UNCHANGED <<dash, phase, seen, running, stopping, runDone, pendingRepro, reproQueue, active,
                   stopVars, hubVars, crashes>>

SelectReproDone ==
    /\ pc = "select" /\ reproDone # <<>>
    /\ pc' = "top"
    /\ reproDone' = Tail(reproDone)
    /\ reproducing' = reproducing \ {Head(reproDone).title}
    /\ instances' = instances + instancesPerRepro
    /\ reproInstances' = reproInstances - instancesPerRepro
    /\ SaveResult(Head(reproDone).title, Head(reproDone).res)
    /\ UNCHANGED <<dash, phase, seen, running, stopping, runDone, pendingRepro, reproQueue, active,
                   stopVars, hubVars, crashes>>

SelectShutdown ==
    /\ pc = "select" /\ shutdown = "closed"
    /\ pc' = "top"
    /\ shutdown' = "seen"
    /\ UNCHANGED <<dash, phase, seen, vmVars, reproVars, stopPending, stopRequest, hubVars, fileVars,
                   crashes>>

SelectHubRepro ==
    /\ pc = "select" /\ hubReproQueue > 0
    /\ pc' = "top"
    /\ hubReproQueue' = hubReproQueue - 1
    /\ pendingRepro' = [pendingRepro EXCEPT ![External] = @ + 1]
    /\ UNCHANGED <<dash, phase, seen, vmVars, reproducing, reproQueue, reproInstances, active, reproDone,
                   stopVars, hub, fileVars, crashes>>

\* The hub's goroutine asks whether more reproducers are needed; goto wait.
SelectNeedMore ==
    /\ pc = "select" /\ dash /\ hub = "asks"
    /\ seen /\ reproQueue = <<>> /\ reproducing = {} /\ \A t \in Titles : pendingRepro[t] = 0
    /\ hub' = "fetches"
    /\ UNCHANGED <<dash, pc, phase, seen, vmVars, reproVars, stopVars, hubReproQueue, fileVars, crashes>>

-----------------------------------------------------------------------------
(* The other goroutines *)

\* The hub has a reproducer or not; the send waits while the channel is full.
HubFetches ==
    /\ hub = "fetches"
    /\ hub' = "asks"
    /\ \/ UNCHANGED <<hubReproQueue, crashes>>
       \/ /\ hubReproQueue < HubQueueSize /\ crashes < MaxCrashes
          /\ hubReproQueue' = hubReproQueue + 1
          /\ crashes' = crashes + 1
    /\ UNCHANGED <<dash, pc, phase, seen, vmVars, reproVars, stopVars, fileVars>>

\* runInstance ends by itself: timeout, error, shutdown or crash.
RunEnds ==
    /\ running > 0
    /\ running' = running - 1
    /\ \/ runDone' = Append(runDone, NoCrash) /\ UNCHANGED crashes
       \/ \E t \in Title : /\ crashes < MaxCrashes
                           /\ crashes' = crashes + 1
                           /\ runDone' = Append(runDone, t)
    /\ UNCHANGED <<dash, pc, phase, seen, instances, stopping, reproVars, stopVars, hubVars, fileVars>>

\* runInstance ends because it was stopped.
RunStops ==
    /\ stopping > 0
    /\ stopping' = stopping - 1
    /\ runDone' = Append(runDone, NoCrash)
    /\ UNCHANGED <<dash, pc, phase, seen, instances, running, reproVars, stopVars, hubVars, fileVars,
                   crashes>>

\* repro.Run ends.
ReproEnds(t) ==
    /\ t \in active
    /\ active' = active \ {t}
    /\ \E res \in Outcome \ {External} : reproDone' = Append(reproDone, [title |-> t, res |-> res])
    /\ UNCHANGED <<dash, pc, phase, seen, vmVars, pendingRepro, reproducing, reproQueue, reproInstances,
                   stopVars, hubVars, fileVars, crashes>>

PhaseReached ==
    /\ ~phase
    /\ phase' = TRUE
    /\ UNCHANGED <<dash, pc, seen, vmVars, reproVars, stopVars, hubVars, fileVars, crashes>>

Interrupt ==
    /\ shutdown = "open"
    /\ shutdown' = "closed"
    /\ UNCHANGED <<dash, pc, phase, seen, vmVars, reproVars, stopPending, stopRequest, hubVars, fileVars,
                   crashes>>

-----------------------------------------------------------------------------
Loop ==
    \/ LoopTop \/ LoopEnd \/ SelectStop \/ SelectRunDone \/ SelectReproDone \/ SelectShutdown
    \/ SelectHubRepro \/ SelectNeedMore

Ended == pc = "end" /\ UNCHANGED vars

Next ==
    \/ Loop \/ HubFetches \/ RunEnds \/ RunStops \/ PhaseReached \/ Interrupt
    \/ \E t \in Titles : ReproEnds(t)
    \/ Ended

Spec == Init /\ [][Next]_vars

\* The loop goes on; of the cases of a select that are ready, Go takes each with
\* the same chance; a VM runs for half an hour at the most, a reproduction ends.
\* Neither crashes nor interrupts have to come.
Fairness ==
    /\ WF_vars(LoopTop \/ LoopEnd)
    /\ SF_vars(SelectRunDone) /\ SF_vars(SelectReproDone) /\ SF_vars(SelectShutdown)
    /\ WF_vars(RunEnds) /\ WF_vars(RunStops)
    /\ \A t \in Titles : WF_vars(ReproEnds(t))

LiveSpec == Spec /\ Fairness

-----------------------------------------------------------------------------
Queued == {reproQueue[i] : i \in 1 .. Len(reproQueue)}
Ending == {reproDone[i].title : i \in 1 .. Len(reproDone)}

\* Every VM is in one place: at the loop's disposal, fuzzing, stopping, on its way
\* back, or in a reproduction; each reproduction has its instancesPerRepro.
VMsAccounted ==
    /\ instances + running + stopping + Len(runDone) + reproInstances = vmCount
    /\ reproInstances = instancesPerRepro * (Cardinality(active) + Len(reproDone))

\* A title is reproduced once at a time, and `reproducing' names exactly the
\* titles in the queue, in a running reproduction or in a result on its way:
\* a title that was left behind would never be reproduced again.
OneReproPerTitle ==
    /\ reproducing = Queued \cup active \cup Ending
    /\ Cardinality(reproducing) = Len(reproQueue) + Cardinality(active) + Len(reproDone)

\* Without a dashboard a reproduction of a title fails at most maxReproAttempts
\* times, and none is queued after that, however many crashes of the title were
\* saved, and found to need a reproducer, while one of them was being reproduced.
\* Memory leaks are excepted: saveFailedRepro leaves no file that would count
\* their attempts, so they are tried without bound.
AttemptsBounded ==
    ~dash => \A t \in Title \ Leak :
        /\ attempts[t] <= maxReproAttempts
        /\ attempts[t] = maxReproAttempts => t \notin Queued \cup active

\* A queued crash comes to be reproduced: enough VMs are taken from fuzzing.
QueuedReproRuns ==
    \A t \in Titles : phase /\ t \in Queued ~> t \in active \/ shutdown # "open"

\* The loop ends after a shutdown: every VM comes back, also those of running
\* reproductions, and none is started any more.
ShutdownEnds == shutdown = "closed" ~> pc = "end"
=============================================================================
