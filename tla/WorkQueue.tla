----------------------------- MODULE WorkQueue ------------------------------
(***************************************************************************)
(* The work queue of a syz-fuzzer process (workqueue.go), the procs that   *)
(* take work from it (proc.go, loop) and the goroutine that refills it     *)
(* from the manager (fuzzer.go, pollLoop), woken through needPoll.         *)
(*                                                                         *)
(* dequeue is three steps: the test under RLock, the choice under Lock,    *)
(* the send on needPoll after Unlock.  A work item is the name of its      *)
(* program; the kind of work is the queue it is in.  A program that gives  *)
(* new signal to several calls is enqueued once.  WorkBoot is left out:    *)
(* nothing enqueues it.                                                    *)
(***************************************************************************)
EXTENDS Integers, FiniteSets, Sequences, Functions

CONSTANTS
    Proc,
    Candidates, \* the candidates of the manager, taken from the end
    Tasks,      \* the dependency tasks of the server, the next one last
    Found,      \* bound: the programs with new signal that the executions may come to
    Batch       \* serv.batchSize, and the tasks of the two calls of GetTasks

Procs == Cardinality(Proc)
Candidate == Range(Candidates)
Task == Range(Tasks)
Item == Candidate \cup Task \cup Found
\* In the order of dequeue; dequeueDependency comes last.
Kinds == <<"high", "triageCandidate", "candidate", "triage", "smash", "dependency">>
None == "none"
ASSUME ProcAssumption == IsFiniteSet(Proc) /\ Proc # {}
ASSUME SeqAssumption == Candidates \in Seq(Candidate) /\ Tasks \in Seq(Task)
ASSUME ItemAssumption ==
    /\ None \notin Item /\ Batch \in Nat \ {0}
    /\ IsInjective(Candidates) /\ IsInjective(Tasks)
    /\ Candidate \cap (Task \cup Found) = {} /\ Task \cap Found = {}

VARIABLES
    wq,        \* wq[kind]: the slices of WorkQueue
    pc, item,  \* proc p: "loop", "lock", "send", "dependency", "run"; its item
    work,      \* the kind of the item p has
    needPoll,  \* messages in the channel, capacity 1
    poller,    \* "select", "check", "call", "tasks"
    poll,      \* what woke the poller: TRUE for needPoll, FALSE for the ticker
    need,      \* needCandidates
    manager, server,  \* the candidates and the tasks not yet handed out
    fresh,     \* the programs not yet found
    done       \* items whose work is finished

procs == <<pc, item, work>>
polling == <<poller, poll, need>>
vars == <<wq, procs, needPoll, polling, manager, server, fresh, done>>

\* What one reply takes from the end of s, the last one first, and what it leaves.
Left(s) == SubSeq(s, 1, IF Len(s) < Batch THEN 0 ELSE Len(s) - Batch)
Taken(s) == [i \in 1 .. Len(s) - Len(Left(s)) |-> s[Len(s) - i + 1]]

\* The procs start after a first poll, which asks for candidates.
Init ==
    /\ wq = [k \in Range(Kinds) |-> IF k = "candidate" THEN Taken(Candidates) ELSE <<>>]
    /\ manager = Left(Candidates)
    /\ pc = [p \in Proc |-> "loop"] /\ item = [p \in Proc |-> None] /\ work = [p \in Proc |-> None]
    /\ needPoll = 1
    /\ poller = "select" /\ poll = FALSE /\ need = FALSE
    /\ server = Tasks /\ fresh = Found
    /\ done = {}

-----------------------------------------------------------------------------
(* WorkQueue *)

Enqueue(k, x) == wq' = [wq EXCEPT ![k] = Append(@, x)]
Empty == \A k \in Range(Kinds) \ {"dependency"} : wq[k] = <<>>
\* The queue dequeue takes from.
First(k) == \E i \in 1 .. 5 : k = Kinds[i] /\ wq[k] # <<>> /\ \A j \in 1 .. i - 1 : wq[Kinds[j]] = <<>>
Give(p, k) ==
    /\ item' = [item EXCEPT ![p] = wq[k][Len(wq[k])]]
    /\ work' = [work EXCEPT ![p] = k]
    /\ wq' = [wq EXCEPT ![k] = SubSeq(@, 1, Len(@) - 1)]

\* wantCandidates after the last element of q was taken.  The faulty variant
\* only reports that the queue falls below the number of procs.
Wants_Edge(q) == Len(q) = Procs
Wants(q) == Len(q) - 1 < Procs

\* dequeue up to RUnlock.
Dequeue(p) ==
    /\ pc[p] = "loop"
    /\ pc' = [pc EXCEPT ![p] = IF Empty THEN "dependency" ELSE "lock"]
    /\ UNCHANGED <<wq, item, work, needPoll, polling, manager, server, fresh, done>>

\* Faulty variant: the item chosen is not removed under the lock it is read with.
DequeueLocked_Peek(p) ==
    /\ pc[p] = "lock"
    /\ \E k \in Range(Kinds) :
          /\ First(k)
          /\ item' = [item EXCEPT ![p] = wq[k][Len(wq[k])]]
          /\ work' = [work EXCEPT ![p] = k]
          /\ pc' = [pc EXCEPT ![p] = "send"]
    /\ UNCHANGED <<wq, needPoll, polling, manager, server, fresh, done>>

\* dequeue from Lock to Unlock: another proc may have taken all there was.
DequeueLocked(p) ==
    /\ pc[p] = "lock"
    /\ IF Empty
       THEN pc' = [pc EXCEPT ![p] = "dependency"] /\ UNCHANGED <<wq, item, work>>
       ELSE \E k \in Range(Kinds) :
              /\ First(k)
              /\ Give(p, k)
              /\ pc' = [pc EXCEPT ![p] = IF k = "candidate" /\ Wants(wq[k]) THEN "send" ELSE "run"]
    /\ UNCHANGED <<needPoll, polling, manager, server, fresh, done>>

\* The send that does not block.
SendNeed(p) ==
    /\ pc[p] = "send"
    /\ needPoll' = 1
    /\ pc' = [pc EXCEPT ![p] = "run"]
    /\ UNCHANGED <<wq, item, work, polling, manager, server, fresh, done>>

\* Faulty variant, commented out in loop: a task is taken by chance only.
DequeueDependency_Chance(p) ==
    /\ pc[p] = "dependency"
    /\ \/ /\ wq["dependency"] # <<>>
          /\ Give(p, "dependency")
          /\ pc' = [pc EXCEPT ![p] = "run"]
       \/ /\ pc' = [pc EXCEPT ![p] = "loop"]
          /\ UNCHANGED <<wq, item, work>>
    /\ UNCHANGED <<needPoll, polling, manager, server, fresh, done>>

\* execute comes to a program with signal that nobody had: enqueueCallTriage.
Finds == \E x \in fresh : Enqueue("triage", x) /\ fresh' = fresh \ {x}

\* dequeueDependency; without a task the proc generates or mutates a program and
\* executes it.
DequeueDependency(p) ==
    /\ pc[p] = "dependency"
    /\ IF wq["dependency"] # <<>>
       THEN /\ Give(p, "dependency")
            /\ pc' = [pc EXCEPT ![p] = "run"]
            /\ UNCHANGED fresh
       ELSE /\ pc' = [pc EXCEPT ![p] = "loop"]
            /\ UNCHANGED <<wq, fresh>> \/ Finds
            /\ UNCHANGED <<item, work>>
    /\ UNCHANGED <<needPoll, polling, manager, server, done>>

\* Faulty variant: what was triaged is enqueued to be triaged.
Follows_Again(k) ==
    CASE k = "candidate" -> {None, "triageCandidate"}
      [] k \in {"triageCandidate", "triage"} -> {None, k}
      [] OTHER -> {None}

\* One of the programs that the work on an item executes has new signal: the
\* minimisation and checkInput of a triage, the mutants and hints of a smash, the
\* programs of a task.  A candidate executes no program but its own.
Execute(p) ==
    /\ pc[p] = "run" /\ work[p] # "candidate"
    /\ Finds
    /\ UNCHANGED <<procs, needPoll, polling, manager, server, done>>

\* What the work on an item of kind k enqueues it for, None if nothing.
Follows(k) ==
    CASE k = "candidate" -> {None, "triageCandidate"}           \* execute
      [] k \in {"triageCandidate", "triage"} -> {None, "smash"} \* triageInput
      [] OTHER -> {None}                                        \* smashInput, dependency

\* The work on an item ends.
Run(p) ==
    /\ pc[p] = "run"
    /\ \E k \in Follows(work[p]) :
          IF k = None
          THEN done' = done \cup {item[p]} /\ UNCHANGED wq
          ELSE Enqueue(k, item[p]) /\ UNCHANGED done
    /\ pc' = [pc EXCEPT ![p] = "loop"]
    /\ item' = [item EXCEPT ![p] = None] /\ work' = [work EXCEPT ![p] = None]
    /\ UNCHANGED <<needPoll, polling, manager, server, fresh>>

-----------------------------------------------------------------------------
(* pollLoop *)

\* select: a message in needPoll, or the ticker (ten seconds after a dry poll).
Select ==
    /\ poller = "select"
    /\ \/ needPoll = 1 /\ needPoll' = 0 /\ poll' = TRUE
       \/ poll' = FALSE /\ UNCHANGED needPoll
    /\ poller' = "check"
    /\ UNCHANGED <<wq, procs, need, manager, server, fresh, done>>

\* wantCandidates; a wake-up through needPoll that is out of date is dropped.
CheckNeed ==
    /\ poller = "check"
    /\ need' = (Len(wq["candidate"]) < Procs)
    /\ poller' = IF poll /\ ~need' THEN "select" ELSE "call"
    /\ poll' = FALSE
    /\ UNCHANGED <<wq, procs, needPoll, manager, server, fresh, done>>

\* poll: the reply's candidates are enqueued.
Poll ==
    /\ poller = "call"
    /\ IF ~need
       THEN UNCHANGED <<wq, manager>>
       ELSE /\ wq' = [wq EXCEPT !["candidate"] = @ \o Taken(manager)]
            /\ manager' = Left(manager)
    /\ poller' = "tasks" /\ need' = FALSE
    /\ UNCHANGED <<procs, needPoll, poll, server, fresh, done>>

\* The calls of GetTasks: a batch of tasks of TaskKind_High or TaskKind_Normal.
GetTasks ==
    /\ poller = "tasks"
    /\ \E k \in {"high", "dependency"} : wq' = [wq EXCEPT ![k] = @ \o Taken(server)]
    /\ server' = Left(server)
    /\ poller' = "select"
    /\ UNCHANGED <<procs, needPoll, poll, need, manager, fresh, done>>

ProcNext(p) ==
    \/ Dequeue(p) \/ DequeueLocked(p) \/ SendNeed(p) \/ DequeueDependency(p)
    \/ Execute(p) \/ Run(p)
PollerNext == Select \/ CheckNeed \/ Poll \/ GetTasks
Next == PollerNext \/ \E p \in Proc : ProcNext(p)

Spec == Init /\ [][Next]_vars

\* Every goroutine gets to run; the ticker is not relied on to wake the poller
\* for candidates, so Select is fair for a message in needPoll only.
Fairness ==
    /\ \A p \in Proc : WF_vars(ProcNext(p))
    /\ WF_vars(Select /\ poll') /\ WF_vars(CheckNeed \/ Poll \/ GetTasks)
LiveSpec == Spec /\ Fairness

-----------------------------------------------------------------------------
\* Queues hold items, a proc holds an item exactly while it works on it, and
\* needPoll never holds more than its capacity.
TypeOK ==
    /\ wq \in [Range(Kinds) -> Seq(Item)]
    /\ pc \in [Proc -> {"loop", "lock", "send", "dependency", "run"}]
    /\ item \in [Proc -> Item \cup {None}] /\ work \in [Proc -> Range(Kinds) \cup {None}]
    /\ \A p \in Proc : IF pc[p] \in {"send", "run"} THEN item[p] # None /\ work[p] # None
                                                 ELSE item[p] = None /\ work[p] = None
    /\ manager \in Seq(Candidate) /\ server \in Seq(Task) /\ fresh \subseteq Found
    /\ done \subseteq Item
    /\ needPoll \in 0 .. 1
    /\ poller \in {"select", "check", "call", "tasks"} /\ poll \in BOOLEAN /\ need \in BOOLEAN

\* The places item x is in: not yet handed out, each place of a queue, each proc
\* that works on it, done.
Places(x) ==
    {<<"out", 0>> : y \in {x} \cap (Range(manager) \cup Range(server) \cup fresh)}
    \cup {<<"done", 0>> : y \in {x} \cap done}
    \cup (UNION {{<<k, i>> : i \in {j \in DOMAIN wq[k] : wq[k][j] = x}} : k \in Range(Kinds)})
    \cup {<<"proc", p>> : p \in {q \in Proc : item[q] = x}}

\* However the procs interleave between RUnlock and Lock of dequeue, no item of
\* work is lost and none is given to two procs.
WorkConserved == \A x \in Item : Cardinality(Places(x)) = 1

\* The fuzzer never sits without candidates while the manager still has some and
\* nobody has taken the trouble to ask: a wake-up is in needPoll or about to be
\* sent, or the poller is on its way with a request for candidates.
NoLostWakeup ==
    wq["candidate"] = <<>> /\ manager # <<>> =>
        \/ needPoll = 1
        \/ \E p \in Proc : pc[p] = "send"
        \/ poller = "check"
        \/ poller = "call" /\ need

\* All candidates of the manager are fetched and worked off, without the ticker.
CandidatesDone == <>(Candidate \subseteq done)

\* A task that was fetched is run in the end, although all other kinds of work come
\* first, and work makes more work: what a triage, a smash or a task finds is
\* triaged and smashed, and may find more.  It runs out because new signal does
\* (Found is finite).
TasksRun == \A x \in Task : (x \notin Range(server)) ~> (x \in done)
=============================================================================
