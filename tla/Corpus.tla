------------------------------- MODULE Corpus -------------------------------
(***************************************************************************)
(* The exchange of signal and inputs between the syz-fuzzer processes and  *)
(* syz-manager: syz-fuzzer/fuzzer.go (poll, addInputToCorpus and the       *)
(* signal sets), syz-fuzzer/proc.go (execute, triageInput) and             *)
(* syz-manager/rpc.go (Connect, NewInput, Poll) with fuzzerConnect,        *)
(* minimizeCorpus and newInput of manager.go.                              *)
(*                                                                         *)
(* A program has one call of interest; Real is its signal when executed.   *)
(* What is done under one lock is one step.  A poll is three steps (the    *)
(* request, the handler, the reply), an execution two (checkNewCallSignal  *)
(* gives its lock up between the comparison and the merge), a triage four. *)
(* Candidates and phases of the manager are in module Candidates.  The     *)
(* procs may run before the polls that come first in main are over.        *)
(***************************************************************************)
EXTENDS Signal

CONSTANTS
    Fuzzer,
    Prog,
    Real,        \* [Prog -> Signals]
    Simpler,     \* Simpler[p]: p and the programs prog.Minimize may make of it
    Batch,       \* serv.batchSize
    SplitSize,   \* 500 in Poll
    MaxExec,     \* bound: executions
    MaxCrashes,  \* bound: VM crashes
    MaxGiveUps   \* bound: triages that fail to reproduce the signal

ASSUME ProgAssumption ==
    /\ IsFiniteSet(Prog) /\ Real \in [Prog -> Signals]
    /\ Simpler \in [Prog -> SUBSET Prog] /\ \A p \in Prog : p \in Simpler[p]

VARIABLES
    \* RPCServer and Manager
    maxSignal, corpusSignal,  \* of the server
    corpus,         \* mgr.corpus: [Prog -> Signals], Nil for no input
    lastMinCorpus,
    inputs,         \* inputs[f]: the inputs waiting for f, with their signals
    newMaxSignal,   \* newMaxSignal[f]: the max signal waiting for f
    \* the fuzzers
    state,          \* "down", "connecting" (between the locks of Connect), "up"
    snapshot,       \* the corpus a connecting fuzzer was given
    fMax, fCorpus, fNew,  \* maxSignal, corpusSignal, newSignal of fuzzer f
    hashes,         \* corpusHashes
    running,        \* executions before the merge: [p, diff]
    queue,          \* WorkTriage items
    triaging,       \* [p, new]: items past the test of corpusSignalDiff
    sent,           \* [p, sig]: inputs sent to the manager, not yet in the corpus
    poll,           \* the poll of f: [st |-> "idle" | "request" | "reply", sig, inps]
    execs, crashes, giveUps,
    lost            \* history: programs that left the work of a fuzzer by a crash or a give-up

server == <<maxSignal, corpusSignal, corpus, lastMinCorpus, inputs, newMaxSignal>>
bounds == <<execs, crashes, giveUps>>
vars == <<server, state, snapshot, fMax, fCorpus, fNew, hashes,
          running, queue, triaging, sent, poll, bounds, lost>>

Idle == [st |-> "idle", sig |-> Nil, inps |-> {}]
Present == {p \in Prog : corpus[p] # Nil}
Contexts(c) == [p \in {q \in Prog : c[q] # Nil} |-> c[p]]

Init ==
    /\ maxSignal = Nil /\ corpusSignal = Nil
    /\ corpus = [p \in Prog |-> Nil]
    /\ lastMinCorpus = 0
    /\ inputs = [f \in Fuzzer |-> {}]
    /\ newMaxSignal = [f \in Fuzzer |-> Nil]
    /\ state = [f \in Fuzzer |-> "down"]
    /\ snapshot = [f \in Fuzzer |-> {}]
    /\ fMax = [f \in Fuzzer |-> Nil] /\ fCorpus = fMax /\ fNew = fMax
    /\ hashes = [f \in Fuzzer |-> {}]
    /\ running = hashes /\ queue = hashes /\ triaging = hashes /\ sent = hashes
    /\ poll = [f \in Fuzzer |-> Idle]
    /\ execs = 0 /\ crashes = 0 /\ giveUps = 0 /\ lost = {}

-----------------------------------------------------------------------------
(* Connect *)

\* What minimizeCorpus may make of corpus c.
Minimized(c) ==
    {[p \in Prog |-> IF p \in S THEN c[p] ELSE Nil] : S \in Minimize(Contexts(c))}

\* fuzzerConnect: minimizeCorpus, then a copy of the corpus, under mgr.mu.
ConnectSnapshot(f) ==
    /\ state[f] = "down"
    /\ IF Cardinality(Present) =< (lastMinCorpus * 101) \div 100
       THEN UNCHANGED <<corpus, lastMinCorpus>>
       ELSE /\ corpus' \in Minimized(corpus)
            /\ lastMinCorpus' = Cardinality({p \in Prog : corpus'[p] # Nil})
    /\ snapshot' = [snapshot EXCEPT ![f] = {<<p, corpus'[p]>> : p \in {q \in Prog : corpus'[q] # Nil}}]
    /\ state' = [state EXCEPT ![f] = "connecting"]
    /\ UNCHANGED <<maxSignal, corpusSignal, inputs, newMaxSignal, fMax, fCorpus, fNew,
                   hashes, running, queue, triaging, sent, poll, bounds, lost>>

\* Faulty variant: the fuzzer is registered without the max signal found so far.
ConnectRegister_Empty(f) ==
    /\ state[f] = "connecting"
    /\ inputs' = [inputs EXCEPT ![f] = snapshot[f]]
    /\ newMaxSignal' = [newMaxSignal EXCEPT ![f] = Nil]
    /\ state' = [state EXCEPT ![f] = "up"]
    /\ snapshot' = [snapshot EXCEPT ![f] = {}]
    /\ UNCHANGED <<maxSignal, corpusSignal, corpus, lastMinCorpus, fMax, fCorpus, fNew,
                   hashes, running, queue, triaging, sent, poll, bounds, lost>>

\* The rest of Connect, under serv.mu: the fuzzer is registered.
ConnectRegister(f) ==
    /\ state[f] = "connecting"
    /\ inputs' = [inputs EXCEPT ![f] = snapshot[f]]
    /\ newMaxSignal' = [newMaxSignal EXCEPT ![f] = maxSignal]
    /\ state' = [state EXCEPT ![f] = "up"]
    /\ snapshot' = [snapshot EXCEPT ![f] = {}]
    /\ UNCHANGED <<maxSignal, corpusSignal, corpus, lastMinCorpus, fMax, fCorpus, fNew,
                   hashes, running, queue, triaging, sent, poll, bounds, lost>>

-----------------------------------------------------------------------------
(* Poll *)

\* grabNewSignal; the request is on its way.
PollRequest(f) ==
    /\ state[f] = "up" /\ poll[f].st = "idle"
    /\ poll' = [poll EXCEPT ![f] = [st |-> "request", sig |-> fNew[f], inps |-> {}]]
    /\ fNew' = [fNew EXCEPT ![f] = Nil]
    /\ UNCHANGED <<server, state, snapshot, fMax, fCorpus, hashes,
                   running, queue, triaging, sent, bounds, lost>>

\* The batches of waiting inputs a reply may carry.
Batches(I) == IF Cardinality(I) =< Batch THEN {I} ELSE {S \in SUBSET I : Cardinality(S) = Batch}

\* The fuzzers an entry of serv.fuzzers matters for: that of a fuzzer that died
\* is replaced by its next Connect before anyone reads it.
Registered == {f \in Fuzzer : state[f] = "up"}

\* The handler: new max signal is passed on to the other fuzzers, the reply
\* takes a part of what waits for this one, but no inputs when it carries
\* candidates (module Candidates says when it does).
PollServe(f) ==
    /\ poll[f].st = "request"
    /\ LET d == Diff(maxSignal, poll[f].sig)
       IN  /\ maxSignal' = Merge(maxSignal, d)
           /\ \E sp \in Split(newMaxSignal[f], SplitSize), b \in {{}} \cup Batches(inputs[f]) :
                /\ newMaxSignal' = [g \in Fuzzer |->
                      IF g = f THEN sp[2]
                      ELSE IF g \in Registered THEN Merge(newMaxSignal[g], d)
                      ELSE newMaxSignal[g]]
                /\ inputs' = [inputs EXCEPT ![f] = @ \ b]
                /\ poll' = [poll EXCEPT ![f] = [st |-> "reply", sig |-> sp[1], inps |-> b]]
    /\ UNCHANGED <<corpusSignal, corpus, lastMinCorpus, state, snapshot, fMax, fCorpus, fNew,
                   hashes, running, queue, triaging, sent, bounds, lost>>

\* The signal of a set of pairs (program, signal).
SigOf(I) == [e \in Elem |-> CHOOSE p \in Absent .. MaxPrio :
                /\ p = Absent \/ \E i \in I : i[2][e] = p
                /\ \A i \in I : i[2][e] =< p]

\* addMaxSignal and addInputFromAnotherFuzzer for the reply.
PollApply(f) ==
    /\ poll[f].st = "reply"
    /\ LET s == SigOf(poll[f].inps)
       IN  /\ fMax' = [fMax EXCEPT ![f] = Merge(Merge(@, poll[f].sig), s)]
           /\ fCorpus' = [fCorpus EXCEPT ![f] = Merge(@, s)]
    /\ hashes' = [hashes EXCEPT ![f] = @ \cup {i[1] : i \in poll[f].inps}]
    /\ poll' = [poll EXCEPT ![f] = Idle]
    /\ UNCHANGED <<server, state, snapshot, fNew, running, queue, triaging, sent, bounds, lost>>

-----------------------------------------------------------------------------
(* Execution and triage *)

\* A proc has executed p and compares its signal with maxSignal.
Execute(f, p) ==
    /\ state[f] = "up" /\ execs < MaxExec
    /\ Diff(fMax[f], Real[p]) # Nil
    /\ running' = [running EXCEPT ![f] = @ \cup {[p |-> p, diff |-> Diff(fMax[f], Real[p])]}]
    /\ execs' = execs + 1
    /\ UNCHANGED <<server, state, snapshot, fMax, fCorpus, fNew, hashes,
                   queue, triaging, sent, poll, crashes, giveUps, lost>>

\* Faulty variant: the new signal is not kept for the next poll.
ExecuteMerge_Silent(f, r) ==
    /\ r \in running[f]
    /\ running' = [running EXCEPT ![f] = @ \ {r}]
    /\ fMax' = [fMax EXCEPT ![f] = Merge(@, r.diff)]
    /\ queue' = [queue EXCEPT ![f] = @ \cup {r.p}]
    /\ UNCHANGED <<server, state, snapshot, fCorpus, fNew, hashes, triaging, sent, poll, bounds, lost>>

\* checkNewCallSignal with the lock retaken, and enqueueCallTriage.
ExecuteMerge(f, r) ==
    /\ r \in running[f]
    /\ running' = [running EXCEPT ![f] = @ \ {r}]
    /\ fMax' = [fMax EXCEPT ![f] = Merge(@, r.diff)]
    /\ fNew' = [fNew EXCEPT ![f] = Merge(@, r.diff)]
    /\ queue' = [queue EXCEPT ![f] = @ \cup {r.p}]
    /\ UNCHANGED <<server, state, snapshot, fCorpus, hashes, triaging, sent, poll, bounds, lost>>

\* Faulty variant: the triage looks at maxSignal.
TriageStart_Max(f, p) ==
    /\ p \in queue[f]
    /\ queue' = [queue EXCEPT ![f] = @ \ {p}]
    /\ LET new == Diff(fMax[f], Real[p])
       IN  triaging' = IF new = Nil THEN triaging
                       ELSE [triaging EXCEPT ![f] = @ \cup {[p |-> p, new |-> new]}]
    /\ UNCHANGED <<server, state, snapshot, fMax, fCorpus, fNew, hashes, running, sent, poll, bounds, lost>>

\* triageInput up to the test of the signal that is new to the corpus.
TriageStart(f, p) ==
    /\ p \in queue[f]
    /\ queue' = [queue EXCEPT ![f] = @ \ {p}]
    /\ LET new == Diff(fCorpus[f], Real[p])
       IN  triaging' = IF new = Nil THEN triaging
                       ELSE [triaging EXCEPT ![f] = @ \cup {[p |-> p, new |-> new]}]
    /\ UNCHANGED <<server, state, snapshot, fMax, fCorpus, fNew, hashes, running, sent, poll, bounds, lost>>

\* The signal does not show again in the repeated executions: the item is dropped.
TriageGiveUp(f, t) ==
    /\ t \in triaging[f] /\ giveUps < MaxGiveUps
    /\ giveUps' = giveUps + 1
    /\ triaging' = [triaging EXCEPT ![f] = @ \ {t}]
    /\ lost' = lost \cup {t.p}
    /\ UNCHANGED <<server, state, snapshot, fMax, fCorpus, fNew, hashes,
                   running, queue, sent, poll, execs, crashes>>

\* NewInput of the server for program q with the signal sig from fuzzer f.
NewInput(f, q, sig) ==
    IF Diff(corpusSignal, sig) = Nil
    THEN UNCHANGED <<corpusSignal, corpus, inputs>>
    ELSE /\ corpus' = [corpus EXCEPT ![q] = Merge(sig, @)]
         /\ corpusSignal' = Merge(corpusSignal, Merge(sig, corpus[q]))
         /\ inputs' = [g \in Fuzzer |-> IF g \in Registered \ {f}
                                        THEN inputs[g] \cup {<<q, sig>>} ELSE inputs[g]]

\* The item is minimised, keeping the signal that was new, and sent to the
\* manager with the signal it had before.
TriageSend(f, t, q) ==
    /\ t \in triaging[f]
    /\ q \in Simpler[t.p] /\ SigLen(Intersection(t.new, Real[q])) = SigLen(t.new)
    /\ triaging' = [triaging EXCEPT ![f] = @ \ {t}]
    /\ sent' = [sent EXCEPT ![f] = @ \cup {<<q, Real[t.p]>>}]
    /\ NewInput(f, q, Real[t.p])
    /\ UNCHANGED <<maxSignal, lastMinCorpus, newMaxSignal, state, snapshot, fMax, fCorpus, fNew,
                   hashes, running, queue, poll, bounds, lost>>

\* addInputToCorpus for the own input.
TriageAdd(f, i) ==
    /\ i \in sent[f]
    /\ sent' = [sent EXCEPT ![f] = @ \ {i}]
    /\ hashes' = [hashes EXCEPT ![f] = @ \cup {i[1]}]
    /\ fCorpus' = [fCorpus EXCEPT ![f] = Merge(@, i[2])]
    /\ fMax' = [fMax EXCEPT ![f] = Merge(@, i[2])]
    /\ UNCHANGED <<server, state, snapshot, fNew, running, queue, triaging, poll, bounds, lost>>

\* The programs whose signal f has announced, and has still to bring to the corpus.
InWork(f) == queue[f] \cup {t.p : t \in triaging[f]}

\* The VM crashes: everything the fuzzer had is gone, the next instance connects.
Crash(f) ==
    /\ state[f] # "down" /\ crashes < MaxCrashes
    /\ crashes' = crashes + 1
    /\ state' = [state EXCEPT ![f] = "down"]
    /\ snapshot' = [snapshot EXCEPT ![f] = {}]
    /\ inputs' = [inputs EXCEPT ![f] = {}] /\ newMaxSignal' = [newMaxSignal EXCEPT ![f] = Nil]
    /\ fMax' = [fMax EXCEPT ![f] = Nil] /\ fCorpus' = [fCorpus EXCEPT ![f] = Nil]
    /\ fNew' = [fNew EXCEPT ![f] = Nil] /\ hashes' = [hashes EXCEPT ![f] = {}]
    /\ running' = [running EXCEPT ![f] = {}] /\ queue' = [queue EXCEPT ![f] = {}]
    /\ triaging' = [triaging EXCEPT ![f] = {}] /\ sent' = [sent EXCEPT ![f] = {}]
    /\ poll' = [poll EXCEPT ![f] = Idle]
    /\ lost' = lost \cup InWork(f)
    /\ UNCHANGED <<maxSignal, corpusSignal, corpus, lastMinCorpus, execs, giveUps>>

Steps(f) ==
    \/ ConnectSnapshot(f) \/ ConnectRegister(f)
    \/ PollRequest(f) \/ PollServe(f) \/ PollApply(f)
    \/ \E r \in running[f] : ExecuteMerge(f, r)
    \/ \E p \in queue[f] : TriageStart(f, p)
    \/ \E t \in triaging[f] : TriageGiveUp(f, t) \/ \E q \in Prog : TriageSend(f, t, q)
    \/ \E i \in sent[f] : TriageAdd(f, i)

Next == \E f \in Fuzzer : Steps(f) \/ Crash(f) \/ \E p \in Prog : Execute(f, p)

Spec == Init /\ [][Next]_vars

-----------------------------------------------------------------------------
(* Properties *)

Below(s, t) == \A e \in Elem : s[e] =< t[e]

\* The signal a set of programs, or of work about them, stands for.
RealOf(S) == SigOf({<<p, Real[p]>> : p \in S})

\* Every signal keeps priorities of 0 .. MaxPrio, wherever it was merged.
TypeOK ==
    /\ maxSignal \in Signals /\ corpusSignal \in Signals
    /\ corpus \in [Prog -> Signals]
    /\ \A f \in Fuzzer : /\ {fMax[f], fCorpus[f], fNew[f], newMaxSignal[f], poll[f].sig} \subseteq Signals
                         /\ inputs[f] \cup snapshot[f] \cup sent[f] \cup poll[f].inps \subseteq Prog \X Signals
                         /\ hashes[f] \cup queue[f] \subseteq Prog
    /\ lastMinCorpus \in 0 .. Cardinality(Prog)

\* No max signal is lost on the way to a fuzzer: what the manager knows, the
\* fuzzer knows, or it waits in newMaxSignal or in the reply of a poll.
MaxSignalReaches ==
    \A f \in Registered :
        Below(maxSignal, Merge(Merge(fMax[f], newMaxSignal[f]),
                               IF poll[f].st = "reply" THEN poll[f].sig ELSE Nil))

\* No max signal is lost on the way from a fuzzer: what it found and does not
\* hold back for its next poll is known to the manager, as max or corpus signal.
NewSignalReported ==
    \A f \in Registered :
        Below(fMax[f], Merge(Merge(maxSignal, corpusSignal),
                             Merge(fNew[f], IF poll[f].st = "request" THEN poll[f].sig ELSE Nil)))

\* minimizeCorpus keeps, for every element of corpusSignal, an input that was
\* sent with the highest priority of that element.
CorpusClaimsSignal == Below(corpusSignal, SigOf({<<p, corpus[p]>> : p \in Present}))

\* Signal is never lost but with a VM: what the manager tells every fuzzer to ignore
\* is in the corpus, or a program that gives it is still to be triaged in a registered
\* fuzzer, or that program was waiting for its triage in a VM that crashed, or did not
\* show the signal again in its triage.  (The comment on WorkQueue, workqueue.go, puts
\* triage first "in order to not permanently lose interesting programs in case of VM
\* crash".  Order only shortens the wait: what is in lost, and nothing else, can be
\* ignored by every fuzzer for ever.)
LossAccounted ==
    Below(maxSignal, Merge(corpusSignal, RealOf(lost \cup UNION {InWork(f) : f \in Registered})))
=============================================================================
