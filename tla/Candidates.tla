----------------------------- MODULE Candidates -----------------------------
(***************************************************************************)
(* The life of the persistent corpus in syz-manager: loadCorpus turns the  *)
(* records of corpus.db into candidates, Poll hands them to the fuzzers,   *)
(* NewInput brings back what a triage found worth keeping, minimizeCorpus  *)
(* deletes the records that are not, and the phase of the manager decides  *)
(* when.  Fuzzers and the manager crash; the records on disk survive.      *)
(* An input is kept with the signal it was sent with, which is that of the *)
(* program before its minimisation.  A Flush may fail, which is only       *)
(* logged.  Torn writes are in module Db, the signal exchange in Corpus.   *)
(***************************************************************************)
EXTENDS Signal, Sequences, Functions

CONSTANTS
    Fuzzer,
    Prog,
    Real,         \* [Prog -> Signals]
    Simpler,      \* Simpler[p]: p and the programs prog.Minimize may make of it
    Broken,       \* programs that no longer deserialize
    Configs,      \* how the manager is started: [disabled: programs with a disabled syscall,
                  \* hub: HubClient # ""]
    FirstDb,      \* the records at the first start
    FirstVersion, \* the version of the database then
    HubProgs,     \* the programs the hub has
    BatchSize, Procs,
    MaxCrashes, MaxRestarts, MaxFinds, MaxHub   \* bounds

ASSUME CandidateAssumption ==
    /\ IsFiniteSet(Prog)
    /\ Real \in [Prog -> Signals] /\ FirstDb \subseteq Prog /\ Broken \subseteq Prog
    /\ Configs \subseteq [disabled : SUBSET Prog, hub : BOOLEAN]
    /\ HubProgs \subseteq Prog \ Broken /\ FirstVersion \in Nat
    /\ BatchSize \in Nat \ {0} /\ Procs \in Nat \ {0}
    /\ Simpler \in [Prog -> SUBSET Prog]
    /\ \A p \in Prog, q \in Prog : q \in Simpler[p] => \A c \in Configs : q \in c.disabled => p \in c.disabled

phaseInit == 0
phaseLoadedCorpus == 1
phaseTriagedCorpus == 2
phaseQueriedHub == 3
phaseTriagedHub == 4
currentDBVersion == 3

VARIABLES
    config,          \* the configuration of this manager process
    disk, db,        \* corpusDB: the file, Records
    fileVersion, version,  \* the version in the file, corpusDB.Version
    unflushed,       \* the last write failed: what is pending waits for the next one
    phase, lastMinCorpus, disabledHashes, corpusSignal,
    candidates,      \* sequence of [prog, minimized]
    corpus,          \* [Prog -> Signals]: the inputs with the signals sent, Nil for no input
    hub,             \* the hubSyncLoop goroutine: "off", "sleep", "sync"
    fuzzer,          \* fuzzer[f]: "down", "check" (connected, no CheckResult), "up"
    cached,          \* cached[f]: candidates in the work queue of f
    loaded, handed,  \* history: programs loadCorpus made candidates, copies handed out
    crashes, restarts, finds, hubs

manager == <<phase, candidates, corpus, lastMinCorpus, disabledHashes, corpusSignal>>
history == <<loaded, handed>>
bounds == <<crashes, restarts, finds, hubs>>
database == <<disk, db, fileVersion, version, unflushed>>
vars == <<config, database, manager, hub, fuzzer, cached, history, bounds>>

Init ==
    /\ config \in Configs
    /\ disk = FirstDb /\ db = FirstDb /\ unflushed = FALSE
    /\ fileVersion = FirstVersion /\ version = FirstVersion
    /\ phase = phaseInit /\ candidates = <<>> /\ corpus = [p \in Prog |-> Nil] /\ lastMinCorpus = 0
    /\ disabledHashes = {} /\ corpusSignal = Nil /\ hub = "off"
    /\ fuzzer = [f \in Fuzzer |-> "down"] /\ cached = [f \in Fuzzer |-> <<>>]
    /\ loaded = {} /\ handed = [p \in Prog |-> 0]
    /\ crashes = 0 /\ restarts = 0 /\ finds = 0 /\ hubs = 0

-----------------------------------------------------------------------------
\* The orders a slice with the elements of S may have.
Orders(S) == Injection(1 .. Cardinality(S), S)

\* The programs that corpus c has.
Present(c) == {p \in Prog : c[p] # Nil}

\* corpusDB.compact after the change of Records: all of it is written, or nothing if
\* there is an error, which the callers of Flush and BumpVersion ignore.
Written == disk' = db' /\ unflushed' = FALSE
Failed == UNCHANGED <<disk, fileVersion>> /\ unflushed' = (db' # disk)
compact == (Written /\ fileVersion' = version') \/ Failed

\* corpusDB.Flush: if most of the file is garbage compact, else append what is pending.
Flush == compact \/ (Written /\ UNCHANGED fileVersion)

BumpVersion ==
    /\ version' = currentDBVersion
    /\ compact \/ (version = currentDBVersion /\ Flush)

\* The records minimizeCorpus keeps, given the new corpus.  The faulty variant
\* forgets about the programs that were not loaded.
Kept_NoDisabled(newCorpus) == db \cap newCorpus
Kept(newCorpus) == db \cap (newCorpus \cup disabledHashes)

\* Inputs are compared by the signals they were sent with.
minimizeCorpus ==
    IF phase < phaseLoadedCorpus \/ Cardinality(Present(corpus)) =< (lastMinCorpus * 101) \div 100
    THEN UNCHANGED <<corpus, lastMinCorpus, database>>
    ELSE \E newCorpus \in Minimize([p \in Present(corpus) |-> corpus[p]]) :
            /\ corpus' = [p \in Prog |-> IF p \in newCorpus THEN corpus[p] ELSE Nil]
            /\ lastMinCorpus' = Cardinality(newCorpus)
            /\ IF phase < phaseTriagedCorpus
               THEN UNCHANGED database
               ELSE db' = Kept(newCorpus) /\ BumpVersion

\* RPCServer.Connect.  The fuzzer is given a CheckResult if there is one.
Connect(f) ==
    /\ fuzzer[f] = "down"
    /\ minimizeCorpus
    /\ fuzzer' = [fuzzer EXCEPT ![f] = IF phase = phaseInit THEN "check" ELSE "up"]
    /\ UNCHANGED <<config, phase, candidates, disabledHashes, corpusSignal, hub,
                   cached, loaded, handed, bounds>>

\* The records loadCorpus makes candidates.
Loadable(records) == records \ (Broken \cup config.disabled)

\* Programs of a database of version 0 or 1 are minimised again.
Minimized == version >= 2
Marked(S, minimized) == {[prog |-> p, minimized |-> minimized] : p \in S}

\* RPCServer.Check: the first one loads the corpus, twice, the second copy shuffled.
Check(f) ==
    /\ fuzzer[f] = "check"
    /\ fuzzer' = [fuzzer EXCEPT ![f] = "up"]
    /\ IF phase # phaseInit
       THEN UNCHANGED <<db, disabledHashes, candidates, loaded, phase>>
       ELSE /\ db' = db \ Broken
            /\ disabledHashes' = db' \cap config.disabled
            /\ loaded' = Loadable(db)
            /\ \E s, t \in Orders(Marked(loaded', Minimized)) : candidates' = s \o t
            /\ phase' = phaseLoadedCorpus
    /\ UNCHANGED <<config, disk, fileVersion, version, unflushed, corpus, lastMinCorpus, corpusSignal,
                   hub, cached, handed, bounds>>

\* The phase once candidateBatch has emptied the queue.
NextPhase ==
    CASE phase = phaseLoadedCorpus -> IF config.hub THEN phaseTriagedCorpus ELSE phaseTriagedHub
      [] phase = phaseQueriedHub -> phaseTriagedHub
      [] OTHER -> phase

\* Faulty variant: the phase advances when a batch reaches the first copies.
Emptied_Half(rest) == Len(rest) =< Cardinality(db \ config.disabled)
\* candidateBatch: `rest` is what is left of the queue.
Emptied(rest) == rest = <<>>

\* RPCServer.Poll with NeedCandidates: candidateBatch takes from the end.
Poll(f) ==
    /\ fuzzer[f] = "up" /\ Len(cached[f]) < Procs
    /\ LET n == IF Len(candidates) < BatchSize THEN Len(candidates) ELSE BatchSize
           rest == SubSeq(candidates, 1, Len(candidates) - n)
           batch == SubSeq(candidates, Len(candidates) - n + 1, Len(candidates))
       IN  /\ candidates' = rest
           /\ cached' = [cached EXCEPT ![f] = @ \o batch]
           /\ handed' = [p \in Prog |->
                 handed[p] + Cardinality({i \in DOMAIN batch : batch[i].prog = p})]
           /\ phase' = IF Emptied(rest) THEN NextPhase ELSE phase
           /\ hub' = IF phase' = phaseTriagedCorpus /\ phase # phase' THEN "sleep" ELSE hub
    /\ UNCHANGED <<config, database, corpus, lastMinCorpus, disabledHashes, corpusSignal,
                   fuzzer, loaded, bounds>>

input == <<corpus, corpusSignal, database>>

\* newInput: Save and Flush unless the corpus has q, whose signals are merged.  The
\* faulty variant takes a program it once handed out for saved.
newInput_Loaded(q, sig) ==
    /\ corpus' = [corpus EXCEPT ![q] = Merge(sig, @)]
    /\ IF handed[q] > 0 THEN UNCHANGED database
       ELSE db' = db \cup {q} /\ UNCHANGED version /\ Flush
newInput(q, sig) ==
    /\ corpus' = [corpus EXCEPT ![q] = Merge(sig, @)]
    /\ IF corpus[q] # Nil THEN UNCHANGED database
       ELSE db' = db \cup {q} /\ UNCHANGED version /\ Flush

\* RPCServer.NewInput for program q with signal sig (newInput has merged into sig).
NewInput(q, sig) ==
    IF q \in Broken \/ Diff(corpusSignal, sig) = Nil THEN UNCHANGED input
    ELSE newInput(q, sig) /\ corpusSignal' = Merge(corpusSignal, Merge(sig, corpus[q]))

\* What triageInput may make of p: a program that keeps the signal new to the corpus
\* of the fuzzer (more than what is new to the manager, whose corpus is ahead).
Smaller(p) ==
    {q \in Simpler[p] : LET new == Diff(corpusSignal, Real[p])
                        IN  SigLen(Intersection(new, Real[q])) = SigLen(new)}

\* A fuzzer executes and triages a candidate; the signal may not reproduce.  What is
\* not minimised yet is, and is sent with the signal from before.
Triage(f) ==
    /\ \E i \in DOMAIN cached[f] :
          LET c == cached[f][i]
          IN  /\ cached' = [cached EXCEPT ![f] = SubSeq(@, 1, i - 1) \o SubSeq(@, i + 1, Len(@))]
              /\ \/ \E q \in IF c.minimized THEN {c.prog} ELSE Smaller(c.prog) : NewInput(q, Real[c.prog])
                 \/ UNCHANGED input
    /\ UNCHANGED <<config, phase, candidates, lastMinCorpus, disabledHashes, hub, fuzzer,
                   loaded, handed, bounds>>

\* A fuzzer finds p itself.
Find(f, p) ==
    /\ fuzzer[f] = "up" /\ finds < MaxFinds /\ p \notin config.disabled \cup Broken
    /\ \E q \in Smaller(p) : NewInput(q, Real[p])
    /\ finds' = finds + 1
    /\ UNCHANGED <<config, phase, candidates, lastMinCorpus, disabledHashes, hub, fuzzer,
                   cached, loaded, handed, crashes, restarts, hubs>>

-----------------------------------------------------------------------------
(* HubConnector.loop *)

\* getMinimizedCorpus; the connection may fail.
HubWake ==
    /\ hub = "sleep"
    /\ minimizeCorpus
    /\ hub' \in {"sleep", "sync"}
    /\ UNCHANGED <<config, phase, candidates, disabledHashes, corpusSignal, fuzzer, cached,
                   loaded, handed, bounds>>

\* addNewCandidates, for a reply with programs S.  The faulty variant ignores an
\* empty reply.
HubPhase_NonEmpty(S) ==
    IF phase = phaseTriagedCorpus /\ S # {} THEN phaseQueriedHub ELSE phase
HubPhase(S) == IF phase = phaseTriagedCorpus THEN phaseQueriedHub ELSE phase

\* sync: one reply of Hub.Sync with programs s, more to come unless s is empty.
HubReceive ==
    /\ hub = "sync"
    /\ \E S \in {{}} \cup (IF hubs < MaxHub THEN SUBSET (HubProgs \ config.disabled) ELSE {}) :
          \E s \in Orders(Marked(S, FALSE)) :
            /\ candidates' = candidates \o s
            /\ hub' = IF S = {} THEN "sleep" ELSE "sync"
            /\ hubs' = IF S = {} THEN hubs ELSE hubs + 1
            /\ phase' = HubPhase(S)
    /\ UNCHANGED <<config, database, corpus, lastMinCorpus, disabledHashes, corpusSignal,
                   fuzzer, cached, history, crashes, restarts, finds>>

HubFail ==
    /\ hub = "sync"
    /\ hub' = "sleep"
    /\ UNCHANGED <<config, database, manager, fuzzer, cached, history, bounds>>

-----------------------------------------------------------------------------
\* A VM crashes: the fuzzer loses its cached candidates.
Crash(f) ==
    /\ fuzzer[f] # "down" /\ crashes < MaxCrashes
    /\ crashes' = crashes + 1
    /\ fuzzer' = [fuzzer EXCEPT ![f] = "down"]
    /\ cached' = [cached EXCEPT ![f] = <<>>]
    /\ UNCHANGED <<config, database, manager, hub, history, restarts, finds, hubs>>

\* The manager ends, or is killed, and is started again: db.Open reads the file.
Restart ==
    /\ restarts < MaxRestarts
    /\ restarts' = restarts + 1
    /\ config' \in Configs
    /\ db' = disk /\ version' = fileVersion /\ unflushed' = FALSE
    /\ phase' = phaseInit /\ candidates' = <<>> /\ corpus' = [p \in Prog |-> Nil] /\ lastMinCorpus' = 0
    /\ disabledHashes' = {} /\ corpusSignal' = Nil /\ hub' = "off"
    /\ fuzzer' = [f \in Fuzzer |-> "down"] /\ cached' = [f \in Fuzzer |-> <<>>]
    /\ loaded' = {} /\ handed' = [p \in Prog |-> 0]
    /\ UNCHANGED <<disk, fileVersion, crashes, finds, hubs>>

Next ==
    \/ \E f \in Fuzzer : Connect(f) \/ Check(f) \/ Poll(f) \/ Triage(f) \/ Crash(f)
    \/ \E f \in Fuzzer, p \in Prog : Find(f, p)
    \/ HubWake \/ HubReceive \/ HubFail \/ Restart

Spec == Init /\ [][Next]_vars

\* While fuzzers can do something of their own, one of them goes on: it is restarted, polls
\* in a loop or works on its queue.  The hub can be reached again and again
\* (HubConnector.loop retries every minute).
Fairness ==
    /\ WF_vars(\E f \in Fuzzer : Connect(f) \/ Check(f) \/ Poll(f) \/ Triage(f))
    /\ SF_vars(HubWake /\ hub' = "sync") /\ SF_vars(HubReceive)
LiveSpec == Spec /\ Fairness

-----------------------------------------------------------------------------
\* Nothing that cannot be run in this configuration is handed out or kept in the
\* corpus, and the database has in memory only what it has on disk, unless the last
\* Flush failed.
TypeOK ==
    /\ phase \in phaseInit .. phaseTriagedHub
    /\ config \in Configs /\ db \subseteq Prog /\ disk \subseteq Prog
    /\ fileVersion \in Nat /\ version \in Nat /\ unflushed \in BOOLEAN /\ (db \subseteq disk \/ unflushed)
    /\ {c.prog : c \in Range(candidates)} \subseteq Prog \ (Broken \cup config.disabled)
    /\ corpus \in [Prog -> Signals] /\ Present(corpus) \subseteq Prog \ (Broken \cup config.disabled)
    /\ disabledHashes \subseteq config.disabled /\ corpusSignal \in Signals
    /\ hub \in {"off", "sleep", "sync"} /\ (hub # "off" => config.hub)
    /\ fuzzer \in [Fuzzer -> {"down", "check", "up"}]
    /\ \A f \in Fuzzer : {c.prog : c \in Range(cached[f])} \subseteq Prog \ (Broken \cup config.disabled)

\* Every element of corpusSignal is claimed by an input of the corpus with a record:
\* NewInput saves a program before its signal counts, and minimizeCorpus deletes only
\* records whose claims others have.  The record is on disk, or the last Flush failed
\* and the next one has still to write it.  (A claim is the signal the input was sent
\* with.  Its program was minimised since, and may give less, so that minimizeCorpus
\* can delete the only program that gives an element.)
ClaimsSurvive ==
    \A e \in Elem : corpusSignal[e] # Absent =>
        \E p \in db : corpus[p][e] >= corpusSignal[e] /\ (p \in disk \/ unflushed)

\* A program with a disabled syscall stays in the database, whatever
\* minimizeCorpus deletes, for the configurations that can run it.
DisabledKept == [][(db \cap config.disabled) \ Broken \subseteq disk']_vars

\* minimizeCorpus deletes no persistent records "until fuzzers have triaged all
\* inputs", which the code takes to be when every loaded program has been handed
\* out twice (the second chance loadCorpus gives a candidate that a crashing
\* fuzzer lost or whose signal was flaky).
HandedTwice ==
    phase >= phaseTriagedCorpus => \A p \in loaded : handed[p] >= 2

\* The manager always gets back to the phase in which it reproduces crashes.
ReproPhaseReached == []<>(phase = phaseTriagedHub)
=============================================================================
