-------------------------------- MODULE Gate --------------------------------
(***************************************************************************)
(* pkg/ipc/gate.go: the gate every proc of a syz-fuzzer passes around the  *)
(* execution of a program (syz-fuzzer/proc.go, executeRaw).  It hands out  *)
(* the slots of a ring in order, blocks while the next slot is taken, and  *)
(* empties itself around the leak-checking callback f.                     *)
(*                                                                         *)
(* Everything between cv.L.Lock() and cv.L.Unlock() or cv.Wait() is one    *)
(* step, except that the callback, which runs with the lock held, is a     *)
(* step of its own: lock names the proc that is inside f.  A proc sleeping *)
(* in cv.Wait() is "asleep", one that a Broadcast has woken is "awake".    *)
(***************************************************************************)
EXTENDS Integers, FiniteSets

CONSTANTS
    Proc,   \* the goroutines that use the gate (proc.loop of each Proc)
    Slots,  \* c of NewGate, the length of busy: 2 * procs in syz-fuzzer
    HasF,   \* whether NewGate was given a callback (f != nil)
    NoProc

ASSUME SlotsAssumption == Slots \in Nat \ {0}
ASSUME HasFAssumption == HasF \in BOOLEAN
ASSUME NoProcAssumption == NoProc \notin Proc
ASSUME ProcAssumption == IsFiniteSet(Proc)

VARIABLES
    busy,     \* [0 .. Slots-1 -> BOOLEAN]
    pos,      \* the slot the next activity takes
    running,  \* activities inside the gate
    stop,     \* a leaver of slot 0 is draining the gate
    lock,     \* the proc running f under cv.L, or NoProc
    pc,       \* where each proc is
    ticket,   \* the idx Enter returned to it
    broken,   \* some panic("broken gate") was reached
    later,    \* history: activities started since this proc's activity started
    batch     \* history: activities started since f last returned

gateVars == <<busy, pos, running, stop, lock, broken>>
vars == <<busy, pos, running, stop, lock, pc, ticket, broken, later, batch>>

Slot == 0 .. Slots - 1

Place == {"outside", "enterAsleep", "enterAwake", "inside",
          "leaveAsleep", "leaveAwake", "callback"}

\* The procs that hold a slot of the ring.
Inside == {p \in Proc : pc[p] = "inside"}

-----------------------------------------------------------------------------
\* cv.Broadcast(): every sleeper of q is woken.
Broadcast(q) ==
    [p \in Proc |-> CASE q[p] = "enterAsleep" -> "enterAwake"
                      [] q[p] = "leaveAsleep" -> "leaveAwake"
                      [] OTHER -> q[p]]

Init ==
    /\ busy = [s \in Slot |-> FALSE]
    /\ pos = 0
    /\ running = 0
    /\ stop = FALSE
    /\ lock = NoProc
    /\ pc = [p \in Proc |-> "outside"]
    /\ ticket = [p \in Proc |-> 0]
    /\ broken = FALSE
    /\ later = [p \in Proc |-> 0]
    /\ batch = 0

\* A panic ends the process: nothing runs after it.
CanLock == lock = NoProc /\ ~broken

\* Faulty variants of the loop condition: one looks at the concurrency level
\* instead of the next slot, the other does not look at stop.
MayEnter_Level == running < Slots /\ ~stop
MayEnter_NoStop == ~busy[pos]

\* The negation of the loop condition of Enter: the goroutine may go on.
MayEnter == ~busy[pos] /\ ~stop

\* Enter finds the next slot taken, or the gate stopped: cv.Wait().
EnterWait(p) ==
    /\ CanLock
    /\ pc[p] \in {"outside", "enterAwake"}
    /\ ~MayEnter
    /\ pc' = [pc EXCEPT ![p] = "enterAsleep"]
    /\ UNCHANGED <<gateVars, ticket, later, batch>>

\* The slot after pos in the ring.
NextPos == IF pos + 1 >= Slots THEN 0 ELSE pos + 1

\* Enter takes the next slot and returns it.
EnterTake(p) ==
    /\ CanLock
    /\ pc[p] \in {"outside", "enterAwake"}
    /\ MayEnter
    /\ pos' = NextPos
    /\ busy' = [busy EXCEPT ![pos] = TRUE]
    /\ running' = running + 1
    /\ broken' = (running + 1 > Slots)
    /\ pc' = [pc EXCEPT ![p] = "inside"]
    /\ ticket' = [ticket EXCEPT ![p] = pos]
    /\ later' = [q \in Proc |-> IF q = p THEN 0
                                ELSE IF pc[q] = "inside" THEN later[q] + 1 ELSE later[q]]
    /\ batch' = IF HasF THEN batch + 1 ELSE 0
    /\ UNCHANGED <<stop, lock>>

\* The last test of Leave, with the values it has there: whom to wake.
WakeOnLeave(idx, run, stp) == (idx = pos /\ ~stp) \/ (run = 0 /\ stp)

\* The three panics of Leave.
LeaveBroken(p) ==
    \/ ~busy[ticket[p]]
    \/ running - 1 < 0
    \/ ticket[p] = 0 /\ HasF /\ stop

\* Leave of a slot after which no callback is due: the slot is freed.
LeaveSlot(p) ==
    /\ CanLock
    /\ pc[p] = "inside"
    /\ ~(ticket[p] = 0 /\ HasF)
    /\ busy' = [busy EXCEPT ![ticket[p]] = FALSE]
    /\ running' = running - 1
    /\ broken' = LeaveBroken(p)
    /\ LET out == [pc EXCEPT ![p] = "outside"]
       IN  pc' = IF WakeOnLeave(ticket[p], running - 1, stop) THEN Broadcast(out) ELSE out
    /\ ticket' = [ticket EXCEPT ![p] = 0]
    /\ later' = [later EXCEPT ![p] = 0]
    /\ UNCHANGED <<pos, stop, lock, batch>>

\* Faulty variants of the next operator: one does not wait for the other
\* activities, the other waits without stopping the gate.
LeaveFirst_NoWait(p) ==
    /\ CanLock
    /\ pc[p] = "inside"
    /\ ticket[p] = 0 /\ HasF
    /\ busy' = [busy EXCEPT ![0] = FALSE]
    /\ running' = running - 1
    /\ broken' = LeaveBroken(p)
    /\ pc' = [pc EXCEPT ![p] = "callback"]
    /\ lock' = p
    /\ later' = [later EXCEPT ![p] = 0]
    /\ UNCHANGED <<pos, stop, ticket, batch>>
LeaveFirst_NoStop(p) ==
    /\ CanLock
    /\ pc[p] = "inside"
    /\ ticket[p] = 0 /\ HasF
    /\ busy' = [busy EXCEPT ![0] = FALSE]
    /\ running' = running - 1
    /\ broken' = LeaveBroken(p)
    /\ pc' = [pc EXCEPT ![p] = IF running - 1 # 0 THEN "leaveAsleep" ELSE "callback"]
    /\ lock' = IF running - 1 # 0 THEN NoProc ELSE p
    /\ later' = [later EXCEPT ![p] = 0]
    /\ UNCHANGED <<pos, stop, ticket, batch>>

\* Leave of slot 0 with a callback: stop the gate, then wait until it is empty
\* or, if it is, go on to f with the lock held.
LeaveFirst(p) ==
    /\ CanLock
    /\ pc[p] = "inside"
    /\ ticket[p] = 0 /\ HasF
    /\ busy' = [busy EXCEPT ![0] = FALSE]
    /\ running' = running - 1
    /\ broken' = LeaveBroken(p)
    /\ IF running - 1 # 0
       THEN /\ stop' = TRUE
            /\ pc' = [pc EXCEPT ![p] = "leaveAsleep"]
            /\ lock' = NoProc
       ELSE /\ stop' = FALSE
            /\ pc' = [pc EXCEPT ![p] = "callback"]
            /\ lock' = p
    /\ later' = [later EXCEPT ![p] = 0]
    /\ UNCHANGED <<pos, ticket, batch>>

\* The loop of Leave: a woken leaver of slot 0 tests running again.
LeaveRetest(p) ==
    /\ CanLock
    /\ pc[p] = "leaveAwake"
    /\ IF running # 0
       THEN /\ pc' = [pc EXCEPT ![p] = "leaveAsleep"]
            /\ UNCHANGED <<stop, lock>>
       ELSE /\ stop' = FALSE
            /\ pc' = [pc EXCEPT ![p] = "callback"]
            /\ lock' = p
    /\ UNCHANGED <<busy, pos, running, ticket, broken, later, batch>>

\* Faulty variant: nobody is woken after f.
CallbackReturns_Quiet(p) ==
    /\ ~broken
    /\ pc[p] = "callback"
    /\ pc' = [pc EXCEPT ![p] = "outside"]
    /\ lock' = NoProc
    /\ batch' = 0
    /\ UNCHANGED <<busy, pos, running, stop, ticket, broken, later>>

\* f returns; everyone is woken and Leave returns.
CallbackReturns(p) ==
    /\ ~broken
    /\ pc[p] = "callback"
    /\ pc' = Broadcast([pc EXCEPT ![p] = "outside"])
    /\ lock' = NoProc
    /\ batch' = 0
    /\ UNCHANGED <<busy, pos, running, stop, ticket, broken, later>>

ProcStep(p) ==
    \/ EnterWait(p)
    \/ EnterTake(p)
    \/ LeaveSlot(p)
    \/ LeaveFirst(p)
    \/ LeaveRetest(p)
    \/ CallbackReturns(p)

Next == \E p \in Proc : ProcStep(p)

\* A goroutine inside the gate executes one program, which the executor's
\* timeout ends; a goroutine that can take the lock is eventually scheduled.
Fairness == \A p \in Proc : WF_vars(ProcStep(p))

Spec == Init /\ [][Next]_vars /\ Fairness

-----------------------------------------------------------------------------
(* Properties *)

\* Enter keeps pos inside the ring, and every ticket it returns is a slot of it.
TypeOK ==
    /\ busy \in [Slot -> BOOLEAN]
    /\ pos \in Slot
    /\ running \in Int
    /\ stop \in BOOLEAN
    /\ lock \in Proc \cup {NoProc}
    /\ pc \in [Proc -> Place]
    /\ ticket \in [Proc -> Slot]
    /\ broken \in BOOLEAN
    /\ later \in [Proc -> Nat]
    /\ batch \in Nat

\* None of the panic("broken gate") of Enter and Leave is ever reached.
NotBroken == ~broken

\* The concurrency window of the type's comment: while an activity is inside
\* the gate, fewer than c activities start after it, however long it stays.
Window == \A p \in Inside : later[p] < Slots

\* The callback runs while no activity is inside the gate: the procs of an
\* Enter that started before or during f are all still outside (leak checking
\* must not see the memory of a running program).
CallbackAlone == lock # NoProc => Inside = {} /\ running = 0

\* The leak check is never put off for long: between two returns of f fewer
\* than 2c activities start (c of the batch and at most c-1 ahead of the
\* straggler that holds slot 0).
BatchBound == HasF => batch < 2 * Slots

\* No lost wake-up: whoever sleeps in cv.Wait() is woken by a Broadcast.
EverySleeperWoken ==
    \A p \in Proc : /\ pc[p] = "enterAsleep" ~> pc[p] = "enterAwake"
                    /\ pc[p] = "leaveAsleep" ~> pc[p] = "callback"
=============================================================================
