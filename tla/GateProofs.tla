----------------------------- MODULE GateProofs -----------------------------
(***************************************************************************)
(* The safety of the gate for any number of procs and slots.               *)
(***************************************************************************)
EXTENDS Gate, FiniteSetTheorems, TLAPS

USE ZenonT(30)

Leaving == {"leaveAsleep", "leaveAwake"}

\* The ring: every busy slot belongs to one activity, and pos is ahead of an
\* activity's slot by the number of activities started after it.
RingInv ==
    /\ \A p, q \in Inside : ticket[p] = ticket[q] => p = q
    /\ \A s \in Slot : busy[s] <=> \E p \in Inside : ticket[p] = s
    /\ running = Cardinality(Inside)
    /\ \A p \in Inside :
          /\ later[p] < Slots
          /\ \/ pos = ticket[p] + 1 + later[p]
             \/ pos = ticket[p] + 1 + later[p] - Slots

\* The drain: stop is set while one leaver of slot 0 waits, during which slot 0
\* stays free; the lock is kept only by a proc inside f, when the ring is empty.
DrainInv ==
    /\ stop <=> \E p \in Proc : pc[p] \in Leaving
    /\ \A p, q \in Proc : pc[p] \in Leaving /\ pc[q] \in Leaving => p = q
    /\ stop => ~busy[0]
    /\ \A p \in Proc : pc[p] = "callback" <=> lock = p
    /\ lock # NoProc => Inside = {} /\ ~stop

\* The batch: it is counted by pos until slot 0 is taken again, and by the
\* activity in slot 0 from then on.
BatchInv ==
    HasF => /\ batch < 2 * Slots
            /\ ~busy[0] /\ ~stop /\ lock = NoProc
                  => batch < Slots /\ (pos # 0 => batch < pos)
            /\ \A p \in Inside : ticket[p] = 0 => batch =< Slots + later[p]

\* The inductive invariant of the gate.
GateInv == TypeOK /\ ~broken /\ RingInv /\ DrainInv /\ BatchInv

-----------------------------------------------------------------------------
\* The procs inside the gate are finitely many, in every state.
LEMMA InsideFinite ==
    /\ IsFiniteSet(Inside)
    /\ Cardinality(Inside) \in Nat
<1>1. Inside \in SUBSET Proc
  BY DEF Inside
<1> QED
  BY <1>1, ProcAssumption, FS_Subset, FS_CardinalityType

\* Tickets being distinct, no more activities are inside than there are slots.
LEMMA InsideBound ==
    ASSUME NEW I \in SUBSET Proc, NEW t \in [Proc -> Slot],
           \A p, q \in I : t[p] = t[q] => p = q
    PROVE  Cardinality(I) =< Slots
<1> DEFINE f == [p \in I |-> t[p]]
<1>1. f \in Injection(I, Slot)
  BY DEF Injection, IsInjective
<1>2. IsFiniteSet(Slot) /\ Cardinality(Slot) = Slots
  <2>1. 0 \in Int /\ Slots - 1 \in Int /\ ~(0 > Slots - 1)
    BY SlotsAssumption, SMTT(60)
  <2>2. IsFiniteSet(0 .. Slots - 1) /\ Cardinality(0 .. Slots - 1) = (Slots - 1) - 0 + 1
    BY <2>1, FS_Interval
  <2> QED
    BY <2>2, SlotsAssumption, SMTT(60) DEF Slot
<1> QED
  BY <1>1, <1>2, FS_Injection

\* Broadcast changes only where the sleepers are.
LEMMA BroadcastFacts ==
    ASSUME NEW q \in [Proc -> Place]
    PROVE  /\ Broadcast(q) \in [Proc -> Place]
           /\ \A p \in Proc :
                 /\ (Broadcast(q)[p] = "inside") <=> (q[p] = "inside")
                 /\ (Broadcast(q)[p] = "callback") <=> (q[p] = "callback")
                 /\ (Broadcast(q)[p] \in Leaving) <=> (q[p] \in Leaving)
<1>1. \A p \in Proc : Broadcast(q)[p] = CASE q[p] = "enterAsleep" -> "enterAwake"
                                          [] q[p] = "leaveAsleep" -> "leaveAwake"
                                          [] OTHER -> q[p]
  BY DEF Broadcast
<1>2. \A p \in Proc : q[p] \in Place
  OBVIOUS
<1>3. Broadcast(q) \in [Proc -> Place]
  BY <1>1, <1>2 DEF Broadcast, Place
<1> QED
  BY <1>1, <1>2, <1>3 DEF Leaving, Place

\* The gate starts empty.
LEMMA GateInit == Init => GateInv
<1> SUFFICES ASSUME Init PROVE GateInv
  OBVIOUS
<1>1. Inside = {}
  BY DEF Init, Inside
<1>2. TypeOK
  <2>1. 0 \in Slot
    BY SlotsAssumption, SMTT(60) DEF Slot
  <2>2. pc \in [Proc -> Place] /\ ticket \in [Proc -> Slot] /\ later \in [Proc -> Nat]
    BY <2>1 DEF Init, Place
  <2>3. busy \in [Slot -> BOOLEAN] /\ pos \in Slot /\ running \in Int /\ batch \in Nat
    BY <2>1, SMTT(60) DEF Init
  <2>4. stop \in BOOLEAN /\ broken \in BOOLEAN /\ lock \in Proc \cup {NoProc}
    BY DEF Init
  <2> QED
    BY <2>2, <2>3, <2>4 DEF TypeOK
<1>3. RingInv
  BY <1>1, FS_EmptySet DEF Init, RingInv
<1>4. DrainInv
  BY <1>1, NoProcAssumption, SlotsAssumption DEF Init, DrainInv, Leaving, Slot
<1>5. BatchInv
  BY <1>1, SlotsAssumption, SMTT(60) DEF Init, BatchInv, Slot
<1> QED
  BY <1>2, <1>3, <1>4, <1>5 DEF GateInv, Init

\* A proc that goes to sleep in Enter holds nothing.
LEMMA EnterWaitStep ==
    ASSUME GateInv, NEW p \in Proc, EnterWait(p)
    PROVE  GateInv'
<1> USE DEF GateInv
<1>1. pc' = [pc EXCEPT ![p] = "enterAsleep"] /\ pc[p] \in {"outside", "enterAwake"}
  BY DEF EnterWait
<1>2. UNCHANGED <<busy, pos, running, stop, lock, broken, ticket, later, batch>>
  BY DEF EnterWait, gateVars
<1>3. TypeOK'
  BY <1>1, <1>2 DEF TypeOK, Place
<1>4. /\ Inside' = Inside
      /\ \A q \in Proc : (pc'[q] \in Leaving) <=> (pc[q] \in Leaving)
      /\ \A q \in Proc : (pc'[q] = "callback") <=> (pc[q] = "callback")
  BY <1>1 DEF TypeOK, Inside, Leaving
<1>5. RingInv'
  BY <1>2, <1>4 DEF RingInv
<1>6. DrainInv'
  BY <1>2, <1>4 DEF DrainInv
<1>7. BatchInv'
  BY <1>2, <1>4 DEF BatchInv
<1> QED
  BY <1>2, <1>3, <1>5, <1>6, <1>7

\* The entering activity takes a free slot; pos stays ahead of every other
\* activity's slot by less than a turn, because the slot at pos was free.
LEMMA EnterTakeStep ==
    ASSUME GateInv, NEW p \in Proc, EnterTake(p)
    PROVE  GateInv'
<1> USE DEF GateInv
<1>1. /\ pc[p] \in {"outside", "enterAwake"}
      /\ ~busy[pos] /\ ~stop /\ lock = NoProc
      /\ pos' = IF pos + 1 >= Slots THEN 0 ELSE pos + 1
      /\ busy' = [busy EXCEPT ![pos] = TRUE]
      /\ running' = running + 1
      /\ broken' = (running + 1 > Slots)
      /\ pc' = [pc EXCEPT ![p] = "inside"]
      /\ ticket' = [ticket EXCEPT ![p] = pos]
      /\ later' = [q \in Proc |-> IF q = p THEN 0
                                 ELSE IF pc[q] = "inside" THEN later[q] + 1 ELSE later[q]]
      /\ batch' = IF HasF THEN batch + 1 ELSE 0
      /\ UNCHANGED <<stop, lock>>
  BY DEF EnterTake, NextPos, MayEnter, CanLock
<1>2. pos' \in Slot /\ pos \in Slot
  BY <1>1, SlotsAssumption, SMTT(60) DEF TypeOK, Slot
<1>3. p \notin Inside /\ Inside' = Inside \cup {p}
  BY <1>1 DEF TypeOK, Inside
<1>4. /\ ticket'[p] = pos /\ later'[p] = 0
      /\ \A q \in Inside : q # p /\ ticket'[q] = ticket[q] /\ later'[q] = later[q] + 1
      /\ \A q \in Inside : q \in Proc /\ ticket[q] \in Slot /\ later[q] \in Nat
  BY <1>1, <1>3 DEF TypeOK, Inside
<1>5. \A q \in Inside : ticket[q] # pos
  BY <1>1, <1>2 DEF RingInv
<1>6. \A q \in Inside : later[q] + 1 < Slots
  <2> SUFFICES ASSUME NEW q \in Inside PROVE later[q] + 1 < Slots
    OBVIOUS
  <2>1. later[q] < Slots /\ (pos = ticket[q] + 1 + later[q] \/ pos = ticket[q] + 1 + later[q] - Slots)
    BY DEF RingInv
  <2> QED
    BY <2>1, <1>2, <1>4, <1>5, SlotsAssumption, SMTT(60) DEF Slot
<1>7. \A x, y \in Inside' : ticket'[x] = ticket'[y] => x = y
  BY <1>3, <1>4, <1>5, SMTT(60) DEF RingInv
<1>8. ticket' \in [Proc -> Slot]
  BY <1>1, <1>2 DEF TypeOK
<1>9. Cardinality(Inside') = running + 1
  BY <1>3, InsideFinite, FS_AddElement DEF RingInv
<1>10. Cardinality(Inside') =< Slots
  <2>1. Inside' \in SUBSET Proc
    BY DEF Inside
  <2> QED
    BY <2>1, <1>7, <1>8, InsideBound
<1>11. ~broken'
  BY <1>1, <1>9, <1>10, SlotsAssumption, SMTT(60) DEF TypeOK
<1>12. TypeOK'
  <2>1. later' \in [Proc -> Nat] /\ batch' \in Nat /\ running' \in Int
    BY <1>1, SMTT(60) DEF TypeOK
  <2>2. pc' \in [Proc -> Place] /\ busy' \in [Slot -> BOOLEAN]
    BY <1>1 DEF TypeOK, Place
  <2> QED
    BY <1>1, <1>2, <1>8, <1>11, <2>1, <2>2, SMTT(60) DEF TypeOK
<1>13. RingInv'
  <2>1. \A s \in Slot : busy'[s] <=> \E q \in Inside' : ticket'[q] = s
    BY <1>1, <1>2, <1>3, <1>4, SMTT(60) DEF RingInv, TypeOK
  <2>2. \A q \in Inside : pos' = ticket[q] + 1 + (later[q] + 1) \/ pos' = ticket[q] + 1 + (later[q] + 1) - Slots
    <3> SUFFICES ASSUME NEW q \in Inside
                 PROVE  pos' = ticket[q] + 1 + (later[q] + 1) \/ pos' = ticket[q] + 1 + (later[q] + 1) - Slots
      OBVIOUS
    <3>1. pos = ticket[q] + 1 + later[q] \/ pos = ticket[q] + 1 + later[q] - Slots
      BY DEF RingInv
    <3> QED
      BY <3>1, <1>1, <1>2, <1>4, <1>5, <1>6, SlotsAssumption, SMTT(60) DEF Slot
  <2>3. pos' = pos + 1 \/ pos' = pos + 1 - Slots
    BY <1>1, <1>2, SlotsAssumption, SMTT(60) DEF Slot
  <2>4. \A q \in Inside' :
           /\ later'[q] < Slots
           /\ pos' = ticket'[q] + 1 + later'[q] \/ pos' = ticket'[q] + 1 + later'[q] - Slots
    <3> SUFFICES ASSUME NEW q \in Inside'
                 PROVE  /\ later'[q] < Slots
                        /\ pos' = ticket'[q] + 1 + later'[q] \/ pos' = ticket'[q] + 1 + later'[q] - Slots
      OBVIOUS
    <3>1. CASE q = p
      BY <3>1, <1>4, <2>3, <1>2, SlotsAssumption, SMTT(60) DEF Slot
    <3>2. CASE q \in Inside
      BY <3>2, <1>4, <1>6, <2>2
    <3> QED
      BY <3>1, <3>2, <1>3
  <2> QED
    BY <1>1, <1>7, <1>9, <2>1, <2>4 DEF RingInv
<1>14. DrainInv'
  <2>1. \A q \in Proc : ((pc'[q] \in Leaving) <=> (pc[q] \in Leaving)) /\ ((pc'[q] = "callback") <=> (pc[q] = "callback"))
    BY <1>1 DEF TypeOK, Leaving
  <2> QED
    BY <1>1, <2>1 DEF DrainInv, TypeOK
<1>15. BatchInv'
  <2> SUFFICES ASSUME HasF
               PROVE  /\ batch' < 2 * Slots
                      /\ ~busy'[0] => batch' < Slots /\ (pos' # 0 => batch' < pos')
                      /\ \A q \in Inside' : ticket'[q] = 0 => batch' =< Slots + later'[q]
    BY DEF BatchInv
  <2>1. batch \in Nat /\ batch' = batch + 1 /\ 0 \in Slot
    BY <1>1, SlotsAssumption, SMTT(60) DEF TypeOK, Slot
  <2>2. CASE busy[0]
    <3>1. PICK z \in Inside : ticket[z] = 0
      BY <2>1, <2>2 DEF RingInv
    <3>2. batch =< Slots + later[z] /\ pos # 0
      BY <3>1, <2>2, <1>1 DEF BatchInv
    <3>3. busy'[0]
      BY <2>1, <2>2, <1>1, <1>2, <3>2 DEF TypeOK
    <3>4. \A q \in Inside' : ticket'[q] = 0 => q = z
      BY <1>3, <1>4, <3>1, <3>2, SMTT(60) DEF RingInv
    <3> QED
      BY <2>1, <3>1, <3>2, <3>3, <3>4, <1>4, <1>6, SlotsAssumption, SMTT(60)
  <2>3. CASE ~busy[0] /\ pos = 0
    <3>1. batch < Slots /\ busy'[0]
      BY <2>1, <2>3, <1>1, <1>2 DEF BatchInv, TypeOK
    <3>2. \A q \in Inside' : ticket'[q] = 0 => q = p
      BY <1>3, <1>4, <1>5, <2>3
    <3> QED
      BY <2>1, <3>1, <3>2, <1>4, SlotsAssumption, SMTT(60)
  <2>4. CASE ~busy[0] /\ pos # 0
    <3>1. batch < pos /\ batch < Slots
      BY <2>4, <1>1 DEF BatchInv
    <3>2. \A q \in Inside' : ticket'[q] # 0
      BY <1>3, <1>4, <2>1, <2>4 DEF RingInv
    <3> QED
      BY <2>1, <3>1, <3>2, <1>1, <1>2, SlotsAssumption, SMTT(60) DEF Slot
  <2> QED
    BY <2>2, <2>3, <2>4
<1> QED
  BY <1>11, <1>12, <1>13, <1>14, <1>15

\* What both ways out of the ring do to it: the activity's slot is freed and
\* nothing else changes, so that the panics of Leave are not reached.
LEMMA LeavingRing ==
    ASSUME TypeOK, ~broken, RingInv, DrainInv,
           NEW p \in Proc, pc[p] = "inside",
           busy' = [busy EXCEPT ![ticket[p]] = FALSE],
           running' = running - 1,
           UNCHANGED pos,
           Inside' = Inside \ {p},
           \A q \in Inside \ {p} : ticket'[q] = ticket[q] /\ later'[q] = later[q]
    PROVE  RingInv' /\ ~LeaveBroken(p) /\ (running - 1 = 0 => Inside' = {})
<1>1. p \in Inside /\ ticket[p] \in Slot /\ busy[ticket[p]]
  BY DEF TypeOK, Inside, RingInv
<1>2. /\ Cardinality(Inside') = running - 1 /\ running - 1 \in Nat
      /\ running - 1 = 0 => Inside' = {}
  <2>1. Cardinality(Inside \ {p}) = Cardinality(Inside) - 1 /\ IsFiniteSet(Inside \ {p})
    BY <1>1, InsideFinite, FS_RemoveElement
  <2>2. Cardinality(Inside \ {p}) \in Nat /\ (Cardinality(Inside \ {p}) = 0 => Inside \ {p} = {})
    BY <2>1, FS_CardinalityType, FS_EmptySet
  <2> QED
    BY <2>1, <2>2 DEF RingInv
<1>3. ~LeaveBroken(p)
  <2>1. ~(ticket[p] = 0 /\ stop)
    BY <1>1 DEF DrainInv
  <2>2. ~(running - 1 < 0)
    BY <1>2, SMTT(60)
  <2> QED
    BY <1>1, <2>1, <2>2 DEF LeaveBroken
<1>4. \A s \in Slot : busy'[s] <=> \E q \in Inside' : ticket'[q] = s
  <2> SUFFICES ASSUME NEW s \in Slot
               PROVE  busy'[s] <=> \E q \in Inside' : ticket'[q] = s
    OBVIOUS
  <2>1. CASE s = ticket[p]
    BY <2>1, <1>1, SMTT(60) DEF RingInv, TypeOK
  <2>2. CASE s # ticket[p]
    BY <2>2, <1>1, SMTT(60) DEF RingInv, TypeOK
  <2> QED
    BY <2>1, <2>2
<1>5. /\ \A x, y \in Inside' : ticket'[x] = ticket'[y] => x = y
      /\ \A q \in Inside' : later'[q] < Slots
      /\ \A q \in Inside' : pos' = ticket'[q] + 1 + later'[q] \/ pos' = ticket'[q] + 1 + later'[q] - Slots
  BY SMTT(60) DEF RingInv
<1> QED
  BY <1>2, <1>3, <1>4, <1>5 DEF RingInv

\* Leave of a slot without callback.
LEMMA LeaveSlotStep ==
    ASSUME GateInv, NEW p \in Proc, LeaveSlot(p)
    PROVE  GateInv'
<1> USE DEF GateInv
<1> DEFINE out == [pc EXCEPT ![p] = "outside"]
<1>1. /\ pc[p] = "inside" /\ lock = NoProc
      /\ ~(ticket[p] = 0 /\ HasF)
      /\ busy' = [busy EXCEPT ![ticket[p]] = FALSE]
      /\ running' = running - 1
      /\ broken' = LeaveBroken(p)
      /\ pc' = out \/ pc' = Broadcast(out)
      /\ ticket' = [ticket EXCEPT ![p] = 0]
      /\ later' = [later EXCEPT ![p] = 0]
      /\ UNCHANGED <<pos, stop, lock, batch>>
  BY DEF LeaveSlot, CanLock
<1>2. out \in [Proc -> Place]
  BY DEF TypeOK, Place
<1> HIDE DEF out
<1>3. /\ pc' \in [Proc -> Place]
      /\ \A q \in Proc :
            /\ (pc'[q] = "inside") <=> (out[q] = "inside")
            /\ (pc'[q] = "callback") <=> (out[q] = "callback")
            /\ (pc'[q] \in Leaving) <=> (out[q] \in Leaving)
  <2>1. CASE pc' = out
    BY <2>1, <1>2
  <2>2. CASE pc' = Broadcast(out)
    BY <2>2, <1>2, BroadcastFacts
  <2> QED
    BY <1>1, <2>1, <2>2
<1>4. \A q \in Proc : out[q] = IF q = p THEN "outside" ELSE pc[q]
  BY DEF out, TypeOK
<1>5. /\ Inside' = Inside \ {p}
      /\ \A q \in Proc : (pc'[q] \in Leaving) <=> (pc[q] \in Leaving)
      /\ \A q \in Proc : (pc'[q] = "callback") <=> (pc[q] = "callback")
  BY <1>1, <1>3, <1>4 DEF Inside, Leaving
<1>6. \A q \in Inside \ {p} : ticket'[q] = ticket[q] /\ later'[q] = later[q]
  BY <1>1 DEF TypeOK, Inside
<1>7. RingInv' /\ ~broken'
  BY <1>1, <1>5, <1>6, LeavingRing
<1>8. TypeOK'
  <2>1. 0 \in Slot /\ ticket[p] \in Slot
    BY SlotsAssumption, SMTT(60) DEF TypeOK, Slot
  <2>2. running' \in Int /\ busy' \in [Slot -> BOOLEAN]
    BY <1>1, <2>1, SMTT(60) DEF TypeOK
  <2>3. ticket' \in [Proc -> Slot] /\ later' \in [Proc -> Nat]
    BY <1>1, <2>1 DEF TypeOK
  <2>4. broken' \in BOOLEAN
    BY <1>1 DEF LeaveBroken
  <2> QED
    BY <1>1, <1>3, <2>2, <2>3, <2>4 DEF TypeOK
<1>9. busy'[0] => busy[0]
  BY <1>1, SlotsAssumption, SMTT(60) DEF TypeOK, Slot
<1>10. DrainInv'
  BY <1>1, <1>5, <1>9 DEF DrainInv
<1>11. BatchInv'
  <2>1. HasF => (busy[0] <=> busy'[0])
    BY <1>1, SlotsAssumption, SMTT(60) DEF TypeOK, Slot
  <2> QED
    BY <1>1, <1>5, <1>6, <2>1 DEF BatchInv
<1> QED
  BY <1>7, <1>8, <1>10, <1>11

\* Leave of slot 0 before a callback: the leaver becomes the only one that
\* drains the gate, or finds the gate empty.
LEMMA LeaveFirstStep ==
    ASSUME GateInv, NEW p \in Proc, LeaveFirst(p)
    PROVE  GateInv'
<1> USE DEF GateInv
<1>1. /\ pc[p] = "inside" /\ lock = NoProc
      /\ ticket[p] = 0 /\ HasF
      /\ busy' = [busy EXCEPT ![ticket[p]] = FALSE]
      /\ running' = running - 1
      /\ broken' = LeaveBroken(p)
      /\ later' = [later EXCEPT ![p] = 0]
      /\ UNCHANGED <<pos, ticket, batch>>
  BY DEF LeaveFirst, CanLock
<1>2. \/ running - 1 # 0 /\ stop' = TRUE /\ pc' = [pc EXCEPT ![p] = "leaveAsleep"] /\ lock' = NoProc
      \/ running - 1 = 0 /\ stop' = FALSE /\ pc' = [pc EXCEPT ![p] = "callback"] /\ lock' = p
  BY DEF LeaveFirst
<1>3. Inside' = Inside \ {p}
  BY <1>2 DEF TypeOK, Inside
<1>4. \A q \in Inside \ {p} : ticket'[q] = ticket[q] /\ later'[q] = later[q]
  BY <1>1 DEF TypeOK, Inside
<1>5. RingInv' /\ ~broken' /\ (running - 1 = 0 => Inside' = {})
  BY <1>1, <1>3, <1>4, LeavingRing
<1>6. ~stop /\ \A q \in Proc : pc[q] \notin Leaving
  <2>1. p \in Inside /\ 0 \in Slot /\ busy[0]
    BY <1>1, SlotsAssumption, SMTT(60) DEF Inside, RingInv, Slot
  <2> QED
    BY <2>1 DEF DrainInv
<1>7. TypeOK'
  <2>1. 0 \in Slot
    BY SlotsAssumption, SMTT(60) DEF Slot
  <2>2. running' \in Int /\ busy' \in [Slot -> BOOLEAN] /\ later' \in [Proc -> Nat]
    BY <1>1, <2>1, SMTT(60) DEF TypeOK
  <2>3. pc' \in [Proc -> Place]
    BY <1>2 DEF TypeOK, Place
  <2>4. stop' \in BOOLEAN /\ lock' \in Proc \cup {NoProc} /\ broken' \in BOOLEAN
    BY <1>1, <1>2 DEF LeaveBroken
  <2> QED
    BY <1>1, <2>2, <2>3, <2>4 DEF TypeOK
<1>8. ~busy'[0]
  BY <1>1, SlotsAssumption DEF TypeOK, Slot
<1>9. \A q \in Inside' : ticket'[q] # 0
  BY <1>1, <1>3 DEF RingInv, Inside
<1>10. DrainInv'
  <2>1. CASE running - 1 # 0
    <3>1. \A q \in Proc : (pc'[q] \in Leaving) <=> (q = p)
      BY <1>2, <2>1, <1>6 DEF TypeOK, Leaving
    <3>2. \A q \in Proc : pc'[q] # "callback" /\ lock' # q
      BY <1>1, <1>2, <2>1, NoProcAssumption DEF TypeOK, DrainInv
    <3> QED
      BY <1>2, <2>1, <1>8, <3>1, <3>2 DEF DrainInv
  <2>2. CASE running - 1 = 0
    <3>1. \A q \in Proc : pc'[q] \notin Leaving
      BY <1>2, <2>2, <1>6 DEF TypeOK, Leaving
    <3>2. \A q \in Proc : (pc'[q] = "callback") <=> (lock' = q)
      BY <1>1, <1>2, <2>2, NoProcAssumption DEF TypeOK, DrainInv
    <3> QED
      BY <1>2, <2>2, <1>5, <1>8, <3>1, <3>2 DEF DrainInv
  <2> QED
    BY <2>1, <2>2
<1>11. BatchInv'
  <2>1. stop' \/ lock' # NoProc
    BY <1>2, NoProcAssumption
  <2> QED
    BY <2>1, <1>1, <1>9 DEF BatchInv
<1> QED
  BY <1>5, <1>7, <1>10, <1>11

\* The woken leaver finds the gate empty and keeps the lock, or sleeps again.
LEMMA LeaveRetestStep ==
    ASSUME GateInv, NEW p \in Proc, LeaveRetest(p)
    PROVE  GateInv'
<1> USE DEF GateInv
<1>1. /\ pc[p] = "leaveAwake" /\ lock = NoProc
      /\ UNCHANGED <<busy, pos, running, ticket, broken, later, batch>>
  BY DEF LeaveRetest, CanLock
<1>2. \/ running # 0 /\ pc' = [pc EXCEPT ![p] = "leaveAsleep"] /\ stop' = stop /\ lock' = lock
      \/ running = 0 /\ stop' = FALSE /\ pc' = [pc EXCEPT ![p] = "callback"] /\ lock' = p
  BY DEF LeaveRetest
<1>3. Inside' = Inside
  BY <1>1, <1>2 DEF TypeOK, Inside
<1>4. running = 0 => Inside = {}
  BY InsideFinite, FS_EmptySet DEF RingInv
<1>5. TypeOK'
  <2>1. pc' \in [Proc -> Place]
    BY <1>2 DEF TypeOK, Place
  <2>2. stop' \in BOOLEAN /\ lock' \in Proc \cup {NoProc}
    BY <1>1, <1>2 DEF TypeOK
  <2> QED
    BY <1>1, <2>1, <2>2 DEF TypeOK
<1>6. RingInv'
  BY <1>1, <1>3 DEF RingInv
<1>7. stop /\ \A q \in Proc : pc[q] \in Leaving => q = p
  BY <1>1 DEF DrainInv, Leaving
<1>8. DrainInv'
  <2>1. CASE running # 0
    <3>1. \A q \in Proc : (pc'[q] \in Leaving) <=> (q = p)
      BY <1>1, <1>2, <2>1, <1>7 DEF TypeOK, Leaving
    <3>2. \A q \in Proc : pc'[q] # "callback" /\ lock' # q
      BY <1>1, <1>2, <2>1, NoProcAssumption DEF TypeOK, DrainInv
    <3> QED
      BY <1>1, <1>2, <1>7, <2>1, <3>1, <3>2 DEF DrainInv
  <2>2. CASE running = 0
    <3>1. \A q \in Proc : pc'[q] \notin Leaving
      BY <1>2, <2>2, <1>7 DEF TypeOK, Leaving
    <3>2. \A q \in Proc : (pc'[q] = "callback") <=> (lock' = q)
      BY <1>1, <1>2, <2>2, NoProcAssumption, SMTT(60) DEF TypeOK, DrainInv
    <3> QED
      BY <1>1, <1>2, <1>3, <1>4, <2>2, <3>1, <3>2 DEF DrainInv
  <2> QED
    BY <2>1, <2>2
<1>9. BatchInv'
  <2>1. stop' \/ lock' # NoProc
    BY <1>2, <1>7, NoProcAssumption
  <2> QED
    BY <2>1, <1>1, <1>3 DEF BatchInv
<1> QED
  BY <1>1, <1>5, <1>6, <1>8, <1>9

\* The callback returns with the ring empty: a new batch begins.
LEMMA CallbackReturnsStep ==
    ASSUME GateInv, NEW p \in Proc, CallbackReturns(p)
    PROVE  GateInv'
<1> USE DEF GateInv
<1> DEFINE out == [pc EXCEPT ![p] = "outside"]
<1>1. /\ pc[p] = "callback" /\ pc' = Broadcast(out) /\ lock' = NoProc /\ batch' = 0
      /\ UNCHANGED <<busy, pos, running, stop, ticket, broken, later>>
  BY DEF CallbackReturns
<1>2. out \in [Proc -> Place]
  BY DEF TypeOK, Place
<1> HIDE DEF out
<1>3. /\ pc' \in [Proc -> Place]
      /\ \A q \in Proc :
            /\ (pc'[q] = "inside") <=> (out[q] = "inside")
            /\ (pc'[q] = "callback") <=> (out[q] = "callback")
            /\ (pc'[q] \in Leaving) <=> (out[q] \in Leaving)
  BY <1>1, <1>2, BroadcastFacts, SMTT(60)
<1>4. \A q \in Proc : out[q] = IF q = p THEN "outside" ELSE pc[q]
  BY DEF out, TypeOK
<1>5. /\ Inside' = Inside
      /\ \A q \in Proc : (pc'[q] \in Leaving) <=> (pc[q] \in Leaving)
  BY <1>1, <1>3, <1>4 DEF Inside, Leaving
<1>6. lock = p /\ Inside = {}
  BY <1>1, NoProcAssumption DEF DrainInv
<1>7. \A q \in Proc : pc'[q] # "callback" /\ lock' # q
  BY <1>1, <1>3, <1>4, <1>6, NoProcAssumption DEF DrainInv
<1>8. TypeOK'
  BY <1>1, <1>3 DEF TypeOK
<1>9. RingInv'
  BY <1>1, <1>5 DEF RingInv
<1>10. DrainInv'
  BY <1>1, <1>5, <1>7 DEF DrainInv
<1>11. BatchInv'
  BY <1>1, <1>5, <1>6, SlotsAssumption, SMTT(60) DEF BatchInv, TypeOK, Slot
<1> QED
  BY <1>1, <1>8, <1>9, <1>10, <1>11

\* Every step of every proc keeps the invariant.
LEMMA GateStep == GateInv /\ [Next]_vars => GateInv'
<1> SUFFICES ASSUME GateInv, [Next]_vars PROVE GateInv'
  OBVIOUS
<1>1. CASE UNCHANGED vars
  BY <1>1, SMTT(60) DEF vars, GateInv, TypeOK, RingInv, DrainInv, BatchInv, Inside
<1>2. ASSUME NEW p \in Proc, ProcStep(p) PROVE GateInv'
  BY <1>2, EnterWaitStep, EnterTakeStep, LeaveSlotStep, LeaveFirstStep,
     LeaveRetestStep, CallbackReturnsStep DEF ProcStep
<1> QED
  BY <1>1, <1>2 DEF Next

\* The invariant gives each of the properties that TLC checks.
LEMMA GateInvImplies == GateInv => NotBroken /\ Window /\ CallbackAlone /\ BatchBound
BY FS_EmptySet DEF GateInv, NotBroken, Window, CallbackAlone, BatchBound,
                   RingInv, DrainInv, BatchInv

\* The gate keeps its types, for every number of procs and slots.
THEOREM GateTypeOK == Spec => []TypeOK
<1>1. GateInv => TypeOK
  BY DEF GateInv
<1> QED
  BY <1>1, GateInit, GateStep, PTL DEF Spec

\* None of the panic("broken gate") of Enter and Leave is reachable.
THEOREM GateNotBroken == Spec => []NotBroken
BY GateInit, GateStep, GateInvImplies, PTL DEF Spec

\* The concurrency window: fewer than c activities start during one activity.
THEOREM GateWindow == Spec => []Window
BY GateInit, GateStep, GateInvImplies, PTL DEF Spec

\* The leak check never runs beside an activity.
THEOREM GateCallbackAlone == Spec => []CallbackAlone
BY GateInit, GateStep, GateInvImplies, PTL DEF Spec

\* Fewer than 2c activities start between two leak checks.
THEOREM GateBatchBound == Spec => []BatchBound
BY GateInit, GateStep, GateInvImplies, PTL DEF Spec
=============================================================================
