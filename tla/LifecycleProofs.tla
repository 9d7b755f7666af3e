-------------------------- MODULE LifecycleProofs --------------------------
(***************************************************************************)
(* Proofs about Lifecycle, for any flows, host threads, workers, names and *)
(* quotas.  Types adds to TypeOK which of a thread's locals name flows at  *)
(* which position, and FinInv adds to FinalizedOnce that only finalize has *)
(* a work list.  The second part is about the relations of flows: what the *)
(* tables of Relations keep, and that links and monitors survive every     *)
(* race of requests, roll-backs and exits; LinkInv and MonInv add to the   *)
(* two properties whose ids a thread has in hand.                          *)
(***************************************************************************)
EXTENDS Lifecycle, TLAPS

\* a leaf is left to Zenon unless it names SMT
USE ZenonT(40)

-----------------------------------------------------------------------------
(* Types *)

\* the positions at which a thread's f, its to, or both, name flows
OnFlow == (HandlerPc \ {"kill_set", "kill_take"}) \cup ParkPc \cup FinPc
SelfPc == {"sig_self", "sig_trap", "sig_exit"}
HasTarget == {"link_insert", "confirm_a", "confirm_b", "link_undo", "mon_create", "mon_check",
              "mon_undo", "mon_down", "sig_self", "sig_trap", "sig_exit", "kill_set",
              "kill_take", "fin_exit", "fin_kill", "fin_take"}

Pcs == {"runnable", "ready", "parked", "taken", "gone"} \cup HandlerPc \cup ParkPc \cup FinPc

Sound(t, r) ==
  /\ r \in ThreadRec
  /\ r.pc \in OnFlow => r.f \in Flow
  /\ r.pc \in HasTarget => r.to \in Flow
  /\ r.pc \in SelfPc => r.f = t

ThreadsSound == \A t \in Thread : Sound(t, th[t])

Types == TypeOK /\ ThreadsSound

\* The constructors of thread records.
LEMMA ReadyFacts ==
  ASSUME NEW x \in Thread
  PROVE  /\ Ready(x) \in ThreadRec
         /\ Ready(x) = [pc |-> "ready", f |-> x, to |-> x, id |-> 0, alive |-> TRUE,
                        reason |-> "normal", rows |-> {}, work |-> << >>]
         /\ \A t : Sound(t, Ready(x))
<1>1. << >> \in Seq(Flow)
  BY SMTT(30)
<1>2. Ready(x) \in ThreadRec
  BY <1>1 DEF Ready, ThreadRec, Reason
<1>3. Ready(x).pc = "ready"
  BY DEF Ready
<1> QED
  BY <1>2, <1>3 DEF Ready, Sound, OnFlow, HasTarget, SelfPc, HandlerPc, ParkPc, FinPc

LEMMA RunnableFacts ==
  ASSUME NEW x \in Flow, NEW t
  PROVE  Sound(t, Runnable(x))
<1>1. x \in Thread
  BY DEF Thread
<1>2. Runnable(x) \in ThreadRec /\ Runnable(x).pc = "runnable"
  BY <1>1, ReadyFacts, SMTT(30) DEF Runnable, ThreadRec
<1> QED
  BY <1>2 DEF Sound, OnFlow, HasTarget, SelfPc, HandlerPc, ParkPc, FinPc

LEMMA FinalizingFacts ==
  ASSUME NEW x \in Flow, NEW reason \in Reason, NEW t
  PROVE  /\ Sound(t, Finalizing(x, reason))
         /\ Finalizing(x, reason).pc = "fin_clear"
         /\ Finalizing(x, reason).f = x
         /\ Finalizing(x, reason).work = << >>
         /\ Finalizing(x, reason).rows = {}
<1>1. x \in Thread
  BY DEF Thread
<1>2. "fin_clear" \in Pcs
  BY DEF Pcs, FinPc
<1>3. /\ Ready(x) \in ThreadRec /\ Ready(x).f = x /\ Ready(x).rows = {}
      /\ Ready(x).work = << >>
  BY <1>1, ReadyFacts, SMTT(30)
<1> DEFINE r == Ready(x)
           n == [r EXCEPT !.pc = "fin_clear", !.reason = reason]
<1>5. Finalizing(x, reason) = n
  BY DEF Finalizing
<1>6. r \in ThreadRec /\ r.f = x /\ r.rows = {} /\ r.work = << >>
  BY <1>3
<1> HIDE DEF r
<1>7. /\ n \in ThreadRec
      /\ n.pc = "fin_clear" /\ n.f = r.f /\ n.work = r.work /\ n.rows = r.rows
  BY <1>2, <1>6 DEF ThreadRec, Pcs
<1> HIDE DEF n
<1>4. /\ Finalizing(x, reason) \in ThreadRec
      /\ Finalizing(x, reason).pc = "fin_clear" /\ Finalizing(x, reason).f = x
      /\ Finalizing(x, reason).work = << >> /\ Finalizing(x, reason).rows = {}
  BY <1>5, <1>6, <1>7
<1> QED
  BY <1>4 DEF Sound, OnFlow, HasTarget, SelfPc, HandlerPc, ParkPc, FinPc

LEMMA RefusedFacts ==
  ASSUME NEW t \in Flow \cup Host
  PROVE  Sound(t, Refused(t))
<1>1. t \in Thread
  BY DEF Thread
<1> QED
  BY <1>1, ReadyFacts, FinalizingFacts DEF Refused, Reason

\* The ways a step changes the threads.
LEMMA GotoSound ==
  ASSUME Types, NEW t \in Thread, NEW r, Sound(t, r), Goto(t, r)
  PROVE  th' \in [Thread -> ThreadRec] /\ ThreadsSound'
<1>1. th \in [Thread -> ThreadRec] /\ r \in ThreadRec
  BY DEF Types, TypeOK, Sound
<1>2. th' = [th EXCEPT ![t] = r]
  BY DEF Goto
<1>3. \A u \in Thread : th'[u] = IF u = t THEN r ELSE th[u]
  BY <1>1, <1>2
<1>4. \A u \in Thread : Sound(u, th[u])
  BY DEF Types, ThreadsSound
<1>5. \A u \in Thread : Sound(u, th'[u])
  BY <1>3, <1>4
<1> QED
  BY <1>1, <1>2, <1>5 DEF ThreadsSound, Sound

LEMMA DeliverSound ==
  ASSUME Types, NEW t \in Thread, NEW f \in Flow, NEW hop, NEW r, Sound(t, r),
         Deliver(t, f, hop, r)
  PROVE  th' \in [Thread -> ThreadRec] /\ ThreadsSound'
<1>1. \A u \in Thread : \/ th'[u] = r /\ u = t
                        \/ th'[u] = Runnable(u) /\ u \in Flow
                        \/ th'[u] = th[u]
  BY DEF Deliver
<1>2. \A u \in Thread : Sound(u, th[u])
  BY DEF Types, ThreadsSound
<1>3. \A u \in Thread : Sound(u, th'[u])
  BY <1>1, <1>2, RunnableFacts
<1>4. \A u \in Thread : th'[u] \in ThreadRec
  BY <1>3 DEF Sound
<1>5. th' = [u \in Thread |-> th'[u]]
  BY DEF Deliver
<1> QED
  BY <1>3, <1>4, <1>5 DEF ThreadsSound

LEMMA TakeSound ==
  ASSUME Types, NEW t \in Thread, NEW g \in Flow, NEW r, NEW none,
         Sound(t, r), Sound(t, none), TakeParked(t, g, r, none)
  PROVE  th' \in [Thread -> ThreadRec] /\ ThreadsSound'
<1>1. \A u \in Thread : \/ u = t /\ th'[u] \in {r, none}
                        \/ th'[u] = At(u, "taken")
                        \/ th'[u] = th[u]
  BY DEF TakeParked
<1>2. \A u \in Thread : Sound(u, th[u])
  BY DEF Types, ThreadsSound
<1>3. \A u \in Thread : Sound(u, At(u, "taken"))
  <2> TAKE u \in Thread
  <2>1. th[u] \in ThreadRec
    BY <1>2 DEF Sound
  <2>2. At(u, "taken") \in ThreadRec /\ At(u, "taken").pc = "taken"
    BY <2>1 DEF At, ThreadRec
  <2> QED
    BY <2>2 DEF Sound, OnFlow, HasTarget, SelfPc, HandlerPc, ParkPc, FinPc
<1>4. \A u \in Thread : Sound(u, th'[u])
  BY <1>1, <1>2, <1>3
<1>5. \A u \in Thread : th'[u] \in ThreadRec
  BY <1>4 DEF Sound
<1>6. th' = [u \in Thread |-> th'[u]]
  BY DEF TakeParked
<1> QED
  BY <1>4, <1>5, <1>6 DEF ThreadsSound

\* A thread that only changes its position keeps its other fields.
LEMMA AtFacts ==
  ASSUME Types, NEW t \in Thread, NEW p \in Pcs,
         p \in OnFlow => th[t].f \in Flow,
         p \in HasTarget => th[t].to \in Flow,
         p \in SelfPc => th[t].f = t
  PROVE  /\ Sound(t, At(t, p))
         /\ At(t, p).pc = p /\ At(t, p).f = th[t].f /\ At(t, p).to = th[t].to
         /\ At(t, p).id = th[t].id /\ At(t, p).alive = th[t].alive
         /\ At(t, p).reason = th[t].reason /\ At(t, p).rows = th[t].rows
         /\ At(t, p).work = th[t].work
<1>1. th[t] \in ThreadRec
  BY DEF Types, TypeOK
<1>2. /\ At(t, p) \in ThreadRec
      /\ At(t, p).pc = p /\ At(t, p).f = th[t].f /\ At(t, p).to = th[t].to
      /\ At(t, p).id = th[t].id /\ At(t, p).alive = th[t].alive
      /\ At(t, p).reason = th[t].reason /\ At(t, p).rows = th[t].rows
      /\ At(t, p).work = th[t].work
  BY <1>1 DEF At, ThreadRec, Pcs
<1> QED
  BY <1>2 DEF Sound

LEMMA TypesInit == Init => Types
<1> SUFFICES ASSUME Init PROVE Types
  OBVIOUS
<1>1. \A t \in Thread : Sound(t, th[t])
  <2> TAKE t \in Thread
  <2>1. CASE t \in Flow
    BY <2>1, RunnableFacts DEF Init
  <2>2. CASE t \notin Flow
    BY <2>2, ReadyFacts DEF Init
  <2> QED
    BY <2>1, <2>2
<1>2. th \in [Thread -> ThreadRec]
  BY <1>1 DEF Sound, Init
<1>3. ops \in 0..MaxOps
  BY LifecycleAssumption, SMTT(30) DEF Init
<1> QED
  BY <1>1, <1>2, <1>3, SMTT(30) DEF Types, TypeOK, ThreadsSound, Init, NoLinks, NoMonitors, NoNames, Reason

LEMMA DeliverGot ==
  ASSUME Types, NEW t, NEW f \in Flow, NEW r,
         NEW hop \in [kind : {"down"}, of : Nat] \cup [kind : {"exit"}, of : Flow],
         Deliver(t, f, hop, r)
  PROVE  got' \in [Flow -> SUBSET ([kind : {"down"}, of : Nat] \cup [kind : {"exit"}, of : Flow])]
BY DEF Deliver, Types, TypeOK

\* Steps of the relation handlers.
LEMMA TypesRequest ==
  ASSUME Types, NEW t \in Flow \cup Host, Request(t)
  PROVE  Types'
<1> USE LifecycleAssumption
<1>0. t \in Thread /\ Sound(t, Ready(t)) /\ Sound(t, Refused(t))
  BY ReadyFacts, RefusedFacts DEF Thread
<1>1. ASSUME NEW f \in Flow, NEW g \in Flow, Link(t, f, g) PROVE Types'
  <2> DEFINE r == Ready(f)
             n == [r EXCEPT !.pc = "link_insert", !.to = g]
  <2>1. r \in ThreadRec /\ r.f = f
    BY ReadyFacts, SMTT(30) DEF Thread
  <2> HIDE DEF r
  <2>2. n \in ThreadRec /\ n.pc = "link_insert" /\ n.f = f /\ n.to = g
    BY <2>1 DEF ThreadRec, HandlerPc, Thread
  <2> HIDE DEF n
  <2>3. Sound(t, n)
    BY <2>2 DEF Sound, SelfPc
  <2>4. Goto(t, n)
    BY <1>1 DEF Link, n, r
  <2> QED
    BY <1>0, <1>1, <2>3, <2>4, GotoSound, SMTT(30) DEF Types, TypeOK, Link, Issue, links, monitors, exits
<1>2. ASSUME NEW f \in Flow, NEW g \in Flow, Monitor(t, f, g) PROVE Types'
  <2> DEFINE r == Ready(f)
             n == [r EXCEPT !.pc = "mon_create", !.to = g]
  <2>1. r \in ThreadRec /\ r.f = f
    BY ReadyFacts, SMTT(30) DEF Thread
  <2> HIDE DEF r
  <2>2. n \in ThreadRec /\ n.pc = "mon_create" /\ n.f = f /\ n.to = g
    BY <2>1 DEF ThreadRec, HandlerPc, Thread
  <2> HIDE DEF n
  <2>3. Sound(t, n)
    BY <2>2 DEF Sound, SelfPc
  <2>4. Goto(t, n)
    BY <1>2 DEF Monitor, n, r
  <2> QED
    BY <1>0, <1>2, <2>3, <2>4, GotoSound, SMTT(30) DEF Types, TypeOK, Monitor, Issue, links, monitors, exits
<1>3. ASSUME NEW f \in Flow, NEW id \in linkIds, Unlink(t, f, id) PROVE Types'
  <2>1. th' \in [Thread -> ThreadRec] /\ ThreadsSound'
    BY <1>0, <1>3, GotoSound DEF Unlink
  <2>2. lt'.links \subseteq lt.links
    BY <1>3 DEF Unlink, UnlinkId
  <2> QED
    BY <1>3, <2>1, <2>2, SMTT(30) DEF Types, TypeOK, Unlink, Issue, monitors, exits
<1>4. ASSUME NEW f \in Flow, NEW on \in BOOLEAN, SetTrap(t, f, on) PROVE Types'
  <2>1. trap' \subseteq Flow
    BY <1>4 DEF SetTrap, Types, TypeOK
  <2> QED
    BY <1>4, <2>1, SMTT(30) DEF Types, TypeOK, ThreadsSound, SetTrap, Issue, links, monitors
<1>5. ASSUME NEW f \in Flow, NEW id \in monitorRefs[t], Demonitor(t, f, id) PROVE Types'
  <2>1. th' \in [Thread -> ThreadRec] /\ ThreadsSound'
    BY <1>0, <1>5, GotoSound DEF Demonitor
  <2>2. mt'.rows \subseteq mt.rows
    BY <1>5 DEF Demonitor, RemoveOwned, DropMonitors
  <2>3. id \in Nat
    BY <1>0, <1>5 DEF Types, TypeOK
  <2>4. silenced' \subseteq Nat /\ ops' \in 0..MaxOps
    BY <1>5, <2>3, SMTT(30) DEF Types, TypeOK, Demonitor, Issue
  <2>5. UNCHANGED <<nextMonitor, monitorRefs>> /\ UNCHANGED <<links, rg, exits>>
    BY <1>5 DEF Demonitor
  <2> QED
    BY <2>1, <2>2, <2>4, <2>5 DEF Types, TypeOK, links, exits
<1>6. ASSUME NEW f \in Flow, Register(t, f) PROVE Types'
  <2> DEFINE r == Ready(f)
             n == [r EXCEPT !.pc = "reg_insert"]
  <2>1. r \in ThreadRec /\ r.f = f
    BY ReadyFacts, SMTT(30) DEF Thread
  <2> HIDE DEF r
  <2>2. n \in ThreadRec /\ n.pc = "reg_insert" /\ n.f = f
    BY <2>1 DEF ThreadRec, HandlerPc
  <2> HIDE DEF n
  <2>3. Sound(t, n)
    BY <2>2 DEF Sound, SelfPc, HasTarget
  <2>4. Goto(t, n)
    BY <1>6 DEF Register, n, r
  <2> QED
    BY <1>0, <1>6, <2>3, <2>4, GotoSound, SMTT(30) DEF Types, TypeOK, Register, Issue, links, monitors, exits
<1>7. ASSUME NEW name \in Name, Unregister(t, name) PROVE Types'
  <2>1. rg'.names \subseteq rg.names
    BY <1>7 DEF Unregister, UnregisterName
  <2> QED
    BY <1>7, <2>1, SMTT(30) DEF Types, TypeOK, ThreadsSound, Unregister, links, monitors, exits
<1>8. ASSUME NEW g \in Flow, NEW reason \in Reason, Signal(t, g, reason) PROVE Types'
  <2> DEFINE r == Ready(t)
             p == CASE t = g -> "sig_self"
                    [] t # g /\ t \in Flow -> "sig_trap"
                    [] t \notin Flow -> "kill_set"
             n == [r EXCEPT !.to = g, !.reason = reason, !.pc = p]
  <2>1. r \in ThreadRec /\ r.f = t
    BY <1>0, ReadyFacts, SMTT(30)
  <2>2. p \in {"sig_self", "sig_trap", "kill_set"} /\ (t \notin Flow => p = "kill_set")
    OBVIOUS
  <2>3. Goto(t, n)
    BY <1>8 DEF Signal
  <2> HIDE DEF r, p
  <2>4. n \in ThreadRec /\ n.pc = p /\ n.f = t /\ n.to = g
    BY <2>1, <2>2 DEF ThreadRec, HandlerPc, Thread
  <2> HIDE DEF n
  <2>5. Sound(t, n)
    BY <2>2, <2>4 DEF Sound, SelfPc, OnFlow, HandlerPc, ParkPc, FinPc
  <2> QED
    BY <1>0, <1>8, <2>3, <2>5, GotoSound, SMTT(30) DEF Types, TypeOK, Signal, Issue, links, monitors, exits
<1> QED
  BY <1>1, <1>2, <1>3, <1>4, <1>5, <1>6, <1>7, <1>8 DEF Request

LEMMA TypesHandler ==
  ASSUME Types, NEW t \in Flow \cup Host, Handler(t)
  PROVE  Types'
<1>0. t \in Thread /\ Sound(t, Ready(t)) /\ Sound(t, Refused(t)) /\ Sound(t, th[t])
  BY ReadyFacts, RefusedFacts DEF Thread, Types, ThreadsSound
<1> DEFINE l == th[t]
<1>a. /\ l \in ThreadRec
      /\ l.pc \in OnFlow => l.f \in Flow
      /\ l.pc \in HasTarget => l.to \in Flow
      /\ l.pc \in SelfPc => l.f = t
  BY <1>0 DEF Sound
<1>1. CASE LinkInsert(t)
  <2> DEFINE n == [l EXCEPT !.pc = "confirm_a", !.id = nextLink]
  <2>1. l.f \in Flow /\ l.to \in Flow
    BY <1>1, <1>a DEF LinkInsert, OnFlow, HandlerPc, HasTarget
  <2>2. n \in ThreadRec /\ n.pc = "confirm_a" /\ n.f = l.f /\ n.to = l.to
    <3> HIDE DEF l
    <3> QED
      BY <1>a DEF ThreadRec, HandlerPc, Types, TypeOK
  <2>3. Sound(t, n)
    BY <2>1, <2>2 DEF Sound, SelfPc
  <2>4. Goto(t, Refused(t)) \/ Goto(t, n)
    BY <1>1 DEF LinkInsert
  <2> HIDE DEF n
  <2>5. th' \in [Thread -> ThreadRec] /\ ThreadsSound'
    BY <1>0, <2>3, <2>4, GotoSound
  <2>6. lt' = lt \/ lt' = InsertLink(lt, nextLink, l.f, l.to)
    BY <1>1 DEF LinkInsert
  <2>7. lt'.links \subseteq [id : Nat, a : Flow, b : Flow]
    BY <2>1, <2>6, SMTT(30) DEF InsertLink, Types, TypeOK
  <2>8. nextLink' \in Nat \ {0}
    BY <1>1, SMTT(30) DEF LinkInsert, Types, TypeOK
  <2> QED
    BY <1>1, <2>5, <2>7, <2>8 DEF Types, TypeOK, LinkInsert, monitors, exits
<1>2. CASE ConfirmA(t)
  <2> DEFINE v == l.f \in live
             n == [l EXCEPT !.pc = "confirm_b", !.alive = v]
  <2>1. l.f \in Flow /\ l.to \in Flow
    BY <1>2, <1>a DEF ConfirmA, OnFlow, HandlerPc, HasTarget
  <2>2. v \in BOOLEAN
    BY SMTT(30)
  <2>3. n \in ThreadRec /\ n.pc = "confirm_b" /\ n.f = l.f /\ n.to = l.to
    <3> HIDE DEF l, v
    <3> QED
      BY <1>a, <2>2 DEF ThreadRec, HandlerPc
  <2>4. Sound(t, n)
    BY <2>1, <2>3 DEF Sound, SelfPc
  <2>5. Goto(t, n)
    BY <1>2 DEF ConfirmA
  <2> HIDE DEF n
  <2> QED
    BY <1>0, <1>2, <2>4, <2>5, GotoSound DEF Types, TypeOK, ConfirmA, links, monitors, exits
<1>3. CASE ConfirmB(t)
  <2>1. l.f \in Flow /\ l.to \in Flow
    BY <1>3, <1>a DEF ConfirmB, OnFlow, HandlerPc, HasTarget
  <2>2. Sound(t, At(t, "link_undo"))
    BY <1>0, <2>1, AtFacts DEF Pcs, HandlerPc, SelfPc
  <2>3. Goto(t, Ready(t)) \/ Goto(t, At(t, "link_undo"))
    BY <1>3 DEF ConfirmB
  <2>4. th' \in [Thread -> ThreadRec] /\ ThreadsSound'
    BY <1>0, <2>2, <2>3, GotoSound
  <2>5. l.id \in Nat
    BY <1>a DEF ThreadRec
  <2>6. linkIds' \subseteq Nat
    BY <1>3, <2>5 DEF ConfirmB, Types, TypeOK
  <2> QED
    BY <1>3, <2>4, <2>6 DEF Types, TypeOK, ConfirmB, monitors, exits
<1>4. CASE LinkUndo(t)
  <2>1. Goto(t, Ready(t)) \/ Goto(t, Refused(t))
    BY <1>4 DEF LinkUndo
  <2>2. th' \in [Thread -> ThreadRec] /\ ThreadsSound'
    BY <1>0, <2>1, GotoSound
  <2>3. lt'.links \subseteq lt.links
    BY <1>4 DEF LinkUndo, UnlinkId
  <2> QED
    BY <1>4, <2>2, <2>3 DEF Types, TypeOK, LinkUndo, monitors, exits
<1>5. CASE MonitorCreate(t)
  <2> DEFINE n == [l EXCEPT !.pc = "mon_check", !.id = nextMonitor]
  <2>1. l.f \in Flow /\ l.to \in Flow
    BY <1>5, <1>a DEF MonitorCreate, OnFlow, HandlerPc, HasTarget
  <2>2. n \in ThreadRec /\ n.pc = "mon_check" /\ n.f = l.f /\ n.to = l.to
    <3> HIDE DEF l
    <3> QED
      BY <1>a DEF ThreadRec, HandlerPc, Types, TypeOK
  <2>3. Sound(t, n)
    BY <2>1, <2>2 DEF Sound, SelfPc
  <2>4. Goto(t, Refused(t)) \/ Goto(t, Ready(t)) \/ Goto(t, n)
    BY <1>5 DEF MonitorCreate
  <2> HIDE DEF n
  <2>5. th' \in [Thread -> ThreadRec] /\ ThreadsSound'
    BY <1>0, <2>3, <2>4, GotoSound
  <2>6. mt' = mt \/ mt' = InsertMonitor(mt, nextMonitor, l.f, l.to)
    BY <1>5 DEF MonitorCreate
  <2>7. mt'.rows \subseteq [id : Nat, owner : Flow, target : Flow]
    BY <2>1, <2>6, SMTT(30) DEF InsertMonitor, Types, TypeOK
  <2>8. nextMonitor' \in Nat \ {0}
    BY <1>5, SMTT(30) DEF MonitorCreate, Types, TypeOK
  <2>9. monitorRefs' \in [Thread -> SUBSET Nat]
    BY <1>5 DEF MonitorCreate, Types, TypeOK
  <2>10. UNCHANGED silenced /\ UNCHANGED <<links, rg, exits, ops>>
    BY <1>5 DEF MonitorCreate
  <2> QED
    BY <2>5, <2>7, <2>8, <2>9, <2>10 DEF Types, TypeOK, links, exits
<1>6. CASE MonitorCheck(t)
  <2>1. l.f \in Flow /\ l.to \in Flow
    BY <1>6, <1>a DEF MonitorCheck, OnFlow, HandlerPc, HasTarget
  <2>2. Sound(t, At(t, "mon_undo"))
    BY <1>0, <2>1, AtFacts DEF Pcs, HandlerPc, SelfPc
  <2>3. Goto(t, Ready(t)) \/ Goto(t, At(t, "mon_undo"))
    BY <1>6 DEF MonitorCheck
  <2>4. th' \in [Thread -> ThreadRec] /\ ThreadsSound'
    BY <1>0, <2>2, <2>3, GotoSound
  <2>5. l.id \in Nat
    BY <1>a DEF ThreadRec
  <2>6. monitorRefs' \in [Thread -> SUBSET Nat]
    BY <1>0, <1>6, <2>5, SMTT(30) DEF MonitorCheck, Returned, Types, TypeOK
  <2> QED
    BY <1>6, <2>4, <2>6 DEF Types, TypeOK, MonitorCheck, links, exits
<1>7. CASE MonitorUndo(t)
  <2>1. l.f \in Flow /\ l.to \in Flow
    BY <1>7, <1>a DEF MonitorUndo, OnFlow, HandlerPc, HasTarget
  <2>2. Sound(t, At(t, "mon_down"))
    BY <1>0, <2>1, AtFacts DEF Pcs, HandlerPc, SelfPc
  <2>3. th' \in [Thread -> ThreadRec] /\ ThreadsSound'
    BY <1>0, <1>7, <2>2, GotoSound DEF MonitorUndo
  <2>4. mt'.rows \subseteq mt.rows
    BY <1>7 DEF MonitorUndo, RemoveOwned, DropMonitors
  <2> QED
    BY <1>7, <2>3, <2>4 DEF Types, TypeOK, MonitorUndo, links, exits
<1>8. CASE MonitorDown(t)
  <2>1. l.f \in Flow /\ l.id \in Nat
    BY <1>8, <1>a DEF MonitorDown, OnFlow, HandlerPc, ThreadRec
  <2>2. th' \in [Thread -> ThreadRec] /\ ThreadsSound'
    BY <1>0, <1>8, <2>1, DeliverSound DEF MonitorDown
  <2>3. Down(l.id) \in [kind : {"down"}, of : Nat]
    BY <2>1 DEF Down
  <2>4. got' \in [Flow -> SUBSET ([kind : {"down"}, of : Nat] \cup [kind : {"exit"}, of : Flow])]
    BY <1>8, <2>1, <2>3, DeliverGot DEF MonitorDown
  <2>5. monitorRefs' \in [Thread -> SUBSET Nat]
    BY <1>0, <1>8, <2>1 DEF MonitorDown, Returned, Types, TypeOK
  <2> QED
    BY <1>8, <2>2, <2>4, <2>5 DEF Types, TypeOK, MonitorDown, links
<1>9. ASSUME NEW name \in Name, RegisterInsert(t, name) PROVE Types'
  <2>1. l.f \in Flow
    BY <1>9, <1>a DEF RegisterInsert, OnFlow, HandlerPc
  <2>2. Goto(t, Refused(t)) \/ Goto(t, Ready(t))
    BY <1>9 DEF RegisterInsert
  <2>3. th' \in [Thread -> ThreadRec] /\ ThreadsSound'
    BY <1>0, <2>2, GotoSound
  <2>4. rg' = rg \/ rg' = RegisterName(rg, name, l.f)
    BY <1>9 DEF RegisterInsert
  <2>5. rg'.names \subseteq [name : Name, flow : Flow]
    BY <2>1, <2>4, SMTT(30) DEF RegisterName, Types, TypeOK
  <2> QED
    BY <1>9, <2>3, <2>5 DEF Types, TypeOK, RegisterInsert, links, monitors, exits
<1>10. CASE SignalSelf(t)
  <2>1. l.f = t /\ l.f \in Flow /\ l.to \in Flow /\ l.reason \in Reason
    BY <1>10, <1>a DEF SignalSelf, OnFlow, HandlerPc, HasTarget, SelfPc, ThreadRec
  <2>2. Sound(t, At(t, "sig_trap")) /\ Sound(t, Finalizing(t, l.reason))
    BY <1>0, <2>1, AtFacts, FinalizingFacts DEF Pcs, HandlerPc
  <2>3. Goto(t, At(t, "sig_trap")) \/ Goto(t, Finalizing(t, l.reason))
    BY <1>10 DEF SignalSelf
  <2>4. th' \in [Thread -> ThreadRec] /\ ThreadsSound'
    BY <1>0, <2>2, <2>3, GotoSound
  <2> QED
    BY <1>10, <2>4 DEF Types, TypeOK, SignalSelf, links, monitors, exits
<1>11. CASE SignalTrap(t)
  <2>1. l.f = t /\ l.f \in Flow /\ l.to \in Flow
    BY <1>11, <1>a DEF SignalTrap, OnFlow, HandlerPc, HasTarget, SelfPc
  <2>2. Sound(t, At(t, "sig_exit")) /\ Sound(t, At(t, "kill_set"))
    BY <1>0, <2>1, AtFacts DEF Pcs, HandlerPc
  <2>3. Goto(t, At(t, "sig_exit")) \/ Goto(t, At(t, "kill_set"))
    BY <1>11 DEF SignalTrap
  <2>4. th' \in [Thread -> ThreadRec] /\ ThreadsSound'
    BY <1>0, <2>2, <2>3, GotoSound
  <2> QED
    BY <1>11, <2>4 DEF Types, TypeOK, SignalTrap, links, monitors, exits
<1>12. CASE SignalExit(t)
  <2>1. l.f \in Flow /\ l.to \in Flow
    BY <1>12, <1>a DEF SignalExit, OnFlow, HandlerPc, HasTarget
  <2>2. th' \in [Thread -> ThreadRec] /\ ThreadsSound'
    BY <1>0, <1>12, <2>1, DeliverSound DEF SignalExit
  <2>3. Exit(l.f) \in [kind : {"exit"}, of : Flow]
    BY <2>1 DEF Exit
  <2>4. got' \in [Flow -> SUBSET ([kind : {"down"}, of : Nat] \cup [kind : {"exit"}, of : Flow])]
    BY <1>12, <2>1, <2>3, DeliverGot DEF SignalExit
  <2> QED
    BY <1>12, <2>2, <2>4 DEF Types, TypeOK, SignalExit, links, monitors
<1>13. CASE KillSet(t)
  <2>1. l.to \in Flow /\ l.reason \in Reason
    BY <1>13, <1>a DEF KillSet, HasTarget, ThreadRec
  <2>2. Sound(t, At(t, "kill_take"))
    BY <1>0, <2>1, AtFacts DEF Pcs, HandlerPc, OnFlow, ParkPc, FinPc, SelfPc
  <2>3. Goto(t, At(t, "kill_take")) \/ Goto(t, Ready(t))
    BY <1>13 DEF KillSet, SetSignal
  <2>4. th' \in [Thread -> ThreadRec] /\ ThreadsSound'
    BY <1>0, <2>2, <2>3, GotoSound
  <2>5. kill' \in [Flow -> Reason \cup {"none"}]
    BY <1>13, <2>1 DEF KillSet, SetSignal, Types, TypeOK
  <2> QED
    BY <1>13, <2>4, <2>5 DEF Types, TypeOK, KillSet, links, monitors
<1>14. CASE KillTake(t)
  <2>1. l.to \in Flow /\ l.reason \in Reason
    BY <1>14, <1>a DEF KillTake, HasTarget, ThreadRec
  <2>2. Sound(t, Finalizing(l.to, l.reason))
    BY <2>1, FinalizingFacts
  <2>3. th' \in [Thread -> ThreadRec] /\ ThreadsSound'
    BY <1>0, <1>14, <2>1, <2>2, TakeSound DEF KillTake
  <2> QED
    BY <1>14, <2>3 DEF Types, TypeOK, KillTake, links, monitors, exits
<1> QED
  BY <1>1, <1>2, <1>3, <1>4, <1>5, <1>6, <1>7, <1>8, <1>9, <1>10, <1>11, <1>12, <1>13, <1>14
     DEF Handler

\* Steps of finalize, on any thread.
LEMMA TypesFinalize ==
  ASSUME Types, NEW t \in Thread, Finalize(t)
  PROVE  Types'
<1>0. Sound(t, Ready(t)) /\ Sound(t, th[t])
  BY ReadyFacts DEF Types, ThreadsSound
<1> DEFINE l == th[t]
<1>a. /\ l \in ThreadRec
      /\ l.pc \in FinPc => l.f \in Flow
      /\ l.pc \in HasTarget => l.to \in Flow
  BY <1>0 DEF Sound, OnFlow
<1>b. ASSUME NEW p \in FinPc, l.pc \in FinPc, p \in HasTarget => l.to \in Flow
      PROVE  Sound(t, At(t, p)) /\ At(t, p).rows = l.rows
  BY <1>a, <1>b, AtFacts DEF Pcs, FinPc, SelfPc
<1>1. CASE FinClear(t)
  <2>1. l.f \in Flow /\ Sound(t, At(t, "fin_unregister"))
    BY <1>1, <1>a, <1>b DEF FinClear, FinPc, HasTarget
  <2>2. th' \in [Thread -> ThreadRec] /\ ThreadsSound'
    BY <1>1, <2>1, GotoSound DEF FinClear
  <2>3. kill' \in [Flow -> Reason \cup {"none"}]
    BY <1>1, <2>1 DEF FinClear, Types, TypeOK
  <2> QED
    BY <1>1, <2>1, <2>2, <2>3 DEF Types, TypeOK, FinClear, links, monitors
<1>2. CASE FinUnregister(t)
  <2>1. Sound(t, At(t, "fin_owned"))
    BY <1>2, <1>b DEF FinUnregister, FinPc, HasTarget
  <2>2. th' \in [Thread -> ThreadRec] /\ ThreadsSound'
    BY <1>2, <2>1, GotoSound DEF FinUnregister
  <2> QED
    BY <1>2, <2>2 DEF Types, TypeOK, FinUnregister, links, monitors
<1>3. CASE FinOwned(t)
  <2>1. Sound(t, At(t, "fin_names"))
    BY <1>3, <1>b DEF FinOwned, FinPc, HasTarget
  <2>2. th' \in [Thread -> ThreadRec] /\ ThreadsSound'
    BY <1>3, <2>1, GotoSound DEF FinOwned
  <2>3. mt'.rows \subseteq mt.rows
    BY <1>3 DEF FinOwned, RemoveOwnedBy, DropMonitors
  <2> QED
    BY <1>3, <2>2, <2>3 DEF Types, TypeOK, FinOwned, links, exits
<1>4. CASE FinNames(t)
  <2>1. Sound(t, At(t, "fin_notify"))
    BY <1>4, <1>b DEF FinNames, FinPc, HasTarget
  <2>2. th' \in [Thread -> ThreadRec] /\ ThreadsSound'
    BY <1>4, <2>1, GotoSound DEF FinNames
  <2>3. rg'.names \subseteq rg.names
    BY <1>4 DEF FinNames, UnregisterFlow
  <2> QED
    BY <1>4, <2>2, <2>3 DEF Types, TypeOK, FinNames, links, monitors, exits
<1>5. CASE FinNotify(t)
  <2> DEFINE rows == {[id |-> m.id, flow |-> m.owner] : m \in MonitorsOf(mt, l.f)}
             r == At(t, "fin_down")
             n == [r EXCEPT !.rows = rows]
  <2>1. rows \subseteq RowRec
    <3>1. \A m \in MonitorsOf(mt, l.f) : m.id \in Nat /\ m.owner \in Flow
      BY DEF MonitorsOf, Types, TypeOK
    <3>2. \A m \in MonitorsOf(mt, l.f) : [id |-> m.id, flow |-> m.owner] \in RowRec
      BY <3>1 DEF RowRec
    <3> QED
      BY <3>2
  <2>2. r \in ThreadRec /\ r.pc = "fin_down" /\ r.f = l.f /\ l.f \in Flow
    <3>1. l.f \in Flow
      BY <1>5, <1>a DEF FinNotify, FinPc
    <3>2. "fin_down" \in Pcs /\ "fin_down" \notin HasTarget /\ "fin_down" \notin SelfPc
      BY DEF Pcs, FinPc, HasTarget, SelfPc
    <3> QED
      BY <3>1, <3>2, AtFacts DEF Sound
  <2>3. Goto(t, n)
    BY <1>5 DEF FinNotify
  <2> HIDE DEF rows, r, l
  <2>4. n \in ThreadRec /\ n.pc = "fin_down" /\ n.f \in Flow
    BY <2>1, <2>2 DEF ThreadRec
  <2> HIDE DEF n
  <2>5. Sound(t, n)
    BY <2>4 DEF Sound, SelfPc, HasTarget
  <2>6. th' \in [Thread -> ThreadRec] /\ ThreadsSound'
    BY <2>3, <2>5, GotoSound
  <2>7. mt'.rows \subseteq mt.rows
    BY <1>5 DEF FinNotify, NotifyTargetExit, DropMonitors
  <2> QED
    BY <1>5, <2>6, <2>7 DEF Types, TypeOK, FinNotify, links, exits
<1>6. CASE FinLinks(t)
  <2> DEFINE rows == PeersOf(lt, l.f)
             r == At(t, "fin_peer")
             n == [r EXCEPT !.rows = rows]
  <2>1. rows \subseteq RowRec
    <3>1. \A k \in LinksOf(lt, l.f) : k.id \in Nat /\ Peer(k, l.f) \in Flow
      BY DEF LinksOf, Peer, Types, TypeOK
    <3>2. \A k \in LinksOf(lt, l.f) : [id |-> k.id, flow |-> Peer(k, l.f)] \in RowRec
      BY <3>1 DEF RowRec
    <3> QED
      BY <3>2 DEF PeersOf
  <2>2. r \in ThreadRec /\ r.pc = "fin_peer" /\ r.f = l.f /\ l.f \in Flow
    BY <1>6, <1>a, AtFacts, SMTT(30) DEF FinLinks, FinPc, Pcs, SelfPc, HasTarget, Sound
  <2>3. Goto(t, n)
    BY <1>6 DEF FinLinks
  <2> HIDE DEF rows, r, l
  <2>4. n \in ThreadRec /\ n.pc = "fin_peer" /\ n.f \in Flow
    BY <2>1, <2>2 DEF ThreadRec
  <2> HIDE DEF n
  <2>5. Sound(t, n)
    BY <2>4 DEF Sound, SelfPc, HasTarget
  <2>6. th' \in [Thread -> ThreadRec] /\ ThreadsSound'
    BY <2>3, <2>5, GotoSound
  <2>7. lt'.links \subseteq lt.links
    BY <1>6 DEF FinLinks, RemoveLinksOf
  <2> QED
    BY <1>6, <2>6, <2>7 DEF Types, TypeOK, FinLinks, monitors, exits
<1>7. CASE FinExit(t)
  <2>1. l.f \in Flow /\ l.to \in Flow /\ Sound(t, At(t, "fin_peer"))
    BY <1>7, <1>a, <1>b DEF FinExit, FinPc, HasTarget
  <2>2. th' \in [Thread -> ThreadRec] /\ ThreadsSound'
    BY <1>7, <2>1, DeliverSound DEF FinExit
  <2>3. Exit(l.f) \in [kind : {"exit"}, of : Flow]
    BY <2>1 DEF Exit
  <2>4. got' \in [Flow -> SUBSET ([kind : {"down"}, of : Nat] \cup [kind : {"exit"}, of : Flow])]
    BY <1>7, <2>1, <2>3, DeliverGot DEF FinExit
  <2> QED
    BY <1>7, <2>2, <2>4 DEF Types, TypeOK, FinExit, links, monitors
<1>8. CASE FinKill(t)
  <2>1. /\ l.to \in Flow
        /\ Sound(t, At(t, "fin_take")) /\ Sound(t, At(t, "fin_peer"))
    BY <1>8, <1>a, <1>b DEF FinKill, FinPc, HasTarget
  <2>2. Goto(t, At(t, "fin_take")) \/ Goto(t, At(t, "fin_peer"))
    BY <1>8 DEF FinKill, SetSignal
  <2>3. th' \in [Thread -> ThreadRec] /\ ThreadsSound'
    BY <2>1, <2>2, GotoSound
  <2>4. kill' \in [Flow -> Reason \cup {"none"}]
    BY <1>8, <2>1 DEF FinKill, SetSignal, Types, TypeOK, Reason
  <2> QED
    BY <1>8, <2>3, <2>4 DEF Types, TypeOK, FinKill, links, monitors
<1>9. CASE FinTake(t)
  <2> DEFINE r == At(t, "fin_peer")
             n == [r EXCEPT !.work = Append(@, l.to)]
  <2>1. l.f \in Flow /\ l.to \in Flow /\ Sound(t, r)
    BY <1>9, <1>a, <1>b DEF FinTake, FinPc, HasTarget
  <2>2. r.pc = "fin_peer" /\ r.f = l.f
    BY <1>9, <2>1, AtFacts DEF Pcs, FinPc, HasTarget, SelfPc
  <2>3. r \in ThreadRec
    BY <2>1 DEF Sound
  <2>4. TakeParked(t, l.to, n, r)
    BY <1>9 DEF FinTake
  <2> HIDE DEF r, l
  <2>5. r.work \in Seq(Flow)
    BY <2>3 DEF ThreadRec
  <2>6. Append(r.work, l.to) \in Seq(Flow)
    BY <2>1, <2>5, SMTT(30)
  <2>7. n \in ThreadRec /\ n.pc = "fin_peer" /\ n.f \in Flow
    <3> DEFINE w == Append(r.work, l.to)
    <3>1. n = [r EXCEPT !.work = w] /\ w \in Seq(Flow)
      BY <2>6
    <3> HIDE DEF w, n
    <3> QED
      BY <2>1, <2>2, <2>3, <3>1 DEF ThreadRec
  <2> HIDE DEF n
  <2>8. Sound(t, n)
    BY <2>7 DEF Sound, SelfPc, HasTarget
  <2>9. th' \in [Thread -> ThreadRec] /\ ThreadsSound'
    BY <2>1, <2>4, <2>8, TakeSound
  <2> QED
    BY <1>9, <2>9 DEF Types, TypeOK, FinTake, links, monitors, exits
<1>10. CASE FinNext(t)
  <2> DEFINE w == l.work
  <2>1. w \in Seq(Flow)
    BY <1>a DEF ThreadRec
  <2>2. CASE w # << >>
    <3> DEFINE r == Finalizing(w[Len(w)], "link")
               v == SubSeq(w, 1, Len(w) - 1)
               n == [r EXCEPT !.work = v]
    <3>1. Len(w) \in Nat /\ Len(w) # 0
      BY <2>1, <2>2, SMTT(30)
    <3>2. w[Len(w)] \in Flow
      BY <2>1, <3>1, SMTT(30)
    <3>3. v \in Seq(Flow)
      BY <2>1, <3>1, SMTT(30)
    <3>4. Sound(t, r) /\ r.pc = "fin_clear"
      BY <3>2, FinalizingFacts DEF Reason
    <3>5. Goto(t, n)
      BY <1>10, <2>2 DEF FinNext
    <3>6. r \in ThreadRec /\ r.f \in Flow
      BY <3>4 DEF Sound, OnFlow, FinPc
    <3> HIDE DEF r, v
    <3>7. n \in ThreadRec /\ n.pc = "fin_clear" /\ n.f \in Flow
      BY <3>3, <3>4, <3>6 DEF ThreadRec
    <3> HIDE DEF n
    <3>8. Sound(t, n)
      BY <3>7 DEF Sound, SelfPc, HasTarget
    <3> QED
      BY <1>10, <3>5, <3>8, GotoSound DEF Types, TypeOK, FinNext, links, monitors, exits
  <2>3. CASE w = << >>
    <3>1. Sound(t, At(t, "gone"))
      BY AtFacts DEF Pcs, OnFlow, HandlerPc, ParkPc, FinPc, HasTarget, SelfPc
    <3>2. Goto(t, At(t, "gone")) \/ Goto(t, Ready(t))
      BY <1>10, <2>3 DEF FinNext
    <3>3. th' \in [Thread -> ThreadRec] /\ ThreadsSound'
      BY <1>0, <3>1, <3>2, GotoSound
    <3> QED
      BY <1>10, <3>3 DEF Types, TypeOK, FinNext, links, monitors, exits
  <2> QED
    BY <2>2, <2>3
<1>11. ASSUME NEW r \in l.rows, FinDown(t, r) PROVE Types'
  <2> DEFINE s == l.rows \ {r}
             n == [l EXCEPT !.rows = s]
  <2>1. r \in RowRec /\ r.id \in Nat /\ r.flow \in Flow
    BY <1>11, <1>a DEF ThreadRec, RowRec
  <2>2. s \subseteq RowRec
    BY <1>a DEF ThreadRec
  <2>3. l.pc = "fin_down" /\ l.f \in Flow
    BY <1>11, <1>a DEF FinDown, FinPc
  <2>4. Deliver(t, r.flow, Down(r.id), n)
    BY <1>11 DEF FinDown
  <2> HIDE DEF l, s
  <2>5. n \in ThreadRec /\ n.pc = "fin_down" /\ n.f \in Flow
    BY <1>a, <2>2, <2>3 DEF ThreadRec
  <2> HIDE DEF n
  <2>6. Sound(t, n)
    BY <2>5 DEF Sound, SelfPc, HasTarget
  <2>7. th' \in [Thread -> ThreadRec] /\ ThreadsSound'
    BY <2>1, <2>4, <2>6, DeliverSound
  <2>8. Down(r.id) \in [kind : {"down"}, of : Nat]
    BY <2>1 DEF Down
  <2>9. got' \in [Flow -> SUBSET ([kind : {"down"}, of : Nat] \cup [kind : {"exit"}, of : Flow])]
    BY <2>1, <2>4, <2>8, DeliverGot
  <2> QED
    BY <1>11, <2>7, <2>9 DEF Types, TypeOK, FinDown, links, monitors
<1>12. ASSUME NEW r \in l.rows, FinPeer(t, r) PROVE Types'
  <2> DEFINE s == l.rows \ {r}
             k == [l EXCEPT !.rows = s, !.to = r.flow]
             x == [k EXCEPT !.pc = "fin_exit"]
             y == [k EXCEPT !.pc = "fin_kill"]
  <2>1. r.flow \in Flow
    BY <1>12, <1>a DEF ThreadRec, RowRec
  <2>2. s \subseteq RowRec
    BY <1>a DEF ThreadRec
  <2>3. l.pc = "fin_peer" /\ l.f \in Flow
    BY <1>12, <1>a DEF FinPeer, FinPc
  <2>4. Goto(t, x) \/ Goto(t, y) \/ Goto(t, k)
    BY <1>12 DEF FinPeer
  <2> HIDE DEF l, s
  <2>5. k \in ThreadRec /\ k.pc = "fin_peer" /\ k.f \in Flow /\ k.to \in Flow
    BY <1>a, <2>1, <2>2, <2>3 DEF ThreadRec, Thread
  <2> HIDE DEF k
  <2>6. x \in ThreadRec /\ x.pc = "fin_exit" /\ x.f \in Flow /\ x.to \in Flow
    BY <2>5 DEF ThreadRec, FinPc
  <2>7. y \in ThreadRec /\ y.pc = "fin_kill" /\ y.f \in Flow /\ y.to \in Flow
    BY <2>5 DEF ThreadRec, FinPc
  <2> HIDE DEF x, y
  <2>8. Sound(t, k) /\ Sound(t, x) /\ Sound(t, y)
    BY <2>5, <2>6, <2>7 DEF Sound, SelfPc
  <2>9. th' \in [Thread -> ThreadRec] /\ ThreadsSound'
    BY <2>4, <2>8, GotoSound
  <2> QED
    BY <1>12, <2>9 DEF Types, TypeOK, FinPeer, links, monitors, exits
<1> QED
  BY <1>1, <1>2, <1>3, <1>4, <1>5, <1>6, <1>7, <1>8, <1>9, <1>10, <1>11, <1>12 DEF Finalize

LEMMA TypesFlowStep ==
  ASSUME Types, NEW f \in Flow, FlowStep(f)
  PROVE  Types'
<1>0. f \in Thread /\ Sound(f, Ready(f)) /\ Sound(f, Runnable(f))
  BY ReadyFacts, RunnableFacts DEF Thread
<1>1. CASE Quantum(f)
  <2>1. Goto(f, Ready(f)) \/ (kill[f] \in Reason /\ Goto(f, Finalizing(f, kill[f])))
    BY <1>1 DEF Quantum, Types, TypeOK
  <2>2. th' \in [Thread -> ThreadRec] /\ ThreadsSound'
    BY <1>0, <2>1, GotoSound, FinalizingFacts
  <2>3. kill' \in [Flow -> Reason \cup {"none"}]
    BY <1>1 DEF Quantum, Types, TypeOK
  <2> QED
    BY <1>1, <2>2, <2>3 DEF Types, TypeOK, Quantum, links, monitors
<1>2. CASE Yield(f)
  BY <1>0, <1>2, GotoSound DEF Types, TypeOK, Yield, links, monitors, exits
<1>3. CASE Resume(f)
  BY <1>0, <1>3, GotoSound DEF Types, TypeOK, Resume, links, monitors, exits
<1>4. ASSUME NEW w \in Worker, Park(f, w) PROVE Types'
  <2> DEFINE r == Ready(f)
             n == [r EXCEPT !.pc = "park_check"]
  <2>1. r \in ThreadRec /\ r.f = f
    BY <1>0, ReadyFacts, SMTT(30)
  <2>2. Sound(f, At(f, "parked"))
    BY <1>0, AtFacts DEF Pcs, OnFlow, HandlerPc, ParkPc, FinPc, HasTarget, SelfPc
  <2>3. th' = [th EXCEPT ![f] = At(f, "parked"), ![w] = n]
    BY <1>4 DEF Park
  <2> HIDE DEF r
  <2>4. n \in ThreadRec /\ n.pc = "park_check" /\ n.f \in Flow
    BY <2>1 DEF ThreadRec, ParkPc
  <2> HIDE DEF n
  <2>5. Sound(w, n)
    BY <2>4 DEF Sound, SelfPc, HasTarget
  <2>6. th \in [Thread -> ThreadRec] /\ At(f, "parked") \in ThreadRec /\ w \in Thread
    BY <2>2 DEF Types, TypeOK, Sound, Thread
  <2>7. th' \in [Thread -> ThreadRec]
    BY <1>0, <2>3, <2>4, <2>6
  <2>8. \A u \in Thread : th'[u] = IF u = w THEN n ELSE IF u = f THEN At(f, "parked") ELSE th[u]
    BY <1>0, <2>3, <2>6
  <2>9. \A u \in Thread : Sound(u, th[u])
    BY DEF Types, ThreadsSound
  <2>10. \A u \in Thread : Sound(u, th'[u])
    BY <2>2, <2>5, <2>8, <2>9
  <2> QED
    BY <1>4, <2>7, <2>10 DEF Types, TypeOK, ThreadsSound, Sound, Park, links, monitors, exits
<1>5. ASSUME NEW reason \in {"normal", "fault"}, Complete(f, reason) PROVE Types'
  <2>1. Sound(f, Finalizing(f, reason))
    BY FinalizingFacts DEF Reason
  <2> QED
    BY <1>0, <1>5, <2>1, GotoSound DEF Types, TypeOK, Complete, links, monitors, exits
<1> QED
  BY <1>1, <1>2, <1>3, <1>4, <1>5 DEF FlowStep

LEMMA TypesWorkerStep ==
  ASSUME Types, NEW w \in Worker, WorkerStep(w)
  PROVE  Types'
<1>0. w \in Thread /\ Sound(w, Ready(w)) /\ Sound(w, th[w])
  BY ReadyFacts DEF Thread, Types, ThreadsSound
<1> DEFINE l == th[w]
<1>a. l \in ThreadRec /\ (l.pc \in ParkPc => l.f \in Flow) /\ l.reason \in Reason
  BY <1>0 DEF Sound, OnFlow, ThreadRec
<1>1. CASE ParkCheck(w)
  <2> DEFINE v == kill[l.f]
             n == [l EXCEPT !.pc = "park_take", !.reason = v]
  <2>1. l.f \in Flow
    BY <1>1, <1>a DEF ParkCheck, ParkPc
  <2>2. v \in Reason \cup {"none"}
    BY <2>1 DEF Types, TypeOK
  <2>3. Goto(w, Ready(w)) \/ (v # "none" /\ Goto(w, n))
    BY <1>1 DEF ParkCheck
  <2>4. kill' \in [Flow -> Reason \cup {"none"}]
    BY <1>1, <2>1 DEF ParkCheck, Types, TypeOK
  <2>5. v # "none" => Sound(w, n)
    <3> SUFFICES ASSUME v # "none" PROVE Sound(w, n)
      OBVIOUS
    <3> HIDE DEF v, l
    <3>1. n \in ThreadRec /\ n.pc = "park_take" /\ n.f \in Flow
      BY <1>a, <2>1, <2>2 DEF ThreadRec, ParkPc
    <3> HIDE DEF n
    <3> QED
      BY <3>1 DEF Sound, SelfPc, HasTarget
  <2> HIDE DEF n, v
  <2>6. th' \in [Thread -> ThreadRec] /\ ThreadsSound'
    BY <1>0, <2>3, <2>5, GotoSound
  <2> QED
    BY <1>1, <2>4, <2>6 DEF Types, TypeOK, ParkCheck, links, monitors
<1>2. CASE ParkTake(w)
  <2>1. l.f \in Flow
    BY <1>2, <1>a DEF ParkTake, ParkPc
  <2>2. Sound(w, Finalizing(l.f, l.reason))
    BY <1>a, <2>1, FinalizingFacts
  <2>3. Sound(w, At(w, "park_restore"))
    BY <1>0, <2>1, AtFacts DEF Pcs, ParkPc, HasTarget, SelfPc
  <2>4. th' \in [Thread -> ThreadRec] /\ ThreadsSound'
    BY <1>0, <1>2, <2>1, <2>2, <2>3, TakeSound DEF ParkTake
  <2> QED
    BY <1>2, <2>4 DEF Types, TypeOK, ParkTake, links, monitors, exits
<1>3. CASE ParkRestore(w)
  <2>1. l.f \in Flow
    BY <1>3, <1>a DEF ParkRestore, ParkPc
  <2>2. th' \in [Thread -> ThreadRec] /\ ThreadsSound'
    BY <1>0, <1>3, GotoSound DEF ParkRestore
  <2>3. kill' \in [Flow -> Reason \cup {"none"}]
    BY <1>3, <1>a, <2>1 DEF ParkRestore, Types, TypeOK
  <2> QED
    BY <1>3, <2>1, <2>2, <2>3 DEF Types, TypeOK, ParkRestore, links, monitors
<1> QED
  BY <1>1, <1>2, <1>3 DEF WorkerStep

\* Every step keeps the types.
LEMMA TypesStep == Types /\ [Next]_vars => Types'
<1> SUFFICES ASSUME Types, [Next]_vars PROVE Types'
  OBVIOUS
<1>1. CASE UNCHANGED vars
  BY <1>1 DEF Types, TypeOK, ThreadsSound, vars
<1>2. CASE Next
  BY <1>2, TypesRequest, TypesHandler, TypesFinalize, TypesFlowStep, TypesWorkerStep DEF Next
<1> QED
  BY <1>1, <1>2

-----------------------------------------------------------------------------
(* Finalization: who holds a flow's box *)

\* a thread outside finalize has no work list
IdleWork == \A t \in Thread : th[t].pc \notin FinPc => th[t].work = << >>

FinInv == FinalizedOnce /\ IdleWork

\* going on as r, thread t takes hold of no flow but its own
Calm(t, r) ==
  \/ r.pc \notin FinPc /\ r.work = << >>
  \/ r.pc \in FinPc /\ r.f = t /\ r.work = << >> /\ th[t].pc \notin FinPc
  \/ r.pc \in FinPc /\ r.f = th[t].f /\ r.work = th[t].work /\ th[t].pc \in FinPc

LEMMA DoomedFlows ==
  ASSUME Types, NEW u \in Thread
  PROVE  Doomed(u) \subseteq Flow /\ Doomed(u) \subseteq Thread
<1>1. th[u].work \in Seq(Flow) /\ (th[u].pc \in FinPc => th[u].f \in Flow)
  BY DEF Types, TypeOK, ThreadsSound, Sound, OnFlow, ThreadRec
<1>2. \A i \in DOMAIN th[u].work : th[u].work[i] \in Flow
  BY <1>1, SMTT(30)
<1> QED
  BY <1>1, <1>2 DEF Doomed, Thread

\* A step in which no thread takes hold of another flow's box.
LEMMA CalmStep ==
  ASSUME Types, FinInv,
         \A u \in Thread : \/ th'[u] = th[u]
                           \/ th[u].pc # "taken" /\ Calm(u, th'[u])
  PROVE  FinInv'
<1>1. IdleWork'
  BY DEF FinInv, IdleWork, Calm
<1>2. \A u \in Thread : \/ Doomed(u)' = Doomed(u) /\ th'[u].work = th[u].work
                        \/ Doomed(u)' \subseteq {u} /\ th'[u].work = << >> /\ th[u].pc # "taken"
  <2> TAKE u \in Thread
  <2>1. CASE th'[u] = th[u]
    BY <2>1 DEF Doomed
  <2>2. CASE th[u].pc # "taken" /\ Calm(u, th'[u])
    <3>1. CASE th'[u].pc \in FinPc /\ th'[u].f = th[u].f /\ th'[u].work = th[u].work
               /\ th[u].pc \in FinPc
      BY <3>1 DEF Doomed
    <3>2. CASE th'[u].work = << >> /\ (th'[u].pc \in FinPc => th'[u].f = u)
      <4>1. DOMAIN th'[u].work = {}
        BY <3>2, SMTT(30)
      <4>2. \A x \in Doomed(u)' : x = u
        BY <3>2, <4>1 DEF Doomed
      <4> QED
        BY <2>2, <3>2, <4>2
    <3> QED
      BY <2>2, <3>1, <3>2 DEF Calm
  <2> QED
    BY <2>1, <2>2
<1>3. \A u \in Thread : th[u].pc = "taken" => th'[u] = th[u]
  OBVIOUS
<1>4. \A u \in Thread : \A f \in Doomed(u) : f \in Thread /\ (f = u \/ th[f].pc = "taken")
  BY DoomedFlows DEF FinInv, FinalizedOnce
<1>5. \A t, u \in Thread : t # u => Doomed(t) \cap Doomed(u) = {}
  BY DEF FinInv, FinalizedOnce
<1>6. \A t, u \in Thread : t # u => Doomed(t)' \cap Doomed(u)' = {}
  <2> SUFFICES ASSUME NEW t \in Thread, NEW u \in Thread, t # u,
                      NEW f \in Doomed(t)', f \in Doomed(u)'
               PROVE  FALSE
    OBVIOUS
  <2> HIDE DEF Doomed
  <2>1. f \in Doomed(t) \/ (f = t /\ th[t].pc # "taken")
    BY <1>2
  <2>2. f \in Doomed(u) \/ (f = u /\ th[u].pc # "taken")
    BY <1>2
  <2> QED
    BY <1>4, <1>5, <2>1, <2>2
<1>7. ASSUME NEW t \in Thread
      PROVE  /\ \A i, j \in DOMAIN th'[t].work : i # j => th'[t].work[i] # th'[t].work[j]
             /\ th'[t].pc \in FinPc => \A i \in DOMAIN th'[t].work : th'[t].work[i] # th'[t].f
  <2>1. /\ \A i, j \in DOMAIN th[t].work : i # j => th[t].work[i] # th[t].work[j]
        /\ th[t].pc \in FinPc => \A i \in DOMAIN th[t].work : th[t].work[i] # th[t].f
    BY DEF FinInv, FinalizedOnce
  <2>2. CASE th'[t].work = << >>
    BY <2>2, SMTT(30)
  <2>3. CASE th'[t] = th[t]
    BY <2>1, <2>3
  <2>4. CASE th'[t].f = th[t].f /\ th'[t].work = th[t].work /\ th[t].pc \in FinPc
    BY <2>1, <2>4
  <2> QED
    BY <2>2, <2>3, <2>4 DEF Calm
<1>8. \A t \in Thread : \A f \in Doomed(t)' : f = t \/ th'[f].pc = "taken"
  <2> SUFFICES ASSUME NEW t \in Thread, NEW f \in Doomed(t)', f # t PROVE th'[f].pc = "taken"
    OBVIOUS
  <2>1. f \in Doomed(t)
    BY <1>2
  <2>2. f \in Thread /\ th[f].pc = "taken"
    BY <1>4, <2>1
  <2> QED
    BY <1>3, <2>2
<1> QED
  BY <1>1, <1>6, <1>7, <1>8 DEF FinInv, FinalizedOnce

\* A parked flow is in nobody's hands.
LEMMA ParkedFree ==
  ASSUME Types, FinInv, NEW g \in Flow, th[g].pc = "parked"
  PROVE  \A u \in Thread : g \notin Doomed(u)
<1> SUFFICES ASSUME NEW u \in Thread, g \in Doomed(u) PROVE FALSE
  OBVIOUS
<1>1. g = u
  BY DEF FinInv, FinalizedOnce
<1>2. th[g].work = << >> /\ th[g].pc \notin FinPc
  BY DEF FinInv, IdleWork, FinPc, Thread
<1> QED
  BY <1>1, <1>2, SMTT(30) DEF Doomed

LEMMA AppendFacts ==
  ASSUME NEW w \in Seq(Flow), NEW g \in Flow, NEW v, v = Append(w, g)
  PROVE  \A i \in DOMAIN v : \/ i \in DOMAIN w /\ v[i] = w[i]
                             \/ i = Len(w) + 1 /\ v[i] = g
<1>1. /\ v \in Seq(Flow) /\ Len(v) = Len(w) + 1
      /\ \A i \in 1..Len(w) : v[i] = w[i]
      /\ v[Len(w) + 1] = g
  BY SMTT(30)
<1>2. Len(w) \in Nat /\ DOMAIN w = 1..Len(w) /\ DOMAIN v = 1..(Len(w) + 1)
  BY <1>1, SMTT(30)
<1>3. \A i \in 1..(Len(w) + 1) : i \in 1..Len(w) \/ i = Len(w) + 1
  BY <1>2, SMTT(30)
<1> QED
  BY <1>1, <1>2, <1>3

LEMMA PopFacts ==
  ASSUME NEW w \in Seq(Flow), w # << >>, NEW v, v = SubSeq(w, 1, Len(w) - 1)
  PROVE  /\ Len(w) \in DOMAIN w
         /\ \A i \in DOMAIN v : i \in DOMAIN w /\ v[i] = w[i] /\ i # Len(w)
<1>1. Len(w) \in Nat \ {0} /\ DOMAIN w = 1..Len(w)
  BY SMTT(30)
<1>2. DOMAIN v = 1..(Len(w) - 1) /\ \A i \in 1..(Len(w) - 1) : v[i] = w[i]
  BY <1>1, SMTT(30)
<1> QED
  BY <1>1, <1>2, SMTT(30)

\* Thread t takes a parked flow g out of its inbox, to finalize it now or later.
LEMMA TakeStep ==
  ASSUME Types, FinInv, NEW t \in Thread, NEW g \in Flow, NEW r,
         th[t].pc \notin {"parked", "taken"}, th[g].pc = "parked",
         \A u \in Thread : th'[u] = IF u = t THEN r ELSE IF u = g THEN At(g, "taken") ELSE th[u],
         r.pc \in FinPc,
         \/ th[t].pc \notin FinPc /\ r.f = g /\ r.work = << >>
         \/ th[t].pc \in FinPc /\ r.f = th[t].f /\ r.work = Append(th[t].work, g)
  PROVE  FinInv'
<1>0. t # g /\ g \in Thread
  BY DEF Thread
<1>1. \A u \in Thread : g \notin Doomed(u)
  BY ParkedFree
<1>2. th[g].work = << >> /\ th[g].pc \notin FinPc
  BY DEF FinInv, IdleWork, FinPc, Thread
<1>3. At(g, "taken").pc = "taken" /\ At(g, "taken").work = << >>
  <2>1. th[g] \in ThreadRec
    BY <1>0 DEF Types, TypeOK
  <2>2. At(g, "taken").pc = "taken" /\ At(g, "taken").work = th[g].work
    BY <2>1 DEF At, ThreadRec
  <2> QED
    BY <1>2, <2>2
<1>4. th'[g].pc = "taken" /\ th'[g].work = << >> /\ th'[t] = r
  BY <1>0, <1>3
<1>5. \A u \in Thread \ {t, g} : th'[u] = th[u]
  OBVIOUS
<1>6. IdleWork'
  BY <1>4, <1>5 DEF FinInv, IdleWork, FinPc
<1>7. th[t].work \in Seq(Flow) /\ (th[t].pc \notin FinPc => th[t].work = << >>)
  BY DEF Types, TypeOK, ThreadRec, FinInv, IdleWork
<1>8. \A i, j \in DOMAIN th[t].work : i # j => th[t].work[i] # th[t].work[j]
  BY DEF FinInv, FinalizedOnce
<1>9. \A i \in DOMAIN th[t].work : th[t].work[i] # g
  BY <1>1 DEF Doomed
<1> DEFINE Good(x) == /\ \A i, j \in DOMAIN x.work : i # j => x.work[i] # x.work[j]
                      /\ x.pc \in FinPc => \A i \in DOMAIN x.work : x.work[i] # x.f
           Holds(x) == {x.work[i] : i \in DOMAIN x.work} \cup {x.f}
<1>a. Doomed(t)' = Holds(r)
  BY <1>4 DEF Doomed
<1>b. th[t].pc \in FinPc => Doomed(t) = Holds(th[t])
  BY DEF Doomed
<1>c. \A u \in Thread : Good(th[u])
  BY DEF FinInv, FinalizedOnce
<1>10. (\A x \in Holds(r) : x = g \/ x \in Doomed(t)) /\ Good(r)
  <2>1. CASE th[t].pc \notin FinPc /\ r.f = g /\ r.work = << >>
    <3>1. DOMAIN r.work = {}
      BY <2>1, SMTT(30)
    <3> QED
      BY <2>1, <3>1
  <2>2. CASE th[t].pc \in FinPc /\ r.f = th[t].f /\ r.work = Append(th[t].work, g)
    <3> DEFINE w == th[t].work
    <3>2. \A i \in DOMAIN r.work : \/ i \in DOMAIN w /\ r.work[i] = w[i]
                                   \/ i = Len(w) + 1 /\ r.work[i] = g
      <4> DEFINE v == r.work
      <4>1. w \in Seq(Flow) /\ v = Append(w, g)
        BY <1>7, <2>2
      <4> HIDE DEF w, v
      <4>2. \A i \in DOMAIN v : \/ i \in DOMAIN w /\ v[i] = w[i]
                                \/ i = Len(w) + 1 /\ v[i] = g
        BY <4>1, AppendFacts, SMTT(30)
      <4> QED
        BY <4>2 DEF v
    <3>3. th[t].f \in Doomed(t) /\ \A i \in DOMAIN w : w[i] \in Doomed(t)
      BY <2>2 DEF Doomed
    <3>4. \A x \in Holds(r) : x = g \/ x \in Doomed(t)
      <4> SUFFICES ASSUME NEW x \in Holds(r) PROVE x = g \/ x \in Doomed(t)
        OBVIOUS
      <4>1. x = r.f \/ \E i \in DOMAIN r.work : x = r.work[i]
        OBVIOUS
      <4> HIDE DEF Holds
      <4> QED
        BY <2>2, <3>2, <3>3, <4>1
    <3>5. \A i, j \in DOMAIN r.work : i # j => r.work[i] # r.work[j]
      BY <1>8, <1>9, <3>2, SMTT(30)
    <3>6. g # th[t].f /\ \A i \in DOMAIN w : w[i] # th[t].f
      BY <1>1, <1>c, <2>2, <3>3
    <3>7. \A i \in DOMAIN r.work : r.work[i] # r.f
      BY <2>2, <3>2, <3>6
    <3> QED
      BY <3>4, <3>5, <3>7
  <2> QED
    BY <2>1, <2>2
<1> HIDE DEF Holds
<1>11. Doomed(g)' = {}
  BY <1>4, SMTT(30) DEF Doomed, FinPc
<1>12. \A u \in Thread \ {t, g} : Doomed(u)' = Doomed(u)
  <2> DEFINE Of(l) == {l.work[i] : i \in DOMAIN l.work} \cup IF l.pc \in FinPc THEN {l.f} ELSE {}
  <2>1. \A u : Doomed(u) = Of(th[u]) /\ Doomed(u)' = Of(th'[u])
    BY DEF Doomed
  <2> HIDE DEF Of
  <2> QED
    BY <1>5, <2>1
<1>13. \A u, v \in Thread : u # v => Doomed(u) \cap Doomed(v) = {}
  BY DEF FinInv, FinalizedOnce
<1>14. \A u \in Thread : \A f \in Doomed(u) : f \in Thread /\ (f = u \/ th[f].pc = "taken")
  BY DoomedFlows DEF FinInv, FinalizedOnce
<1>15. \A u, v \in Thread : u # v => Doomed(u)' \cap Doomed(v)' = {}
  <2> SUFFICES ASSUME NEW u \in Thread, NEW v \in Thread, u # v,
                      NEW f \in Doomed(u)', f \in Doomed(v)'
               PROVE  FALSE
    OBVIOUS
  <2>1. (u = t /\ f = g) \/ f \in Doomed(u)
    BY <1>a, <1>10, <1>11, <1>12
  <2>2. (v = t /\ f = g) \/ f \in Doomed(v)
    BY <1>a, <1>10, <1>11, <1>12
  <2> QED
    BY <1>1, <1>13, <2>1, <2>2
<1>16. \A u \in Thread : Good(th'[u])
  <2>1. Good(th'[g])
    <3>1. DOMAIN th'[g].work = {}
      BY <1>4, SMTT(30)
    <3> QED
      BY <3>1
  <2> HIDE DEF Good
  <2> QED
    BY <1>4, <1>5, <1>10, <1>c, <2>1
<1>17. \A u \in Thread : \A f \in Doomed(u)' : f = u \/ th'[f].pc = "taken"
  <2> SUFFICES ASSUME NEW u \in Thread, NEW f \in Doomed(u)', f # u PROVE th'[f].pc = "taken"
    OBVIOUS
  <2>1. CASE f = g
    BY <1>4, <2>1
  <2>2. CASE f # g
    <3>1. f \in Doomed(u)
      BY <1>a, <1>10, <1>11, <1>12, <2>2
    <3>2. f \in Thread /\ th[f].pc = "taken"
      BY <1>14, <3>1
    <3> QED
      BY <1>5, <2>2, <3>2
  <2> QED
    BY <2>1, <2>2
<1> QED
  BY <1>6, <1>15, <1>16, <1>17 DEF FinInv, FinalizedOnce

\* Thread t goes on with the last flow of its work list.
LEMMA PopStep ==
  ASSUME Types, FinInv, NEW t \in Thread, NEW r, th' = [th EXCEPT ![t] = r],
         th[t].pc \in FinPc, th[t].work # << >>,
         r.pc \in FinPc, r.f = th[t].work[Len(th[t].work)],
         r.work = SubSeq(th[t].work, 1, Len(th[t].work) - 1)
  PROVE  FinInv'
<1> DEFINE w == th[t].work
<1>1. th \in [Thread -> ThreadRec] /\ w \in Seq(Flow)
  BY DEF Types, TypeOK, ThreadRec
<1>2. /\ Len(w) \in DOMAIN w
      /\ \A i \in DOMAIN r.work : i \in DOMAIN w /\ r.work[i] = w[i] /\ i # Len(w)
  BY <1>1, PopFacts
<1>4. \A u \in Thread : th'[u] = IF u = t THEN r ELSE th[u]
  BY <1>1
<1>5. /\ \A i, j \in DOMAIN w : i # j => w[i] # w[j]
      /\ \A i \in DOMAIN w : w[i] # th[t].f
  BY DEF FinInv, FinalizedOnce
<1>6. r.f \in Doomed(t)
  BY <1>2 DEF Doomed
<1>8. \A x \in Doomed(t)' : x \in Doomed(t) /\ x # th[t].f
  <2> SUFFICES ASSUME NEW x \in Doomed(t)' PROVE x \in Doomed(t) /\ x # th[t].f
    OBVIOUS
  <2>1. x = r.f \/ \E i \in DOMAIN r.work : x = r.work[i]
    BY <1>4 DEF Doomed
  <2>2. r.f = w[Len(w)]
    OBVIOUS
  <2>3. \E i \in DOMAIN w : x = w[i]
    <3> HIDE DEF w
    <3> QED
      BY <1>2, <2>1, <2>2
  <2> QED
    BY <1>5, <2>3 DEF Doomed
<1>9. \A u \in Thread \ {t} : Doomed(u)' = Doomed(u) /\ th'[u] = th[u]
  BY <1>4, SMTT(30) DEF Doomed
<1>10. \A u, v \in Thread : u # v => Doomed(u) \cap Doomed(v) = {}
  BY DEF FinInv, FinalizedOnce
<1>11. \A u, v \in Thread : u # v => Doomed(u)' \cap Doomed(v)' = {}
  BY <1>8, <1>9, <1>10, SMTT(30)
<1> DEFINE Good(x) == /\ \A i, j \in DOMAIN x.work : i # j => x.work[i] # x.work[j]
                      /\ x.pc \in FinPc => \A i \in DOMAIN x.work : x.work[i] # x.f
<1>12. \A u \in Thread : Good(th'[u])
  <2>1. Good(r)
    <3>1. \A i, j \in DOMAIN r.work : i # j => r.work[i] # r.work[j]
      BY <1>2, <1>5
    <3>2. r.f = w[Len(w)]
      OBVIOUS
    <3> HIDE DEF w
    <3>3. \A i \in DOMAIN r.work : r.work[i] # r.f
      BY <1>2, <1>5, <3>2
    <3> QED
      BY <3>1, <3>3
  <2>2. \A u \in Thread : Good(th[u])
    BY DEF FinInv, FinalizedOnce
  <2> HIDE DEF Good
  <2> QED
    BY <1>4, <2>1, <2>2
<1>13. \A u \in Thread : \A f \in Doomed(u)' : f = u \/ th'[f].pc = "taken"
  <2> SUFFICES ASSUME NEW u \in Thread, NEW f \in Doomed(u)', f # u PROVE th'[f].pc = "taken"
    OBVIOUS
  <2>1. f \in Doomed(u)
    BY <1>8, <1>9
  <2>2. f \in Thread /\ th[f].pc = "taken"
    BY <2>1, DoomedFlows DEF FinInv, FinalizedOnce
  <2>3. f # t
    BY <2>2 DEF FinPc
  <2> QED
    BY <1>9, <2>2, <2>3
<1>14. IdleWork'
  <2>1. \A u \in Thread : th[u].pc \notin FinPc => th[u].work = << >>
    BY DEF FinInv, IdleWork
  <2>2. th'[t] = r /\ \A u \in Thread : u # t => th'[u] = th[u]
    BY <1>4
  <2> QED
    BY <2>1, <2>2 DEF IdleWork
<1> QED
  BY <1>11, <1>12, <1>13, <1>14 DEF FinInv, FinalizedOnce

-----------------------------------------------------------------------------
(* Finalization, action by action *)

LEMMA GotoCalm ==
  ASSUME Types, FinInv, NEW t \in Thread, NEW r, Goto(t, r), th[t].pc # "taken", Calm(t, r)
  PROVE  FinInv'
<1>1. \A u \in Thread : th'[u] = IF u = t THEN r ELSE th[u]
  BY DEF Goto, Types, TypeOK
<1>2. \A u \in Thread : th'[u] = th[u] \/ (th[u].pc # "taken" /\ Calm(u, th'[u]))
  BY <1>1
<1> QED
  BY <1>2, CalmStep

LEMMA DeliverCalm ==
  ASSUME Types, FinInv, NEW t \in Thread, NEW f \in Flow, NEW hop, NEW r,
         Deliver(t, f, hop, r), th[t].pc # "taken", Calm(t, r)
  PROVE  FinInv'
<1>1. \A u \in Thread : \/ th'[u] = r /\ u = t
                        \/ th'[u] = Runnable(u) /\ u \in Flow /\ th[u].pc = "parked"
                        \/ th'[u] = th[u]
  BY DEF Deliver
<1>2. \A u \in Flow : Calm(u, Runnable(u))
  BY DEF Calm, Runnable, Ready, FinPc
<1>3. \A u \in Thread : th'[u] = th[u] \/ (th[u].pc # "taken" /\ Calm(u, th'[u]))
  BY <1>1, <1>2
<1> QED
  BY <1>3, CalmStep

\* A thread that stays inside, or outside, finalize with the same flow and work list.
LEMMA KeepsCalm ==
  ASSUME FinInv, NEW t \in Thread, NEW n, n.f = th[t].f, n.work = th[t].work,
         n.pc \in FinPc <=> th[t].pc \in FinPc
  PROVE  Calm(t, n)
  BY DEF Calm, FinInv, IdleWork

LEMMA AtCalm ==
  ASSUME Types, FinInv, NEW t \in Thread, NEW pc \in Pcs,
         pc \in FinPc <=> th[t].pc \in FinPc
  PROVE  Calm(t, At(t, pc))
<1>1. At(t, pc).pc = pc /\ At(t, pc).f = th[t].f /\ At(t, pc).work = th[t].work
  BY SMTT(30) DEF At, Types, TypeOK, ThreadRec
<1> QED
  BY <1>1, KeepsCalm

LEMMA FreshCalm ==
  ASSUME NEW t \in Thread
  PROVE  /\ \A x \in Thread : Calm(t, Ready(x))
         /\ t \in Flow => Calm(t, Runnable(t))
         /\ \A reason \in Reason : t \in Flow /\ th[t].pc \notin FinPc => Calm(t, Finalizing(t, reason))
         /\ t \in Flow \cup Host /\ th[t].pc \notin FinPc => Calm(t, Refused(t))
<1>1. \A x \in Thread : Calm(t, Ready(x))
  BY DEF Calm, Ready, FinPc
<1>2. t \in Flow => Calm(t, Runnable(t))
  BY DEF Calm, Runnable, Ready, FinPc
<1>3. \A reason \in Reason : t \in Flow /\ th[t].pc \notin FinPc => Calm(t, Finalizing(t, reason))
  BY FinalizingFacts DEF Calm, FinPc
<1>4. t \in Flow \cup Host /\ th[t].pc \notin FinPc => Calm(t, Refused(t))
  BY <1>1, <1>3 DEF Refused, Reason
<1> QED
  BY <1>1, <1>2, <1>3, <1>4

LEMMA FinRequest ==
  ASSUME Types, FinInv, NEW t \in Flow \cup Host, Request(t)
  PROVE  FinInv'
<1>0. t \in Thread
  BY DEF Thread
<1>2. ASSUME th[t].pc = "ready", Goto(t, Ready(t)) \/ Goto(t, Refused(t))
      PROVE  FinInv'
  BY <1>0, <1>2, FreshCalm, GotoCalm DEF FinPc
<1>3. ASSUME UNCHANGED th PROVE FinInv'
  BY <1>3, CalmStep
<1>4. ASSUME NEW f \in Flow, NEW g \in Flow, Link(t, f, g) \/ Monitor(t, f, g) PROVE FinInv'
  <2>1. PICK pc \in {"link_insert", "mon_create"} :
          th[t].pc = "ready" /\ Goto(t, [Ready(f) EXCEPT !.pc = pc, !.to = g])
    BY <1>4 DEF Link, Monitor, Issue
  <2>2. Calm(t, [Ready(f) EXCEPT !.pc = pc, !.to = g])
    BY DEF Calm, Ready, FinPc
  <2> QED
    BY <1>0, <2>1, <2>2, GotoCalm
<1>5. ASSUME NEW f \in Flow, Register(t, f) PROVE FinInv'
  <2>1. Calm(t, [Ready(f) EXCEPT !.pc = "reg_insert"])
    BY DEF Calm, Ready, FinPc
  <2>2. th[t].pc = "ready" /\ Goto(t, [Ready(f) EXCEPT !.pc = "reg_insert"])
    BY <1>5 DEF Register, Issue
  <2> QED
    BY <1>0, <2>1, <2>2, GotoCalm
<1>6. ASSUME NEW g \in Flow, NEW reason \in Reason, Signal(t, g, reason) PROVE FinInv'
  <2>1. PICK pc \in {"sig_self", "sig_trap", "kill_set"} :
          Goto(t, [Ready(t) EXCEPT !.to = g, !.reason = reason, !.pc = pc])
    BY <1>6 DEF Signal
  <2>2. Calm(t, [Ready(t) EXCEPT !.to = g, !.reason = reason, !.pc = pc])
    BY DEF Calm, Ready, FinPc
  <2>3. th[t].pc = "ready"
    BY <1>6 DEF Signal, Issue
  <2> QED
    BY <1>0, <2>1, <2>2, <2>3, GotoCalm
<1>7. ASSUME NEW f \in Flow, NEW id, Unlink(t, f, id) \/ Demonitor(t, f, id) PROVE FinInv'
  BY <1>2, <1>7 DEF Unlink, Demonitor, Issue
<1>8. ASSUME NEW f \in Flow, NEW on, SetTrap(t, f, on) PROVE FinInv'
  BY <1>3, <1>8 DEF SetTrap
<1>9. ASSUME NEW name, Unregister(t, name) PROVE FinInv'
  BY <1>3, <1>9 DEF Unregister
<1> QED
  BY <1>4, <1>5, <1>6, <1>7, <1>8, <1>9 DEF Request

\* Thread t asks for flow g's box and goes on as r with it, or as none without.
LEMMA TakeParkedCalm ==
  ASSUME Types, FinInv, NEW t \in Thread, NEW g \in Flow, NEW r, NEW none,
         TakeParked(t, g, r, none), th[t].pc \notin {"parked", "taken"}, Calm(t, none),
         r.pc \in FinPc,
         \/ th[t].pc \notin FinPc /\ r.f = g /\ r.work = << >>
         \/ th[t].pc \in FinPc /\ r.f = th[t].f /\ r.work = Append(th[t].work, g)
  PROVE  FinInv'
<1>0. g \in Thread
  BY DEF Thread
<1>1. CASE th[g].pc = "parked"
  <2>1. t # g
    BY <1>1
  <2>2. \A u \in Thread : th'[u] = IF u = t THEN r ELSE IF u = g THEN At(g, "taken") ELSE th[u]
    BY <1>0, <1>1, <2>1 DEF TakeParked
  <2> QED
    BY <1>1, <2>2, TakeStep
<1>2. CASE th[g].pc # "parked"
  <2>1. \A u \in Thread : th'[u] = IF u = t THEN none ELSE th[u]
    BY <1>2 DEF TakeParked
  <2>2. \A u \in Thread : th'[u] = th[u] \/ (th[u].pc # "taken" /\ Calm(u, th'[u]))
    BY <2>1
  <2> QED
    BY <2>2, CalmStep
<1> QED
  BY <1>1, <1>2

LEMMA FinHandler ==
  ASSUME Types, FinInv, NEW t \in Flow \cup Host, Handler(t)
  PROVE  FinInv'
<1> DEFINE l == th[t]
<1>0. t \in Thread /\ l \in ThreadRec /\ (l.pc \in HasTarget => l.to \in Flow)
      /\ (l.pc \in OnFlow => l.f \in Flow)
  BY DEF Thread, Types, TypeOK, ThreadsSound, Sound
<1>2. ASSUME l.pc \in HandlerPc, NEW n, Goto(t, n),
             n.f = l.f, n.work = l.work, n.pc \in HandlerPc
      PROVE  FinInv'
  <2>1. l.pc \notin FinPc /\ n.pc \notin FinPc /\ l.pc # "taken"
    BY <1>2 DEF HandlerPc, FinPc
  <2>2. Calm(t, n)
    BY <1>0, <1>2, <2>1, KeepsCalm
  <2> QED
    BY <1>0, <1>2, <2>1, <2>2, GotoCalm
<1>3. ASSUME l.pc \in HandlerPc, NEW pc \in HandlerPc, Goto(t, At(t, pc)) PROVE FinInv'
  <2>1. l.pc \notin FinPc /\ l.pc # "taken" /\ pc \notin FinPc /\ pc \in Pcs
    BY <1>3 DEF HandlerPc, FinPc, Pcs
  <2> QED
    BY <1>0, <1>3, <2>1, AtCalm, GotoCalm
<1>4. ASSUME l.pc \in HandlerPc, \/ Goto(t, Ready(t)) \/ Goto(t, Refused(t))
                                 \/ t \in Flow /\ Goto(t, Finalizing(t, l.reason))
      PROVE  FinInv'
  <2>1. l.pc \notin FinPc /\ l.pc # "taken" /\ l.reason \in Reason
    BY <1>0, <1>4 DEF HandlerPc, FinPc, ThreadRec
  <2> QED
    BY <1>0, <1>4, <2>1, FreshCalm, GotoCalm
<1>5. ASSUME LinkInsert(t) PROVE FinInv'
  <2> DEFINE n == [l EXCEPT !.pc = "confirm_a", !.id = nextLink]
  <2>1. l.pc \in HandlerPc /\ (Goto(t, Refused(t)) \/ Goto(t, n))
    BY <1>5 DEF LinkInsert, HandlerPc
  <2>2. n.f = l.f /\ n.work = l.work /\ n.pc \in HandlerPc
    BY <1>0 DEF ThreadRec, HandlerPc
  <2> HIDE DEF n
  <2> QED
    BY <1>2, <1>4, <2>1, <2>2
<1>6. ASSUME ConfirmA(t) PROVE FinInv'
  <2> DEFINE n == [l EXCEPT !.pc = "confirm_b", !.alive = l.f \in live]
  <2>1. l.pc \in HandlerPc /\ Goto(t, n)
    BY <1>6 DEF ConfirmA, HandlerPc
  <2>2. n.f = l.f /\ n.work = l.work /\ n.pc \in HandlerPc
    BY <1>0 DEF ThreadRec, HandlerPc
  <2> HIDE DEF n
  <2> QED
    BY <1>2, <2>1, <2>2
<1>7. ASSUME MonitorCreate(t) PROVE FinInv'
  <2> DEFINE n == [l EXCEPT !.pc = "mon_check", !.id = nextMonitor]
  <2>1. Goto(t, Refused(t)) \/ Goto(t, Ready(t)) \/ Goto(t, n)
    BY <1>7 DEF MonitorCreate
  <2>2. l.pc \in HandlerPc
    BY <1>7 DEF MonitorCreate, HandlerPc
  <2>3. n.f = l.f /\ n.work = l.work /\ n.pc \in HandlerPc
    BY <1>0 DEF ThreadRec, HandlerPc
  <2> HIDE DEF n
  <2> QED
    BY <1>2, <1>4, <2>1, <2>2, <2>3
<1>8. ASSUME \/ ConfirmB(t) \/ LinkUndo(t) \/ MonitorCheck(t) \/ MonitorUndo(t)
             \/ \E name \in Name : RegisterInsert(t, name)
      PROVE  FinInv'
  <2>1. l.pc \in HandlerPc /\ \/ Goto(t, Ready(t)) \/ Goto(t, Refused(t))
                              \/ \E pc \in {"link_undo", "mon_undo", "mon_down"} : Goto(t, At(t, pc))
    BY <1>8 DEF ConfirmB, LinkUndo, MonitorCheck, MonitorUndo, RegisterInsert, HandlerPc
  <2>2. {"link_undo", "mon_undo", "mon_down"} \subseteq HandlerPc
    BY DEF HandlerPc
  <2> QED
    BY <1>3, <1>4, <2>1, <2>2
<1>9. ASSUME SignalSelf(t) \/ SignalTrap(t) PROVE FinInv'
  <2>1. l.pc \in {"sig_self", "sig_trap"} /\ l.pc \in HandlerPc
    BY <1>9 DEF SignalSelf, SignalTrap, HandlerPc
  <2>2. l.f = t /\ t \in Flow
    BY <1>0, <2>1 DEF Types, ThreadsSound, Sound, SelfPc, OnFlow, HandlerPc
  <2>3. \/ Goto(t, Finalizing(t, l.reason))
        \/ \E pc \in {"sig_trap", "sig_exit", "kill_set"} : Goto(t, At(t, pc))
    BY <1>9 DEF SignalSelf, SignalTrap
  <2>4. {"sig_trap", "sig_exit", "kill_set"} \subseteq HandlerPc
    BY DEF HandlerPc
  <2> QED
    BY <1>3, <1>4, <2>1, <2>2, <2>3, <2>4
<1>10. ASSUME KillSet(t) PROVE FinInv'
  <2>1. l.pc \in HandlerPc /\ (Goto(t, Ready(t)) \/ Goto(t, At(t, "kill_take")))
    BY <1>10 DEF KillSet, SetSignal, HandlerPc
  <2> QED
    BY <1>3, <1>4, <2>1 DEF HandlerPc
<1>11. ASSUME MonitorDown(t) \/ SignalExit(t) PROVE FinInv'
  <2>1. l.pc \in {"mon_down", "sig_exit"}
    BY <1>11 DEF MonitorDown, SignalExit
  <2>2. \E f \in Flow : \E hop : Deliver(t, f, hop, Ready(t))
    BY <1>0, <1>11 DEF MonitorDown, SignalExit, OnFlow, HandlerPc, HasTarget
  <2> QED
    BY <1>0, <2>1, <2>2, FreshCalm, DeliverCalm
<1>12. ASSUME KillTake(t) PROVE FinInv'
  <2>1. l.pc = "kill_take" /\ TakeParked(t, l.to, Finalizing(l.to, l.reason), Ready(t))
    BY <1>12 DEF KillTake
  <2>2. l.to \in Flow /\ l.reason \in Reason /\ l.pc \notin FinPc \cup {"parked", "taken"}
    BY <1>0, <2>1 DEF HasTarget, ThreadRec, FinPc
  <2> DEFINE n == Finalizing(l.to, l.reason)
  <2>3. \A g \in Flow, v \in Reason :
          Finalizing(g, v).pc = "fin_clear" /\ Finalizing(g, v).f = g /\ Finalizing(g, v).work = << >>
    BY FinalizingFacts
  <2>4. n.pc = "fin_clear" /\ n.f = l.to /\ n.work = << >> /\ TakeParked(t, l.to, n, Ready(t))
    BY <2>1, <2>2, <2>3
  <2> HIDE DEF n
  <2>5. n.pc \in FinPc
    BY <2>4 DEF FinPc
  <2> QED
    BY <1>0, <2>1, <2>2, <2>4, <2>5, FreshCalm, TakeParkedCalm
<1> QED
  BY <1>5, <1>6, <1>7, <1>8, <1>9, <1>10, <1>11, <1>12 DEF Handler

LEMMA FinFinalize ==
  ASSUME Types, FinInv, NEW t \in Thread, Finalize(t)
  PROVE  FinInv'
<1> DEFINE l == th[t]
<1>0. /\ l \in ThreadRec /\ (l.pc \in HasTarget => l.to \in Flow)
      /\ (l.pc \in OnFlow => l.f \in Flow) /\ l.work \in Seq(Flow) /\ l.rows \subseteq RowRec
  BY DEF Types, TypeOK, ThreadsSound, Sound, ThreadRec
<1>1. ASSUME l.pc \in FinPc, NEW n, n.f = l.f, n.work = l.work, n.pc \in FinPc,
             Goto(t, n) \/ \E f \in Flow : \E hop : Deliver(t, f, hop, n)
      PROVE  FinInv'
  <2>1. Calm(t, n) /\ l.pc # "taken"
    BY <1>1, KeepsCalm DEF FinPc
  <2> QED
    BY <1>1, <2>1, GotoCalm, DeliverCalm
<1>2. \A pc \in FinPc : At(t, pc).f = l.f /\ At(t, pc).work = l.work /\ At(t, pc).pc = pc
  BY <1>0 DEF At, ThreadRec
<1>3. ASSUME FinClear(t) \/ FinUnregister(t) \/ FinOwned(t) \/ FinNames(t) PROVE FinInv'
  <2>1. l.pc \in FinPc /\ \E pc \in FinPc : Goto(t, At(t, pc))
    BY <1>3 DEF FinClear, FinUnregister, FinOwned, FinNames, FinPc
  <2> QED
    BY <1>1, <1>2, <2>1
<1>4. ASSUME FinNotify(t) \/ FinLinks(t) PROVE FinInv'
  <2>0. PICK pc \in {"fin_down", "fin_peer"} : \E rows : Goto(t, [At(t, pc) EXCEPT !.rows = rows])
    BY <1>4 DEF FinNotify, FinLinks
  <2>1. PICK rows : Goto(t, [At(t, pc) EXCEPT !.rows = rows])
    BY <2>0
  <2>2. l.pc \in FinPc
    BY <1>4 DEF FinNotify, FinLinks, FinPc
  <2> DEFINE n == [At(t, pc) EXCEPT !.rows = rows]
  <2>3. n.f = l.f /\ n.work = l.work /\ n.pc = pc
    BY <1>0 DEF At, ThreadRec
  <2>4. n.pc \in FinPc
    BY <2>3 DEF FinPc
  <2> HIDE DEF n
  <2> QED
    BY <1>1, <2>1, <2>2, <2>3, <2>4 DEF n
<1>5. ASSUME NEW r \in l.rows, FinDown(t, r) PROVE FinInv'
  <2> DEFINE n == [l EXCEPT !.rows = @ \ {r}]
  <2>1. l.pc \in FinPc /\ r.flow \in Flow /\ Deliver(t, r.flow, Down(r.id), n)
    BY <1>0, <1>5 DEF FinDown, FinPc, RowRec
  <2>2. n.f = l.f /\ n.work = l.work /\ n.pc = l.pc
    BY <1>0 DEF ThreadRec
  <2> HIDE DEF n
  <2> QED
    BY <1>1, <2>1, <2>2
<1>6. ASSUME NEW r \in l.rows, FinPeer(t, r) PROVE FinInv'
  <2> DEFINE n == [l EXCEPT !.rows = @ \ {r}, !.to = r.flow]
  <2>1. n.f = l.f /\ n.work = l.work /\ n.pc = l.pc /\ n \in [DOMAIN n -> {n[x] : x \in DOMAIN n}]
    BY <1>0 DEF ThreadRec
  <2>2. \/ Goto(t, n) \/ \E pc \in {"fin_exit", "fin_kill"} : Goto(t, [n EXCEPT !.pc = pc])
    BY <1>6 DEF FinPeer
  <2>3. l.pc = "fin_peer"
    BY <1>6 DEF FinPeer
  <2>4. \A pc : /\ [n EXCEPT !.pc = pc].f = l.f /\ [n EXCEPT !.pc = pc].work = l.work
                /\ [n EXCEPT !.pc = pc].pc = pc
    BY <1>0 DEF ThreadRec
  <2> HIDE DEF n
  <2>5. CASE Goto(t, n)
    BY <1>1, <2>1, <2>3, <2>5 DEF FinPc
  <2>6. ASSUME NEW pc \in {"fin_exit", "fin_kill"}, Goto(t, [n EXCEPT !.pc = pc]) PROVE FinInv'
    <3> DEFINE m == [n EXCEPT !.pc = pc]
    <3>1. m.f = l.f /\ m.work = l.work /\ m.pc = pc /\ Goto(t, m)
      BY <2>4, <2>6
    <3> HIDE DEF m
    <3> QED
      BY <1>1, <2>3, <3>1 DEF FinPc
  <2> QED
    BY <2>2, <2>5, <2>6
<1>7. ASSUME FinExit(t) PROVE FinInv'
  <2>1. l.pc \in FinPc /\ l.to \in Flow /\ Deliver(t, l.to, Exit(l.f), At(t, "fin_peer"))
    BY <1>0, <1>7 DEF FinExit, FinPc, HasTarget
  <2> QED
    BY <1>1, <1>2, <2>1 DEF FinPc
<1>8. ASSUME FinKill(t) PROVE FinInv'
  <2>1. l.pc \in FinPc /\ \E pc \in FinPc : Goto(t, At(t, pc))
    BY <1>8 DEF FinKill, SetSignal, FinPc
  <2> QED
    BY <1>1, <1>2, <2>1
<1>9. ASSUME FinTake(t) PROVE FinInv'
  <2> DEFINE n == [At(t, "fin_peer") EXCEPT !.work = Append(@, l.to)]
  <2>1. l.pc = "fin_take" /\ l.to \in Flow /\ TakeParked(t, l.to, n, At(t, "fin_peer"))
    BY <1>0, <1>9 DEF FinTake, HasTarget
  <2>2. n.f = l.f /\ n.work = Append(l.work, l.to) /\ n.pc = "fin_peer"
    BY <1>0 DEF At, ThreadRec
  <2> HIDE DEF n
  <2>3. Calm(t, At(t, "fin_peer"))
    BY <2>1, AtCalm DEF FinPc, Pcs
  <2>4. l.pc \in FinPc /\ n.pc \in FinPc /\ l.pc \notin {"parked", "taken"}
    BY <2>1, <2>2 DEF FinPc
  <2> QED
    BY <2>1, <2>2, <2>3, <2>4, TakeParkedCalm
<1>10. ASSUME FinNext(t) PROVE FinInv'
  <2> DEFINE w == l.work
             n == [Finalizing(w[Len(w)], "link") EXCEPT !.work = SubSeq(w, 1, Len(w) - 1)]
  <2>1. l.pc = "fin_peer" /\ l.pc \in FinPc /\ l.pc # "taken"
    BY <1>10 DEF FinNext, FinPc
  <2>2. \/ w # << >> /\ Goto(t, n)
        \/ w = << >> /\ (Goto(t, Ready(t)) \/ Goto(t, At(t, "gone")))
    BY <1>10 DEF FinNext
  <2>3. CASE w # << >> /\ Goto(t, n)
    <3>1. n.pc = "fin_clear" /\ n.f = w[Len(w)] /\ n.work = SubSeq(w, 1, Len(w) - 1)
      BY DEF Finalizing, Ready
    <3>2. th' = [th EXCEPT ![t] = n]
      BY <2>3 DEF Goto
    <3>3. n.pc \in FinPc
      BY <3>1 DEF FinPc
    <3> HIDE DEF n
    <3> QED
      BY <2>1, <2>3, <3>1, <3>2, <3>3, PopStep
  <2>4. CASE w = << >> /\ (Goto(t, Ready(t)) \/ Goto(t, At(t, "gone")))
    <3>1. At(t, "gone").pc = "gone" /\ At(t, "gone").work = << >>
      BY <1>0, <2>4 DEF At, ThreadRec
    <3>2. Calm(t, At(t, "gone"))
      BY <3>1 DEF Calm, FinPc
    <3> QED
      BY <2>1, <2>4, <3>2, FreshCalm, GotoCalm
  <2> QED
    BY <2>2, <2>3, <2>4
<1> QED
  BY <1>3, <1>4, <1>5, <1>6, <1>7, <1>8, <1>9, <1>10 DEF Finalize

LEMMA FinFlowStep ==
  ASSUME Types, FinInv, NEW f \in Flow, FlowStep(f)
  PROVE  FinInv'
<1>0. f \in Thread
  BY DEF Thread
<1>1. ASSUME Quantum(f) \/ \E reason \in {"normal", "fault"} : Complete(f, reason) PROVE FinInv'
  <2>1. \/ Goto(f, Ready(f))
        \/ \E reason \in Reason : Goto(f, Finalizing(f, reason))
    BY <1>1 DEF Quantum, Complete, Types, TypeOK, Reason
  <2>2. th[f].pc \notin FinPc /\ th[f].pc # "taken"
    BY <1>1 DEF Quantum, Complete, FinPc
  <2> QED
    BY <1>0, <2>1, <2>2, FreshCalm, GotoCalm
<1>2. ASSUME Yield(f) \/ Resume(f) PROVE FinInv'
  <2>1. Goto(f, Runnable(f)) /\ th[f].pc # "taken"
    BY <1>2 DEF Yield, Resume
  <2> QED
    BY <1>0, <2>1, FreshCalm, GotoCalm
<1>3. ASSUME NEW w \in Worker, Park(f, w) PROVE FinInv'
  <2> DEFINE n == [Ready(f) EXCEPT !.pc = "park_check"]
  <2>1. w \in Thread /\ th[f].pc = "ready" /\ th[w].pc = "ready"
    BY <1>3 DEF Park, Thread
  <2>2. \A u \in Thread : th'[u] = IF u = w THEN n ELSE IF u = f THEN At(f, "parked") ELSE th[u]
    BY <1>0, <1>3, <2>1 DEF Park, Types, TypeOK
  <2>3. Calm(w, n)
    BY DEF Calm, Ready, FinPc
  <2>4. Calm(f, At(f, "parked"))
    BY <1>0, <2>1, AtCalm DEF FinPc, Pcs
  <2> HIDE DEF n
  <2>5. \A u \in Thread : th'[u] = th[u] \/ (th[u].pc # "taken" /\ Calm(u, th'[u]))
    BY <2>1, <2>2, <2>3, <2>4
  <2> QED
    BY <2>5, CalmStep
<1> QED
  BY <1>1, <1>2, <1>3 DEF FlowStep

LEMMA FinWorkerStep ==
  ASSUME Types, FinInv, NEW w \in Worker, WorkerStep(w)
  PROVE  FinInv'
<1> DEFINE l == th[w]
<1>0. w \in Thread /\ l \in ThreadRec /\ (l.pc \in ParkPc => l.f \in Flow) /\ l.reason \in Reason
  BY DEF Thread, Types, TypeOK, ThreadsSound, Sound, OnFlow, ThreadRec
<1>1. l.pc \in ParkPc /\ l.pc \notin FinPc /\ l.pc \notin {"parked", "taken"} /\ l.f \in Flow
  BY <1>0 DEF WorkerStep, ParkCheck, ParkTake, ParkRestore, ParkPc, FinPc
<1>2. Calm(w, Ready(w))
  BY <1>0, FreshCalm
<1>3. CASE ParkCheck(w)
  <2> DEFINE n == [l EXCEPT !.pc = "park_take", !.reason = kill[l.f]]
  <2>1. Goto(w, Ready(w)) \/ Goto(w, n)
    BY <1>3 DEF ParkCheck
  <2>2. n.f = l.f /\ n.work = l.work /\ n.pc = "park_take"
    BY <1>0 DEF ThreadRec
  <2> HIDE DEF n
  <2>3. Calm(w, n)
    BY <1>0, <1>1, <2>2, KeepsCalm DEF FinPc
  <2> QED
    BY <1>0, <1>1, <1>2, <2>1, <2>3, GotoCalm
<1>4. CASE ParkTake(w)
  <2> DEFINE n == Finalizing(l.f, l.reason)
  <2>1. TakeParked(w, l.f, n, At(w, "park_restore"))
    BY <1>4 DEF ParkTake
  <2>2. \A g \in Flow, v \in Reason :
          Finalizing(g, v).pc = "fin_clear" /\ Finalizing(g, v).f = g /\ Finalizing(g, v).work = << >>
    BY FinalizingFacts
  <2>3. n.pc = "fin_clear" /\ n.f = l.f /\ n.work = << >>
    BY <1>0, <1>1, <2>2
  <2> HIDE DEF n
  <2>4. Calm(w, At(w, "park_restore"))
    BY <1>0, <1>1, AtCalm DEF FinPc, Pcs, ParkPc
  <2>5. n.pc \in FinPc
    BY <2>3 DEF FinPc
  <2> QED
    BY <1>0, <1>1, <2>1, <2>3, <2>4, <2>5, TakeParkedCalm
<1>5. CASE ParkRestore(w)
  BY <1>0, <1>1, <1>2, <1>5, GotoCalm DEF ParkRestore
<1> QED
  BY <1>3, <1>4, <1>5 DEF WorkerStep

LEMMA FinStep == Types /\ FinInv /\ [Next]_vars => FinInv'
<1> SUFFICES ASSUME Types, FinInv, [Next]_vars PROVE FinInv'
  OBVIOUS
<1>1. CASE UNCHANGED vars
  BY <1>1, CalmStep DEF vars
<1>2. CASE Next
  BY <1>2, FinRequest, FinHandler, FinFinalize, FinFlowStep, FinWorkerStep DEF Next
<1> QED
  BY <1>1, <1>2

LEMMA FinInit == Init => FinInv
<1> SUFFICES ASSUME Init PROVE FinInv
  OBVIOUS
<1>1. \A t \in Thread : th[t].work = << >> /\ th[t].pc \notin FinPc
  BY DEF Init, Runnable, Ready, FinPc
<1>2. \A t \in Thread : Doomed(t) = {} /\ DOMAIN th[t].work = {}
  BY <1>1, SMTT(30) DEF Doomed
<1> QED
  BY <1>1, <1>2 DEF FinInv, FinalizedOnce, IdleWork

-----------------------------------------------------------------------------
(* Theorems on flows *)

\* For any flows, host threads and workers: every handler of worker.rs and runtime.rs and
\* every section of finalize.rs keeps the tables, the flags and the threads in their types.
THEOREM TypeCorrect == Spec => []TypeOK
<1>1. Types => TypeOK
  BY DEF Types
<1> QED
  BY <1>1, TypesInit, TypesStep, PTL DEF Spec

\* For any flows, host threads and workers, however kills, linked exits, a flow's own end
\* and finalize_if_killed race for it: the box of a flow is in one place, so finalize_flow
\* runs for it on one thread and no work list names it twice (finalize.rs:322-335, 632-680).
THEOREM Finalized == Spec => []FinalizedOnce
<1>1. Init => Types /\ FinInv
  BY TypesInit, FinInit
<1>2. Types /\ FinInv /\ [Next]_vars => Types' /\ FinInv'
  BY TypesStep, FinStep
<1>3. FinInv => FinalizedOnce
  BY DEF FinInv
<1> QED
  BY <1>1, <1>2, <1>3, PTL DEF Spec

-----------------------------------------------------------------------------
(* The invariants of links and monitors *)

\* a thread that may still roll its link back, or its monitor
LinkPc == {"confirm_a", "confirm_b", "link_undo"}
MonPc == {"mon_check", "mon_undo", "mon_down"}

\* a link's id is handed out once, and the thread that inserted it knows its endpoints
LinkInv ==
  /\ LinksAgree(lt)
  /\ \A l \in lt.links : l.id < nextLink
  /\ \A t \in Thread : th[t].pc \in LinkPc =>
       /\ th[t].id < nextLink
       /\ \A l \in lt.links : l.id = th[t].id => l.a = th[t].f /\ l.b = th[t].to
  /\ NoZombieLink

\* the DOWN of a row is still to be sent
Unsent(id) ==
  /\ \A f \in Flow : Down(id) \notin got[f]
  /\ \A t \in Thread : th[t].pc = "fin_down" => \A r \in th[t].rows : r.id # id

\* ids are handed out once: whatever is in hand, in an inbox or returned is an old one
MonFresh ==
  /\ \A m \in mt.rows : m.id < nextMonitor
  /\ \A id \in silenced : id < nextMonitor
  /\ \A x \in Thread : \A id \in monitorRefs[x] : id < nextMonitor
  /\ \A t \in Thread : th[t].pc \in MonPc => th[t].id < nextMonitor
  /\ \A id \in Nat : id >= nextMonitor => Unsent(id)

\* a thread between the creation of its monitor and its return has a ref nobody else knows
MonHeld ==
  /\ \A t \in Thread : th[t].pc \in MonPc =>
       /\ \A x \in Thread : th[t].id \notin monitorRefs[x]
       /\ th[t].id \notin silenced
       /\ \A m \in mt.rows : m.id = th[t].id => m.owner = th[t].f /\ m.target = th[t].to
       /\ th[t].pc = "mon_down" => \A m \in mt.rows : m.id # th[t].id
  /\ \A t, u \in Thread : th[t].pc \in MonPc /\ th[u].pc \in MonPc /\ th[t].id = th[u].id => t = u

MonInv ==
  /\ MonitorsAgree(mt)
  /\ MonFresh /\ MonHeld
  /\ \A m \in mt.rows : m.id \notin silenced /\ Unsent(m.id)
  /\ NoDeafMonitor /\ DemonitorSilences

-----------------------------------------------------------------------------
(* The tables *)

\* LinkTable::insert of a pair that has no link, under an id not handed out before.
LEMMA InsertLinkAgrees ==
  ASSUME NEW T, LinksAgree(T), NEW id, NEW a, NEW b, ~HasPair(T, a, b),
         \A l \in T.links : l.id # id
  PROVE  LinksAgree(InsertLink(T, id, a, b))
<1> DEFINE N == InsertLink(T, id, a, b)
           k == [id |-> id, a |-> a, b |-> b]
<1>1. /\ N.links = T.links \cup {k}
      /\ N.pairs = {p \in T.pairs : p.key # PairKey(a, b)} \cup {[key |-> PairKey(a, b), id |-> id]}
      /\ N.byFlow = T.byFlow \cup {[flow |-> f, id |-> id] : f \in {a, b}}
  BY DEF InsertLink
<1> HIDE DEF N
<1>2. \A l \in T.links : PairKey(l.a, l.b) # PairKey(a, b)
  <2> SUFFICES ASSUME NEW l \in T.links PROVE PairKey(l.a, l.b) # PairKey(a, b)
    OBVIOUS
  <2> DEFINE p == [key |-> PairKey(l.a, l.b), id |-> l.id]
  <2>1. p \in T.pairs
    BY DEF LinksAgree
  <2> QED
    BY <2>1 DEF HasPair
<1>a. k.id = id /\ k.a = a /\ k.b = b
  OBVIOUS
<1> HIDE DEF k
<1>3. N.pairs = {[key |-> PairKey(l.a, l.b), id |-> l.id] : l \in N.links}
  <2>1. N.pairs = T.pairs \cup {[key |-> PairKey(k.a, k.b), id |-> k.id]}
    BY <1>1, <1>a DEF HasPair
  <2>2. T.pairs = {[key |-> PairKey(l.a, l.b), id |-> l.id] : l \in T.links}
    BY DEF LinksAgree
  <2> QED
    BY <1>1, <2>1, <2>2
<1>4. N.byFlow = UNION {{[flow |-> l.a, id |-> l.id], [flow |-> l.b, id |-> l.id]} : l \in N.links}
  <2>1. N.byFlow = T.byFlow \cup {[flow |-> k.a, id |-> k.id], [flow |-> k.b, id |-> k.id]}
    BY <1>1, <1>a
  <2>2. T.byFlow = UNION {{[flow |-> l.a, id |-> l.id], [flow |-> l.b, id |-> l.id]} : l \in T.links}
    BY DEF LinksAgree
  <2> QED
    BY <1>1, <2>1, <2>2, SMTT(30)
<1>5. \A l, m \in N.links : l.id = m.id \/ PairKey(l.a, l.b) = PairKey(m.a, m.b) => l = m
  BY <1>1, <1>2, <1>a DEF LinksAgree
<1> QED
  BY <1>3, <1>4, <1>5 DEF LinksAgree, N

\* LinkTable::unlink_id.
LEMMA UnlinkIdAgrees ==
  ASSUME NEW T, LinksAgree(T), NEW id
  PROVE  /\ LinksAgree(UnlinkId(T, id))
         /\ UnlinkId(T, id).links = {l \in T.links : l.id # id}
<1> DEFINE N == UnlinkId(T, id)
           rows == {l \in T.links : l.id = id}
<1>1. /\ N.links = T.links \ rows
      /\ N.pairs = {p \in T.pairs : \A l \in rows : p.key # PairKey(l.a, l.b)}
      /\ N.byFlow = {e \in T.byFlow : \A l \in rows : ~(e.id = id /\ e.flow \in {l.a, l.b})}
  BY DEF UnlinkId
<1> HIDE DEF N
<1>2. N.links = {l \in T.links : l.id # id}
  BY <1>1
<1>3. N.pairs = {[key |-> PairKey(l.a, l.b), id |-> l.id] : l \in N.links}
  BY <1>1, <1>2, SMTT(30) DEF LinksAgree
<1>4. N.byFlow = UNION {{[flow |-> l.a, id |-> l.id], [flow |-> l.b, id |-> l.id]} : l \in N.links}
  BY <1>1, <1>2, SMTT(30) DEF LinksAgree
<1>5. \A l, m \in N.links : l.id = m.id \/ PairKey(l.a, l.b) = PairKey(m.a, m.b) => l = m
  BY <1>2 DEF LinksAgree
<1> QED
  BY <1>2, <1>3, <1>4, <1>5 DEF LinksAgree, N

\* LinkTable::remove_links_of: through the adjacency index it finds every link of f.
LEMMA RemoveLinksOfAgrees ==
  ASSUME NEW T, LinksAgree(T), NEW f
  PROVE  /\ LinksAgree(RemoveLinksOf(T, f))
         /\ RemoveLinksOf(T, f).links = {l \in T.links : f \notin {l.a, l.b}}
<1> DEFINE N == RemoveLinksOf(T, f)
           rows == LinksOf(T, f)
<1>1. /\ N.links = T.links \ rows
      /\ N.pairs = {p \in T.pairs : \A l \in rows : p.key # PairKey(l.a, l.b)}
      /\ N.byFlow = {e \in T.byFlow :
                      e.flow # f /\ \A l \in rows : ~(e.id = l.id /\ e.flow = Peer(l, f))}
  BY DEF RemoveLinksOf
<1>2. rows = {l \in T.links : f \in {l.a, l.b}}
  <2> DEFINE ends(l) == {[flow |-> l.a, id |-> l.id], [flow |-> l.b, id |-> l.id]}
  <2>0. T.byFlow = UNION {ends(l) : l \in T.links}
    BY DEF LinksAgree
  <2>1. ASSUME NEW l \in T.links, [flow |-> f, id |-> l.id] \in T.byFlow
        PROVE  f \in {l.a, l.b}
    <3> DEFINE e == [flow |-> f, id |-> l.id]
    <3>a. e.flow = f /\ e.id = l.id
      OBVIOUS
    <3> HIDE DEF e
    <3>1. PICK k \in T.links : e \in ends(k)
      <4> HIDE DEF ends
      <4> QED
        BY <2>0, <2>1 DEF e
    <3>2. k.id = l.id /\ f \in {k.a, k.b}
      BY <3>1, <3>a, SMTT(30)
    <3> QED
      BY <3>2 DEF LinksAgree
  <2>2. ASSUME NEW l \in T.links, f \in {l.a, l.b}
        PROVE  [flow |-> f, id |-> l.id] \in T.byFlow
    <3>1. [flow |-> f, id |-> l.id] \in ends(l)
      BY <2>2
    <3> HIDE DEF ends
    <3> QED
      BY <2>0, <3>1
  <2> QED
    BY <2>1, <2>2 DEF LinksOf
<1> HIDE DEF N, rows
<1>3. N.links = {l \in T.links : f \notin {l.a, l.b}}
  BY <1>1, <1>2
<1>4. N.pairs = {[key |-> PairKey(l.a, l.b), id |-> l.id] : l \in N.links}
  BY <1>1, <1>2, <1>3, SMTT(30) DEF LinksAgree
<1>5. N.byFlow = UNION {{[flow |-> l.a, id |-> l.id], [flow |-> l.b, id |-> l.id]} : l \in N.links}
  BY <1>1, <1>2, <1>3, SMTT(30) DEF LinksAgree, Peer
<1>6. \A l, m \in N.links : l.id = m.id \/ PairKey(l.a, l.b) = PairKey(m.a, m.b) => l = m
  BY <1>3 DEF LinksAgree
<1> QED
  BY <1>3, <1>4, <1>5, <1>6 DEF LinksAgree, N

\* MonitorTable::insert under an id not handed out before.
LEMMA InsertMonitorAgrees ==
  ASSUME NEW T, MonitorsAgree(T), NEW id, NEW owner, NEW target, \A m \in T.rows : m.id # id
  PROVE  MonitorsAgree(InsertMonitor(T, id, owner, target))
<1> DEFINE N == InsertMonitor(T, id, owner, target)
           k == [id |-> id, owner |-> owner, target |-> target]
<1>1. /\ N.rows = T.rows \cup {k}
      /\ N.byOwner = T.byOwner \cup {[flow |-> owner, id |-> id]}
      /\ N.byTarget = T.byTarget \cup {[flow |-> target, id |-> id]}
  BY DEF InsertMonitor
<1>2. k.id = id /\ k.owner = owner /\ k.target = target
  OBVIOUS
<1> HIDE DEF N, k
<1>3. N.byOwner = {[flow |-> m.owner, id |-> m.id] : m \in N.rows}
  BY <1>1, <1>2, SMTT(30) DEF MonitorsAgree
<1>4. N.byTarget = {[flow |-> m.target, id |-> m.id] : m \in N.rows}
  BY <1>1, <1>2, SMTT(30) DEF MonitorsAgree
<1>5. \A m, n \in N.rows : m.id = n.id => m = n
  BY <1>1, <1>2 DEF MonitorsAgree
<1> QED
  BY <1>3, <1>4, <1>5 DEF MonitorsAgree, N

\* Dropping rows with the entries that stand for them.
LEMMA DropMonitorsAgrees ==
  ASSUME NEW T, MonitorsAgree(T), NEW gone \in SUBSET T.rows
  PROVE  MonitorsAgree(DropMonitors(T, gone)) /\ DropMonitors(T, gone).rows = T.rows \ gone
<1> DEFINE N == DropMonitors(T, gone)
<1>1. /\ N.rows = T.rows \ gone
      /\ N.byOwner = {e \in T.byOwner : \A m \in gone : ~(e.id = m.id /\ e.flow = m.owner)}
      /\ N.byTarget = {e \in T.byTarget : \A m \in gone : ~(e.id = m.id /\ e.flow = m.target)}
  BY DEF DropMonitors
<1> HIDE DEF N
<1>2. N.byOwner = {[flow |-> m.owner, id |-> m.id] : m \in N.rows}
  BY <1>1, SMTT(30) DEF MonitorsAgree
<1>3. N.byTarget = {[flow |-> m.target, id |-> m.id] : m \in N.rows}
  BY <1>1, SMTT(30) DEF MonitorsAgree
<1> QED
  BY <1>1, <1>2, <1>3 DEF MonitorsAgree, N

\* MonitorTable::remove_owned.
LEMMA RemoveOwnedAgrees ==
  ASSUME NEW T, MonitorsAgree(T), NEW owner, NEW id
  PROVE  /\ MonitorsAgree(RemoveOwned(T, owner, id))
         /\ RemoveOwned(T, owner, id).rows = {m \in T.rows : ~(m.id = id /\ m.owner = owner)}
<1> DEFINE gone == {m \in T.rows : m.id = id /\ m.owner = owner}
<1>1. MonitorsAgree(DropMonitors(T, gone)) /\ DropMonitors(T, gone).rows = T.rows \ gone
  BY DropMonitorsAgrees
<1> QED
  BY <1>1 DEF RemoveOwned

\* MonitorTable::remove_owned_by: the owner index leads to every row of the owner.
LEMMA RemoveOwnedByAgrees ==
  ASSUME NEW T, MonitorsAgree(T), NEW owner
  PROVE  /\ MonitorsAgree(RemoveOwnedBy(T, owner))
         /\ RemoveOwnedBy(T, owner).rows = {m \in T.rows : m.owner # owner}
<1> DEFINE gone == {m \in T.rows : [flow |-> owner, id |-> m.id] \in T.byOwner}
           D == DropMonitors(T, gone)
           N == RemoveOwnedBy(T, owner)
<1>1. MonitorsAgree(D) /\ D.rows = T.rows \ gone
  BY DropMonitorsAgrees
<1>2. /\ N.rows = D.rows /\ N.byTarget = D.byTarget
      /\ N.byOwner = {e \in T.byOwner : e.flow # owner}
  BY DEF RemoveOwnedBy, DropMonitors
<1>3. gone = {m \in T.rows : m.owner = owner}
  BY DEF MonitorsAgree
<1> HIDE DEF gone, D, N
<1>4. N.rows = {m \in T.rows : m.owner # owner}
  BY <1>1, <1>2, <1>3
<1>5. N.byOwner = {[flow |-> m.owner, id |-> m.id] : m \in N.rows}
  BY <1>2, <1>4, SMTT(30) DEF MonitorsAgree
<1> QED
  BY <1>1, <1>2, <1>4, <1>5 DEF MonitorsAgree, N

\* MonitorTable::notify_target_exit: the target index leads to every row on the target.
LEMMA NotifyTargetExitAgrees ==
  ASSUME NEW T, MonitorsAgree(T), NEW target
  PROVE  /\ MonitorsAgree(NotifyTargetExit(T, target))
         /\ MonitorsOf(T, target) = {m \in T.rows : m.target = target}
         /\ NotifyTargetExit(T, target).rows = {m \in T.rows : m.target # target}
<1> DEFINE gone == MonitorsOf(T, target)
           D == DropMonitors(T, gone)
           N == NotifyTargetExit(T, target)
<1>1. MonitorsAgree(D) /\ D.rows = T.rows \ gone
  BY DropMonitorsAgrees DEF MonitorsOf
<1>2. /\ N.rows = D.rows /\ N.byOwner = D.byOwner
      /\ N.byTarget = {e \in T.byTarget : e.flow # target}
  BY DEF NotifyTargetExit, DropMonitors
<1>3. gone = {m \in T.rows : m.target = target}
  BY DEF MonitorsAgree, MonitorsOf
<1> HIDE DEF D, N
<1>4. N.rows = {m \in T.rows : m.target # target}
  BY <1>1, <1>2, <1>3
<1>5. N.byTarget = {[flow |-> m.target, id |-> m.id] : m \in N.rows}
  BY <1>2, <1>4, SMTT(30) DEF MonitorsAgree
<1> QED
  BY <1>1, <1>2, <1>3, <1>4, <1>5 DEF MonitorsAgree, N

\* Registry::register of a free name, Registry::unregister, Registry::unregister_flow.
LEMMA NamesKeepAgreeing ==
  ASSUME NEW T, NamesAgree(T), NEW name, NEW f
  PROVE  /\ ~NameTaken(T, name) => NamesAgree(RegisterName(T, name, f))
         /\ NamesAgree(UnregisterName(T, name))
         /\ NamesAgree(UnregisterFlow(T, f))
<1>1. ASSUME ~NameTaken(T, name) PROVE NamesAgree(RegisterName(T, name, f))
  <2> DEFINE N == RegisterName(T, name, f)
  <2>1. /\ N.names = T.names \cup {[name |-> name, flow |-> f]}
        /\ N.byFlow = T.byFlow \cup {[flow |-> f, name |-> name]}
    BY DEF RegisterName
  <2> HIDE DEF N
  <2> QED
    BY <1>1, <2>1, SMTT(30) DEF NamesAgree, NameTaken, N
<1>2. NamesAgree(UnregisterName(T, name))
  <2> DEFINE N == UnregisterName(T, name)
             gone == {r \in T.names : r.name = name}
  <2>1. /\ N.names = T.names \ gone
        /\ N.byFlow = {e \in T.byFlow : \A r \in gone : ~(e.name = name /\ e.flow = r.flow)}
    BY DEF UnregisterName
  <2> HIDE DEF N
  <2> QED
    BY <2>1, SMTT(30) DEF NamesAgree, N
<1>3. NamesAgree(UnregisterFlow(T, f))
  <2> DEFINE N == UnregisterFlow(T, f)
  <2>1. /\ N.names = {r \in T.names : [flow |-> f, name |-> r.name] \notin T.byFlow}
        /\ N.byFlow = {e \in T.byFlow : e.flow # f}
    BY DEF UnregisterFlow
  <2> HIDE DEF N
  <2> DEFINE entry(r) == [flow |-> r.flow, name |-> r.name]
  <2>a. T.byFlow = {entry(r) : r \in T.names}
    BY DEF NamesAgree
  <2>b. \A r, k \in T.names : r.name = k.name => r = k
    BY DEF NamesAgree
  <2>c. \A r : entry(r).flow = r.flow /\ entry(r).name = r.name
    OBVIOUS
  <2>2. N.names = {r \in T.names : r.flow # f}
    <3>1. ASSUME NEW r \in T.names, [flow |-> f, name |-> r.name] \in T.byFlow PROVE r.flow = f
      <4> DEFINE e == [flow |-> f, name |-> r.name]
      <4>1. e.flow = f /\ e.name = r.name /\ e \in T.byFlow
        BY <3>1
      <4> HIDE DEF e, entry
      <4>2. PICK k \in T.names : e = entry(k)
        BY <2>a, <4>1
      <4> QED
        BY <2>b, <2>c, <4>1, <4>2
    <3>2. ASSUME NEW r \in T.names, r.flow = f PROVE [flow |-> f, name |-> r.name] \in T.byFlow
      BY <2>a, <3>2
    <3> QED
      BY <2>1, <3>1, <3>2
  <2>3. N.byFlow = {entry(r) : r \in N.names}
    <3> HIDE DEF entry
    <3> QED
      BY <2>1, <2>2, <2>a, <2>c, SMTT(30)
  <2> QED
    BY <2>2, <2>3 DEF NamesAgree, N
<1> QED
  BY <1>1, <1>2, <1>3

-----------------------------------------------------------------------------
(* Steps in which nobody inserts or rolls back *)

RelInv == LinkInv /\ MonInv /\ NamesAgree(rg)

\* What the invariant says, part by part.
LEMMA Parts ==
  ASSUME RelInv
  PROVE  /\ LinkInv /\ MonInv /\ NamesAgree(rg)
         /\ MonitorsAgree(mt) /\ MonFresh /\ MonHeld
         /\ \A m \in mt.rows : m.id \notin silenced /\ Unsent(m.id)
         /\ NoDeafMonitor /\ DemonitorSilences
BY DEF RelInv, MonInv

\* a thread that is to collect the monitors on its flow, or to sweep its links
NotifyPc == {"fin_owned", "fin_names", "fin_notify"}
SweepPc == NotifyPc \cup {"fin_down"}

\* u's step is about no link in hand, and u stays the one who sweeps
LinkStay(u) ==
  \/ th'[u] = th[u]
  \/ th[u].pc \notin LinkPc \cup SweepPc /\ th'[u].pc \notin LinkPc
  \/ th[u].pc \in SweepPc /\ th'[u].pc \in SweepPc /\ th'[u].f = th[u].f

MonStay(u) ==
  \/ th'[u] = th[u]
  \/ th[u].pc \notin MonPc \cup NotifyPc /\ th'[u].pc \notin MonPc \cup {"fin_down"}
  \/ th[u].pc \in NotifyPc /\ th'[u].pc \in NotifyPc /\ th'[u].f = th[u].f
  \/ th[u].pc = "fin_down" /\ th'[u].pc = "fin_down" /\ th'[u].rows \subseteq th[u].rows

\* Links stay sound when rows only go and whoever leaves the directory is to be swept.
LEMMA LinkMove ==
  ASSUME LinkInv, LinksAgree(lt'), lt'.links \subseteq lt.links, nextLink' = nextLink,
         live' \subseteq live, \A f \in live \ live' : SweepPending(f)',
         \A u \in Thread : LinkStay(u)
  PROVE  LinkInv'
<1>1. \A f : SweepPending(f) => SweepPending(f)'
  BY DEF SweepPending, LinkStay, SweepPc, NotifyPc, LinkPc
<1>2. NoZombieLink'
  <2> SUFFICES ASSUME NEW l \in lt'.links, NEW f \in {l.a, l.b} \ live'
               PROVE  \/ SweepPending(l.a)' \/ SweepPending(l.b)'
                      \/ \E t \in Thread :
                           /\ th'[t].id = l.id
                           /\ \/ th'[t].pc \in {"confirm_a", "link_undo"}
                              \/ th'[t].pc = "confirm_b" /\ (~th'[t].alive \/ l.b \notin live')
    BY DEF NoZombieLink
  <2>1. CASE f \in live
    BY <2>1
  <2>2. CASE f \notin live
    <3>1. CASE SweepPending(l.a) \/ SweepPending(l.b)
      BY <1>1, <3>1
    <3>2. CASE \E t \in Thread :
                 /\ th[t].id = l.id
                 /\ \/ th[t].pc \in {"confirm_a", "link_undo"}
                    \/ th[t].pc = "confirm_b" /\ (~th[t].alive \/ l.b \notin live)
      <4>1. PICK t \in Thread :
                 /\ th[t].id = l.id
                 /\ \/ th[t].pc \in {"confirm_a", "link_undo"}
                    \/ th[t].pc = "confirm_b" /\ (~th[t].alive \/ l.b \notin live)
        BY <3>2
      <4>2. th'[t] = th[t]
        BY <4>1 DEF LinkStay, LinkPc, SweepPc, NotifyPc
      <4> QED
        BY <4>1, <4>2
    <3> QED
      BY <2>2, <3>1, <3>2 DEF LinkInv, NoZombieLink
  <2> QED
    BY <2>1, <2>2
<1>3. \A t \in Thread : th'[t].pc \in LinkPc => th'[t] = th[t]
  BY DEF LinkStay, LinkPc, SweepPc, NotifyPc
<1> QED
  BY <1>2, <1>3 DEF LinkInv

\* Monitors stay sound when rows only go, only a DOWN in hand is delivered and whoever
\* leaves the directory is to collect.
LEMMA MonMove ==
  ASSUME MonInv, MonitorsAgree(mt'), mt'.rows \subseteq mt.rows,
         UNCHANGED <<nextMonitor, monitorRefs, silenced>>,
         \A id : Unsent(id) => \A f \in Flow : Down(id) \notin got'[f],
         live' \subseteq live,
         \A f \in live \ live' : \E t \in Thread : th'[t].f = f /\ th'[t].pc \in NotifyPc,
         \A u \in Thread : MonStay(u)
  PROVE  MonInv'
<1>1. \A id : Unsent(id) => Unsent(id)'
  <2> SUFFICES ASSUME NEW id, Unsent(id) PROVE Unsent(id)'
    OBVIOUS
  <2>1. \A f \in Flow : Down(id) \notin got'[f]
    OBVIOUS
  <2>2. ASSUME NEW t \in Thread, th'[t].pc = "fin_down", NEW r \in th'[t].rows PROVE r.id # id
    BY <2>2 DEF Unsent, MonStay, MonPc, NotifyPc
  <2> QED
    BY <2>1, <2>2 DEF Unsent, Down
<1>2. \A t \in Thread : th'[t].pc \in MonPc => th'[t] = th[t]
  BY DEF MonStay, MonPc, NotifyPc
<1>3. MonFresh'
  BY <1>1, <1>2 DEF MonInv, MonFresh
<1>4. MonHeld'
  <2>1. ASSUME NEW u \in Thread, th'[u].pc \in MonPc
        PROVE  /\ \A x \in Thread : th'[u].id \notin monitorRefs'[x]
               /\ th'[u].id \notin silenced'
               /\ \A m \in mt'.rows : m.id = th'[u].id => m.owner = th'[u].f /\ m.target = th'[u].to
               /\ th'[u].pc = "mon_down" => \A m \in mt'.rows : m.id # th'[u].id
    <3>1. th'[u] = th[u] /\ th[u].pc \in MonPc /\ MonHeld
      BY <1>2, <2>1 DEF MonInv
    <3>2. /\ \A x \in Thread : th[u].id \notin monitorRefs[x]
          /\ th[u].id \notin silenced
          /\ \A m \in mt.rows : m.id = th[u].id => m.owner = th[u].f /\ m.target = th[u].to
          /\ th[u].pc = "mon_down" => \A m \in mt.rows : m.id # th[u].id
      BY <3>1 DEF MonHeld
    <3> QED
      BY <3>1, <3>2
  <2>2. ASSUME NEW u \in Thread, NEW v \in Thread, th'[u].pc \in MonPc, th'[v].pc \in MonPc,
               th'[u].id = th'[v].id
        PROVE  u = v
    <3>1. th'[u] = th[u] /\ th'[v] = th[v] /\ MonHeld
      BY <1>2, <2>2 DEF MonInv
    <3> QED
      BY <2>2, <3>1 DEF MonHeld
  <2> QED
    BY <2>1, <2>2 DEF MonHeld
<1>5. \A m \in mt'.rows : m.id \notin silenced' /\ Unsent(m.id)'
  BY <1>1 DEF MonInv
<1>6. NoDeafMonitor'
  <2> SUFFICES ASSUME NEW h \in Host, NEW m \in mt'.rows, m.id \in monitorRefs'[h],
                      m.target \notin live'
               PROVE  \E t \in Thread : th'[t].f = m.target /\ th'[t].pc \in NotifyPc
    BY DEF NoDeafMonitor, NotifyPc
  <2>1. CASE m.target \in live
    BY <2>1
  <2>2. CASE m.target \notin live
    <3>1. PICK t \in Thread : th[t].f = m.target /\ th[t].pc \in NotifyPc
      <4>1. m \in mt.rows /\ m.id \in monitorRefs[h] /\ NoDeafMonitor
        BY DEF MonInv
      <4> QED
        BY <2>2, <4>1 DEF NoDeafMonitor, NotifyPc
    <3>2. th'[t].f = m.target /\ th'[t].pc \in NotifyPc
      BY <3>1 DEF MonStay, NotifyPc, MonPc
    <3> QED
      BY <3>2
  <2> QED
    BY <2>1, <2>2
<1>7. DemonitorSilences'
  <2> SUFFICES ASSUME NEW id \in silenced
               PROVE  /\ \A f \in Flow : Down(id) \notin got'[f]
                      /\ \A t \in Thread :
                           /\ ~(th'[t].pc = "fin_down" /\ \E r \in th'[t].rows : r.id = id)
                           /\ ~(th'[t].pc \in {"mon_undo", "mon_down"} /\ th'[t].id = id)
    BY DEF DemonitorSilences, Down
  <2>1. Unsent(id)
    BY DEF MonInv, DemonitorSilences, Unsent
  <2>2. Unsent(id)'
    BY <1>1, <2>1
  <2>3. \A t \in Thread : ~(th'[t].pc \in {"mon_undo", "mon_down"} /\ th'[t].id = id)
    BY <1>2 DEF MonInv, DemonitorSilences, MonPc
  <2> QED
    BY <2>2, <2>3 DEF Unsent, Down
<1> QED
  BY <1>3, <1>4, <1>5, <1>6, <1>7 DEF MonInv

\* the points of a thread's code that hold a relation, or the events of an exit
Busy == LinkPc \cup MonPc \cup SweepPc
InHand == LinkPc \cup MonPc \cup {"fin_down"}

Bystander(u) == th'[u] = th[u] \/ (th[u].pc \notin Busy /\ th'[u].pc \notin InHand)

\* A step in which every thread is a bystander, no flow leaves and no DOWN is delivered.
LEMMA AsideKeeps ==
  ASSUME RelInv, LinksAgree(lt'), lt'.links \subseteq lt.links, nextLink' = nextLink,
         UNCHANGED monitors, live' = live, NamesAgree(rg'),
         \A f \in Flow : \A id : Down(id) \in got'[f] => Down(id) \in got[f],
         \A u \in Thread : Bystander(u)
  PROVE  RelInv'
<1>1. \A u \in Thread : LinkStay(u) /\ MonStay(u)
  BY DEF Bystander, LinkStay, MonStay, Busy, InHand, SweepPc
<1>2. LinkInv'
  BY <1>1, LinkMove DEF RelInv
<1>3. \A id : Unsent(id) => \A f \in Flow : Down(id) \notin got'[f]
  BY DEF Unsent
<1>4. MonInv'
  BY <1>1, <1>3, MonMove DEF RelInv, MonInv, monitors
<1> QED
  BY <1>2, <1>4 DEF RelInv

\* Thread t, which holds no relation, goes on as r; a hop may wake a parked flow, a kill
\* may take its box.
LEMMA GotoAside ==
  ASSUME Types, NEW t \in Thread, NEW r, Goto(t, r), th[t].pc \notin Busy, r.pc \notin InHand
  PROVE  \A u \in Thread : Bystander(u)
<1>1. \A u \in Thread : th'[u] = IF u = t THEN r ELSE th[u]
  BY DEF Goto, Types, TypeOK
<1> QED
  BY <1>1 DEF Bystander

LEMMA WokenAside ==
  ASSUME NEW u \in Flow
  PROVE  Runnable(u).pc \notin InHand /\ "parked" \notin Busy
BY DEF Runnable, Ready, InHand, Busy, LinkPc, MonPc, SweepPc, NotifyPc

LEMMA DeliverAside ==
  ASSUME NEW t \in Thread, NEW f, NEW hop, NEW r, Deliver(t, f, hop, r),
         th[t].pc \notin Busy, r.pc \notin InHand, f \in Flow
  PROVE  \A u \in Thread : Bystander(u)
<1>1. \A u \in Thread : \/ th'[u] = r /\ u = t
                        \/ th'[u] = Runnable(u) /\ u \in Flow /\ th[u].pc = "parked"
                        \/ th'[u] = th[u]
  BY DEF Deliver
<1> QED
  BY <1>1, WokenAside DEF Bystander

LEMMA TakeAside ==
  ASSUME Types, NEW t \in Thread, NEW g \in Flow, NEW r, NEW none, TakeParked(t, g, r, none),
         th[t].pc \notin Busy, r.pc \notin InHand, none.pc \notin InHand
  PROVE  \A u \in Thread : Bystander(u)
<1>1. \A u \in Thread : \/ u = t /\ th'[u] \in {r, none}
                        \/ th'[u] = At(u, "taken") /\ th[u].pc = "parked"
                        \/ th'[u] = th[u]
  BY DEF TakeParked
<1>2. \A u \in Thread : At(u, "taken").pc = "taken"
  BY SMTT(30) DEF At, Types, TypeOK, ThreadRec
<1>3. "taken" \notin InHand /\ "parked" \notin Busy
  BY DEF InHand, Busy, LinkPc, MonPc, SweepPc, NotifyPc
<1> QED
  BY <1>1, <1>2, <1>3 DEF Bystander

\* the records a thread goes on with when it holds nothing
LEMMA IdleRecords ==
  ASSUME NEW t \in Thread
  PROVE  /\ Ready(t).pc = "ready" /\ Runnable(t).pc = "runnable"
         /\ \A f \in Thread : \A reason : Finalizing(f, reason).pc = "fin_clear"
         /\ Refused(t).pc \in {"ready", "fin_clear"}
         /\ {"ready", "runnable", "fin_clear"} \cap InHand = {}
BY DEF Ready, Runnable, Finalizing, Refused, InHand, LinkPc, MonPc, Thread

\* A flow that a delivery wakes was, and is, in no request and in no finalization.
LEMMA Woken ==
  ASSUME NEW u, th'[u] = th[u] \/ (th'[u] = Runnable(u) /\ th[u].pc = "parked"),
         th'[u] # th[u]
  PROVE  /\ th'[u].pc \notin MonPc /\ th'[u].pc \notin LinkPc /\ th'[u].pc # "fin_down"
         /\ th[u].pc \notin MonPc /\ th[u].pc \notin NotifyPc /\ th[u].pc \notin LinkPc \cup SweepPc
<1>1. th'[u] = Runnable(u) /\ th[u].pc = "parked" /\ Runnable(u).pc = "runnable"
  BY DEF Runnable, Ready
<1>2. PICK p, q : p = th'[u].pc /\ q = th[u].pc /\ p = "runnable" /\ q = "parked"
  BY <1>1
<1>3. /\ p \notin MonPc /\ p \notin LinkPc /\ p # "fin_down"
      /\ q \notin MonPc /\ q \notin NotifyPc /\ q \notin LinkPc \cup SweepPc
  BY <1>2 DEF MonPc, LinkPc, NotifyPc, SweepPc
<1> QED
  BY <1>2, <1>3

\* An EXIT hop is no DOWN.
LEMMA ExitIsNoDown ==
  ASSUME Types, NEW t, NEW f \in Flow, NEW g, NEW r, Deliver(t, f, Exit(g), r)
  PROVE  \A x \in Flow : \A id : Down(id) \in got'[x] => Down(id) \in got[x]
<1>1. \A id : Down(id) # Exit(g)
  BY DEF Down, Exit
<1>2. \A x \in Flow : got'[x] \in {got[x], got[x] \cup {Exit(g)}}
  BY DEF Deliver, Types, TypeOK
<1> QED
  BY <1>1, <1>2

\* A step that moves one thread and touches no table.
LEMMA QuietGoto ==
  ASSUME Types, RelInv, NEW t \in Thread, NEW r, Goto(t, r),
         th[t].pc \notin Busy, r.pc \notin InHand,
         UNCHANGED <<lt, nextLink>>, UNCHANGED monitors, UNCHANGED rg, UNCHANGED live, UNCHANGED got
  PROVE  RelInv'
<1>1. \A u \in Thread : Bystander(u)
  BY GotoAside
<1>2. LinksAgree(lt') /\ NamesAgree(rg')
  BY DEF RelInv, LinkInv
<1> QED
  BY <1>1, <1>2, AsideKeeps

\* The requests, but for demonitor.
LEMMA RelRequest ==
  ASSUME Types, RelInv, NEW t \in Flow \cup Host, Request(t),
         ~\E f \in Flow, id \in monitorRefs[t] : Demonitor(t, f, id)
  PROVE  RelInv'
<1>0. t \in Thread
  BY DEF Thread
<1>a. "ready" \notin Busy
  BY DEF Busy, LinkPc, MonPc, SweepPc, NotifyPc
<1>1. ASSUME NEW f \in Flow, NEW g \in Flow, Link(t, f, g) PROVE RelInv'
  <2> DEFINE r == [Ready(f) EXCEPT !.pc = "link_insert", !.to = g]
  <2>1. r.pc \notin InHand
    BY DEF Ready, InHand, LinkPc, MonPc
  <2>2. Goto(t, r) /\ th[t].pc = "ready"
    BY <1>1 DEF Link, Issue
  <2>3. UNCHANGED <<links, monitors, rg, exits>>
    BY <1>1 DEF Link
  <2> HIDE DEF r
  <2> QED
    BY <1>0, <1>a, <2>1, <2>2, <2>3, QuietGoto DEF links, exits
<1>2. ASSUME NEW f \in Flow, NEW g \in Flow, Monitor(t, f, g) PROVE RelInv'
  <2> DEFINE r == [Ready(f) EXCEPT !.pc = "mon_create", !.to = g]
  <2>1. r.pc \notin InHand
    BY DEF Ready, InHand, LinkPc, MonPc
  <2>2. Goto(t, r) /\ th[t].pc = "ready"
    BY <1>2 DEF Monitor, Issue
  <2>3. UNCHANGED <<links, monitors, rg, exits>>
    BY <1>2 DEF Monitor
  <2> HIDE DEF r
  <2> QED
    BY <1>0, <1>a, <2>1, <2>2, <2>3, QuietGoto DEF links, exits
<1>3. ASSUME NEW f \in Flow, NEW id, Unlink(t, f, id) PROVE RelInv'
  <2>1. th[t].pc = "ready" /\ (Goto(t, Ready(t)) \/ Goto(t, Refused(t)))
    BY <1>3 DEF Unlink, Issue
  <2>2. \A u \in Thread : Bystander(u)
    BY <1>0, <1>a, <2>1, GotoAside, IdleRecords
  <2>3. LinksAgree(lt') /\ lt'.links \subseteq lt.links
    <3>1. lt' = lt \/ lt' = UnlinkId(lt, id)
      BY <1>3 DEF Unlink
    <3> QED
      BY <3>1, UnlinkIdAgrees, Parts, SMTT(30) DEF LinkInv
  <2>4. UNCHANGED <<nextLink, monitors, rg, exits>>
    BY <1>3 DEF Unlink
  <2> QED
    BY <2>2, <2>3, <2>4, AsideKeeps DEF RelInv, exits
<1>4. ASSUME NEW f \in Flow, NEW on \in BOOLEAN, SetTrap(t, f, on) PROVE RelInv'
  <2>1. UNCHANGED <<live, got>> /\ UNCHANGED <<links, monitors, rg, th>>
    BY <1>4 DEF SetTrap
  <2>2. \A u \in Thread : Bystander(u)
    BY <2>1 DEF Bystander
  <2> QED
    BY <2>1, <2>2, AsideKeeps DEF RelInv, LinkInv, links
<1>5. ASSUME NEW f \in Flow, Register(t, f) PROVE RelInv'
  <2> DEFINE r == [Ready(f) EXCEPT !.pc = "reg_insert"]
  <2>1. r.pc \notin InHand
    BY DEF Ready, InHand, LinkPc, MonPc
  <2>2. Goto(t, r) /\ th[t].pc = "ready"
    BY <1>5 DEF Register, Issue
  <2>3. UNCHANGED <<links, monitors, rg, exits>>
    BY <1>5 DEF Register
  <2> HIDE DEF r
  <2> QED
    BY <1>0, <1>a, <2>1, <2>2, <2>3, QuietGoto DEF links, exits
<1>6. ASSUME NEW name \in Name, Unregister(t, name) PROVE RelInv'
  <2>1. rg' = UnregisterName(rg, name) /\ UNCHANGED <<links, monitors, exits, th>>
    BY <1>6 DEF Unregister
  <2>2. \A u \in Thread : Bystander(u)
    BY <2>1 DEF Bystander
  <2>3. NamesAgree(rg')
    BY <2>1, NamesKeepAgreeing DEF RelInv
  <2> QED
    BY <2>1, <2>2, <2>3, AsideKeeps DEF RelInv, LinkInv, links, exits
<1>7. ASSUME NEW g \in Flow, NEW reason \in Reason, Signal(t, g, reason) PROVE RelInv'
  <2> DEFINE pc == CASE t = g -> "sig_self"
                     [] t # g /\ t \in Flow -> "sig_trap"
                     [] t \notin Flow -> "kill_set"
             r == [Ready(t) EXCEPT !.to = g, !.reason = reason, !.pc = pc]
  <2>1. pc \in {"sig_self", "sig_trap", "kill_set"}
    OBVIOUS
  <2>2. Goto(t, r) /\ th[t].pc = "ready"
    BY <1>7 DEF Signal, Issue
  <2> HIDE DEF pc
  <2>3. r.pc \notin InHand
    BY <2>1 DEF Ready, InHand, LinkPc, MonPc
  <2>4. UNCHANGED <<links, monitors, rg, exits>>
    BY <1>7 DEF Signal
  <2> HIDE DEF r
  <2> QED
    BY <1>0, <1>a, <2>2, <2>3, <2>4, QuietGoto DEF links, exits
<1> QED
  BY <1>1, <1>2, <1>3, <1>4, <1>5, <1>6, <1>7 DEF Request

LEMMA RelFlowStep ==
  ASSUME Types, RelInv, NEW f \in Flow, FlowStep(f)
  PROVE  RelInv'
<1>0. f \in Thread
  BY DEF Thread
<1>a. {"ready", "runnable", "parked"} \cap Busy = {}
  BY DEF Busy, LinkPc, MonPc, SweepPc, NotifyPc
<1>1. ASSUME ~\E w \in Worker : Park(f, w) PROVE RelInv'
  <2>1. UNCHANGED <<links, monitors, rg, live, got>>
    BY <1>1 DEF FlowStep, Quantum, Yield, Resume, Complete, exits
  <2>2. th[f].pc \in {"ready", "runnable", "parked"}
    BY <1>1 DEF FlowStep, Quantum, Yield, Resume, Complete
  <2>3. \E r : Goto(f, r) /\ r.pc \in {"ready", "runnable", "fin_clear"}
    <3>1. \/ Goto(f, Ready(f)) \/ Goto(f, Runnable(f))
          \/ \E reason : Goto(f, Finalizing(f, reason))
      BY <1>1 DEF FlowStep, Quantum, Yield, Resume, Complete
    <3> QED
      BY <1>0, <3>1, IdleRecords
  <2>4. PICK r : Goto(f, r) /\ r.pc \in {"ready", "runnable", "fin_clear"}
    BY <2>3
  <2>5. r.pc \notin InHand
    BY <1>0, <2>4, IdleRecords
  <2> QED
    BY <1>0, <1>a, <2>1, <2>2, <2>4, <2>5, QuietGoto DEF links
<1>2. ASSUME NEW w \in Worker, Park(f, w) PROVE RelInv'
  <2> DEFINE p == [Ready(f) EXCEPT !.pc = "park_check"]
  <2>1. p.pc = "park_check" /\ At(f, "parked").pc = "parked"
    BY <1>0, SMTT(30) DEF Ready, At, Types, TypeOK, ThreadRec
  <2>2. th[f].pc = "ready" /\ th[w].pc = "ready"
    BY <1>2 DEF Park
  <2>3. th' = [th EXCEPT ![f] = At(f, "parked"), ![w] = p]
    BY <1>2 DEF Park
  <2> HIDE DEF p
  <2>4. \A u \in Thread : th'[u] = th[u] \/ (u = f /\ th'[u] = At(f, "parked"))
                                         \/ (u = w /\ th'[u] = p)
    BY <2>3 DEF Types, TypeOK
  <2>5. {"park_check", "parked"} \cap InHand = {}
    BY DEF InHand, LinkPc, MonPc
  <2>6. \A u \in Thread : Bystander(u)
    BY <1>a, <2>1, <2>2, <2>4, <2>5 DEF Bystander
  <2>7. UNCHANGED <<links, monitors, rg, live, got>>
    BY <1>2 DEF Park, exits
  <2> QED
    BY <2>6, <2>7, AsideKeeps, Parts DEF LinkInv, links
<1> QED
  BY <1>1, <1>2

LEMMA RelWorkerStep ==
  ASSUME Types, RelInv, NEW w \in Worker, WorkerStep(w)
  PROVE  RelInv'
<1> DEFINE l == th[w]
<1>0. w \in Thread /\ l \in ThreadRec
  BY DEF Thread, Types, TypeOK
<1>1. l.pc \in ParkPc
  BY DEF WorkerStep, ParkCheck, ParkTake, ParkRestore, ParkPc
<1>2. l.f \in Flow
  BY <1>0, <1>1 DEF Types, ThreadsSound, Sound, OnFlow
<1>3. l.pc \notin Busy
  BY <1>1 DEF ParkPc, Busy, LinkPc, MonPc, SweepPc, NotifyPc
<1>4. {"park_take", "park_restore"} \cap InHand = {} /\ Ready(w).pc \notin InHand
  BY <1>0, IdleRecords DEF InHand, LinkPc, MonPc
<1>5. UNCHANGED <<links, monitors, rg, live, got>>
  BY DEF WorkerStep, ParkCheck, ParkTake, ParkRestore, exits
<1>6. CASE ParkCheck(w) \/ ParkRestore(w)
  <2>1. Goto(w, Ready(w)) \/ Goto(w, [th[w] EXCEPT !.pc = "park_take", !.reason = kill[l.f]])
    BY <1>6 DEF ParkCheck, ParkRestore
  <2>2. [th[w] EXCEPT !.pc = "park_take", !.reason = kill[l.f]].pc = "park_take"
    BY <1>0 DEF ThreadRec
  <2> QED
    BY <1>0, <1>3, <1>4, <1>5, <2>1, <2>2, QuietGoto DEF links
<1>7. CASE ParkTake(w)
  <2>1. TakeParked(w, l.f, Finalizing(l.f, l.reason), At(w, "park_restore"))
    BY <1>7 DEF ParkTake
  <2>2. At(w, "park_restore").pc = "park_restore" /\ Finalizing(l.f, l.reason).pc \notin InHand
    BY <1>0, <1>2, IdleRecords DEF At, ThreadRec, Thread
  <2>3. \A u \in Thread : Bystander(u)
    BY <1>0, <1>2, <1>3, <1>4, <2>1, <2>2, TakeAside
  <2> QED
    BY <1>5, <2>3, AsideKeeps DEF RelInv, LinkInv, links
<1> QED
  BY <1>6, <1>7 DEF WorkerStep

-----------------------------------------------------------------------------
(* Links *)

\* the inserting thread will find out that an endpoint of l is gone
InHandOf(t, l) ==
  /\ th[t].id = l.id
  /\ \/ th[t].pc \in {"confirm_a", "link_undo"}
     \/ th[t].pc = "confirm_b" /\ (~th[t].alive \/ l.b \notin live)

LEMMA Zombies ==
  NoZombieLink <=> \A l \in lt.links : \A f \in {l.a, l.b} \ live :
                     SweepPending(l.a) \/ SweepPending(l.b) \/ \E t \in Thread : InHandOf(t, l)
BY DEF NoZombieLink, InHandOf

\* A step of thread t alone that leaves the sweepers alone.
LEMMA SweepersStay ==
  ASSUME Types, NEW t \in Thread, NEW r, Goto(t, r), th[t].pc \notin SweepPc
  PROVE  /\ \A u \in Thread : th'[u] = IF u = t THEN r ELSE th[u]
         /\ \A f : SweepPending(f) => SweepPending(f)'
<1>1. \A u \in Thread : th'[u] = IF u = t THEN r ELSE th[u]
  BY DEF Goto, Types, TypeOK
<1> QED
  BY <1>1 DEF SweepPending, SweepPc, NotifyPc

\* A step of a link handler is none of the monitors' business.
LEMMA LinkStepMonitors ==
  ASSUME Types, RelInv, NEW t \in Thread, NEW r, Goto(t, r),
         th[t].pc \in LinkPc \cup {"link_insert"},
         r.pc \in LinkPc \cup {"ready", "fin_clear"},
         UNCHANGED monitors, UNCHANGED rg, UNCHANGED exits
  PROVE  MonInv' /\ NamesAgree(rg')
<1>1. \A u \in Thread : th'[u] = IF u = t THEN r ELSE th[u]
  BY DEF Goto, Types, TypeOK
<1>2. \A u \in Thread : MonStay(u)
  BY <1>1 DEF MonStay, LinkPc, MonPc, NotifyPc
<1>3. \A id : Unsent(id) => \A f \in Flow : Down(id) \notin got'[f]
  BY DEF Unsent, exits
<1> QED
  BY <1>2, <1>3, MonMove, Parts DEF monitors, exits

LEMMA RelLinkInsert ==
  ASSUME Types, RelInv, NEW t \in Flow \cup Host, LinkInsert(t)
  PROVE  RelInv'
<1> DEFINE l == th[t]
           refused == \/ HasPair(lt, l.f, l.to)
                      \/ MaxLinks # 0 /\ Cardinality(lt.links) >= MaxLinks
           r == [l EXCEPT !.pc = "confirm_a", !.id = nextLink]
<1>0. t \in Thread /\ l \in ThreadRec /\ l.pc = "link_insert" /\ nextLink \in Nat
  BY DEF Thread, Types, TypeOK, LinkInsert
<1>a. l.pc \notin Busy /\ l.pc \notin SweepPc
  BY <1>0 DEF Busy, LinkPc, MonPc, SweepPc, NotifyPc
<1>b. UNCHANGED <<monitors, rg, exits>>
  BY DEF LinkInsert
<1>1. CASE refused
  <2>1. Goto(t, Refused(t)) /\ UNCHANGED <<lt, nextLink>>
    BY <1>1 DEF LinkInsert
  <2> QED
    BY <1>0, <1>a, <1>b, <2>1, QuietGoto, IdleRecords DEF exits
<1>2. CASE ~refused
  <2>1. lt' = InsertLink(lt, nextLink, l.f, l.to) /\ nextLink' = nextLink + 1 /\ Goto(t, r)
    BY <1>2 DEF LinkInsert
  <2>2. r.pc = "confirm_a" /\ r.id = nextLink /\ r.f = l.f /\ r.to = l.to
    BY <1>0 DEF ThreadRec
  <2> DEFINE k == [id |-> nextLink, a |-> l.f, b |-> l.to]
  <2>3. lt'.links = lt.links \cup {k}
    BY <2>1 DEF InsertLink
  <2>4. k.id = nextLink /\ k.a = l.f /\ k.b = l.to
    OBVIOUS
  <2> HIDE DEF r, k
  <2>5. \A x \in lt.links : x.id \in Nat /\ x.id < nextLink
    BY Parts DEF LinkInv, Types, TypeOK
  <2>6. \A x \in lt.links : x.id # nextLink
    BY <1>0, <2>5, SMTT(30)
  <2>7. LinksAgree(lt')
    BY <1>2, <2>1, <2>6, InsertLinkAgrees DEF RelInv, LinkInv
  <2>8. /\ \A u \in Thread : th'[u] = IF u = t THEN r ELSE th[u]
        /\ \A f : SweepPending(f) => SweepPending(f)'
    BY <1>0, <1>a, <2>1, SweepersStay
  <2>9. \A x \in lt'.links : x.id < nextLink'
    BY <1>0, <2>1, <2>3, <2>4, <2>5, SMTT(30)
  <2>10. \A u \in Thread : th'[u].pc \in LinkPc =>
            /\ th'[u].id < nextLink'
            /\ \A x \in lt'.links : x.id = th'[u].id => x.a = th'[u].f /\ x.b = th'[u].to
    <3> SUFFICES ASSUME NEW u \in Thread, th'[u].pc \in LinkPc
                 PROVE  /\ th'[u].id < nextLink'
                        /\ \A x \in lt'.links : x.id = th'[u].id => x.a = th'[u].f /\ x.b = th'[u].to
      OBVIOUS
    <3>1. CASE u = t
      BY <1>0, <2>1, <2>2, <2>3, <2>4, <2>6, <2>8, <3>1, SMTT(30)
    <3>2. CASE u # t
      <4>1. th'[u] = th[u] /\ th[u].id \in Nat /\ th[u].id < nextLink
        BY <2>8, <3>2, Parts DEF LinkInv, Types, TypeOK, ThreadRec
      <4>2. \A x \in lt.links : x.id = th[u].id => x.a = th[u].f /\ x.b = th[u].to
        BY <4>1 DEF RelInv, LinkInv
      <4> QED
        BY <1>0, <2>1, <2>3, <2>4, <4>1, <4>2, SMTT(30)
    <3> QED
      BY <3>1, <3>2
  <2>11. NoZombieLink'
    <3>1. \A u \in Thread : \A x : InHandOf(u, x) => InHandOf(u, x)'
      <4> SUFFICES ASSUME NEW u \in Thread, NEW x, InHandOf(u, x) PROVE InHandOf(u, x)'
        OBVIOUS
      <4>1. u # t
        BY <1>0 DEF InHandOf
      <4>2. th'[u] = th[u] /\ live' = live
        BY <1>b, <2>8, <4>1 DEF exits
      <4> QED
        BY <4>2 DEF InHandOf
    <3>2. th'[t].id = k.id /\ th'[t].pc = "confirm_a"
      BY <1>0, <2>2, <2>4, <2>8
    <3>3. ASSUME NEW x \in lt'.links, NEW f \in {x.a, x.b} \ live'
          PROVE  SweepPending(x.a)' \/ SweepPending(x.b)' \/ \E u \in Thread : InHandOf(u, x)'
      <4>1. CASE x = k
        <5>1. InHandOf(t, x)'
          BY <3>2, <4>1 DEF InHandOf
        <5> QED
          BY <1>0, <5>1
      <4>2. CASE x \in lt.links
        <5>1. live' = live
          BY <1>b DEF exits
        <5> QED
          BY <2>8, <3>1, <4>2, <5>1, Zombies, Parts DEF LinkInv
      <4> QED
        BY <2>3, <4>1, <4>2
    <3>4. NoZombieLink' <=> \A x \in lt'.links : \A f \in {x.a, x.b} \ live' :
             SweepPending(x.a)' \/ SweepPending(x.b)' \/ \E u \in Thread : InHandOf(u, x)'
      BY DEF NoZombieLink, InHandOf
    <3> QED
      BY <3>3, <3>4
  <2>12. LinkInv'
    BY <2>7, <2>9, <2>10, <2>11 DEF LinkInv
  <2>13. MonInv' /\ NamesAgree(rg')
    BY <1>0, <1>b, <2>1, <2>2, LinkStepMonitors DEF LinkPc
  <2> QED
    BY <2>12, <2>13 DEF RelInv
<1> QED
  BY <1>1, <1>2

\* The inserting thread goes on: what it had in hand it still has, or the row is gone.
LEMMA LinkProgress ==
  ASSUME Types, RelInv, NEW t \in Thread, NEW r, Goto(t, r), th[t].pc \in LinkPc,
         LinksAgree(lt'), lt'.links \subseteq lt.links, UNCHANGED nextLink,
         UNCHANGED monitors, UNCHANGED rg, UNCHANGED exits,
         r.pc \in LinkPc \cup {"ready", "fin_clear"},
         r.pc \in LinkPc => r.id = th[t].id /\ r.f = th[t].f /\ r.to = th[t].to,
         \A x \in lt'.links : x.a \notin live \/ x.b \notin live =>
                              (InHandOf(t, x) => InHandOf(t, x)')
  PROVE  RelInv'
<1>1. th[t].pc \notin SweepPc /\ live' = live
  BY DEF LinkPc, SweepPc, NotifyPc, exits
<1>2. /\ \A u \in Thread : th'[u] = IF u = t THEN r ELSE th[u]
      /\ \A f : SweepPending(f) => SweepPending(f)'
  BY <1>1, SweepersStay
<1>3. \A u \in Thread : th'[u].pc \in LinkPc =>
         /\ th'[u].id < nextLink'
         /\ \A x \in lt'.links : x.id = th'[u].id => x.a = th'[u].f /\ x.b = th'[u].to
  <2> SUFFICES ASSUME NEW u \in Thread, th'[u].pc \in LinkPc
               PROVE  /\ th'[u].id < nextLink'
                      /\ \A x \in lt'.links : x.id = th'[u].id => x.a = th'[u].f /\ x.b = th'[u].to
    OBVIOUS
  <2>1. /\ th[u].pc \in LinkPc
        /\ th'[u].id = th[u].id /\ th'[u].f = th[u].f /\ th'[u].to = th[u].to
    BY <1>2
  <2>2. /\ th[u].id < nextLink
        /\ \A x \in lt.links : x.id = th[u].id => x.a = th[u].f /\ x.b = th[u].to
    BY <2>1, Parts DEF LinkInv
  <2> QED
    BY <2>1, <2>2
<1>4. NoZombieLink'
  <2>1. \A u \in Thread : \A x \in lt'.links : x.a \notin live \/ x.b \notin live =>
           (InHandOf(u, x) => InHandOf(u, x)')
    <3> SUFFICES ASSUME NEW u \in Thread, NEW x \in lt'.links, x.a \notin live \/ x.b \notin live,
                        InHandOf(u, x)
                 PROVE  InHandOf(u, x)'
      OBVIOUS
    <3>1. CASE u = t
      BY <3>1
    <3>2. CASE u # t
      BY <1>1, <1>2, <3>2 DEF InHandOf
    <3> QED
      BY <3>1, <3>2
  <2>2. ASSUME NEW x \in lt'.links, NEW f \in {x.a, x.b} \ live'
        PROVE  SweepPending(x.a)' \/ SweepPending(x.b)' \/ \E u \in Thread : InHandOf(u, x)'
    BY <1>1, <1>2, <2>1, Zombies, Parts DEF LinkInv
  <2>3. NoZombieLink' <=> \A x \in lt'.links : \A f \in {x.a, x.b} \ live' :
           SweepPending(x.a)' \/ SweepPending(x.b)' \/ \E u \in Thread : InHandOf(u, x)'
    BY DEF NoZombieLink, InHandOf
  <2> QED
    BY <2>2, <2>3
<1>5. LinkInv'
  BY <1>3, <1>4, Parts DEF LinkInv
<1>6. MonInv' /\ NamesAgree(rg')
  BY LinkStepMonitors
<1> QED
  BY <1>5, <1>6 DEF RelInv

LEMMA RelConfirm ==
  ASSUME Types, RelInv, NEW t \in Flow \cup Host, ConfirmA(t) \/ ConfirmB(t) \/ LinkUndo(t)
  PROVE  RelInv'
<1> DEFINE l == th[t]
<1>0. t \in Thread /\ l \in ThreadRec /\ l.pc \in LinkPc
  BY DEF Thread, Types, TypeOK, LinkPc, ConfirmA, ConfirmB, LinkUndo
<1>a. UNCHANGED <<nextLink, monitors, rg, exits>> /\ live' = live
  BY DEF ConfirmA, ConfirmB, LinkUndo, links, exits
<1>b. /\ LinksAgree(lt)
      /\ \A x \in lt.links : x.id = l.id => x.a = l.f /\ x.b = l.to
  BY <1>0 DEF RelInv, LinkInv
<1>c. \A r : Goto(t, r) => th'[t] = r
  BY <1>0 DEF Goto, Types, TypeOK
<1>1. CASE ConfirmA(t)
  <2> DEFINE r == [th[t] EXCEPT !.pc = "confirm_b", !.alive = th[t].f \in live]
  <2>1. Goto(t, r) /\ lt' = lt /\ l.pc = "confirm_a"
    BY <1>1 DEF ConfirmA, links
  <2>2. /\ r.pc = "confirm_b" /\ r.id = l.id /\ r.f = l.f /\ r.to = l.to
        /\ r.alive = (l.f \in live)
    BY <1>0 DEF ThreadRec
  <2> HIDE DEF r
  <2>3. r.pc \in LinkPc
    BY <2>2 DEF LinkPc
  <2>4. th'[t] = r
    BY <1>c, <2>1
  <2>5. \A x \in lt'.links : x.a \notin live \/ x.b \notin live => (InHandOf(t, x) => InHandOf(t, x)')
    BY <1>a, <1>b, <2>1, <2>2, <2>4 DEF InHandOf
  <2> QED
    BY <1>0, <1>a, <1>b, <2>1, <2>2, <2>3, <2>5, LinkProgress
<1>2. CASE ConfirmB(t)
  <2> DEFINE linked == l.alive /\ l.to \in live
  <2>1. lt' = lt /\ l.pc = "confirm_b" /\ Goto(t, IF linked THEN Ready(t) ELSE At(t, "link_undo"))
    BY <1>2 DEF ConfirmB
  <2>2. CASE linked
    <3>1. Goto(t, Ready(t)) /\ Ready(t).pc = "ready" /\ "ready" \notin LinkPc
      BY <1>0, <2>1, <2>2, IdleRecords DEF LinkPc
    <3>2. \A x \in lt'.links : ~InHandOf(t, x)
      BY <1>b, <2>1, <2>2 DEF InHandOf
    <3> QED
      BY <1>0, <1>a, <1>b, <2>1, <3>1, <3>2, LinkProgress
  <2>3. CASE ~linked
    <3> DEFINE r == At(t, "link_undo")
    <3>1. r.pc = "link_undo" /\ r.id = l.id /\ r.f = l.f /\ r.to = l.to
      BY <1>0 DEF At, ThreadRec
    <3>2. Goto(t, r)
      BY <2>1, <2>3
    <3> HIDE DEF r
    <3>3. th'[t] = r
      BY <1>c, <3>2
    <3>4. \A x \in lt'.links : InHandOf(t, x) => InHandOf(t, x)'
      BY <3>1, <3>3 DEF InHandOf
    <3>5. r.pc \in LinkPc
      BY <3>1 DEF LinkPc
    <3> QED
      BY <1>0, <1>a, <1>b, <2>1, <3>1, <3>2, <3>4, <3>5, LinkProgress
  <2> QED
    BY <2>2, <2>3
<1>3. CASE LinkUndo(t)
  <2>1. lt' = UnlinkId(lt, l.id) /\ (Goto(t, Refused(t)) \/ Goto(t, Ready(t)))
    BY <1>3 DEF LinkUndo
  <2>2. PICK r : Goto(t, r) /\ r.pc \in {"ready", "fin_clear"}
    BY <1>0, <2>1, IdleRecords
  <2>3. LinksAgree(lt') /\ lt'.links = {x \in lt.links : x.id # l.id}
    BY <1>b, <2>1, UnlinkIdAgrees, SMTT(30)
  <2>4. \A x \in lt'.links : ~InHandOf(t, x)
    BY <2>3 DEF InHandOf
  <2>5. r.pc \notin LinkPc
    BY <2>2 DEF LinkPc
  <2> QED
    BY <1>0, <1>a, <2>2, <2>3, <2>4, <2>5, LinkProgress
<1> QED
  BY <1>1, <1>2, <1>3

\* links.remove_links_of: f's finalize has swept every link of f.
LEMMA RelFinLinks ==
  ASSUME Types, RelInv, NEW t \in Thread, FinLinks(t)
  PROVE  RelInv'
<1> DEFINE f == th[t].f
           r == [At(t, "fin_peer") EXCEPT !.rows = PeersOf(lt, f)]
<1>0. th[t] \in ThreadRec /\ th[t].pc = "fin_down" /\ th[t].rows = {}
  BY DEF Types, TypeOK, FinLinks
<1>1. r.pc = "fin_peer"
  BY <1>0 DEF At, ThreadRec
<1>2. /\ lt' = RemoveLinksOf(lt, f) /\ Goto(t, r) /\ nextLink' = nextLink
      /\ UNCHANGED <<monitors, rg, exits>>
  BY DEF FinLinks
<1> HIDE DEF r
<1>3. LinksAgree(lt') /\ lt'.links = {x \in lt.links : f \notin {x.a, x.b}}
  BY <1>2, RemoveLinksOfAgrees, Parts, SMTT(30) DEF LinkInv
<1>4. \A u \in Thread : th'[u] = IF u = t THEN r ELSE th[u]
  BY <1>2 DEF Goto, Types, TypeOK
<1>5. NoZombieLink'
  <2>1. \A g : g # f /\ SweepPending(g) => SweepPending(g)'
    BY <1>0, <1>4 DEF SweepPending
  <2>2. live' = live
    BY <1>2 DEF exits
  <2>3. \A u \in Thread : \A x : InHandOf(u, x) => InHandOf(u, x)'
    <3> SUFFICES ASSUME NEW u \in Thread, NEW x, InHandOf(u, x) PROVE InHandOf(u, x)'
      OBVIOUS
    <3>1. u # t
      BY <1>0 DEF InHandOf
    <3> QED
      BY <1>4, <2>2, <3>1 DEF InHandOf
  <2>4. ASSUME NEW x \in lt'.links, NEW g \in {x.a, x.b} \ live'
        PROVE  SweepPending(x.a)' \/ SweepPending(x.b)' \/ \E u \in Thread : InHandOf(u, x)'
    BY <1>3, <2>1, <2>2, <2>3, Zombies, Parts DEF LinkInv
  <2>5. NoZombieLink' <=> \A x \in lt'.links : \A g \in {x.a, x.b} \ live' :
           SweepPending(x.a)' \/ SweepPending(x.b)' \/ \E u \in Thread : InHandOf(u, x)'
    BY DEF NoZombieLink, InHandOf
  <2> QED
    BY <2>4, <2>5
<1>6. \A u \in Thread : th'[u].pc \in LinkPc => th'[u] = th[u]
  BY <1>1, <1>4 DEF LinkPc
<1>7. LinkInv'
  <2>1. lt'.links \subseteq lt.links /\ nextLink' = nextLink
    BY <1>2, <1>3
  <2>2. \A x \in lt'.links : x.id < nextLink'
    BY <2>1, Parts DEF LinkInv
  <2>3. \A u \in Thread : th'[u].pc \in LinkPc =>
           /\ th'[u].id < nextLink'
           /\ \A x \in lt'.links : x.id = th'[u].id => x.a = th'[u].f /\ x.b = th'[u].to
    <3> SUFFICES ASSUME NEW u \in Thread, th'[u].pc \in LinkPc
                 PROVE  /\ th'[u].id < nextLink'
                        /\ \A x \in lt'.links : x.id = th'[u].id => x.a = th'[u].f /\ x.b = th'[u].to
      OBVIOUS
    <3>1. /\ th[u].pc \in LinkPc
          /\ th'[u].id = th[u].id /\ th'[u].f = th[u].f /\ th'[u].to = th[u].to
      BY <1>6
    <3>2. /\ th[u].id < nextLink
          /\ \A x \in lt.links : x.id = th[u].id => x.a = th[u].f /\ x.b = th[u].to
      BY <3>1, Parts DEF LinkInv
    <3> QED
      BY <2>1, <3>1, <3>2
  <2> QED
    BY <1>3, <1>5, <2>2, <2>3 DEF LinkInv
<1>8. \A u \in Thread : MonStay(u)
  BY <1>0, <1>1, <1>4 DEF MonStay, MonPc, NotifyPc
<1>a. \A id : Unsent(id) => \A g \in Flow : Down(id) \notin got'[g]
  BY <1>2 DEF Unsent, exits
<1>9. MonInv'
  BY <1>2, <1>8, <1>a, MonMove, Parts DEF MonInv, monitors, exits
<1> QED
  BY <1>2, <1>7, <1>9 DEF RelInv

-----------------------------------------------------------------------------
(* Monitors *)

\* A step of a thread that holds no link and sweeps for nobody is none of the links' business.
LEMMA MonStepLinks ==
  ASSUME RelInv, NEW t \in Thread, th[t].pc \notin LinkPc \cup SweepPc, th'[t].pc \notin LinkPc,
         \A u \in Thread \ {t} : \/ th'[u] = th[u]
                                 \/ th'[u] = Runnable(u) /\ th[u].pc = "parked",
         UNCHANGED <<lt, nextLink, rg, live>>
  PROVE  LinkInv' /\ NamesAgree(rg')
<1>1. \A u : Runnable(u).pc \notin LinkPc /\ "parked" \notin LinkPc \cup SweepPc
  BY DEF Runnable, Ready, LinkPc, SweepPc, NotifyPc
<1>2. \A u \in Thread : LinkStay(u)
  BY <1>1 DEF LinkStay
<1> QED
  BY <1>2, LinkMove, Parts DEF LinkInv

\* The counter of ids goes up by one.
LEMMA Successor ==
  ASSUME NEW n \in Nat
  PROVE  n < n + 1 /\ \A i \in Nat : i < n => i < n + 1
BY SMTT(30)

\* try_next_monitor_id hands out an id that nothing knows of.
LEMMA NewMonitor ==
  ASSUME MonFresh, nextMonitor \in Nat
  PROVE  /\ \A u \in Thread : th[u].pc \in MonPc => th[u].id # nextMonitor
         /\ \A x \in Thread : nextMonitor \notin monitorRefs[x]
         /\ nextMonitor \notin silenced /\ Unsent(nextMonitor)
         /\ \A m \in mt.rows : m.id # nextMonitor
<1>1. ~(nextMonitor < nextMonitor) /\ nextMonitor >= nextMonitor
  BY SMTT(30)
<1> QED
  BY <1>1 DEF MonFresh

LEMMA RelMonitorCreate ==
  ASSUME Types, RelInv, NEW t \in Flow \cup Host, MonitorCreate(t)
  PROVE  RelInv'
<1> DEFINE l == th[t]
           refused == MaxMonitors # 0 /\ Cardinality(mt.rows) >= MaxMonitors
           c == [l EXCEPT !.pc = "mon_check", !.id = nextMonitor]
           k == [id |-> nextMonitor, owner |-> l.f, target |-> l.to]
<1>0. t \in Thread /\ l \in ThreadRec /\ l.pc = "mon_create" /\ nextMonitor \in Nat
  BY DEF Thread, Types, TypeOK, MonitorCreate
<1>a. l.pc \notin Busy /\ l.pc \notin LinkPc \cup SweepPc
  BY <1>0 DEF Busy, LinkPc, MonPc, SweepPc, NotifyPc
<1>b. UNCHANGED <<silenced, links, rg, exits>>
  BY DEF MonitorCreate
<1>1. CASE refused
  <2>1. Goto(t, Refused(t)) /\ UNCHANGED <<mt, nextMonitor, monitorRefs>>
    BY <1>1 DEF MonitorCreate
  <2> QED
    BY <1>0, <1>a, <1>b, <2>1, QuietGoto, IdleRecords DEF links, monitors, exits
<1>2. CASE ~refused
  <2>1. /\ mt' = InsertMonitor(mt, nextMonitor, l.f, l.to) /\ nextMonitor' = nextMonitor + 1
        /\ \/ /\ t \in Flow /\ t \notin Host /\ Goto(t, Ready(t))
              /\ monitorRefs' = [monitorRefs EXCEPT ![t] = @ \cup {nextMonitor}]
           \/ t \in Host /\ Goto(t, c) /\ monitorRefs' = monitorRefs
    BY <1>2, LifecycleAssumption DEF MonitorCreate
  <2>2. /\ c.pc = "mon_check" /\ c.id = nextMonitor /\ c.f = l.f /\ c.to = l.to
        /\ Ready(t).pc = "ready"
    BY <1>0, IdleRecords DEF ThreadRec
  <2>3. mt'.rows = mt.rows \cup {k} /\ k.id = nextMonitor /\ k.owner = l.f /\ k.target = l.to
    BY <2>1 DEF InsertMonitor
  <2> HIDE DEF c, k
  <2>4. PICK r : /\ Goto(t, r) /\ r.pc \in {"ready", "mon_check"}
                 /\ r.pc = "mon_check" => /\ r.id = nextMonitor /\ r.f = l.f /\ r.to = l.to
                                          /\ monitorRefs' = monitorRefs
    BY <2>1, <2>2
  <2>5. /\ \A x \in Thread : monitorRefs'[x] \subseteq monitorRefs[x] \cup {nextMonitor}
        /\ \A h \in Host : monitorRefs'[h] = monitorRefs[h]
    BY <2>1 DEF Types, TypeOK, Thread
  <2>6. \A u \in Thread : th'[u] = IF u = t THEN r ELSE th[u]
    BY <2>4 DEF Goto, Types, TypeOK
  <2>a. nextMonitor < nextMonitor' /\ \A i \in Nat : i < nextMonitor => i < nextMonitor'
    BY <1>0, <2>1, Successor
  <2>7. \A m \in mt.rows : m.id \in Nat /\ m.id < nextMonitor
    BY DEF RelInv, MonInv, MonFresh, Types, TypeOK
  <2>8. MonitorsAgree(mt')
    <3>1. \A m \in mt.rows : m.id # nextMonitor
      BY <1>0, <2>7, SMTT(30)
    <3> QED
      BY <2>1, <3>1, InsertMonitorAgrees, Parts
  <2>9. got' = got /\ live' = live /\ silenced' = silenced
    BY <1>b DEF exits
  <2>10. \A id : Unsent(id) => Unsent(id)'
    BY <1>0, <2>4, <2>6, <2>9 DEF Unsent, Down
  <2>11. MonFresh'
    <3>1. \A m \in mt'.rows : m.id < nextMonitor'
      BY <2>3, <2>7, <2>a
    <3>2. \A id \in silenced' : id < nextMonitor'
      <4>1. \A id \in silenced : id \in Nat /\ id < nextMonitor
        BY Parts DEF MonFresh, Types, TypeOK
      <4> QED
        BY <2>9, <2>a, <4>1
    <3>3. \A x \in Thread : \A id \in monitorRefs'[x] : id < nextMonitor'
      <4>1. \A x \in Thread : \A id \in monitorRefs[x] : id \in Nat /\ id < nextMonitor
        BY Parts DEF MonFresh, Types, TypeOK
      <4> QED
        BY <2>5, <2>a, <4>1
    <3>4. \A u \in Thread : th'[u].pc \in MonPc => th'[u].id < nextMonitor'
      <4>1. \A u \in Thread : th[u].pc \in MonPc => th[u].id \in Nat /\ th[u].id < nextMonitor
        BY Parts DEF MonFresh, Types, TypeOK, ThreadRec
      <4> QED
        BY <2>4, <2>6, <2>a, <4>1 DEF MonPc
    <3>5. \A id \in Nat : id >= nextMonitor' => Unsent(id)'
      <4>1. \A id \in Nat : id >= nextMonitor' => id >= nextMonitor
        BY <1>0, <2>1, SMTT(30)
      <4> QED
        BY <2>10, <4>1 DEF RelInv, MonInv, MonFresh
    <3> QED
      BY <3>1, <3>2, <3>3, <3>4, <3>5 DEF MonFresh
  <2>12. MonHeld'
    <3>1. \A u \in Thread : th[u].pc \in MonPc => th[u].id # nextMonitor
      BY <1>0, Parts, NewMonitor
    <3>2. \A x \in Thread : nextMonitor \notin monitorRefs[x]
      BY <1>0, Parts, NewMonitor
    <3>3. nextMonitor \notin silenced /\ \A m \in mt.rows : m.id # nextMonitor
      BY <1>0, Parts, NewMonitor
    <3>4. ASSUME NEW u \in Thread, th'[u].pc \in MonPc
          PROVE  /\ \A x \in Thread : th'[u].id \notin monitorRefs'[x]
                 /\ th'[u].id \notin silenced'
                 /\ \A m \in mt'.rows : m.id = th'[u].id => m.owner = th'[u].f /\ m.target = th'[u].to
                 /\ th'[u].pc = "mon_down" => \A m \in mt'.rows : m.id # th'[u].id
      <4>1. CASE u = t
        BY <2>3, <2>4, <2>6, <2>9, <3>2, <3>3, <3>4, <4>1 DEF MonPc
      <4>2. CASE u # t
        <5>1. th'[u] = th[u] /\ th[u].id # nextMonitor
          BY <2>6, <3>1, <3>4, <4>2
        <5>2. th[u].pc \in MonPc
          BY <3>4, <5>1
        <5>3. /\ \A x \in Thread : th[u].id \notin monitorRefs[x]
              /\ th[u].id \notin silenced
              /\ \A m \in mt.rows : m.id = th[u].id => m.owner = th[u].f /\ m.target = th[u].to
              /\ th[u].pc = "mon_down" => \A m \in mt.rows : m.id # th[u].id
          BY <5>2, Parts DEF MonHeld
        <5>4. \A x \in Thread : th[u].id \notin monitorRefs'[x]
          BY <2>5, <5>1, <5>3
        <5> QED
          BY <2>3, <2>9, <5>1, <5>3, <5>4
      <4> QED
        BY <4>1, <4>2
    <3>5. ASSUME NEW u \in Thread, NEW v \in Thread, th'[u].pc \in MonPc, th'[v].pc \in MonPc,
                 th'[u].id = th'[v].id
          PROVE  u = v
      <4>1. \A x, y \in Thread : th[x].pc \in MonPc /\ th[y].pc \in MonPc /\ th[x].id = th[y].id => x = y
        BY Parts DEF MonHeld
      <4> QED
        BY <2>4, <2>6, <3>1, <3>5, <4>1, SMTT(30) DEF MonPc
    <3> QED
      BY <3>4, <3>5 DEF MonHeld
  <2>13. \A m \in mt'.rows : m.id \notin silenced' /\ Unsent(m.id)'
    <3>1. nextMonitor \notin silenced /\ Unsent(nextMonitor)
      BY <1>0, Parts, NewMonitor
    <3>2. \A m \in mt'.rows : m.id \notin silenced /\ Unsent(m.id)
      BY <2>3, <3>1, Parts
    <3> QED
      BY <2>9, <2>10, <3>2
  <2>14. NoDeafMonitor'
    <3> SUFFICES ASSUME NEW h \in Host, NEW m \in mt'.rows, m.id \in monitorRefs'[h],
                        m.target \notin live'
                 PROVE  \E u \in Thread : th'[u].f = m.target /\ th'[u].pc \in NotifyPc
      BY DEF NoDeafMonitor, NotifyPc
    <3>1. m.id \in monitorRefs[h] /\ h \in Thread
      BY <2>5 DEF Thread
    <3>2. m \in mt.rows
      <4>1. nextMonitor \notin monitorRefs[h]
        BY <1>0, <3>1, Parts, NewMonitor
      <4> QED
        BY <2>3, <3>1, <4>1
    <3>3. PICK u \in Thread : th[u].f = m.target /\ th[u].pc \in NotifyPc
      BY <2>9, <3>1, <3>2, Parts DEF NoDeafMonitor, NotifyPc
    <3>4. u # t
      BY <1>0, <3>3 DEF NotifyPc
    <3> QED
      BY <2>6, <3>3, <3>4
  <2>15. DemonitorSilences'
    <3> SUFFICES ASSUME NEW id \in silenced'
                 PROVE  Unsent(id)' /\ \A u \in Thread :
                          ~(th'[u].pc \in {"mon_undo", "mon_down"} /\ th'[u].id = id)
      BY DEF DemonitorSilences, Unsent, Down
    <3>1. Unsent(id)
      BY <2>9 DEF RelInv, MonInv, DemonitorSilences, Unsent
    <3>2. \A u \in Thread : th'[u].pc \in {"mon_undo", "mon_down"} => th'[u] = th[u]
      BY <2>4, <2>6
    <3> QED
      BY <2>9, <2>10, <3>1, <3>2 DEF RelInv, MonInv, DemonitorSilences
  <2>16. MonInv'
    BY <2>8, <2>11, <2>12, <2>13, <2>14, <2>15 DEF MonInv
  <2>17. LinkInv' /\ NamesAgree(rg')
    <3>1. th'[t].pc \notin LinkPc
      BY <1>0, <2>4, <2>6 DEF LinkPc
    <3>2. \A u \in Thread \ {t} : th'[u] = th[u]
      BY <2>6
    <3> QED
      BY <1>0, <1>a, <1>b, <2>9, <3>1, <3>2, MonStepLinks DEF links
  <2> QED
    BY <2>16, <2>17 DEF RelInv
<1> QED
  BY <1>1, <1>2

\* A turn of thread t that creates no row: the refs it returns, the ones it silences and
\* the ones whose DOWN it sends or takes in hand are old, and no row has them any more.
Turn(t, back, off, sent) ==
  /\ MonitorsAgree(mt') /\ mt'.rows \subseteq mt.rows /\ nextMonitor' = nextMonitor /\ live' = live
  /\ \A u \in Thread \ {t} : th'[u] = th[u] \/ (th'[u] = Runnable(u) /\ th[u].pc = "parked")
  /\ th'[t].pc \in MonPc => /\ th[t].pc \in MonPc
                            /\ th'[t].id = th[t].id /\ th'[t].f = th[t].f /\ th'[t].to = th[t].to
                            /\ th'[t].pc = "mon_down" => \A m \in mt'.rows : m.id # th[t].id
  /\ th[t].pc \in NotifyPc => \A m \in mt'.rows : m.target # th[t].f
  /\ \A x \in Thread : monitorRefs'[x] \subseteq monitorRefs[x] \cup back
  /\ \A id \in back : /\ id < nextMonitor
                      /\ \A u \in Thread : th'[u].pc \in MonPc => th'[u].id # id
                      /\ \A m \in mt'.rows : m.id = id => m.target \in live
  /\ silenced' \subseteq silenced \cup off
  /\ \A id \in off : /\ id < nextMonitor /\ id \notin sent /\ Unsent(id)
                     /\ \A u \in Thread : th'[u].pc \in MonPc => th'[u].id # id
                     /\ \A m \in mt'.rows : m.id # id
  /\ \A id : Unsent(id) /\ id \notin sent => Unsent(id)'
  /\ \A id \in sent : id < nextMonitor /\ id \notin silenced /\ \A m \in mt'.rows : m.id # id

LEMMA MonTurn ==
  ASSUME Types, RelInv, NEW t \in Thread, NEW back, NEW off, NEW sent, Turn(t, back, off, sent)
  PROVE  MonInv'
<1>1. \A u \in Thread \ {t} : \/ th'[u] = th[u]
                             \/ /\ th'[u].pc \notin MonPc /\ th[u].pc \notin NotifyPc
  BY Woken DEF Turn
<1>2. \A u \in Thread : th'[u].pc \in MonPc =>
         /\ th[u].pc \in MonPc
         /\ th'[u].id = th[u].id /\ th'[u].f = th[u].f /\ th'[u].to = th[u].to
         /\ th'[u].pc = "mon_down" => \A m \in mt'.rows : m.id # th[u].id
  BY <1>1, Parts DEF Turn, MonHeld
<1>3. MonFresh'
  <2>1. \A m \in mt'.rows : m.id < nextMonitor'
    BY Parts DEF Turn, MonFresh
  <2>2. \A id \in silenced' : id < nextMonitor'
    BY Parts DEF Turn, MonFresh
  <2>3. \A x \in Thread : \A id \in monitorRefs'[x] : id < nextMonitor'
    BY Parts DEF Turn, MonFresh
  <2>4. \A u \in Thread : th'[u].pc \in MonPc => th'[u].id < nextMonitor'
    BY <1>2, Parts DEF Turn, MonFresh
  <2>5. \A id \in Nat : id >= nextMonitor' => Unsent(id)'
    <3>1. \A id \in Nat : id >= nextMonitor => id \notin sent /\ Unsent(id)
      <4>1. nextMonitor \in Nat
        BY DEF Types, TypeOK
      <4>2. \A id \in Nat : id >= nextMonitor => ~(id < nextMonitor)
        BY <4>1, SMTT(30)
      <4> QED
        BY <4>2, Parts DEF Turn, MonFresh
    <3> QED
      BY <3>1 DEF Turn
  <2> QED
    BY <2>1, <2>2, <2>3, <2>4, <2>5 DEF MonFresh
<1>4. MonHeld'
  <2>1. ASSUME NEW u \in Thread, th'[u].pc \in MonPc
        PROVE  /\ \A x \in Thread : th'[u].id \notin monitorRefs'[x]
               /\ th'[u].id \notin silenced'
               /\ \A m \in mt'.rows : m.id = th'[u].id => m.owner = th'[u].f /\ m.target = th'[u].to
               /\ th'[u].pc = "mon_down" => \A m \in mt'.rows : m.id # th'[u].id
    <3>1. /\ th[u].pc \in MonPc
          /\ th'[u].id = th[u].id /\ th'[u].f = th[u].f /\ th'[u].to = th[u].to
          /\ th'[u].pc = "mon_down" => \A m \in mt'.rows : m.id # th[u].id
      BY <1>2, <2>1
    <3>2. /\ \A x \in Thread : th[u].id \notin monitorRefs[x]
          /\ th[u].id \notin silenced
          /\ \A m \in mt.rows : m.id = th[u].id => m.owner = th[u].f /\ m.target = th[u].to
      BY <3>1, Parts DEF MonHeld
    <3>3. th'[u].id \notin back /\ th'[u].id \notin off
      BY <2>1 DEF Turn
    <3>4. \A x \in Thread : th'[u].id \notin monitorRefs'[x]
      BY <3>1, <3>2, <3>3 DEF Turn
    <3>5. th'[u].id \notin silenced'
      BY <3>1, <3>2, <3>3 DEF Turn
    <3>6. mt'.rows \subseteq mt.rows
      BY DEF Turn
    <3> QED
      BY <3>1, <3>2, <3>4, <3>5, <3>6
  <2>2. \A u, v \in Thread : th'[u].pc \in MonPc /\ th'[v].pc \in MonPc /\ th'[u].id = th'[v].id => u = v
    BY <1>2, Parts DEF MonHeld
  <2> QED
    BY <2>1, <2>2 DEF MonHeld
<1>5. \A m \in mt'.rows : m.id \notin silenced' /\ Unsent(m.id)'
  BY Parts DEF Turn
<1>6. NoDeafMonitor'
  <2> SUFFICES ASSUME NEW h \in Host, NEW m \in mt'.rows, m.id \in monitorRefs'[h],
                      m.target \notin live'
               PROVE  \E u \in Thread : th'[u].f = m.target /\ th'[u].pc \in NotifyPc
    BY DEF NoDeafMonitor, NotifyPc
  <2>1. m.id \in monitorRefs[h] /\ m \in mt.rows
    BY DEF Turn, Thread
  <2>2. PICK u \in Thread : th[u].f = m.target /\ th[u].pc \in NotifyPc
    BY <2>1, Parts DEF Turn, NoDeafMonitor, NotifyPc
  <2>3. u # t
    BY <2>2 DEF Turn
  <2>4. th'[u] = th[u]
    BY <1>1, <2>2, <2>3
  <2> QED
    BY <2>2, <2>4
<1>7. DemonitorSilences'
  <2> SUFFICES ASSUME NEW id \in silenced'
               PROVE  Unsent(id)' /\ \A u \in Thread :
                        ~(th'[u].pc \in {"mon_undo", "mon_down"} /\ th'[u].id = id)
    BY DEF DemonitorSilences, Unsent, Down
  <2>1. Unsent(id) /\ id \notin sent
    BY Parts DEF Turn, DemonitorSilences, Unsent
  <2>2. \A u \in Thread : th'[u].pc \in MonPc => th'[u].id # id
    <3>1. id \in silenced \/ id \in off
      BY DEF Turn
    <3>2. id \in silenced => \A u \in Thread : th[u].pc \in MonPc => th[u].id # id
      BY Parts DEF MonHeld
    <3>3. id \in off => \A u \in Thread : th'[u].pc \in MonPc => th'[u].id # id
      BY DEF Turn
    <3> QED
      BY <1>2, <3>1, <3>2, <3>3
  <2> QED
    BY <2>1, <2>2 DEF Turn, MonPc
<1> QED
  BY <1>3, <1>4, <1>5, <1>6, <1>7 DEF Turn, MonInv

\* A step of thread t alone sends no DOWN unless it delivers or collects one.
LEMMA NothingSent ==
  ASSUME Types, NEW t \in Thread, NEW r, Goto(t, r), r.pc # "fin_down", got' = got
  PROVE  /\ \A u \in Thread : th'[u] = IF u = t THEN r ELSE th[u]
         /\ \A id : Unsent(id) => Unsent(id)'
<1>1. \A u \in Thread : th'[u] = IF u = t THEN r ELSE th[u]
  BY DEF Goto, Types, TypeOK
<1> QED
  BY <1>1 DEF Unsent, Down

LEMMA RelMonitorCheck ==
  ASSUME Types, RelInv, NEW t \in Flow \cup Host, MonitorCheck(t) \/ MonitorUndo(t)
  PROVE  RelInv'
<1> DEFINE l == th[t]
<1>0. t \in Thread /\ l \in ThreadRec /\ l.pc \in {"mon_check", "mon_undo"}
  BY DEF Thread, Types, TypeOK, MonitorCheck, MonitorUndo
<1>a. /\ UNCHANGED <<nextMonitor, silenced>> /\ UNCHANGED <<links, rg, exits>>
      /\ got' = got /\ live' = live
  BY DEF MonitorCheck, MonitorUndo, exits
<1>b. /\ l.id < nextMonitor /\ l.pc \in MonPc /\ l.pc \notin NotifyPc
      /\ \A m \in mt.rows : m.id = l.id => m.owner = l.f /\ m.target = l.to
      /\ \A u \in Thread : th[u].pc \in MonPc /\ th[u].id = l.id => u = t
  BY <1>0, Parts DEF MonFresh, MonHeld, MonPc, NotifyPc
<1>1. ASSUME NEW r, Goto(t, r), r.pc \in MonPc \cup {"ready"}
      PROVE  LinkInv' /\ NamesAgree(rg')
  <2>1. \A u \in Thread : th'[u] = IF u = t THEN r ELSE th[u]
    BY <1>1 DEF Goto, Types, TypeOK
  <2>2. th'[t].pc \notin LinkPc /\ th[t].pc \notin LinkPc \cup SweepPc
    BY <1>0, <1>1, <2>1 DEF LinkPc, MonPc, SweepPc, NotifyPc
  <2> QED
    BY <1>0, <1>a, <2>1, <2>2, MonStepLinks DEF links
<1>2. CASE MonitorCheck(t) /\ l.to \in live
  <2>1. /\ Goto(t, Ready(t)) /\ mt' = mt
        /\ monitorRefs' = [monitorRefs EXCEPT ![t] = @ \cup {l.id}]
    BY <1>2 DEF MonitorCheck, Returned
  <2>2. Ready(t).pc = "ready" /\ "ready" \notin MonPc
    BY <1>0, IdleRecords DEF MonPc
  <2>3. /\ \A u \in Thread : th'[u] = IF u = t THEN Ready(t) ELSE th[u]
        /\ \A id : Unsent(id) => Unsent(id)'
    BY <1>0, <1>a, <2>1, <2>2, NothingSent
  <2>4. \A x \in Thread : monitorRefs'[x] \subseteq monitorRefs[x] \cup {l.id}
    BY <2>1 DEF Types, TypeOK
  <2>5. /\ \A u \in Thread : th'[u].pc \in MonPc => th'[u].id # l.id
        /\ \A m \in mt'.rows : m.id = l.id => m.target \in live
    BY <1>2, <1>b, <2>1, <2>2, <2>3
  <2>6. th'[t].pc \notin MonPc /\ \A u \in Thread \ {t} : th'[u] = th[u]
    BY <1>0, <2>2, <2>3
  <2>7. Turn(t, {l.id}, {}, {})
    BY <1>a, <1>b, <2>1, <2>3, <2>4, <2>5, <2>6, Parts DEF Turn
  <2> QED
    BY <1>0, <1>1, <2>1, <2>2, <2>7, MonTurn DEF RelInv
<1>3. CASE MonitorCheck(t) /\ l.to \notin live
  <2> DEFINE r == At(t, "mon_undo")
  <2>1. Goto(t, r) /\ mt' = mt /\ monitorRefs' = monitorRefs
    BY <1>3 DEF MonitorCheck
  <2>2. r.pc = "mon_undo" /\ r.id = l.id /\ r.f = l.f /\ r.to = l.to /\ r.pc \in MonPc
    BY <1>0 DEF At, ThreadRec, MonPc
  <2> HIDE DEF r
  <2>3. /\ \A u \in Thread : th'[u] = IF u = t THEN r ELSE th[u]
        /\ \A id : Unsent(id) => Unsent(id)'
    BY <1>0, <1>a, <2>1, <2>2, NothingSent
  <2>4. th'[t] = r /\ \A u \in Thread \ {t} : th'[u] = th[u]
    BY <1>0, <2>3
  <2>5. Turn(t, {}, {}, {})
    BY <1>a, <1>b, <2>1, <2>2, <2>3, <2>4, Parts DEF Turn
  <2> QED
    BY <1>0, <1>1, <2>1, <2>2, <2>5, MonTurn DEF RelInv
<1>4. CASE MonitorUndo(t)
  <2> DEFINE r == At(t, "mon_down")
  <2>1. Goto(t, r) /\ mt' = RemoveOwned(mt, l.f, l.id) /\ monitorRefs' = monitorRefs
    BY <1>4 DEF MonitorUndo
  <2>2. r.pc = "mon_down" /\ r.id = l.id /\ r.f = l.f /\ r.to = l.to /\ r.pc \in MonPc
    BY <1>0 DEF At, ThreadRec, MonPc
  <2> HIDE DEF r
  <2>3. /\ \A u \in Thread : th'[u] = IF u = t THEN r ELSE th[u]
        /\ \A id : Unsent(id) => Unsent(id)'
    BY <1>0, <1>a, <2>1, <2>2, NothingSent
  <2>4. th'[t] = r /\ \A u \in Thread \ {t} : th'[u] = th[u]
    BY <1>0, <2>3
  <2>5. /\ MonitorsAgree(mt') /\ mt'.rows \subseteq mt.rows
        /\ \A m \in mt'.rows : m.id # l.id
    <3>1. MonitorsAgree(mt)
      BY Parts
    <3> DEFINE T == RemoveOwned(mt, l.f, l.id)
    <3>2. MonitorsAgree(T) /\ T.rows = {m \in mt.rows : ~(m.id = l.id /\ m.owner = l.f)}
      BY <3>1, RemoveOwnedAgrees, SMTT(30)
    <3>3. mt' = T
      BY <2>1
    <3> HIDE DEF T
    <3> QED
      BY <1>b, <3>2, <3>3
  <2>6. Turn(t, {}, {}, {})
    BY <1>a, <1>b, <2>1, <2>2, <2>3, <2>4, <2>5 DEF Turn
  <2> QED
    BY <1>0, <1>1, <2>1, <2>2, <2>6, MonTurn DEF RelInv
<1> QED
  BY <1>2, <1>3, <1>4

\* The host's roll-back synthesizes the DOWN of a row that is gone.
LEMMA RelMonitorDown ==
  ASSUME Types, RelInv, NEW t \in Flow \cup Host, MonitorDown(t)
  PROVE  RelInv'
<1> DEFINE l == th[t]
<1>0. t \in Thread /\ l \in ThreadRec /\ l.pc = "mon_down" /\ l.f \in Flow
  BY DEF Thread, Types, TypeOK, MonitorDown, ThreadsSound, Sound, OnFlow, HandlerPc
<1>1. /\ Deliver(t, l.f, Down(l.id), Ready(t))
      /\ monitorRefs' = [monitorRefs EXCEPT ![t] = @ \cup {l.id}]
      /\ UNCHANGED <<mt, nextMonitor, silenced, live, links, rg>>
  BY DEF MonitorDown, Returned
<1>2. /\ l.id < nextMonitor /\ l.pc \in MonPc /\ l.id \notin silenced
      /\ \A m \in mt.rows : m.id # l.id
      /\ \A u \in Thread : th[u].pc \in MonPc /\ th[u].id = l.id => u = t
  BY <1>0, Parts DEF MonFresh, MonHeld, MonPc
<1>3. /\ th'[t] = Ready(t) /\ Ready(t).pc = "ready"
      /\ \A u \in Thread \ {t} : th'[u] = th[u] \/ (th'[u] = Runnable(u) /\ th[u].pc = "parked")
  BY <1>0, <1>1, IdleRecords DEF Deliver
<1>4. \A id : Unsent(id) /\ id # l.id => Unsent(id)'
  <2>1. \A f \in Flow : got'[f] \in {got[f], got[f] \cup {Down(l.id)}}
    BY <1>1 DEF Deliver, Types, TypeOK
  <2>2. \A id : id # l.id => Down(id) # Down(l.id)
    BY DEF Down
  <2>3. \A u \in Thread : th'[u].pc = "fin_down" => th'[u] = th[u]
    BY <1>3 DEF Runnable, Ready
  <2> QED
    BY <2>1, <2>2, <2>3 DEF Unsent, Down
<1>5. \A x \in Thread : monitorRefs'[x] \subseteq monitorRefs[x] \cup {l.id}
  BY <1>1 DEF Types, TypeOK
<1>6. \A u \in Thread : th'[u].pc \in MonPc => th'[u].id # l.id
  <2>1. th'[t].pc \notin MonPc
    BY <1>3 DEF MonPc
  <2>2. ASSUME NEW u \in Thread \ {t}, th'[u].pc \in MonPc PROVE th'[u].id # l.id
    <3>1. th'[u] = th[u]
      BY <1>3, <2>2, Woken
    <3> QED
      BY <1>2, <2>2, <3>1
  <2> QED
    BY <2>1, <2>2
<1>7. th'[t].pc \notin MonPc /\ l.pc \notin NotifyPc /\ th'[t].pc \notin LinkPc
      /\ l.pc \notin LinkPc \cup SweepPc
  BY <1>0, <1>3 DEF MonPc, NotifyPc, LinkPc, SweepPc
<1>8. Turn(t, {l.id}, {}, {l.id})
  BY <1>1, <1>2, <1>3, <1>4, <1>5, <1>6, <1>7, Parts DEF Turn
<1>9. LinkInv' /\ NamesAgree(rg')
  BY <1>0, <1>1, <1>3, <1>7, MonStepLinks DEF links
<1> QED
  BY <1>0, <1>8, <1>9, MonTurn DEF RelInv

\* A demonitor that finds the row of its ref: nobody has taken the DOWN in hand.
LEMMA RelDemonitor ==
  ASSUME Types, RelInv, NEW t \in Flow \cup Host, NEW owner \in Flow, NEW id \in monitorRefs[t],
         Demonitor(t, owner, id)
  PROVE  RelInv'
<1> DEFINE mine == OwnsMonitor(mt, owner, id)
           off == IF mine THEN {id} ELSE {}
<1>0. t \in Thread /\ th[t].pc = "ready"
  BY DEF Thread, Demonitor, Issue
<1>1. /\ mt' = RemoveOwned(mt, owner, id) /\ silenced' = silenced \cup off
      /\ UNCHANGED <<nextMonitor, monitorRefs>> /\ UNCHANGED <<links, rg, exits>>
      /\ got' = got /\ live' = live
  BY DEF Demonitor, exits
<1>2. PICK r : Goto(t, r) /\ r.pc \in {"ready", "fin_clear"}
  <2>1. Goto(t, Ready(t)) \/ Goto(t, Refused(t))
    BY DEF Demonitor
  <2> QED
    BY <1>0, <2>1, IdleRecords
<1>3. /\ \A u \in Thread : th'[u] = IF u = t THEN r ELSE th[u]
      /\ \A i : Unsent(i) => Unsent(i)'
  BY <1>0, <1>1, <1>2, NothingSent
<1>4. /\ MonitorsAgree(mt') /\ mt'.rows = {m \in mt.rows : ~(m.id = id /\ m.owner = owner)}
  <2>1. MonitorsAgree(mt)
    BY Parts
  <2> DEFINE T == RemoveOwned(mt, owner, id)
  <2>2. MonitorsAgree(T) /\ T.rows = {m \in mt.rows : ~(m.id = id /\ m.owner = owner)}
    BY <2>1, RemoveOwnedAgrees, SMTT(30)
  <2>3. mt' = T
    BY <1>1
  <2> HIDE DEF T
  <2> QED
    BY <2>2, <2>3
<1>5. \A i \in off : /\ i < nextMonitor /\ Unsent(i)
                     /\ \A u \in Thread : th'[u].pc \in MonPc => th'[u].id # i
                     /\ \A m \in mt'.rows : m.id # i
  <2> SUFFICES ASSUME mine
               PROVE  /\ id < nextMonitor /\ Unsent(id)
                      /\ \A u \in Thread : th'[u].pc \in MonPc => th'[u].id # id
                      /\ \A m \in mt'.rows : m.id # id
    OBVIOUS
  <2>1. PICK k \in mt.rows : k.id = id /\ k.owner = owner
    BY DEF OwnsMonitor
  <2>2. id < nextMonitor /\ Unsent(id)
    BY <2>1, Parts DEF MonFresh
  <2>3. \A u \in Thread : th'[u].pc \in MonPc => th'[u].id # id
    <3>1. r.pc \notin MonPc
      BY <1>2 DEF MonPc
    <3>2. \A u \in Thread : th[u].pc \in MonPc => th[u].id # id
      BY <1>0, Parts DEF MonHeld
    <3> QED
      BY <1>3, <3>1, <3>2
  <2>4. \A m \in mt'.rows : m.id # id
    BY <1>4, <2>1, Parts DEF MonitorsAgree
  <2> QED
    BY <2>2, <2>3, <2>4
<1> HIDE DEF off
<1>6. /\ th'[t].pc \notin MonPc \cup LinkPc /\ th[t].pc \notin NotifyPc
      /\ th[t].pc \notin LinkPc \cup SweepPc /\ \A u \in Thread \ {t} : th'[u] = th[u]
  BY <1>0, <1>2, <1>3 DEF MonPc, LinkPc, NotifyPc, SweepPc
<1>7. Turn(t, {}, off, {})
  BY <1>1, <1>3, <1>4, <1>5, <1>6 DEF Turn
<1>8. LinkInv' /\ NamesAgree(rg')
  BY <1>0, <1>1, <1>6, MonStepLinks DEF links
<1> QED
  BY <1>0, <1>7, <1>8, MonTurn DEF RelInv

\* monitors.notify_target_exit: the rows on f leave the table as events in t's hand.
LEMMA RelFinNotify ==
  ASSUME Types, RelInv, NEW t \in Thread, FinNotify(t)
  PROVE  RelInv'
<1> DEFINE f == th[t].f
           of == MonitorsOf(mt, f)
           rows == {[id |-> m.id, flow |-> m.owner] : m \in of}
           r == [At(t, "fin_down") EXCEPT !.rows = rows]
           sent == {m.id : m \in of}
<1>0. th[t] \in ThreadRec /\ th[t].pc = "fin_notify"
  BY DEF Types, TypeOK, FinNotify
<1>1. /\ mt' = NotifyTargetExit(mt, f) /\ Goto(t, r)
      /\ UNCHANGED <<nextMonitor, monitorRefs, silenced>> /\ UNCHANGED <<links, rg, exits>>
      /\ got' = got /\ live' = live
  BY DEF FinNotify, exits
<1>2. \A e \in rows : e.id \in sent
  BY SMTT(30)
<1>3. /\ MonitorsAgree(mt') /\ of = {m \in mt.rows : m.target = f}
      /\ mt'.rows = {m \in mt.rows : m.target # f}
  BY <1>1, NotifyTargetExitAgrees, SMTT(30) DEF RelInv, MonInv
<1> HIDE DEF rows, of
<1>4. r.pc = "fin_down" /\ r.rows = rows /\ r.f = f
  BY <1>0 DEF At, ThreadRec
<1> HIDE DEF r
<1>5. \A u \in Thread : th'[u] = IF u = t THEN r ELSE th[u]
  BY <1>1 DEF Goto, Types, TypeOK
<1>6. \A id \in sent : id < nextMonitor /\ id \notin silenced /\ \A m \in mt'.rows : m.id # id
  <2> SUFFICES ASSUME NEW k \in of
               PROVE  k.id < nextMonitor /\ k.id \notin silenced /\ \A m \in mt'.rows : m.id # k.id
    OBVIOUS
  <2>1. k \in mt.rows /\ k \notin mt'.rows /\ mt'.rows \subseteq mt.rows
    BY <1>3
  <2>2. \A m, n \in mt.rows : m.id = n.id => m = n
    BY Parts DEF MonitorsAgree
  <2> QED
    BY <2>1, <2>2, Parts DEF MonFresh
<1> HIDE DEF sent
<1>7. \A id : Unsent(id) /\ id \notin sent => Unsent(id)'
  BY <1>1, <1>2, <1>4, <1>5 DEF Unsent, Down
<1>8. /\ th'[t].pc \notin MonPc /\ \A u \in Thread \ {t} : th'[u] = th[u]
      /\ mt'.rows \subseteq mt.rows /\ \A m \in mt'.rows : m.target # f
  BY <1>3, <1>4, <1>5 DEF MonPc
<1>9. Turn(t, {}, {}, sent)
  BY <1>1, <1>3, <1>6, <1>7, <1>8 DEF Turn
<1>10. \A u \in Thread : LinkStay(u)
  BY <1>0, <1>4, <1>5 DEF LinkStay, LinkPc, SweepPc, NotifyPc
<1>11. LinkInv' /\ NamesAgree(rg')
  BY <1>1, <1>10, LinkMove, Parts DEF LinkInv, links
<1> QED
  BY <1>9, <1>11, MonTurn DEF RelInv

\* deliver_down: the event in hand goes to the owner's inbox.
LEMMA RelFinDown ==
  ASSUME Types, RelInv, NEW t \in Thread, NEW e \in th[t].rows, FinDown(t, e)
  PROVE  RelInv'
<1> DEFINE r == [th[t] EXCEPT !.rows = @ \ {e}]
<1>0. th[t] \in ThreadRec /\ th[t].pc = "fin_down" /\ e.flow \in Flow
  BY SMTT(30) DEF Types, TypeOK, FinDown, ThreadRec, RowRec
<1>1. /\ Deliver(t, e.flow, Down(e.id), r)
      /\ UNCHANGED <<live, links, monitors, rg>>
  BY DEF FinDown
<1>2. r.pc = "fin_down" /\ r.f = th[t].f /\ r.rows \subseteq th[t].rows
  BY <1>0 DEF ThreadRec
<1> HIDE DEF r
<1>3. /\ th'[t] = r
      /\ \A u \in Thread \ {t} : th'[u] = th[u] \/ (th'[u] = Runnable(u) /\ th[u].pc = "parked")
  BY <1>1 DEF Deliver
<1>4. \A id : Unsent(id) => \A f \in Flow : Down(id) \notin got'[f]
  <2>1. \A f \in Flow : got'[f] \in {got[f], got[f] \cup {Down(e.id)}}
    BY <1>1 DEF Deliver, Types, TypeOK
  <2>2. \A id : Unsent(id) => Down(id) # Down(e.id)
    BY <1>0 DEF Down, Unsent
  <2> SUFFICES ASSUME NEW id, Unsent(id), NEW f \in Flow PROVE Down(id) \notin got'[f]
    OBVIOUS
  <2>3. Down(id) \notin got[f]
    BY DEF Unsent
  <2>4. Down(id) # Down(e.id)
    BY <2>2
  <2>5. got'[f] = got[f] \/ got'[f] = got[f] \cup {Down(e.id)}
    BY <2>1
  <2> QED
    BY <2>3, <2>4, <2>5
<1>5. \A u \in Thread : MonStay(u) /\ LinkStay(u)
  <2>1. MonStay(t) /\ LinkStay(t)
    BY <1>0, <1>2, <1>3 DEF MonStay, LinkStay, SweepPc
  <2>2. ASSUME NEW u \in Thread \ {t} PROVE MonStay(u) /\ LinkStay(u)
    BY <1>3, Woken DEF MonStay, LinkStay
  <2> QED
    BY <2>1, <2>2
<1>6. MonInv'
  BY <1>1, <1>4, <1>5, MonMove, Parts DEF MonInv, monitors
<1>7. LinkInv' /\ NamesAgree(rg')
  BY <1>1, <1>5, LinkMove, Parts DEF LinkInv, links
<1> QED
  BY <1>6, <1>7 DEF RelInv

-----------------------------------------------------------------------------
(* Names, signals and the rest of finalize *)

LEMMA RelSignal ==
  ASSUME Types, RelInv, NEW t \in Flow \cup Host,
         \/ \E name \in Name : RegisterInsert(t, name)
         \/ SignalSelf(t) \/ SignalTrap(t) \/ SignalExit(t) \/ KillSet(t) \/ KillTake(t)
  PROVE  RelInv'
<1> DEFINE l == th[t]
<1>0. t \in Thread /\ l \in ThreadRec
  BY DEF Thread, Types, TypeOK
<1>1. l.pc \in {"reg_insert", "sig_self", "sig_trap", "sig_exit", "kill_set", "kill_take"}
  BY DEF RegisterInsert, SignalSelf, SignalTrap, SignalExit, KillSet, KillTake
<1>2. l.pc \notin Busy
  BY <1>1 DEF Busy, LinkPc, MonPc, SweepPc, NotifyPc
<1>3. \A p \in {"sig_trap", "sig_exit", "kill_set", "kill_take"} :
         At(t, p).pc = p /\ At(t, p).pc \notin InHand
  BY <1>0 DEF At, ThreadRec, InHand, LinkPc, MonPc
<1>4. /\ Ready(t).pc \notin InHand /\ Refused(t).pc \notin InHand
      /\ \A f \in Thread : \A reason : Finalizing(f, reason).pc \notin InHand
  BY <1>0, IdleRecords
<1>5. ASSUME NEW name \in Name, RegisterInsert(t, name) PROVE RelInv'
  <2>1. /\ UNCHANGED <<links, monitors, exits>>
        /\ Goto(t, Refused(t)) \/ Goto(t, Ready(t))
        /\ rg' = rg \/ (~NameTaken(rg, name) /\ rg' = RegisterName(rg, name, l.f))
    BY <1>5 DEF RegisterInsert
  <2>2. \A u \in Thread : Bystander(u)
    BY <1>0, <1>2, <1>4, <2>1, GotoAside
  <2>3. NamesAgree(rg')
    BY <2>1, NamesKeepAgreeing DEF RelInv
  <2> QED
    BY <2>1, <2>2, <2>3, AsideKeeps, Parts DEF LinkInv, links, exits
<1>6. CASE SignalSelf(t) \/ SignalTrap(t) \/ KillSet(t)
  <2>1. UNCHANGED <<links, monitors, rg, live, got>>
    BY <1>6 DEF SignalSelf, SignalTrap, KillSet, exits
  <2>2. \/ \E p \in {"sig_trap", "sig_exit", "kill_set", "kill_take"} : Goto(t, At(t, p))
        \/ Goto(t, Finalizing(t, l.reason)) \/ Goto(t, Ready(t))
    BY <1>6 DEF SignalSelf, SignalTrap, KillSet, SetSignal
  <2>3. PICK r : Goto(t, r) /\ r.pc \notin InHand
    BY <1>0, <1>3, <1>4, <2>2
  <2> QED
    BY <1>0, <1>2, <2>1, <2>3, QuietGoto DEF links
<1>7. CASE SignalExit(t)
  <2>1. l.to \in Flow
    BY <1>7 DEF SignalExit, Types, ThreadsSound, Sound, HasTarget, Thread
  <2>2. /\ Deliver(t, l.to, Exit(l.f), Ready(t))
        /\ UNCHANGED <<links, monitors, rg, live>>
    BY <1>7 DEF SignalExit
  <2>3. \A u \in Thread : Bystander(u)
    BY <1>0, <1>2, <1>4, <2>1, <2>2, DeliverAside
  <2>4. \A x \in Flow : \A id : Down(id) \in got'[x] => Down(id) \in got[x]
    BY <2>1, <2>2, ExitIsNoDown
  <2> QED
    BY <2>2, <2>3, <2>4, AsideKeeps, Parts DEF LinkInv, links
<1>8. CASE KillTake(t)
  <2>1. l.to \in Flow
    BY <1>8 DEF KillTake, Types, ThreadsSound, Sound, HasTarget, Thread
  <2>2. /\ TakeParked(t, l.to, Finalizing(l.to, l.reason), Ready(t))
        /\ UNCHANGED <<links, monitors, rg, live, got>>
    BY <1>8 DEF KillTake, exits
  <2>3. \A u \in Thread : Bystander(u)
    BY <1>0, <1>2, <1>4, <2>1, <2>2, TakeAside DEF Thread
  <2> QED
    BY <2>2, <2>3, AsideKeeps, Parts DEF LinkInv, links
<1> QED
  BY <1>5, <1>6, <1>7, <1>8

\* Leaving the directory, with the monitors and the links still to be swept.
LEMMA RelFinUnregister ==
  ASSUME Types, RelInv, NEW t \in Thread, FinUnregister(t)
  PROVE  RelInv'
<1> DEFINE f == th[t].f
           r == At(t, "fin_owned")
<1>0. th[t] \in ThreadRec /\ th[t].pc = "fin_unregister"
  BY DEF Types, TypeOK, FinUnregister
<1>1. /\ live' = live \ {f} /\ Goto(t, r) /\ got' = got
      /\ UNCHANGED <<links, monitors, rg>>
  BY DEF FinUnregister
<1>2. r.pc = "fin_owned" /\ r.f = f
  BY <1>0 DEF At, ThreadRec
<1> HIDE DEF r
<1>3. \A u \in Thread : th'[u] = IF u = t THEN r ELSE th[u]
  BY <1>1 DEF Goto, Types, TypeOK
<1>4. \A u \in Thread : LinkStay(u) /\ MonStay(u)
  BY <1>0, <1>2, <1>3 DEF LinkStay, MonStay, LinkPc, MonPc, SweepPc, NotifyPc
<1>5. th'[t].f = f /\ th'[t].pc = "fin_owned"
  BY <1>2, <1>3
<1>6. \A g \in live \ live' : /\ SweepPending(g)'
                             /\ \E u \in Thread : th'[u].f = g /\ th'[u].pc \in NotifyPc
  BY <1>1, <1>5 DEF SweepPending, NotifyPc
<1>7. LinkInv'
  BY <1>1, <1>4, <1>6, LinkMove, Parts DEF LinkInv, links
<1>8. MonInv'
  <2>1. \A id : Unsent(id) => \A g \in Flow : Down(id) \notin got'[g]
    BY <1>1 DEF Unsent
  <2> QED
    BY <1>1, <1>4, <1>6, <2>1, MonMove, Parts DEF monitors
<1> QED
  BY <1>1, <1>7, <1>8 DEF RelInv

\* monitors.remove_owned_by and registry.unregister_flow.
LEMMA RelFinOwned ==
  ASSUME Types, RelInv, NEW t \in Thread, FinOwned(t) \/ FinNames(t)
  PROVE  RelInv'
<1> DEFINE f == th[t].f
<1>0. th[t] \in ThreadRec /\ th[t].pc \in {"fin_owned", "fin_names"}
  BY DEF Types, TypeOK, FinOwned, FinNames
<1>1. \A p \in {"fin_names", "fin_notify"} : At(t, p).pc = p /\ At(t, p).f = f
  BY <1>0 DEF At, ThreadRec
<1>2. /\ \E p \in {"fin_names", "fin_notify"} : Goto(t, At(t, p))
      /\ UNCHANGED <<links, exits, nextMonitor, monitorRefs, silenced>>
      /\ mt' = mt \/ mt' = RemoveOwnedBy(mt, f)
      /\ rg' = rg \/ rg' = UnregisterFlow(rg, f)
  BY DEF FinOwned, FinNames, monitors
<1>3. PICK r : Goto(t, r) /\ r.pc \in NotifyPc /\ r.f = f
  BY <1>1, <1>2 DEF NotifyPc
<1>4. \A u \in Thread : th'[u] = IF u = t THEN r ELSE th[u]
  BY <1>3 DEF Goto, Types, TypeOK
<1>5. \A u \in Thread : LinkStay(u) /\ MonStay(u)
  BY <1>0, <1>3, <1>4 DEF LinkStay, MonStay, SweepPc, NotifyPc
<1>6. MonitorsAgree(mt') /\ mt'.rows \subseteq mt.rows
  <2>1. MonitorsAgree(mt)
    BY Parts
  <2> DEFINE T == RemoveOwnedBy(mt, f)
  <2>2. MonitorsAgree(T) /\ T.rows = {m \in mt.rows : m.owner # f}
    BY <2>1, RemoveOwnedByAgrees
  <2>3. mt' = mt \/ mt' = T
    BY <1>2
  <2> HIDE DEF T
  <2> QED
    BY <2>1, <2>2, <2>3
<1>7. NamesAgree(rg')
  BY <1>2, NamesKeepAgreeing DEF RelInv
<1>8. LinkInv'
  BY <1>2, <1>5, LinkMove, Parts DEF LinkInv, links, exits
<1>9. MonInv'
  <2>1. \A id : Unsent(id) => \A g \in Flow : Down(id) \notin got'[g]
    BY <1>2 DEF Unsent, exits
  <2> QED
    BY <1>2, <1>5, <1>6, <2>1, MonMove, Parts DEF exits
<1> QED
  BY <1>7, <1>8, <1>9 DEF RelInv

\* The steps of finalize that touch no table of relations.
LEMMA RelFinQuiet ==
  ASSUME Types, RelInv, NEW t \in Thread,
         \/ FinClear(t) \/ FinExit(t) \/ FinKill(t) \/ FinTake(t) \/ FinNext(t)
         \/ \E e \in th[t].rows : FinPeer(t, e)
  PROVE  RelInv'
<1> DEFINE l == th[t]
<1>0. l \in ThreadRec /\ l.pc \in {"fin_clear", "fin_exit", "fin_kill", "fin_take", "fin_peer"}
  BY DEF Types, TypeOK, FinClear, FinExit, FinKill, FinTake, FinNext, FinPeer
<1>1. l.pc \notin Busy
  BY <1>0 DEF Busy, LinkPc, MonPc, SweepPc, NotifyPc
<1>2. \A p \in {"fin_unregister", "fin_peer", "fin_take", "gone"} :
         At(t, p).pc = p /\ At(t, p).pc \notin InHand
  BY <1>0 DEF At, ThreadRec, InHand, LinkPc, MonPc
<1>3. l.pc \in HasTarget => l.to \in Flow
  BY DEF Types, ThreadsSound, Sound
<1>4. CASE FinClear(t) \/ FinKill(t)
  <2>1. UNCHANGED <<links, monitors, rg, live, got>>
    BY <1>4 DEF FinClear, FinKill
  <2>2. PICK r : Goto(t, r) /\ r.pc \notin InHand
    <3>1. \E p \in {"fin_unregister", "fin_peer", "fin_take", "gone"} : Goto(t, At(t, p))
      BY <1>4 DEF FinClear, FinKill, SetSignal
    <3> QED
      BY <1>2, <3>1
  <2> QED
    BY <1>1, <2>1, <2>2, QuietGoto DEF links
<1>5. CASE FinExit(t)
  <2>1. /\ Deliver(t, l.to, Exit(l.f), At(t, "fin_peer")) /\ l.to \in Flow
        /\ UNCHANGED <<links, monitors, rg, live>>
    BY <1>3, <1>5 DEF FinExit, HasTarget
  <2>2. \A u \in Thread : Bystander(u)
    BY <1>1, <1>2, <2>1, DeliverAside
  <2>3. \A x \in Flow : \A id : Down(id) \in got'[x] => Down(id) \in got[x]
    BY <2>1, ExitIsNoDown
  <2> QED
    BY <2>1, <2>2, <2>3, AsideKeeps, Parts DEF LinkInv, links
<1>6. CASE FinTake(t)
  <2> DEFINE n == At(t, "fin_peer")
             r == [n EXCEPT !.work = Append(@, l.to)]
  <2>1. /\ TakeParked(t, l.to, r, n) /\ l.to \in Flow
        /\ UNCHANGED <<links, monitors, rg, live, got>>
    BY <1>3, <1>6 DEF FinTake, HasTarget, exits
  <2>2. r.pc = "fin_peer"
    BY <1>0 DEF At, ThreadRec
  <2> HIDE DEF r
  <2>3. \A u \in Thread : Bystander(u)
    BY <1>1, <1>2, <2>1, <2>2, TakeAside
  <2> QED
    BY <2>1, <2>3, AsideKeeps, Parts DEF LinkInv, links
<1>7. CASE FinNext(t)
  <2> DEFINE w == l.work
             r == [Finalizing(w[Len(w)], "link") EXCEPT !.work = SubSeq(w, 1, Len(w) - 1)]
  <2>1. UNCHANGED <<links, monitors, rg, live, got>>
    BY <1>7 DEF FinNext, exits
  <2>2. r.pc = "fin_clear"
    BY DEF Finalizing, Ready
  <2>3. Goto(t, r) \/ Goto(t, At(t, "gone")) \/ Goto(t, Ready(t))
    BY <1>7 DEF FinNext
  <2> HIDE DEF r
  <2>4. PICK n : Goto(t, n) /\ n.pc \notin InHand
    BY <1>2, <2>2, <2>3, IdleRecords
  <2> QED
    BY <1>1, <2>1, <2>4, QuietGoto DEF links
<1>8. ASSUME NEW e \in th[t].rows, FinPeer(t, e) PROVE RelInv'
  <2> DEFINE n == [th[t] EXCEPT !.rows = @ \ {e}, !.to = e.flow]
  <2>1. UNCHANGED <<links, monitors, rg, live, got>> /\ l.pc = "fin_peer"
    BY <1>8 DEF FinPeer, exits
  <2>2. Goto(t, n) \/ Goto(t, [n EXCEPT !.pc = "fin_exit"]) \/ Goto(t, [n EXCEPT !.pc = "fin_kill"])
    BY <1>8 DEF FinPeer
  <2>3. /\ n.pc = "fin_peer" /\ [n EXCEPT !.pc = "fin_exit"].pc = "fin_exit"
        /\ [n EXCEPT !.pc = "fin_kill"].pc = "fin_kill"
    BY <1>0, <2>1 DEF ThreadRec
  <2>4. PICK r : Goto(t, r) /\ r.pc \in {"fin_peer", "fin_exit", "fin_kill"}
    BY <2>2, <2>3
  <2>5. r.pc \notin InHand
    BY <2>4 DEF InHand, LinkPc, MonPc
  <2> QED
    BY <1>1, <2>1, <2>4, <2>5, QuietGoto DEF links
<1> QED
  BY <1>4, <1>5, <1>6, <1>7, <1>8

-----------------------------------------------------------------------------
(* The theorems *)

LEMMA RelInit == Init => RelInv
<1> SUFFICES ASSUME Init PROVE RelInv
  OBVIOUS
<1>1. lt.links = {} /\ lt.pairs = {} /\ lt.byFlow = {}
  BY DEF Init, NoLinks
<1>2. mt.rows = {} /\ mt.byOwner = {} /\ mt.byTarget = {}
  BY DEF Init, NoMonitors
<1>3. rg.names = {} /\ rg.byFlow = {}
  BY DEF Init, NoNames
<1>4. \A t \in Thread : th[t].pc \notin LinkPc \cup MonPc \cup {"fin_down"}
  BY DEF Init, Runnable, Ready, LinkPc, MonPc
<1>5. \A id : Unsent(id)
  BY <1>4 DEF Init, Unsent
<1>6. LinkInv
  BY <1>1, <1>4 DEF LinkInv, LinksAgree, NoZombieLink
<1>7. MonFresh /\ MonHeld
  BY <1>2, <1>4, <1>5 DEF Init, MonFresh, MonHeld
<1>8. MonInv
  BY <1>2, <1>7 DEF Init, MonInv, MonitorsAgree, NoDeafMonitor, DemonitorSilences
<1>9. NamesAgree(rg)
  BY <1>3 DEF NamesAgree
<1> QED
  BY <1>6, <1>8, <1>9 DEF RelInv

LEMMA RelStep == Types /\ RelInv /\ [Next]_vars => RelInv'
<1> SUFFICES ASSUME Types, RelInv, [Next]_vars PROVE RelInv'
  OBVIOUS
<1>1. CASE UNCHANGED vars
  <2>1. UNCHANGED <<lt, nextLink, live, got, rg, th>> /\ UNCHANGED monitors
    BY <1>1 DEF vars, monitors
  <2>2. \A u \in Thread : Bystander(u)
    BY <2>1 DEF Bystander
  <2> QED
    BY <2>1, <2>2, AsideKeeps, Parts DEF LinkInv
<1>2. ASSUME NEW t \in Flow \cup Host, Request(t) PROVE RelInv'
  BY <1>2, RelRequest, RelDemonitor
<1>3. ASSUME NEW t \in Flow \cup Host, Handler(t) PROVE RelInv'
  BY <1>3, RelLinkInsert, RelConfirm, RelMonitorCreate, RelMonitorCheck, RelMonitorDown, RelSignal
     DEF Handler
<1>4. ASSUME NEW t \in Thread, Finalize(t) PROVE RelInv'
  BY <1>4, RelFinUnregister, RelFinOwned, RelFinNotify, RelFinLinks, RelFinDown, RelFinQuiet
     DEF Finalize
<1> QED
  BY <1>1, <1>2, <1>3, <1>4, RelFlowStep, RelWorkerStep DEF Next

\* For any flows, threads and names and any quotas: whatever requests, roll-backs and exits
\* interleave, the indexes of LinkTable, MonitorTable and Registry agree with the records,
\* and a link with a dead endpoint is still to be swept by that flow's finalize or to be
\* rolled back by the thread that inserted it (link.rs:73-75, 237-245, finalize.rs).
THEOREM LinksHold == Spec => []LinksSound
<1>1. Init => Types /\ RelInv
  BY TypesInit, RelInit
<1>2. Types /\ RelInv /\ [Next]_vars => Types' /\ RelInv'
  BY TypesStep, RelStep
<1>3. Types /\ RelInv => LinksSound
  BY DEF Types, RelInv, LinkInv, MonInv, LinksSound, IndexesAgree
<1> QED
  BY <1>1, <1>2, <1>3, PTL DEF Spec

\* For any flows, threads and names and any quotas: a monitor that Runtime::monitor has
\* returned on a target that is gone is in the hands of that target's finalize, and after a
\* demonitor that succeeded nobody holds the DOWN and no inbox gets it (monitor.rs,
\* runtime.rs:968-969).
THEOREM MonitorsHold == Spec => []MonitorsSound
<1>1. Init => Types /\ RelInv
  BY TypesInit, RelInit
<1>2. Types /\ RelInv /\ [Next]_vars => Types' /\ RelInv'
  BY TypesStep, RelStep
<1>3. RelInv => MonitorsSound
  BY DEF RelInv, MonInv, MonitorsSound
<1> QED
  BY <1>1, <1>2, <1>3, PTL DEF Spec
=============================================================================
