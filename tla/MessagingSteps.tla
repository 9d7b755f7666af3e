--------------------------- MODULE MessagingSteps ---------------------------
(***************************************************************************)
(* The steps of Messaging that keep IInv, first part: picking up a flow,   *)
(* yielding and resuming, Send and the first half of Ask, the revalidation *)
(* after a park, and the waiting lists of senders with their index.        *)
(***************************************************************************)
EXTENDS MessagingLemmas

\* a leaf is left to Zenon unless it names SMT
USE ZenonT(40)

-----------------------------------------------------------------------------
(* Picking up a flow, and the operations that do not touch an inbox *)

\* find_work: a runnable flow comes into the hands of a worker.
LEMMA PickStep ==
  ASSUME IInv, NEW w \in Worker, NEW g \in Flow, Pick(w, g)
  PROVE  IInv'
<1>0. Types /\ OnePlace
  BY DEF IInv
<1>1. w \in Thread /\ th[w].pc = "idle" /\ Sound(th[w]) /\ g \in runq
  BY ThreadOf DEF Pick, Thread
<1>2. th[w].pc \notin Closing \cup {"fin"} /\ th[w].pc \notin Helping /\ th[w].cur = NoFlow
  BY <1>1 DEF Closing, Helping, Sound, Alone
<1>3. Hand(th[w]) = {} /\ th[w].orphans = {}
  BY <1>1, <1>2, HandOf
<1>4. g # NoFlow /\ g \in MaybeFlow /\ NoFlow \in MaybeFlow
  BY MessagingAssumption DEF MaybeFlow
<1>5. PICK r : r = IF g \in kill THEN Finalizing(NoFlow, g) ELSE Running(g)
  OBVIOUS
<1>6. Sound(r) /\ HeldOnce(r) /\ Hand(r) = {g} /\ r.pc \in {"fin", "idle", "run"}
  <2>1. CASE g \in kill
    BY <1>4, <1>5, <2>1, FinalizingFacts
  <2>2. CASE g \notin kill
    BY <1>4, <1>5, <2>2, RunningFacts
  <2> QED
    BY <2>1, <2>2
<1>7. /\ Goto(w, r) /\ runq' = runq \ {g} /\ kill' = kill \ {g}
      /\ UNCHANGED <<mb, asleep, live, waitAt, askWait, timers, issued, toKill>>
  BY <1>5 DEF Pick
<1>8. Tables'
  BY <1>7 DEF IInv, Types, Tables
<1>9. Touch(w, r, g, mb[g]) /\ Box(mb[g]) /\ Distinct(mb[g].waiting)
  BY <1>0, <1>1, <1>7, TouchThread, BoxOf
<1>10. OnePlace'
  <2>1. g \in runq /\ runq' = runq \ {g} /\ Hand(r) = Hand(th[w]) \cup {g}
    BY <1>1, <1>3, <1>6, <1>7
  <2> QED
    BY <1>0, <1>1, <1>6, <1>7, <1>9, <2>1, RunToHand
<1>11. /\ Waits(r, askWait') /\ r.pc # "park_send" /\ r.pc \notin Closing
       /\ th[w].pc # "park_send" /\ th[w].pc \notin Pending
  BY <1>1, <1>6, PlainWaits DEF Plain, Pcs, Closing, Pending
<1>12. \A a \in Flow : askWait'[a] = askWait[a] \/ (askWait'[a] = NoFlow /\ ~mb'[a].parked)
  BY <1>7, SameAsks
<1> QED
  BY <1>1, <1>3, <1>6, <1>7, <1>8, <1>9, <1>10, <1>11, <1>12, FrameStep

\* VmResult::Yield and Sleep: the flow leaves the hands of its worker.
LEMMA YieldStep ==
  ASSUME IInv, NEW w \in Worker, Yield(w) \/ Sleep(w)
  PROVE  IInv'
<1> DEFINE g == th[w].cur
<1>0. Types /\ OnePlace
  BY DEF IInv
<1>1. PICK op : Issue(w, op)
  BY DEF Yield, Sleep
<1>2. /\ w \in Thread /\ th[w].pc = "run" /\ g \in Flow /\ Hand(th[w]) = {g} /\ th[w].orphans = {}
      /\ issued' \in [Flow -> 0..MaxOps]
  BY <1>1, IssueTables
<1>3. /\ Sound(IdleThread) /\ HeldOnce(IdleThread) /\ Hand(IdleThread) = {}
      /\ IdleThread.pc = "idle"
  BY IdleFacts DEF IdleThread
<1>4. PICK r : r = IdleThread
  OBVIOUS
<1>5. /\ Goto(w, r) /\ UNCHANGED <<mb, live, kill, waitAt, askWait, timers, toKill>>
      /\ \/ runq' = runq \cup {g} /\ asleep' = asleep
         \/ runq' = runq /\ asleep' = asleep \cup {g}
  BY <1>4 DEF Yield, Sleep
<1> HIDE DEF g
<1>6. Tables'
  BY <1>2, <1>5 DEF IInv, Types, Tables
<1>7. Touch(w, r, g, mb[g]) /\ Box(mb[g]) /\ Distinct(mb[g].waiting)
  BY <1>0, <1>2, <1>5, TouchThread, BoxOf
<1>8. OnePlace'
  <2>1. g \in Hand(th[w]) /\ Hand(r) = Hand(th[w]) \ {g} /\ HeldOnce(r)
    BY <1>2, <1>3, <1>4
  <2>2. CASE runq' = runq \cup {g} /\ asleep' = asleep
    BY <1>0, <1>2, <1>5, <1>7, <2>1, <2>2, HandToRun
  <2>3. CASE runq' = runq /\ asleep' = asleep \cup {g}
    BY <1>0, <1>2, <1>5, <1>7, <2>1, <2>3, HandToSleep
  <2> QED
    BY <1>5, <2>2, <2>3
<1>9. /\ Waits(r, askWait') /\ r.pc # "park_send" /\ r.pc \notin Closing
      /\ th[w].pc # "park_send" /\ th[w].pc \notin Pending
  BY <1>2, <1>3, <1>4, PlainWaits DEF Plain, Pcs, Closing, Pending
<1>10. \A a \in Flow : askWait'[a] = askWait[a] \/ (askWait'[a] = NoFlow /\ ~mb'[a].parked)
  BY <1>5, SameAsks
<1> QED
  BY <1>2, <1>3, <1>4, <1>5, <1>6, <1>7, <1>8, <1>9, <1>10, FrameStep

\* VmResult::Complete: the driver finalizes its flow.
LEMMA CompleteStep ==
  ASSUME IInv, NEW w \in Worker, Complete(w)
  PROVE  IInv'
<1> DEFINE g == th[w].cur
           r == Finalizing(NoFlow, g)
<1>1. w \in Thread /\ th[w].pc = "run" /\ Sound(th[w]) /\ Goto(w, r)
  BY ThreadOf DEF Complete, Thread
<1>2. g \in Flow /\ g # NoFlow
  BY <1>1, MessagingAssumption DEF Sound, Driving
<1>3. th[w].pc \notin Closing \cup {"fin"} /\ th[w].pc \notin Helping
  BY <1>1 DEF Closing, Helping
<1>4. Hand(th[w]) = {g} /\ th[w].orphans = {}
  BY <1>1, <1>2, <1>3, HandOf
<1>5. NoFlow \in MaybeFlow
  BY DEF MaybeFlow
<1>6. Sound(r) /\ HeldOnce(r) /\ Hand(r) = {g} /\ r.pc = "fin"
  BY <1>2, <1>5, FinalizingFacts, SMTT(30)
<1>7. UNCHANGED <<mb, runq, asleep, live, kill, waitAt, askWait, timers, issued, toKill>>
  BY DEF Complete
<1>8. Tables'
  BY <1>7 DEF IInv, Types, Tables
<1> HIDE DEF r, g
<1>9. Touch(w, r, g, mb[g]) /\ Kept(mb[g], mb[g])
  BY <1>1, <1>2, <1>7, TouchThread, BoxOf DEF IInv
<1>10. /\ Waits(r, askWait) /\ r.pc # "park_send" /\ r.pc \notin Closing
       /\ th[w].pc # "park_send" /\ th[w].pc \notin Pending
  BY <1>1, <1>6, PlainWaits DEF Plain, Pcs, Closing, Pending
<1> QED
  BY <1>1, <1>2, <1>4, <1>6, <1>7, <1>8, <1>9, <1>10, QuietStep

\* The flow a handoff or a deadline took is nobody else's: it leaves the index of Asks and
\* becomes runnable.
LEMMA ResumeStep ==
  ASSUME IInv, NEW t \in Thread, th[t].pc \in {"handoff", "timeout"}, NEW r, Goto(t, r),
         Sound(r), HeldOnce(r), Hand(r) = {th[t].cur} \ {NoFlow},
         r.pc \in {"idle", "run", "ask_pop"}, Waits(r, askWait'),
         askWait' = [askWait EXCEPT ![th[t].f] = NoFlow], runq' = runq \cup {th[t].f},
         UNCHANGED <<mb, asleep, live, kill, waitAt, timers, issued, toKill>>
  PROVE  IInv'
<1> DEFINE f == th[t].f
<1>0. Types /\ OnePlace
  BY DEF IInv
<1>1. Sound(th[t]) /\ HeldOnce(th[t])
  BY ThreadOf
<1>2. /\ th[t].pc \notin Closing \cup {"fin"} /\ th[t].pc \in Helping /\ f \in Flow
      /\ f # th[t].cur
  BY <1>1 DEF Closing, Helping, Sound, OnFlow, HeldOnce
<1>3. th[t].orphans = {} /\ Hand(th[t]) = ({th[t].cur} \ {NoFlow}) \cup {f}
  BY <1>2, HandOf
<1>4. f \in Hand(th[t]) /\ Hand(r) = Hand(th[t]) \ {f}
  BY <1>2, <1>3
<1>5. ~mb[f].parked
  BY <1>0, <1>2, <1>4, InHandOnly DEF Parked
<1> HIDE DEF f
<1>6. Touch(t, r, f, mb[f]) /\ Box(mb[f]) /\ Distinct(mb[f].waiting)
  BY <1>0, <1>2, TouchThread, BoxOf
<1>7. OnePlace'
  <2>1. f \in Hand(th[t]) /\ runq' = runq \cup {f} /\ asleep' = asleep /\ live' = live
    BY <1>4 DEF f
  <2>2. PICK m : m = mb[f]
    OBVIOUS
  <2>3. /\ Touch(t, r, f, m) /\ Distinct(m.waiting) /\ m.parked = mb[f].parked
        /\ Flows(m.waiting) = Flows(mb[f].waiting)
    BY <1>6, <2>2
  <2> QED
    BY <1>0, <1>2, <1>4, <2>1, <2>3, HandToRun, SMTT(30)
<1>8. askWait \in [Flow -> MaybeFlow] /\ askWait' = [askWait EXCEPT ![f] = NoFlow]
  BY <1>0 DEF f, Types, Tables
<1>9. \A a \in Flow : askWait'[a] = askWait[a] \/ (askWait'[a] = NoFlow /\ ~mb'[a].parked)
  BY <1>5, <1>8
<1>10. Tables'
  <2>1. askWait' \in [Flow -> MaybeFlow]
    BY <1>8 DEF MaybeFlow
  <2>2. runq' \subseteq Flow
    BY <1>0, <1>2 DEF f, Types, Tables
  <2> QED
    BY <1>0, <2>1, <2>2 DEF Types, Tables
<1>11. /\ r.pc # "park_send" /\ r.pc \notin Closing
       /\ th[t].pc # "park_send" /\ th[t].pc \notin Pending
  BY DEF Closing, Pending
<1> QED
  BY <1>2, <1>3, <1>6, <1>7, <1>9, <1>10, <1>11, FrameStep

\* the Handoff arm of deliver
LEMMA HandoffStep ==
  ASSUME IInv, NEW w \in Worker, Handoff(w)
  PROVE  IInv'
<1>0. PICK l : l = th[w]
  OBVIOUS
<1>1. w \in Thread /\ l.pc = "handoff" /\ Sound(l)
  BY <1>0, ThreadOf DEF Handoff, Thread
<1>2. PICK c, ask, to, hop, timed :
        c = l.cur /\ ask = l.ask /\ to = l.to /\ hop = l.hop /\ timed = l.timed
  OBVIOUS
<1>3. c \in Flow /\ to \in Flow
  BY <1>1, <1>2 DEF Sound, Driving, OnTarget
<1>4. PICK r : r = AfterDelivery(c, ask, to, hop, timed)
  OBVIOUS
<1>5. /\ Goto(w, r) /\ askWait' = [askWait EXCEPT ![l.f] = NoFlow] /\ runq' = runq \cup {l.f}
      /\ UNCHANGED <<mb, asleep, live, kill, waitAt, timers, issued, toKill>>
  BY <1>0, <1>2, <1>4 DEF Handoff
<1>6. /\ Sound(r) /\ HeldOnce(r) /\ Hand(r) = {c} /\ r.pc \in {"run", "ask_pop"}
      /\ \A index : Waits(r, index)
  BY <1>3, <1>4, AfterFacts
<1>7. Hand(r) = {l.cur} \ {NoFlow}
  BY <1>2, <1>3, <1>6, MessagingAssumption
<1>8. Waits(r, askWait')
  BY <1>6
<1> QED
  BY <1>0, <1>1, <1>5, <1>6, <1>7, <1>8, ResumeStep

\* TimerWheel::fire, the flow of a deadline
LEMMA TimedOutStep ==
  ASSUME IInv, TimedOut
  PROVE  IInv'
<1> DEFINE t == "timer"
<1>1. t \in Thread /\ th[t].pc = "timeout" /\ Sound(th[t])
  BY ThreadOf DEF TimedOut, Thread
<1>2. PICK r : r = IdleThread
  OBVIOUS
<1>3. /\ Goto(t, r) /\ askWait' = [askWait EXCEPT ![th[t].f] = NoFlow] /\ runq' = runq \cup {th[t].f}
      /\ UNCHANGED <<mb, asleep, live, kill, waitAt, timers, issued, toKill>>
  BY <1>2 DEF TimedOut
<1>4. Sound(r) /\ HeldOnce(r) /\ Hand(r) = {} /\ r.pc = "idle"
  BY <1>2, IdleFacts DEF IdleThread
<1>5. Hand(r) = {th[t].cur} \ {NoFlow}
  BY <1>1, <1>4 DEF Sound, Alone
<1>6. Waits(r, askWait')
  BY <1>4, PlainWaits DEF Plain, Pcs
<1> HIDE DEF t
<1> QED
  BY <1>1, <1>3, <1>4, <1>5, <1>6, ResumeStep

\* TimerWheel::fire, a sleeper
LEMMA WakeSleeperStep ==
  ASSUME IInv, NEW g \in Flow, WakeSleeper(g)
  PROVE  IInv'
<1>0. Types /\ OnePlace
  BY DEF IInv
<1>1. PICK t : t = "timer"
  OBVIOUS
<1>2. PICK r : r = th[t]
  OBVIOUS
<1>3. t \in Thread /\ r.pc = "idle" /\ g \in asleep
  BY <1>1, <1>2 DEF WakeSleeper, Thread
<1>4. /\ th' = th /\ asleep' = asleep \ {g} /\ runq' = runq \cup {g}
      /\ UNCHANGED <<mb, live, kill, waitAt, askWait, timers, issued, toKill>>
  BY DEF WakeSleeper
<1>5. th[t].pc \notin Closing \cup {"fin"}
  BY <1>2, <1>3 DEF Closing
<1>6. Sound(r) /\ HeldOnce(r) /\ r.orphans = {} /\ Hand(r) = Hand(th[t])
  BY <1>2, <1>3, <1>5, ThreadOf, HandOf
<1>7. Goto(t, r)
  <2>1. th = [u \in Thread |-> th[u]]
    BY <1>0 DEF Types, Threads
  <2>2. th = [th EXCEPT ![t] = r]
    BY <1>2, <1>3, <2>1
  <2> QED
    BY <1>4, <2>2 DEF Goto
<1>8. Touch(t, r, g, mb[g]) /\ Box(mb[g]) /\ Distinct(mb[g].waiting)
  BY <1>0, <1>3, <1>4, <1>7, TouchThread, BoxOf
<1>9. OnePlace'
  <2>1. g \in asleep
    BY <1>3
  <2> QED
    BY <1>0, <1>3, <1>4, <1>6, <1>8, <2>1, SleepToRun
<1>10. Tables'
  BY <1>4 DEF IInv, Types, Tables
<1>11. /\ Waits(r, askWait') /\ r.pc # "park_send" /\ r.pc \notin Closing /\ r.pc \notin Pending
  BY <1>3, PlainWaits DEF Plain, Pcs, Closing, Pending
<1>12. \A a \in Flow : askWait'[a] = askWait[a] \/ (askWait'[a] = NoFlow /\ ~mb'[a].parked)
  BY <1>4, SameAsks
<1> QED
  BY <1>2, <1>3, <1>4, <1>6, <1>8, <1>9, <1>10, <1>11, <1>12, FrameStep

-----------------------------------------------------------------------------
(* Send and Ask *)

\* Replacing the pc of a record.
LEMMA RecPc ==
  ASSUME NEW p, NEW c, NEW f, NEW to, NEW ask, NEW hop, NEW fl, NEW timed, NEW e, NEW work, NEW orph,
         NEW q, NEW l, l = Rec(p, c, f, to, ask, hop, fl, timed, e, work, orph),
         NEW k, k = [l EXCEPT !.pc = q]
  PROVE  k = Rec(q, c, f, to, ask, hop, fl, timed, e, work, orph)
BY DEF Rec

\* The locals of a send.
LEMMA SendLocals ==
  ASSUME NEW g, NEW to, NEW ask, NEW hop, NEW timed, NEW l,
         l = [IdleThread EXCEPT !.cur = g, !.to = to, !.ask = ask, !.hop = hop, !.timed = timed]
  PROVE  l = Rec("idle", g, NoFlow, to, ask, hop, AnyHop, timed, 0, << >>, {})
BY IdleFacts DEF Rec

\* The locals of a worker whose hop was refused, and of one whose hop woke its receiver.
LEMMA SendRecords ==
  ASSUME NEW g \in Flow, NEW to \in Flow, g # to, NEW ask, NEW hop, NEW timed,
         NEW k, k = Rec("handoff", g, to, to, ask, hop, AnyHop, timed, 0, << >>, {})
  PROVE  /\ Sound(k) /\ HeldOnce(k) /\ Hand(k) = {g, to} /\ k.pc = "handoff"
         /\ \A index : Waits(k, index)
<1>1. g # NoFlow /\ g \in MaybeFlow /\ to \in MaybeFlow
  BY MessagingAssumption DEF MaybeFlow
<1>4. /\ "handoff" \in Pcs /\ "handoff" # "fin" /\ "handoff" \notin Alone
      /\ "handoff" \notin Checking /\ "handoff" \in Helping
  BY DEF Pcs, Alone, Checking, Helping
<1>5. /\ Sound(k) /\ HeldOnce(k)
      /\ Hand(k) = (IF g = NoFlow THEN {} ELSE {g}) \cup (IF "handoff" \in Helping THEN {to} ELSE {})
  BY <1>1, <1>4, PlainRec, ZeroEpoch, SMTT(30)
<1>6. k.pc = "handoff"
  BY DEF Rec
<1>7. \A index : Waits(k, index)
  BY <1>6 DEF Waits
<1> QED
  BY <1>1, <1>4, <1>5, <1>6, <1>7

LEMMA RefusedRecord ==
  ASSUME NEW g \in Flow, NEW to \in Flow, NEW ask, NEW hop, NEW timed, NEW l,
         l = Rec("idle", g, NoFlow, to, ask, hop, AnyHop, timed, 0, << >>, {}),
         NEW k, k = [l EXCEPT !.pc = "index"]
  PROVE  /\ Sound(k) /\ HeldOnce(k) /\ Hand(k) = {g} /\ k.pc = "index"
         /\ \A index : Waits(k, index)
<1>1. g # NoFlow /\ g \in MaybeFlow /\ to \in MaybeFlow /\ NoFlow \in MaybeFlow
  BY MessagingAssumption DEF MaybeFlow
<1>3. k = Rec("index", g, NoFlow, to, ask, hop, AnyHop, timed, 0, << >>, {})
  BY RecPc, SMTT(30)
<1>4. /\ "index" \in Pcs /\ "index" # "fin" /\ "index" \notin Alone
      /\ "index" \notin Checking /\ "index" \notin Helping /\ "index" \notin OnFlow
  BY DEF Pcs, Alone, Checking, Helping, OnFlow
<1>5. /\ Sound(k) /\ HeldOnce(k)
      /\ Hand(k) = (IF g = NoFlow THEN {} ELSE {g}) \cup (IF "index" \in Helping THEN {NoFlow} ELSE {})
  BY <1>1, <1>3, <1>4, PlainRec, ZeroEpoch, SMTT(30)
<1>6. k.pc = "index"
  BY <1>3 DEF Rec
<1>7. \A index : Waits(k, index)
  BY <1>6 DEF Waits
<1> QED
  BY <1>1, <1>4, <1>5, <1>6, <1>7

\* a record that has flow g in hand and nothing to say of a wait
Drives(k, g) ==
  /\ Sound(k) /\ HeldOnce(k) /\ Hand(k) = {g} /\ \A index : Waits(k, index)
  /\ k.pc \in {"idle", "run", "ask_pop", "fin", "index"}

\* The records a worker goes on with after a delivery.
LEMMA DriveRecords ==
  ASSUME NEW g \in Flow
  PROVE  /\ Drives(Running(g), g) /\ Drives(Finalizing(NoFlow, g), g)
         /\ \A ask, hop, timed : \A to \in Flow : Drives(AfterDelivery(g, ask, to, hop, timed), g)
<1>1. g # NoFlow /\ g \in MaybeFlow /\ NoFlow \in MaybeFlow
  BY MessagingAssumption DEF MaybeFlow
<1>2. PICK k : k = Running(g)
  OBVIOUS
<1>3. Sound(k) /\ HeldOnce(k) /\ Hand(k) = {g} /\ k.pc \in {"idle", "run"}
  BY <1>1, <1>2, RunningFacts
<1>4. Drives(k, g)
  BY <1>3, PlainWaits DEF Drives, Plain, Pcs
<1>5. PICK j : j = Finalizing(NoFlow, g)
  OBVIOUS
<1>6. Sound(j) /\ HeldOnce(j) /\ Hand(j) = {g} /\ j.pc = "fin"
  BY <1>1, <1>5, FinalizingFacts, SMTT(30)
<1>7. Drives(j, g)
  BY <1>6, PlainWaits DEF Drives, Plain, Pcs
<1>8. ASSUME NEW ask, NEW hop, NEW timed, NEW to \in Flow
      PROVE  Drives(AfterDelivery(g, ask, to, hop, timed), g)
  <2>1. PICK r : r = AfterDelivery(g, ask, to, hop, timed)
    OBVIOUS
  <2>2. /\ Sound(r) /\ HeldOnce(r) /\ Hand(r) = {g} /\ r.pc \in {"run", "ask_pop"}
        /\ \A index : Waits(r, index)
    BY <2>1, AfterFacts
  <2> QED
    BY <2>1, <2>2 DEF Drives
<1> QED
  BY <1>2, <1>4, <1>5, <1>7, <1>8

\* worker::deliver: the hop is stored or refused, or wakes its receiver, which comes into
\* the hands of the sender's worker.
LEMMA DeliverStep ==
  ASSUME IInv, NEW w \in Worker, NEW op, Issue(w, op), NEW to, NEW hop, NEW ask, NEW timed,
         Deliver(w, to, hop, ask, timed)
  PROVE  IInv'
<1>0. Types /\ OnePlace
  BY DEF IInv
<1>1. PICK g : g = th[w].cur
  OBVIOUS
<1>2. /\ w \in Thread /\ th[w].pc = "run" /\ g \in Flow /\ Hand(th[w]) = {g} /\ th[w].orphans = {}
      /\ issued' \in [Flow -> 0..MaxOps]
  BY <1>1, IssueTables
<1>3. PICK p : p = IF to \in live THEN Push(mb[to], hop) ELSE [mb |-> mb[to], out |-> "Closed"]
  OBVIOUS
<1>4. PICK l : l = [IdleThread EXCEPT !.cur = g, !.to = to, !.ask = ask, !.hop = hop, !.timed = timed]
  OBVIOUS
<1>41. l = Rec("idle", g, NoFlow, to, ask, hop, AnyHop, timed, 0, << >>, {})
  BY <1>4, SendLocals
<1>5. PICK k : k = CASE p.out \in {"Queued", "QueuedDropOldest"} ->
                          AfterDelivery(g, ask, to, hop, timed)
                     [] p.out = "DroppedNewest" ->
                          IF ask THEN Finalizing(NoFlow, g) ELSE Running(g)
                     [] p.out = "Handoff" -> [l EXCEPT !.pc = "handoff", !.f = to]
                     [] p.out \in {"MessageLimit", "ByteLimit"} -> [l EXCEPT !.pc = "index"]
                     [] p.out = "Closed" -> Finalizing(NoFlow, g)
  OBVIOUS
<1>6. /\ Goto(w, k) /\ mb' = [mb EXCEPT ![to] = p.mb]
      /\ UNCHANGED <<runq, asleep, live, kill, waitAt, askWait, timers, toKill>>
  BY <1>1, <1>3, <1>4, <1>5 DEF Deliver
<1>7. Tables'
  BY <1>0, <1>2, <1>6 DEF Types, Tables
<1>8. ASSUME NEW h \in Flow, NEW m, Touch(w, k, h, m), Kept(m, mb[h]), Drives(k, g)
      PROVE  IInv'
  <2>1. /\ Sound(k) /\ HeldOnce(k) /\ Hand(k) = Hand(th[w]) /\ Waits(k, askWait)
        /\ k.pc # "park_send" /\ k.pc \notin Closing /\ th[w].pc # "park_send"
        /\ th[w].pc \notin Pending
    BY <1>2, <1>8 DEF Drives, Closing, Pending
  <2>2. /\ runq' = runq /\ asleep' = asleep /\ live' = live /\ waitAt' = waitAt
        /\ askWait' = askWait
    BY <1>6
  <2> QED
    BY <1>2, <1>7, <1>8, <2>1, <2>2, QuietStep
<1>9. CASE to \notin live
  <2>1. p.mb = mb[to] /\ p.out = "Closed"
    BY <1>3, <1>9
  <2>2. k = Finalizing(NoFlow, g)
    BY <1>5, <2>1
  <2>3. mb' = mb
    <3>1. mb = [x \in Flow |-> mb[x]]
      BY <1>0 DEF Types, Boxes
    <3>2. mb' = [mb EXCEPT ![to] = mb[to]]
      BY <1>6, <2>1
    <3>3. PICK a, b : a = mb /\ b = mb'
      OBVIOUS
    <3>4. a = [x \in Flow |-> a[x]] /\ b = [a EXCEPT ![to] = a[to]]
      BY <3>1, <3>2, <3>3
    <3>5. b = a
      BY <3>4
    <3> QED
      BY <3>3, <3>5
  <2>4. Touch(w, k, g, mb[g]) /\ Kept(mb[g], mb[g])
    BY <1>0, <1>2, <1>6, <2>3, TouchThread, BoxOf
  <2> QED
    BY <1>2, <1>8, <2>2, <2>4, DriveRecords
<1>10. CASE to \in live
  <2>1. to \in Flow /\ p = Push(mb[to], hop)
    BY <1>0, <1>3, <1>10 DEF Types, Tables
  <2>2. Box(mb[to]) /\ Distinct(mb[to].waiting)
    BY <2>1, BoxOf
  <2>3. Touch(w, k, to, p.mb)
    BY <1>6 DEF Touch, Goto
  <2>4. CASE p.out \in Stored \cup {"Closed"} /\ Kept(p.mb, mb[to])
    <3>1. Drives(k, g)
      <4>1. CASE p.out \in {"Queued", "QueuedDropOldest"}
        <5>1. k = AfterDelivery(g, ask, to, hop, timed)
          BY <1>5, <4>1
        <5> QED
          BY <1>2, <2>1, <5>1, DriveRecords
      <4>2. CASE p.out = "DroppedNewest"
        <5>1. k = IF ask THEN Finalizing(NoFlow, g) ELSE Running(g)
          BY <1>5, <4>2
        <5> QED
          BY <1>2, <5>1, DriveRecords
      <4>3. CASE p.out \in {"MessageLimit", "ByteLimit"}
        <5>1. k = [l EXCEPT !.pc = "index"]
          BY <1>5, <4>3
        <5>2. Sound(k) /\ HeldOnce(k) /\ Hand(k) = {g} /\ k.pc = "index" /\ \A index : Waits(k, index)
          BY <1>2, <1>41, <2>1, <5>1, RefusedRecord, SMTT(30)
        <5> QED
          BY <5>2 DEF Drives
      <4>4. CASE p.out = "Closed"
        <5>1. k = Finalizing(NoFlow, g)
          BY <1>5, <4>4
        <5> QED
          BY <1>2, <5>1, DriveRecords
      <4> QED
        BY <2>4, <4>1, <4>2, <4>3, <4>4 DEF Stored
    <3> QED
      BY <1>8, <2>1, <2>3, <2>4, <3>1
  <2>5. CASE p.out = "Handoff" /\ mb[to].parked /\ Freed(p.mb, mb[to])
    <3>1. k = [l EXCEPT !.pc = "handoff", !.f = to]
      BY <1>5, <2>5
    <3>2. g # to
      <4>1. g \notin Parked
        BY <1>0, <1>2, InHandOnly
      <4> QED
        BY <2>1, <2>5, <4>1 DEF Parked
    <3>3. /\ Sound(k) /\ HeldOnce(k) /\ Hand(k) = {g, to} /\ k.pc = "handoff"
          /\ \A index : Waits(k, index)
      <4>1. k = Rec("handoff", g, to, to, ask, hop, AnyHop, timed, 0, << >>, {})
        BY <1>41, <3>1 DEF Rec
      <4> QED
        BY <1>2, <2>1, <3>2, <4>1, SendRecords, SMTT(30)
    <3>4. PICK m : m = p.mb
      OBVIOUS
    <3>5. /\ Touch(w, k, to, m) /\ Box(m) /\ ~m.parked /\ Distinct(m.waiting)
          /\ Flows(m.waiting) = Flows(mb[to].waiting) /\ m.closed = mb[to].closed
      BY <2>2, <2>3, <2>5, <3>4 DEF Freed
    <3>6. Hand(k) = Hand(th[w]) \cup {to}
      BY <1>2, <3>3
    <3>7. /\ runq' = runq /\ asleep' = asleep /\ live' = live /\ waitAt' = waitAt
          /\ askWait' = askWait /\ mb[to].parked
      BY <1>6, <2>5
    <3>8. OnePlace'
      BY <1>0, <1>2, <2>1, <3>3, <3>5, <3>6, <3>7, InboxToHand
    <3>9. \A a \in Flow : askWait'[a] = askWait[a] \/ (askWait'[a] = NoFlow /\ ~mb'[a].parked)
      BY <3>7, SameAsks
    <3>10. /\ Waits(k, askWait') /\ k.pc # "park_send" /\ k.pc \notin Closing
           /\ th[w].pc # "park_send" /\ th[w].pc \notin Pending
      BY <1>2, <3>3 DEF Closing, Pending
    <3> QED
      BY <1>2, <1>7, <2>1, <3>3, <3>5, <3>7, <3>8, <3>9, <3>10, FrameStep
  <2> QED
    BY <2>1, <2>2, <2>4, <2>5, PushFacts
<1> QED
  BY <1>9, <1>10

-----------------------------------------------------------------------------
(* Steps of a thread on its locals, the signals and the deadlines *)

\* A step that touches no inbox, run queue or index.
LEMMA LocalStep ==
  ASSUME IInv, NEW t \in Thread, NEW h \in Flow, NEW r, Goto(t, r),
         UNCHANGED <<mb, runq, asleep, live, waitAt, askWait, issued>>,
         kill' \subseteq Flow, toKill' \subseteq Killable,
         \A d \in timers' : d \in [flow : Flow, epoch : Epoch],
         Sound(r), HeldOnce(r), Hand(r) = Hand(th[t]), Waits(r, askWait),
         th[t].pc \notin Closing \cup {"fin", "park_send"},
         r.pc \notin Closing \cup {"park_send"},
         th[t].pc \in Pending /\ th[t].ask =>
           \/ r.pc \in Pending /\ r.ask /\ r.f = th[t].f
           \/ askWait[th[t].f] # NoFlow
  PROVE  IInv'
<1>1. Types
  BY DEF IInv
<1>2. Touch(t, r, h, mb[h]) /\ Kept(mb[h], mb[h])
  BY <1>1, TouchThread, BoxOf
<1>3. Tables'
  BY <1>1 DEF Types, Tables
<1>4. th[t].orphans = {}
  BY HandOf
<1>5. /\ runq' = runq /\ asleep' = asleep /\ live' = live /\ waitAt' = waitAt /\ askWait' = askWait
      /\ th[t].pc # "park_send" /\ r.pc # "park_send" /\ r.pc \notin Closing
  OBVIOUS
<1> QED
  BY <1>2, <1>3, <1>4, <1>5, QuietStep

\* The thread goes back to the flow it drives.
LEMMA BackFacts ==
  ASSUME IInv, NEW t \in Thread, th[t].pc \notin Closing \cup {"fin"}, th[t].pc \notin Helping,
         NEW c, c = th[t].cur, NEW r, r = Running(c)
  PROVE  /\ Sound(r) /\ HeldOnce(r) /\ Hand(r) = Hand(th[t]) /\ r.pc \in {"idle", "run"}
         /\ \A index : Waits(r, index)
<1>1. Hand(th[t]) = {c} \ {NoFlow}
  BY HandOf
<1>2. c \in MaybeFlow
  BY ThreadOf DEF Sound
<1>3. Sound(r) /\ HeldOnce(r) /\ Hand(r) = {c} \ {NoFlow} /\ r.pc \in {"idle", "run"}
  BY <1>2, RunningFacts
<1>4. \A index : Waits(r, index)
  BY <1>3, PlainWaits DEF Plain, Pcs
<1> QED
  BY <1>1, <1>3, <1>4

\* The thread goes on with its locals, at another position outside a park.
LEMMA OnFacts ==
  ASSUME NEW l, Sound(l), HeldOnce(l), l.pc \notin Closing \cup {"fin"}, l.pc \notin Helping,
         NEW p \in {"wkill_take", "kill_take", "kill_restore", "ask_check", "ask_live", "ask_gone"},
         l.f \in Flow, p \in Alone => l.cur = NoFlow,
         p # "kill_take" => l.to \in Flow \/ (p = "kill_restore" /\ ~l.ask),
         l.ask => l.to \in Flow,
         NEW r, r = [l EXCEPT !.pc = p]
  PROVE  /\ Sound(r) /\ HeldOnce(r) /\ Hand(r) = Hand(l) /\ r.pc = p /\ r.f = l.f
         /\ r.ask = l.ask /\ r.to = l.to /\ \A index : Waits(r, index)
<1>3. /\ p \in Pcs /\ p \notin Closing \cup {"fin"} /\ p \notin Driving /\ p \notin Helping
      /\ (p = "kill_take" \/ p = "kill_restore" => p \notin OnTarget)
  BY DEF Pcs, Closing, Driving, Helping, OnTarget
<1>4. /\ p \in Driving => l.cur \in Flow
      /\ p \in OnFlow => l.f \in Flow
      /\ p \in OnTarget => l.to \in Flow
      /\ p \in Checking /\ l.ask => l.to \in Flow
      /\ p \in Alone => l.cur = NoFlow
      /\ p \in Helping <=> l.pc \in Helping
  BY <1>3
<1>5. /\ Sound(r) /\ HeldOnce(r) /\ Hand(r) = Hand(l) /\ r.pc = p /\ r.f = l.f /\ r.ask = l.ask
      /\ r.to = l.to
  BY <1>3, <1>4, PcFacts, SMTT(30)
<1>6. \A index : Waits(r, index)
  BY <1>5 DEF Waits
<1> QED
  BY <1>5, <1>6

LEMMA ArmedTables ==
  ASSUME Types, NEW t \in Thread, th[t].f \in Flow
  PROVE  /\ \A d \in timers : d \in [flow : Flow, epoch : Epoch]
         /\ \A d \in timers \cup Armed(th[t]) : d \in [flow : Flow, epoch : Epoch]
<1>1. \A d \in timers : d \in [flow : Flow, epoch : Epoch]
  BY DEF Types, Tables
<1>2. th[t].epoch \in Epoch
  BY DEF Types, Threads, Sound
<1>3. PICK f, e : f = th[t].f /\ e = th[t].epoch
  OBVIOUS
<1>4. [flow |-> f, epoch |-> e] \in [flow : Flow, epoch : Epoch]
  BY <1>2, <1>3
<1>5. \A d \in Armed(th[t]) : d = [flow |-> f, epoch |-> e]
  BY <1>3 DEF Armed
<1> QED
  BY <1>1, <1>4, <1>5

\* finalize_if_killed_waiting_send and finalize_if_killed take the signal, or restore it.
LEMMA SignalStep ==
  ASSUME IInv, NEW w \in Worker, SenderKillCheck(w) \/ KillCheck(w) \/ KillRestore(w)
  PROVE  IInv'
<1>0. Types
  BY DEF IInv
<1>1. w \in Thread /\ Sound(th[w]) /\ HeldOnce(th[w])
  BY ThreadOf DEF Thread
<1>2. th[w].pc \in {"wkill_check", "kill_check", "kill_restore"}
  BY DEF SenderKillCheck, KillCheck, KillRestore
<1>3. /\ th[w].pc \notin Closing \cup {"fin"} /\ th[w].pc \notin Helping /\ th[w].f \in Flow
      /\ th[w].pc # "park_send"
      /\ th[w].pc \in Alone => th[w].cur = NoFlow
      /\ th[w].pc = "wkill_check" => th[w].to \in Flow /\ th[w].cur = NoFlow
      /\ th[w].pc # "wkill_check" /\ th[w].ask => th[w].to \in Flow
  BY <1>1, <1>2 DEF Closing, Helping, Sound, OnFlow, OnTarget, Checking, Alone
<1>4. PICK f, c : f = th[w].f /\ c = th[w].cur
  OBVIOUS
<1>5. \A d \in timers \cup Armed(th[w]) : d \in [flow : Flow, epoch : Epoch]
  BY <1>0, <1>1, <1>3, ArmedTables
<1>6. /\ UNCHANGED <<mb, runq, asleep, live, waitAt, askWait, issued, toKill>>
      /\ kill' = kill \ {f} \/ kill' = kill \cup {f}
      /\ timers' = timers \/ timers' = timers \cup Armed(th[w])
  BY <1>4 DEF SenderKillCheck, KillCheck, KillRestore
<1>7. /\ kill' \subseteq Flow /\ toKill' \subseteq Killable
      /\ \A d \in timers' : d \in [flow : Flow, epoch : Epoch]
  BY <1>0, <1>3, <1>4, <1>5, <1>6 DEF Types, Tables
<1>8. ASSUME NEW r, Goto(w, r), r = Running(c), th[w].pc = "wkill_check" \/ ~th[w].ask
      PROVE  IInv'
  <2>1. /\ Sound(r) /\ HeldOnce(r) /\ Hand(r) = Hand(th[w]) /\ r.pc \in {"idle", "run"}
        /\ Waits(r, askWait)
    BY <1>1, <1>3, <1>4, <1>8, BackFacts
  <2>2. /\ r.pc \notin Closing \cup {"park_send"} /\ ~(th[w].pc \in Pending /\ th[w].ask)
        /\ th[w].pc \notin Closing \cup {"fin", "park_send"}
    BY <1>3, <1>8, <2>1 DEF Closing, Pending
  <2> QED
    BY <1>1, <1>3, <1>6, <1>7, <1>8, <2>1, <2>2, LocalStep
<1>9. ASSUME NEW r, NEW p, Goto(w, r), r = [th[w] EXCEPT !.pc = p],
             \/ p = "wkill_take" /\ th[w].pc = "wkill_check"
             \/ p = "kill_take" /\ th[w].pc = "kill_check"
             \/ p = "ask_check" /\ th[w].ask /\ th[w].pc # "wkill_check"
      PROVE  IInv'
  <2>1. /\ p \in {"wkill_take", "kill_take", "kill_restore", "ask_check", "ask_live", "ask_gone"}
        /\ p # "kill_take" => th[w].to \in Flow
    BY <1>3, <1>9
  <2>2. p \in Alone => th[w].cur = NoFlow
    BY <1>3, <1>9 DEF Alone
  <2>3. /\ p = "wkill_take" => th[w].pc = "wkill_check"
        /\ th[w].ask => th[w].to \in Flow
    BY <1>3, <1>9
  <2>4. /\ Sound(r) /\ HeldOnce(r) /\ Hand(r) = Hand(th[w]) /\ r.pc = p /\ r.f = th[w].f
        /\ r.ask = th[w].ask /\ Waits(r, askWait)
    BY <1>1, <1>3, <1>9, <2>1, <2>2, <2>3, OnFacts, SMTT(30)
  <2>5. /\ r.pc \notin Closing \cup {"park_send"}
        /\ th[w].pc \notin Closing \cup {"fin", "park_send"}
    BY <1>3, <2>1, <2>4 DEF Closing
  <2>6. th[w].pc \in Pending /\ th[w].ask => r.pc \in Pending /\ r.ask /\ r.f = th[w].f
    BY <1>9, <2>4 DEF Pending
  <2> QED
    BY <1>1, <1>3, <1>6, <1>7, <1>9, <2>4, <2>5, <2>6, LocalStep
<1>10. CASE SenderKillCheck(w)
  <2>1. th[w].pc = "wkill_check" /\ Goto(w, IF th[w].f \in kill THEN [th[w] EXCEPT !.pc = "wkill_take"] ELSE IdleThread)
    BY <1>10 DEF SenderKillCheck
  <2>2. IdleThread = Running(NoFlow)
    <3>1. NoFlow \in MaybeFlow
      BY DEF MaybeFlow
    <3>2. Running(NoFlow) = Rec("idle", NoFlow, NoFlow, NoFlow, No, NoHop, AnyHop, No, 0, << >>, {})
      BY <3>1, RunningFacts
    <3> QED
      BY <3>2, IdleFacts
  <2> QED
    BY <1>3, <1>4, <1>8, <1>9, <2>1, <2>2
<1>11. CASE KillCheck(w)
  <2>1. /\ th[w].pc = "kill_check"
        /\ Goto(w, CASE f \in kill -> [th[w] EXCEPT !.pc = "kill_take"]
                     [] f \notin kill /\ th[w].ask -> [th[w] EXCEPT !.pc = "ask_check"]
                     [] f \notin kill /\ ~th[w].ask -> Running(c))
    BY <1>4, <1>11 DEF KillCheck
  <2>2. CASE f \in kill
    <3>1. Goto(w, [th[w] EXCEPT !.pc = "kill_take"])
      BY <2>1, <2>2
    <3> QED
      BY <1>9, <2>1, <3>1
  <2>3. CASE f \notin kill /\ th[w].ask
    <3>1. Goto(w, [th[w] EXCEPT !.pc = "ask_check"])
      BY <2>1, <2>3
    <3> QED
      BY <1>9, <2>1, <2>3, <3>1
  <2>4. CASE f \notin kill /\ ~th[w].ask
    <3>1. Goto(w, Running(c))
      BY <2>1, <2>4
    <3> QED
      BY <1>8, <2>4, <3>1
  <2> QED
    BY <2>2, <2>3, <2>4
<1>12. CASE KillRestore(w)
  <2>1. /\ th[w].pc = "kill_restore"
        /\ Goto(w, IF th[w].ask THEN [th[w] EXCEPT !.pc = "ask_check"] ELSE Running(c))
    BY <1>4, <1>12 DEF KillRestore
  <2> QED
    BY <1>8, <1>9, <2>1
<1> QED
  BY <1>10, <1>11, <1>12

\* park_ask revalidates an asker it has parked.
LEMMA RevalidateStep ==
  ASSUME IInv, NEW w \in Worker, AskCheck(w) \/ AskLive(w)
  PROVE  IInv'
<1>0. Types
  BY DEF IInv
<1>1. w \in Thread /\ Sound(th[w]) /\ HeldOnce(th[w])
  BY ThreadOf DEF Thread
<1>2. th[w].pc \in {"ask_check", "ask_live"}
  BY DEF AskCheck, AskLive
<1>3. /\ th[w].pc \notin Closing \cup {"fin"} /\ th[w].pc \notin Helping /\ th[w].f \in Flow
      /\ th[w].to \in Flow /\ th[w].pc \notin Closing \cup {"fin", "park_send"}
  BY <1>1, <1>2 DEF Closing, Helping, Sound, OnFlow, OnTarget
<1>4. PICK c : c = th[w].cur
  OBVIOUS
<1>5. \A d \in timers \cup Armed(th[w]) : d \in [flow : Flow, epoch : Epoch]
  BY <1>0, <1>1, <1>3, ArmedTables
<1>6. /\ UNCHANGED <<mb, runq, asleep, live, kill, waitAt, askWait, issued, toKill>>
      /\ timers' = timers \/ timers' = timers \cup Armed(th[w])
  BY DEF AskCheck, AskLive
<1>7. /\ kill' \subseteq Flow /\ toKill' \subseteq Killable
      /\ \A d \in timers' : d \in [flow : Flow, epoch : Epoch]
  BY <1>0, <1>5, <1>6 DEF Types, Tables
<1>8. ASSUME NEW r, Goto(w, r), r = Running(c), th[w].pc = "ask_live"
      PROVE  IInv'
  <2>1. /\ Sound(r) /\ HeldOnce(r) /\ Hand(r) = Hand(th[w]) /\ r.pc \in {"idle", "run"}
        /\ Waits(r, askWait)
    BY <1>1, <1>3, <1>4, <1>8, BackFacts
  <2>2. r.pc \notin Closing \cup {"park_send"} /\ th[w].pc \notin Pending
    BY <1>8, <2>1 DEF Closing, Pending
  <2> QED
    BY <1>1, <1>3, <1>6, <1>7, <1>8, <2>1, <2>2, LocalStep
<1>9. ASSUME NEW r, NEW p, Goto(w, r), r = [th[w] EXCEPT !.pc = p],
             \/ p = "ask_live" /\ askWait[th[w].f] = th[w].to
             \/ p = "ask_gone"
      PROVE  IInv'
  <2>1. /\ p \in {"wkill_take", "kill_take", "kill_restore", "ask_check", "ask_live", "ask_gone"}
        /\ p \notin Alone
    BY <1>9 DEF Alone
  <2>4. /\ Sound(r) /\ HeldOnce(r) /\ Hand(r) = Hand(th[w]) /\ r.pc = p /\ r.f = th[w].f
        /\ r.ask = th[w].ask /\ Waits(r, askWait)
    BY <1>1, <1>3, <1>9, <2>1, OnFacts, SMTT(30)
  <2>5. r.pc \notin Closing \cup {"park_send"}
    BY <1>9, <2>4 DEF Closing
  <2>6. askWait[th[w].f] = th[w].to => askWait[th[w].f] # NoFlow
    BY <1>3, MessagingAssumption
  <2>7. th[w].pc \in Pending /\ th[w].ask =>
           \/ r.pc \in Pending /\ r.ask /\ r.f = th[w].f
           \/ askWait[th[w].f] # NoFlow
    BY <1>9, <2>4, <2>6 DEF Pending
  <2> QED
    BY <1>1, <1>3, <1>6, <1>7, <1>9, <2>4, <2>5, <2>7, LocalStep
<1>10. CASE AskCheck(w)
  <2>1. Goto(w, [th[w] EXCEPT !.pc = IF askWait[th[w].f] = th[w].to THEN "ask_live" ELSE "ask_gone"])
    BY <1>10 DEF AskCheck
  <2>2. PICK p : p = IF askWait[th[w].f] = th[w].to THEN "ask_live" ELSE "ask_gone"
    OBVIOUS
  <2> QED
    BY <1>9, <2>1, <2>2
<1>11. CASE AskLive(w)
  <2>1. /\ th[w].pc = "ask_live"
        /\ Goto(w, IF th[w].to \in live THEN Running(c) ELSE [th[w] EXCEPT !.pc = "ask_gone"])
    BY <1>4, <1>11 DEF AskLive
  <2> QED
    BY <1>8, <1>9, <2>1
<1> QED
  BY <1>10, <1>11

\* The locals of a thread with no flow in hand that looks at flow g, and at inbox to.
LEMMA LookFacts ==
  ASSUME NEW pc \in {"x_parked", "x_index", "x_sender", "wkill_check"}, NEW g \in Flow,
         NEW to \in MaybeFlow, pc \in OnTarget => to \in Flow, NEW r,
         r = Rec(pc, NoFlow, g, to, No, NoHop, AnyHop, No, 0, << >>, {})
  PROVE  /\ Sound(r) /\ HeldOnce(r) /\ Hand(r) = {} /\ r.pc = pc /\ \A index : Waits(r, index)
<1>2. /\ pc \in Pcs /\ pc # "fin" /\ pc \notin Driving /\ pc \notin Checking /\ pc \notin Helping
      /\ NoFlow \in MaybeFlow /\ g \in MaybeFlow
  BY DEF Pcs, Driving, Checking, Helping, MaybeFlow
<1>3. /\ Sound(r) /\ HeldOnce(r)
      /\ Hand(r) = (IF NoFlow = NoFlow THEN {} ELSE {NoFlow}) \cup (IF pc \in Helping THEN {g} ELSE {})
  BY <1>2, PlainRec, ZeroEpoch, SMTT(30)
<1>4. r.pc = pc
  BY DEF Rec
<1>5. \A index : Waits(r, index)
  BY <1>4 DEF Waits
<1> QED
  BY <1>2, <1>3, <1>4, <1>5

\* Runtime::kill and the index lookup of extract_for_kill.
LEMMA ExtractLookStep ==
  ASSUME IInv, NEW g \in Flow, HostKill(g) \/ ExtractIndex
  PROVE  IInv'
<1>0. Types
  BY DEF IInv
<1>1. PICK t : t = "host"
  OBVIOUS
<1>2. t \in Thread /\ Sound(th[t]) /\ th[t].pc \in {"idle", "x_index"}
  BY <1>1, ThreadOf DEF Thread, HostKill, ExtractIndex
<1>3. /\ th[t].pc \notin Closing \cup {"fin"} /\ th[t].pc \notin Helping /\ th[t].cur = NoFlow
      /\ th[t].pc \notin Closing \cup {"fin", "park_send"} /\ th[t].pc \notin Pending
      /\ th[t].pc = "x_index" => th[t].f \in Flow
  BY <1>2 DEF Closing, Helping, Sound, OnFlow, Alone, Pending
<1>4. Hand(th[t]) = {}
  BY <1>2, <1>3, HandOf
<1>5. /\ UNCHANGED <<mb, runq, asleep, live, waitAt, askWait, issued, timers>>
      /\ kill' = kill \/ kill' = kill \cup {g}
      /\ toKill' = toKill \/ toKill' = toKill \ {g}
  BY DEF HostKill, ExtractIndex
<1>6. /\ kill' \subseteq Flow /\ toKill' \subseteq Killable
      /\ \A d \in timers' : d \in [flow : Flow, epoch : Epoch]
  BY <1>0, <1>5 DEF Types, Tables
<1>7. ASSUME NEW r, Goto(t, r), Sound(r), HeldOnce(r), Hand(r) = {}, Waits(r, askWait),
             r.pc \in {"idle", "x_parked", "x_sender"}
      PROVE  IInv'
  <2>1. r.pc \notin Closing \cup {"park_send"} /\ Hand(r) = Hand(th[t])
    BY <1>4, <1>7 DEF Closing
  <2> QED
    BY <1>2, <1>3, <1>5, <1>6, <1>7, <2>1, LocalStep
<1>8. CASE HostKill(g)
  <2>1. PICK r : r = [IdleThread EXCEPT !.pc = "x_parked", !.f = g]
    OBVIOUS
  <2>2. r = Rec("x_parked", NoFlow, g, NoFlow, No, NoHop, AnyHop, No, 0, << >>, {})
    BY <2>1, IdleFacts DEF Rec
  <2>3. NoFlow \in MaybeFlow /\ "x_parked" \notin OnTarget
    BY DEF MaybeFlow, OnTarget
  <2>4. /\ Sound(r) /\ HeldOnce(r) /\ Hand(r) = {} /\ r.pc = "x_parked" /\ \A index : Waits(r, index)
    BY <2>2, <2>3, LookFacts
  <2>5. Goto(t, r)
    BY <1>1, <1>8, <2>1 DEF HostKill
  <2> QED
    BY <1>7, <2>4, <2>5
<1>9. CASE ExtractIndex
  <2>1. PICK f, to : f = th[t].f /\ to = waitAt[f]
    OBVIOUS
  <2>2. /\ th[t].pc = "x_index"
        /\ Goto(t, IF to # NoFlow /\ to \in live
                   THEN [IdleThread EXCEPT !.pc = "x_sender", !.f = f, !.to = to] ELSE IdleThread)
    BY <1>1, <1>9, <2>1 DEF ExtractIndex
  <2>3. CASE to # NoFlow /\ to \in live
    <3>1. f \in Flow /\ to \in Flow /\ to \in MaybeFlow
      BY <1>0, <1>3, <2>1, <2>2, <2>3 DEF Types, Tables, MaybeFlow
    <3>2. PICK r : r = [IdleThread EXCEPT !.pc = "x_sender", !.f = f, !.to = to]
      OBVIOUS
    <3>3. /\ Sound(r) /\ HeldOnce(r) /\ Hand(r) = {} /\ r.pc = "x_sender"
          /\ \A index : Waits(r, index)
      <4>1. r = Rec("x_sender", NoFlow, f, to, No, NoHop, AnyHop, No, 0, << >>, {})
        BY <3>2, IdleFacts DEF Rec
      <4> QED
        BY <3>1, <4>1, LookFacts
    <3>4. Goto(t, r)
      BY <2>2, <2>3, <3>2
    <3> QED
      BY <1>7, <3>3, <3>4
  <2>4. CASE ~(to # NoFlow /\ to \in live)
    <3>1. PICK r : r = IdleThread
      OBVIOUS
    <3>2. Sound(r) /\ HeldOnce(r) /\ Hand(r) = {} /\ r.pc = "idle"
      BY <3>1, IdleFacts DEF IdleThread
    <3>3. Waits(r, askWait)
      BY <3>2, PlainWaits DEF Plain, Pcs
    <3>4. Goto(t, r)
      BY <2>2, <2>4, <3>1
    <3> QED
      BY <1>7, <3>2, <3>3, <3>4
  <2> QED
    BY <2>3, <2>4
<1> QED
  BY <1>8, <1>9

-----------------------------------------------------------------------------
(* The waiting lists and their index *)

\* park_waiting_send, first section
LEMMA IndexSenderStep ==
  ASSUME IInv, NEW w \in Worker, IndexSender(w)
  PROVE  IInv'
<1>0. Types /\ OnePlace /\ Indexed
  BY DEF IInv
<1>1. PICK l : l = th[w]
  OBVIOUS
<1>2. w \in Thread /\ Sound(l) /\ HeldOnce(l) /\ l.pc = "index"
  BY <1>1, ThreadOf DEF Thread, IndexSender
<1>3. PICK c, to : c = l.cur /\ to = l.to
  OBVIOUS
<1>4. c \in Flow /\ to \in Flow /\ c # NoFlow /\ to \in MaybeFlow
  BY <1>2, <1>3, MessagingAssumption DEF Sound, Driving, OnTarget, MaybeFlow
<1>5. PICK r : r = [l EXCEPT !.pc = "park_send"]
  OBVIOUS
<1>6. /\ Goto(w, r) /\ waitAt' = [waitAt EXCEPT ![c] = to]
      /\ UNCHANGED <<mb, runq, asleep, live, kill, askWait, timers, issued, toKill>>
  BY <1>1, <1>3, <1>5 DEF IndexSender
<1>7. /\ Sound(r) /\ HeldOnce(r) /\ Hand(r) = Hand(l) /\ r.pc = "park_send" /\ r.to = to
      /\ r.cur = c
  <2>1. /\ "park_send" \in Pcs /\ "park_send" \notin Closing \cup {"fin"}
        /\ "park_send" \notin Checking /\ "park_send" \notin Alone /\ "park_send" \notin Helping
        /\ "park_send" \notin OnFlow /\ l.pc \notin Helping /\ l.pc \notin Closing \cup {"fin"}
    BY <1>2 DEF Pcs, Closing, Checking, Alone, Helping, OnFlow
  <2>2. l.cur \in Flow /\ l.to \in Flow
    BY <1>3, <1>4
  <2>3. /\ Sound(r) /\ HeldOnce(r) /\ Hand(r) = Hand(l) /\ r.pc = "park_send" /\ r.to = l.to
        /\ r.cur = l.cur
    BY <1>2, <1>5, <2>1, <2>2, PcFacts, SMTT(30)
  <2> QED
    BY <1>3, <2>3
<1>8. PICK m : m = mb[c]
  OBVIOUS
<1>9. /\ Touch(w, r, c, m) /\ Box(m) /\ Distinct(m.waiting)
      /\ m.parked = mb[c].parked /\ Flows(m.waiting) = Flows(mb[c].waiting)
      /\ m.closed = mb[c].closed /\ (m.parked => mb[c].parked /\ m.filter = mb[c].filter)
  BY <1>0, <1>2, <1>4, <1>6, <1>8, TouchThread, BoxOf
<1>10. Hand(r) = Hand(th[w]) /\ c \in Hand(th[w])
  BY <1>1, <1>3, <1>4, <1>7, CurInHand
<1>11. OnePlace'
  BY <1>0, <1>2, <1>4, <1>6, <1>7, <1>9, <1>10, Calm
<1>12. Indexed'
  <2>1. th[w].pc # "park_send" /\ r.pc \notin Closing
    BY <1>1, <1>2, <1>7 DEF Closing
  <2> QED
    BY <1>0, <1>2, <1>4, <1>6, <1>7, <1>9, <1>10, <2>1, IndexedSet
<1>13. Tables'
  <2>1. waitAt' \in [Flow -> MaybeFlow]
    BY <1>0, <1>4, <1>6 DEF Types, Tables
  <2> QED
    BY <1>0, <1>6, <2>1 DEF Types, Tables
<1>14. Waits(r, askWait) /\ th[w].pc \notin Closing \cup {"fin"} /\ th[w].pc \notin Pending
  BY <1>1, <1>2, <1>7 DEF Waits, Closing, Pending
<1> QED
  BY <1>2, <1>4, <1>6, <1>7, <1>9, <1>11, <1>12, <1>13, <1>14, IndexStep

\* The sender came out of the list of inbox h, or was not there any more: the kill goes on.
LEMMA TakeSenderStep ==
  ASSUME IInv, NEW t \in Thread, NEW h \in Flow, NEW f \in Flow, NEW p,
         p = TakeWaitingSender(mb[h], f), th[t].pc \in {"wkill_take", "x_sender"}, th[t].cur = NoFlow,
         mb' = [mb EXCEPT ![h] = p.mb],
         waitAt' = IF p.taken THEN [waitAt EXCEPT ![f] = NoFlow] ELSE waitAt,
         NEW r, Goto(t, r), p.taken => r = Finalizing(NoFlow, f),
         ~p.taken => /\ Sound(r) /\ HeldOnce(r) /\ Hand(r) = {} /\ Waits(r, askWait)
                     /\ r.pc \in {"idle", "kill_restore"},
         UNCHANGED <<runq, asleep, live, kill, askWait, timers, issued, toKill>>
  PROVE  IInv'
<1>0. Types /\ OnePlace /\ Indexed
  BY DEF IInv
<1>1. /\ th[t].pc \notin Closing \cup {"fin"} /\ th[t].pc \notin Helping
      /\ th[t].pc # "park_send" /\ th[t].pc \notin Pending
  BY DEF Closing, Helping, Pending
<1>2. Hand(th[t]) = {} /\ th[t].orphans = {}
  BY <1>1, HandOf
<1>3. PICK m : m = p.mb
  OBVIOUS
<1>4. Box(mb[h]) /\ Distinct(mb[h].waiting)
  BY BoxOf
<1>5. /\ Listed(m, mb[h]) /\ Distinct(m.waiting) /\ Flows(m.waiting) = Flows(mb[h].waiting) \ {f}
      /\ (p.taken <=> f \in Flows(mb[h].waiting))
  BY <1>3, <1>4, TakeSenderFacts
<1>6. /\ Box(m) /\ m.parked = mb[h].parked /\ m.closed = mb[h].closed
      /\ (m.parked => mb[h].parked /\ m.filter = mb[h].filter)
  BY <1>5 DEF Listed
<1>7. Touch(t, r, h, m)
  BY <1>3 DEF Touch, Goto
<1>8. Tables'
  <2>1. waitAt' \in [Flow -> MaybeFlow]
    BY <1>0 DEF Types, Tables, MaybeFlow
  <2> QED
    BY <1>0, <2>1 DEF Types, Tables
<1>9. CASE p.taken
  <2>1. Sound(r) /\ HeldOnce(r) /\ Hand(r) = {f} /\ r.pc = "fin"
    <3>1. NoFlow \in MaybeFlow /\ f # NoFlow
      BY MessagingAssumption DEF MaybeFlow
    <3> QED
      BY <1>9, <3>1, FinalizingFacts, SMTT(30)
  <2>2. f \in Flows(mb[h].waiting) /\ Hand(r) = Hand(th[t]) \cup {f}
    BY <1>2, <1>5, <1>9, <2>1
  <2>3. OnePlace'
    BY <1>0, <1>5, <1>6, <1>7, <2>1, <2>2, WaitToHand
  <2>4. waitAt' = [waitAt EXCEPT ![f] = NoFlow]
    BY <1>9
  <2>5. r.pc # "park_send" /\ r.pc \notin Closing
    BY <2>1 DEF Closing
  <2>6. Indexed'
    BY <1>0, <1>1, <1>5, <1>6, <1>7, <2>2, <2>4, <2>5, IndexedTake
  <2>7. Waits(r, askWait)
    BY <2>1 DEF Waits
  <2> QED
    BY <1>1, <1>6, <1>7, <1>8, <2>1, <2>3, <2>6, <2>7, IndexStep
<1>10. CASE ~p.taken
  <2>1. /\ Flows(m.waiting) = Flows(mb[h].waiting) /\ Hand(r) = Hand(th[t])
        /\ waitAt' = waitAt /\ Sound(r) /\ HeldOnce(r) /\ Waits(r, askWait')
    BY <1>2, <1>5, <1>10
  <2>2. OnePlace'
    BY <1>0, <1>5, <1>6, <1>7, <2>1, Calm
  <2>3. r.pc # "park_send" /\ r.pc \notin Closing
    BY <1>10 DEF Closing
  <2>4. \A a \in Flow : askWait'[a] = askWait[a] \/ (askWait'[a] = NoFlow /\ ~mb'[a].parked)
    BY SameAsks
  <2> QED
    BY <1>1, <1>2, <1>6, <1>7, <1>8, <2>1, <2>2, <2>3, <2>4, FrameStep
<1> QED
  BY <1>9, <1>10

\* ... finalize_if_killed_waiting_send
LEMMA SenderKillTakeStep ==
  ASSUME IInv, NEW w \in Worker, SenderKillTake(w)
  PROVE  IInv'
<1>1. w \in Thread /\ Sound(th[w]) /\ HeldOnce(th[w]) /\ th[w].pc = "wkill_take"
  BY ThreadOf DEF Thread, SenderKillTake
<1>2. /\ th[w].f \in Flow /\ th[w].to \in Flow /\ th[w].cur = NoFlow
      /\ th[w].pc \notin Closing \cup {"fin"} /\ th[w].pc \notin Helping
  BY <1>1 DEF Sound, OnFlow, OnTarget, Alone, Closing, Helping
<1>3. PICK p : p = TakeWaitingSender(mb[th[w].to], th[w].f)
  OBVIOUS
<1>4. PICK r : r = IF p.taken THEN Finalizing(NoFlow, th[w].f) ELSE [th[w] EXCEPT !.pc = "kill_restore"]
  OBVIOUS
<1>5. /\ Goto(w, r) /\ mb' = [mb EXCEPT ![th[w].to] = p.mb]
      /\ waitAt' = IF p.taken THEN [waitAt EXCEPT ![th[w].f] = NoFlow] ELSE waitAt
      /\ UNCHANGED <<runq, asleep, live, kill, askWait, timers, issued, toKill>>
  BY <1>3, <1>4 DEF SenderKillTake
<1>6. ASSUME ~p.taken
      PROVE  /\ Sound(r) /\ HeldOnce(r) /\ Hand(r) = {} /\ Waits(r, askWait)
             /\ r.pc = "kill_restore"
  <2>1. r = [th[w] EXCEPT !.pc = "kill_restore"]
    BY <1>4, <1>6
  <2>2. Hand(th[w]) = {}
    BY <1>1, <1>2, HandOf
  <2>3. "kill_restore" \notin Alone
    BY DEF Alone
  <2>4. /\ Sound(r) /\ HeldOnce(r) /\ Hand(r) = Hand(th[w]) /\ r.pc = "kill_restore"
        /\ \A index : Waits(r, index)
    BY <1>1, <1>2, <2>1, <2>3, OnFacts, SMTT(30)
  <2> QED
    BY <2>2, <2>4
<1>7. p.taken => r = Finalizing(NoFlow, th[w].f)
  BY <1>4
<1> QED
  BY <1>1, <1>2, <1>3, <1>5, <1>6, <1>7, TakeSenderStep

\* extract_for_kill, a sender in WAITING_SEND
LEMMA ExtractSenderStep ==
  ASSUME IInv, ExtractSender
  PROVE  IInv'
<1>0. PICK w : w = "host"
  OBVIOUS
<1>1. w \in Thread /\ Sound(th[w]) /\ th[w].pc = "x_sender"
  BY <1>0, ThreadOf DEF Thread, ExtractSender
<1>2. th[w].f \in Flow /\ th[w].to \in Flow /\ th[w].cur = NoFlow
  BY <1>1 DEF Sound, OnFlow, OnTarget, Alone
<1>3. PICK p : p = TakeWaitingSender(mb[th[w].to], th[w].f)
  OBVIOUS
<1>4. PICK r : r = IF p.taken THEN Finalizing(NoFlow, th[w].f) ELSE IdleThread
  OBVIOUS
<1>5. /\ Goto(w, r) /\ mb' = [mb EXCEPT ![th[w].to] = p.mb]
      /\ waitAt' = IF p.taken THEN [waitAt EXCEPT ![th[w].f] = NoFlow] ELSE waitAt
      /\ UNCHANGED <<runq, asleep, live, kill, askWait, timers, issued, toKill>>
  BY <1>0, <1>3, <1>4 DEF ExtractSender
<1>6. ASSUME ~p.taken
      PROVE  Sound(r) /\ HeldOnce(r) /\ Hand(r) = {} /\ Waits(r, askWait) /\ r.pc = "idle"
  <2>1. r = IdleThread
    BY <1>4, <1>6
  <2>2. Sound(r) /\ HeldOnce(r) /\ Hand(r) = {} /\ r.pc = "idle"
    BY <2>1, IdleFacts DEF IdleThread
  <2> QED
    BY <2>2 DEF Waits
<1>7. p.taken => r = Finalizing(NoFlow, th[w].f)
  BY <1>4
<1> QED
  BY <1>1, <1>2, <1>3, <1>5, <1>6, <1>7, TakeSenderStep

\* park_waiting_send, second section
LEMMA ParkSendStep ==
  ASSUME IInv, NEW w \in Worker, ParkSend(w)
  PROVE  IInv'
<1>0. Types /\ OnePlace /\ Indexed
  BY DEF IInv
<1>1. PICK l : l = th[w]
  OBVIOUS
<1>2. w \in Thread /\ Sound(l) /\ HeldOnce(l) /\ l.pc = "park_send"
  BY <1>1, ThreadOf DEF Thread, ParkSend
<1>3. PICK c, to, hop, ask, timed :
        c = l.cur /\ to = l.to /\ hop = l.hop /\ ask = l.ask /\ timed = l.timed
  OBVIOUS
<1>4. /\ c \in Flow /\ to \in Flow /\ c # NoFlow /\ to \in MaybeFlow
      /\ th[w].pc \notin Closing \cup {"fin"} /\ th[w].pc \notin Helping /\ th[w].pc \notin Pending
  BY <1>1, <1>2, <1>3, MessagingAssumption
     DEF Sound, Driving, OnTarget, MaybeFlow, Closing, Helping, Pending
<1>5. Hand(th[w]) = {c} /\ th[w].orphans = {}
  BY <1>1, <1>2, <1>3, <1>4, HandOf
<1>6. PICK me : me = [flow |-> c, hop |-> hop, ask |-> ask, timed |-> timed]
  OBVIOUS
<1>7. PICK p : p = IF to \in live THEN ParkSender(mb[to], me) ELSE [mb |-> mb[to], out |-> "Closed"]
  OBVIOUS
<1>8. PICK r : r = CASE p.out = "Parked" -> [IdleThread EXCEPT !.pc = "wkill_check", !.f = c, !.to = to]
                     [] p.out = "Delivered" -> AfterDelivery(c, ask, to, hop, timed)
                     [] p.out \in {"Closed", "WaitersFull", "Undeliverable"} -> Finalizing(NoFlow, c)
  OBVIOUS
<1>9. /\ Goto(w, r) /\ mb' = [mb EXCEPT ![to] = p.mb]
      /\ waitAt' = IF p.out = "Parked" THEN waitAt ELSE [waitAt EXCEPT ![c] = NoFlow]
      /\ UNCHANGED <<runq, asleep, live, kill, askWait, timers, issued, toKill>>
  BY <1>1, <1>3, <1>6, <1>7, <1>8 DEF ParkSend
<1>10. PICK m : m = p.mb
  OBVIOUS
<1>11. Touch(w, r, to, m)
  BY <1>9, <1>10 DEF Touch, Goto
<1>12. /\ Box(mb[to]) /\ Distinct(mb[to].waiting) /\ Kept(mb[to], mb[to])
  BY <1>4, BoxOf
<1>13. c \in Hand(th[w]) /\ c \notin Flows(mb[to].waiting) /\ me.flow = c
  BY <1>0, <1>2, <1>4, <1>5, <1>6, InHandOnly
<1>14. Tables'
  <2>1. waitAt' \in [Flow -> MaybeFlow]
    BY <1>0, <1>9 DEF Types, Tables, MaybeFlow
  <2> QED
    BY <1>0, <1>9, <2>1 DEF Types, Tables
<1>15. \/ p.out \in {"Undeliverable", "Closed", "Delivered", "WaitersFull"} /\ Kept(m, mb[to])
       \/ /\ p.out = "Parked" /\ to \in live /\ ~mb[to].closed /\ Listed(m, mb[to])
          /\ Distinct(m.waiting) /\ Flows(m.waiting) = Flows(mb[to].waiting) \cup {c}
  <2>1. CASE to \in live
    <3>1. p = ParkSender(mb[to], me)
      BY <1>7, <2>1
    <3>2. me.flow \in Flow /\ me.flow \notin Flows(mb[to].waiting)
      BY <1>4, <1>13
    <3>3. \/ p.out \in {"Undeliverable", "Closed", "Delivered", "WaitersFull"} /\ Kept(p.mb, mb[to])
          \/ /\ p.out = "Parked" /\ ~mb[to].closed /\ Listed(p.mb, mb[to]) /\ Distinct(p.mb.waiting)
             /\ Flows(p.mb.waiting) = Flows(mb[to].waiting) \cup {me.flow}
      BY <1>12, <3>1, <3>2, ParkSenderFacts
    <3> QED
      BY <1>10, <1>13, <2>1, <3>3
  <2>2. CASE to \notin live
    BY <1>7, <1>10, <1>12, <2>2
  <2> QED
    BY <2>1, <2>2
<1>16. CASE p.out \in {"Undeliverable", "Closed", "Delivered", "WaitersFull"} /\ Kept(m, mb[to])
  <2>1. /\ Box(m) /\ m.parked = mb[to].parked /\ m.closed = mb[to].closed
        /\ m.waiting = mb[to].waiting /\ (m.parked => mb[to].parked /\ m.filter = mb[to].filter)
    BY <1>16 DEF Kept
  <2>2. Flows(m.waiting) = Flows(mb[to].waiting) /\ Distinct(m.waiting)
    BY <1>12, <2>1
  <2>3. Drives(r, c)
    <3>1. CASE p.out = "Delivered"
      <4>1. r = AfterDelivery(c, ask, to, hop, timed)
        BY <1>8, <3>1
      <4> QED
        BY <1>4, <4>1, DriveRecords
    <3>2. CASE p.out \in {"Closed", "WaitersFull", "Undeliverable"}
      <4>1. r = Finalizing(NoFlow, c)
        BY <1>8, <3>2
      <4> QED
        BY <1>4, <4>1, DriveRecords
    <3> QED
      BY <1>16, <3>1, <3>2
  <2>4. /\ Sound(r) /\ HeldOnce(r) /\ Hand(r) = Hand(th[w]) /\ Waits(r, askWait)
        /\ r.pc # "park_send" /\ r.pc \notin Closing
    BY <1>5, <2>3 DEF Drives, Closing
  <2>5. OnePlace'
    BY <1>0, <1>2, <1>4, <1>9, <1>11, <2>1, <2>2, <2>4, Calm
  <2>6. PICK v : v = NoFlow
    OBVIOUS
  <2>7. Indexed'
    <3>1. /\ waitAt' = [waitAt EXCEPT ![c] = v] /\ v \in MaybeFlow /\ live' = live
          /\ v # NoFlow => r.pc = "park_send" /\ w \in Worker
          /\ th[w].pc = "park_send" => th[w].cur = c
          /\ r.pc = "park_send" => r.cur = c /\ r.to = v
      BY <1>1, <1>3, <1>9, <1>16, <2>4, <2>6 DEF MaybeFlow
    <3> QED
      BY <1>0, <1>2, <1>4, <1>11, <1>13, <2>1, <2>2, <2>4, <3>1, IndexedSet
  <2> QED
    BY <1>2, <1>4, <1>9, <1>11, <1>14, <2>1, <2>4, <2>5, <2>7, IndexStep
<1>17. CASE /\ p.out = "Parked" /\ to \in live /\ ~mb[to].closed /\ Listed(m, mb[to])
            /\ Distinct(m.waiting) /\ Flows(m.waiting) = Flows(mb[to].waiting) \cup {c}
  <2>1. r = Rec("wkill_check", NoFlow, c, to, No, NoHop, AnyHop, No, 0, << >>, {})
    <3>1. r = [IdleThread EXCEPT !.pc = "wkill_check", !.f = c, !.to = to]
      BY <1>8, <1>17
    <3> QED
      BY <3>1, IdleFacts DEF Rec
  <2>2. /\ Sound(r) /\ HeldOnce(r) /\ Hand(r) = {} /\ r.pc = "wkill_check" /\ \A index : Waits(r, index)
    BY <1>4, <2>1, LookFacts
  <2>3. /\ Box(m) /\ m.parked = mb[to].parked /\ m.closed = mb[to].closed
        /\ (m.parked => mb[to].parked /\ m.filter = mb[to].filter)
    BY <1>17 DEF Listed
  <2>4. Hand(r) = Hand(th[w]) \ {c}
    BY <1>5, <2>2
  <2>5. OnePlace'
    BY <1>0, <1>2, <1>4, <1>9, <1>11, <1>13, <1>17, <2>2, <2>3, <2>4, HandToWait
  <2>6. /\ waitAt' = waitAt /\ th[w].pc = "park_send" /\ th[w].to = to /\ th[w].cur = c
        /\ r.pc \notin Closing \cup {"park_send"}
    BY <1>1, <1>2, <1>3, <1>9, <1>17, <2>2 DEF Closing
  <2>7. Indexed'
    <3>1. /\ Touch(w, r, to, m) /\ live' = live /\ waitAt' = waitAt
          /\ th[w].pc = "park_send" /\ th[w].to = to /\ to \in live /\ ~mb[to].closed
          /\ c \in Flow /\ th[w].cur = c /\ w \in Thread /\ to \in Flow
      BY <1>2, <1>4, <1>9, <1>11, <1>17, <2>3, <2>6
    <3>2. /\ Flows(m.waiting) = Flows(mb[to].waiting) \cup {c} /\ m.closed = mb[to].closed
          /\ r.pc \notin Closing \cup {"park_send"}
      BY <1>11, <1>17, <2>3, <2>6
    <3> QED
      BY <1>0, <3>1, <3>2, IndexedPark
  <2> QED
    BY <1>2, <1>4, <1>9, <1>11, <1>14, <2>2, <2>3, <2>5, <2>7, IndexStep
<1> QED
  BY <1>15, <1>16, <1>17

-----------------------------------------------------------------------------
(* Receive and Ask, up to the park *)

\* the locals of a worker that receives for flow g
Receives(r, g) ==
  /\ Sound(r) /\ HeldOnce(r) /\ Hand(r) = {g} /\ r.pc \in {"park", "admit"}
  /\ \A index : Waits(r, index)

\* The locals of a worker that receives: before the park, and after a pop.
LEMMA ReceiveRecords ==
  ASSUME NEW g \in Flow, NEW filter, ~AskFilter(filter), NEW timed, NEW pc \in {"park", "admit"},
         NEW r, r = Rec(pc, g, NoFlow, NoFlow, No, NoHop, filter, timed, 0, << >>, {})
  PROVE  Receives(r, g)
<1>1. g # NoFlow /\ g \in MaybeFlow /\ NoFlow \in MaybeFlow
  BY MessagingAssumption DEF MaybeFlow
<1>2. /\ pc \in Pcs /\ pc # "fin" /\ pc \notin OnFlow /\ pc \notin OnTarget /\ pc \notin Alone
      /\ pc \notin Helping /\ ~No
  BY DEF Pcs, OnFlow, OnTarget, Alone, Helping, No
<1>3. /\ Sound(r) /\ HeldOnce(r)
      /\ Hand(r) = (IF g = NoFlow THEN {} ELSE {g}) \cup (IF pc \in Helping THEN {NoFlow} ELSE {})
  BY <1>1, <1>2, PlainRec, ZeroEpoch, SMTT(30)
<1>4. r.pc = pc /\ r.filter = filter
  BY DEF Rec
<1>5. \A index : Waits(r, index)
  BY <1>4 DEF Waits
<1> QED
  BY <1>1, <1>2, <1>3, <1>4, <1>5 DEF Receives

\* VmResult::Receive: the first look at the queue.
LEMMA ReceiveStep ==
  ASSUME IInv, NEW w \in Worker, NEW filter \in Filters, NEW timed, Receive(w, filter, timed)
  PROVE  IInv'
<1>0. Types
  BY DEF IInv
<1>1. PICK op : Issue(w, op)
  BY DEF Receive
<1>2. PICK g : g = th[w].cur
  OBVIOUS
<1>3. /\ w \in Thread /\ th[w].pc = "run" /\ g \in Flow /\ Hand(th[w]) = {g} /\ th[w].orphans = {}
      /\ issued' \in [Flow -> 0..MaxOps]
  BY <1>1, <1>2, IssueTables
<1>4. PICK p : p = TryPop(mb[g], filter)
  OBVIOUS
<1>5. PICK r : r = IF p.hop = NoHop
                   THEN [Running(g) EXCEPT !.pc = "park", !.filter = filter, !.timed = timed]
                   ELSE [Running(g) EXCEPT !.pc = "admit"]
  OBVIOUS
<1>6. /\ Goto(w, r) /\ mb' = [mb EXCEPT ![g] = p.mb]
      /\ UNCHANGED <<runq, asleep, live, kill, waitAt, askWait, timers, toKill>>
  BY <1>2, <1>4, <1>5 DEF Receive
<1>7. /\ Sound(r) /\ HeldOnce(r) /\ Hand(r) = {g} /\ r.pc \in {"park", "admit"}
      /\ \A index : Waits(r, index)
  <2>1. g # NoFlow /\ g \in MaybeFlow
    BY <1>3, MessagingAssumption DEF MaybeFlow
  <2>2. PICK q : q = Running(g)
    OBVIOUS
  <2>3. q = Rec("run", g, NoFlow, NoFlow, No, NoHop, AnyHop, No, 0, << >>, {})
    BY <2>1, <2>2, RunningFacts
  <2>4. ~AskFilter(filter) /\ ~AskFilter(AnyHop)
    BY MessagingAssumption DEF AskFilter, AnyHop
  <2>5. CASE p.hop = NoHop
    <3>1. r = [q EXCEPT !.pc = "park", !.filter = filter, !.timed = timed]
      BY <1>5, <2>2, <2>5
    <3>2. r = Rec("park", g, NoFlow, NoFlow, No, NoHop, filter, timed, 0, << >>, {})
      BY <2>3, <3>1 DEF Rec
    <3>3. PICK pc : pc = "park"
      OBVIOUS
    <3>4. pc \in {"park", "admit"} /\ ~AskFilter(filter)
          /\ r = Rec(pc, g, NoFlow, NoFlow, No, NoHop, filter, timed, 0, << >>, {})
      BY <2>4, <3>2, <3>3
    <3>5. Receives(r, g)
      BY <1>3, <3>4, ReceiveRecords
    <3> QED
      BY <3>5 DEF Receives
  <2>6. CASE p.hop # NoHop
    <3>1. r = [q EXCEPT !.pc = "admit"]
      BY <1>5, <2>2, <2>6
    <3>2. r = Rec("admit", g, NoFlow, NoFlow, No, NoHop, AnyHop, No, 0, << >>, {})
      BY <2>3, <3>1 DEF Rec
    <3>3. PICK pc : pc = "admit"
      OBVIOUS
    <3>4. pc \in {"park", "admit"} /\ ~AskFilter(AnyHop)
          /\ r = Rec(pc, g, NoFlow, NoFlow, No, NoHop, AnyHop, No, 0, << >>, {})
      BY <2>4, <3>2, <3>3
    <3>5. Receives(r, g)
      BY <1>3, <3>4, ReceiveRecords
    <3> QED
      BY <3>5 DEF Receives
  <2> QED
    BY <2>5, <2>6
<1>8. Box(mb[g])
  BY <1>3, BoxOf
<1>9. Touch(w, r, g, p.mb) /\ Kept(p.mb, mb[g])
  BY <1>4, <1>6, <1>8, TryPopFacts DEF Touch, Goto
<1>10. Tables'
  BY <1>0, <1>3, <1>6 DEF Types, Tables
<1>11. /\ Waits(r, askWait) /\ r.pc # "park_send" /\ r.pc \notin Closing /\ Hand(r) = Hand(th[w])
       /\ th[w].pc # "park_send" /\ th[w].pc \notin Pending
  BY <1>3, <1>7 DEF Closing, Pending
<1>12. /\ runq' = runq /\ asleep' = asleep /\ live' = live /\ waitAt' = waitAt /\ askWait' = askWait
  BY <1>6
<1> QED
  BY <1>3, <1>7, <1>9, <1>10, <1>11, <1>12, QuietStep

\* VmResult::Ask after the delivery: the reply may already be here.
LEMMA AskPopStep ==
  ASSUME IInv, NEW w \in Worker, AskPop(w)
  PROVE  IInv'
<1>0. Types
  BY DEF IInv
<1>1. PICK l : l = th[w]
  OBVIOUS
<1>2. /\ w \in Thread /\ Sound(l) /\ HeldOnce(l) /\ Waits(l, askWait) /\ l.pc = "ask_pop"
      /\ th[w].pc \notin Closing \cup {"fin"} /\ th[w].pc \notin Helping
      /\ th[w].pc # "park_send" /\ th[w].pc \notin Pending
  BY <1>1, ThreadOf DEF Thread, AskPop, Closing, Helping, Pending
<1>3. PICK c, to, ask, hop, filter, timed, e :
        /\ c = l.cur /\ to = l.to /\ ask = l.ask /\ hop = l.hop /\ filter = l.filter
        /\ timed = l.timed /\ e = l.epoch
  OBVIOUS
<1>4. c \in Flow /\ to \in Flow /\ c \in MaybeFlow /\ to \in MaybeFlow /\ NoFlow \in MaybeFlow
  BY <1>2, <1>3 DEF Sound, Driving, OnTarget, MaybeFlow
<1>41. c # NoFlow
  BY <1>4, MessagingAssumption
<1>5. Hand(th[w]) = {c} /\ th[w].orphans = {} /\ th[w].work = << >>
  BY <1>1, <1>2, <1>3, <1>41, HandOf
<1>6. PICK p : p = TryPop(mb[c], filter)
  OBVIOUS
<1>7. PICK r : r = IF p.hop = NoHop THEN [l EXCEPT !.pc = "ask_insert", !.f = c, !.cur = NoFlow]
                   ELSE Running(c)
  OBVIOUS
<1>8. /\ Goto(w, r) /\ mb' = [mb EXCEPT ![c] = p.mb]
      /\ UNCHANGED <<runq, asleep, live, kill, waitAt, askWait, timers, issued, toKill>>
  BY <1>1, <1>3, <1>6, <1>7 DEF AskPop
<1>9. /\ Sound(r) /\ HeldOnce(r) /\ Hand(r) = {c} /\ r.pc \in {"idle", "run", "ask_insert"}
      /\ \A index : Waits(r, index)
  <2>1. CASE p.hop = NoHop
    <3>0. PICK f : f = l.f
      OBVIOUS
    <3>1. l = Rec("ask_pop", c, f, to, ask, hop, filter, timed, e, << >>, {})
      BY <1>1, <1>2, <1>3, <1>5, <3>0 DEF Sound, IsRec
    <3>2. PICK k : k = [l EXCEPT !.pc = "ask_insert", !.f = c, !.cur = NoFlow]
      OBVIOUS
    <3>3. k = Rec("ask_insert", NoFlow, c, to, ask, hop, filter, timed, e, << >>, {})
      BY <3>1, <3>2 DEF Rec
    <3>4. /\ "ask_insert" \in Pcs /\ "ask_insert" # "fin" /\ "ask_insert" \notin Driving
          /\ "ask_insert" \notin Alone /\ "ask_insert" \notin Checking /\ "ask_insert" \in Helping
      BY DEF Pcs, Driving, Alone, Checking, Helping
    <3>5. e \in Epoch
      BY <1>2, <1>3 DEF Sound
    <3>6. /\ Sound(k) /\ HeldOnce(k)
          /\ Hand(k) = (IF NoFlow = NoFlow THEN {} ELSE {NoFlow})
                       \cup (IF "ask_insert" \in Helping THEN {c} ELSE {})
      BY <1>4, <1>41, <3>3, <3>4, <3>5, PlainRec, SMTT(30)
    <3>7. k.pc = "ask_insert" /\ k.ask = ask /\ k.filter = filter /\ k.to = to
      BY <3>3 DEF Rec
    <3>8. ask /\ filter.kind = "Correlation" /\ filter.from = to
      BY <1>2, <1>3 DEF Waits
    <3>9. \A index : Waits(k, index)
      BY <3>7, <3>8 DEF Waits
    <3>10. r = k
      BY <1>7, <2>1, <3>2
    <3> QED
      BY <3>4, <3>6, <3>7, <3>9, <3>10
  <2>2. CASE p.hop # NoHop
    <3>1. r = Running(c)
      BY <1>7, <2>2
    <3> QED
      BY <1>4, <3>1, DriveRecords, RunningFacts DEF Drives
  <2> QED
    BY <2>1, <2>2
<1>10. Box(mb[c])
  BY <1>4, BoxOf
<1>11. Touch(w, r, c, p.mb) /\ Kept(p.mb, mb[c])
  BY <1>6, <1>8, <1>10, TryPopFacts DEF Touch, Goto
<1>12. Tables'
  BY <1>0, <1>8 DEF Types, Tables
<1>13. /\ Waits(r, askWait) /\ r.pc # "park_send" /\ r.pc \notin Closing /\ Hand(r) = Hand(th[w])
  BY <1>5, <1>9 DEF Closing
<1>14. /\ runq' = runq /\ asleep' = asleep /\ live' = live /\ waitAt' = waitAt /\ askWait' = askWait
  BY <1>8
<1> QED
  BY <1>2, <1>4, <1>5, <1>9, <1>11, <1>12, <1>13, <1>14, QuietStep

\* The locals of a receiver's worker that parks an asker it has admitted.
LEMMA AdmittedRecord ==
  ASSUME NEW g \in Flow, NEW f \in Flow, f # g, NEW fl, fl.kind = "Correlation", fl.from = g,
         NEW timed, NEW r, r = Rec("ask_insert", g, f, g, Yes, NoHop, fl, timed, 0, << >>, {})
  PROVE  /\ Sound(r) /\ HeldOnce(r) /\ Hand(r) = {g} \cup {f} /\ r.pc = "ask_insert"
         /\ \A index : Waits(r, index)
<1>1. g # NoFlow /\ g \in MaybeFlow /\ f \in MaybeFlow
  BY MessagingAssumption DEF MaybeFlow
<1>2. /\ "ask_insert" \in Pcs /\ "ask_insert" # "fin" /\ "ask_insert" \notin Driving
      /\ "ask_insert" \notin Alone /\ "ask_insert" \notin Checking /\ "ask_insert" \in Helping
  BY DEF Pcs, Driving, Alone, Checking, Helping
<1>3. /\ Sound(r) /\ HeldOnce(r)
      /\ Hand(r) = (IF g = NoFlow THEN {} ELSE {g}) \cup (IF "ask_insert" \in Helping THEN {f} ELSE {})
  BY <1>1, <1>2, PlainRec, ZeroEpoch, SMTT(30)
<1>4. r.pc = "ask_insert" /\ r.ask = Yes /\ r.filter = fl /\ r.to = g
  BY DEF Rec
<1>5. \A index : Waits(r, index)
  BY <1>4 DEF Waits, Yes
<1> QED
  BY <1>1, <1>2, <1>3, <1>4, <1>5

\* admit_waiting_on: one sender per pop, which leaves the list and the index.
LEMMA AdmitStep ==
  ASSUME IInv, NEW w \in Worker, Admit(w)
  PROVE  IInv'
<1>0. Types /\ OnePlace /\ Indexed
  BY DEF IInv
<1>1. PICK g : g = th[w].cur
  OBVIOUS
<1>2. /\ w \in Thread /\ Sound(th[w]) /\ th[w].pc = "admit"
      /\ th[w].pc \notin Closing \cup {"fin"} /\ th[w].pc \notin Helping
      /\ th[w].pc # "park_send" /\ th[w].pc \notin Pending
  BY ThreadOf DEF Thread, Admit, Closing, Helping, Pending
<1>3. g \in Flow /\ g # NoFlow /\ g \in MaybeFlow
  BY <1>1, <1>2, MessagingAssumption DEF Sound, Driving, MaybeFlow
<1>4. Hand(th[w]) = {g} /\ th[w].orphans = {} /\ g \in Hand(th[w])
  BY <1>1, <1>2, <1>3, HandOf
<1>5. PICK p, s : p = AdmitWaitingSender(mb[g]) /\ s = Head(mb[g].waiting)
  OBVIOUS
<1>7. PICK q : q = Running(g)
  OBVIOUS
<1>8. PICK r : r = IF p.out = "Woken" /\ s.ask
                   THEN [q EXCEPT !.pc = "ask_insert", !.f = s.flow, !.to = g, !.ask = Yes,
                                  !.filter = Correlation(s.hop.rid, g), !.timed = s.timed]
                   ELSE q
  OBVIOUS
<1>9. /\ Goto(w, r) /\ mb' = [mb EXCEPT ![g] = p.mb]
      /\ waitAt' = IF p.out = "Woken" THEN [waitAt EXCEPT ![s.flow] = NoFlow] ELSE waitAt
      /\ runq' = IF p.out = "Woken" /\ ~s.ask THEN runq \cup {s.flow} ELSE runq
      /\ UNCHANGED <<asleep, live, kill, askWait, timers, issued, toKill>>
  BY <1>1, <1>5, <1>7, <1>8 DEF Admit, Yes
<1>10. PICK m : m = p.mb
  OBVIOUS
<1>11. Touch(w, r, g, m)
  BY <1>9, <1>10 DEF Touch, Goto
<1>12. Box(mb[g]) /\ Distinct(mb[g].waiting) /\ Kept(mb[g], mb[g]) /\ Flows(mb[g].waiting) \subseteq Flow
  BY <1>3, BoxOf
<1>13. q = Rec("run", g, NoFlow, NoFlow, No, NoHop, AnyHop, No, 0, << >>, {}) /\ Drives(q, g)
  <2>1. q = Rec("run", g, NoFlow, NoFlow, No, NoHop, AnyHop, No, 0, << >>, {})
    BY <1>3, <1>7, RunningFacts
  <2>2. Drives(q, g)
    BY <1>3, <1>7, DriveRecords
  <2> QED
    BY <2>1, <2>2
<1>14. CASE p.out = "Idle" /\ p.mb = mb[g]
  <2>1. r = q /\ waitAt' = waitAt /\ runq' = runq /\ Kept(m, mb[g])
    BY <1>8, <1>9, <1>10, <1>12, <1>14
  <2>2. /\ Sound(r) /\ HeldOnce(r) /\ Hand(r) = Hand(th[w]) /\ Waits(r, askWait)
        /\ r.pc # "park_send" /\ r.pc \notin Closing
    BY <1>4, <1>13, <2>1 DEF Drives, Closing
  <2>3. Tables'
    BY <1>0, <1>9, <2>1 DEF Types, Tables
  <2>4. asleep' = asleep /\ live' = live /\ askWait' = askWait
    BY <1>9
  <2> QED
    BY <1>2, <1>3, <1>4, <1>11, <2>1, <2>2, <2>3, <2>4, QuietStep
<1>15. CASE /\ p.out = "Woken" /\ Listed(p.mb, mb[g]) /\ Distinct(p.mb.waiting)
            /\ s.flow \in Flows(mb[g].waiting)
            /\ Flows(p.mb.waiting) = Flows(mb[g].waiting) \ {s.flow}
  <2>1. PICK f : f = s.flow
    OBVIOUS
  <2>2. /\ f \in Flows(mb[g].waiting) /\ Flows(m.waiting) = Flows(mb[g].waiting) \ {f}
        /\ Distinct(m.waiting) /\ Box(m) /\ m.parked = mb[g].parked /\ m.closed = mb[g].closed
        /\ (m.parked => mb[g].parked /\ m.filter = mb[g].filter)
    BY <1>10, <1>15, <2>1 DEF Listed
  <2>3. /\ waitAt' = [waitAt EXCEPT ![f] = NoFlow]
        /\ runq' = IF ~s.ask THEN runq \cup {f} ELSE runq
    BY <1>9, <1>15, <2>1
  <2>4. f \in Flow /\ f # g
    BY <1>0, <1>2, <1>3, <1>4, <1>12, <2>2, InHandOnly
  <2>5. Tables'
    <3>1. waitAt' \in [Flow -> MaybeFlow]
      BY <1>0, <2>3 DEF Types, Tables, MaybeFlow
    <3>2. runq' \subseteq Flow
      BY <1>0, <2>3, <2>4 DEF Types, Tables
    <3> QED
      BY <1>0, <1>9, <3>1, <3>2 DEF Types, Tables
  <2>6. ASSUME OnePlace', Sound(r), Waits(r, askWait), r.pc \in {"idle", "run", "ask_insert",
               "ask_pop", "fin", "index"}
        PROVE  IInv'
    <3>1. r.pc # "park_send" /\ r.pc \notin Closing
      BY <2>6 DEF Closing
    <3>2. live' = live /\ askWait' = askWait
      BY <1>9
    <3>3. Indexed'
      BY <1>0, <1>2, <1>3, <1>11, <2>2, <2>3, <3>1, <3>2, IndexedTake
    <3> QED
      BY <1>2, <1>3, <1>11, <2>2, <2>5, <2>6, <3>2, <3>3, IndexStep
  <2>7. CASE s.ask
    <3>1. PICK fl, timed : fl = Correlation(s.hop.rid, g) /\ timed = s.timed
      OBVIOUS
    <3>2. fl.kind = "Correlation" /\ fl.from = g
      BY <3>1 DEF Correlation
    <3>3. r = [q EXCEPT !.pc = "ask_insert", !.f = f, !.to = g, !.ask = Yes, !.filter = fl,
                        !.timed = timed]
      BY <1>8, <1>15, <2>1, <2>7, <3>1
    <3>4. r = Rec("ask_insert", g, f, g, Yes, NoHop, fl, timed, 0, << >>, {})
      BY <1>13, <3>3 DEF Rec
    <3>5. /\ Sound(r) /\ HeldOnce(r) /\ Hand(r) = {g} \cup {f} /\ r.pc = "ask_insert"
          /\ \A index : Waits(r, index)
      BY <1>3, <2>4, <3>2, <3>4, AdmittedRecord, SMTT(30)
    <3>6. Hand(r) = Hand(th[w]) \cup {f} /\ runq' = runq /\ asleep' = asleep /\ live' = live
      BY <1>4, <1>9, <2>3, <2>7, <3>5
    <3>7. OnePlace'
      BY <1>0, <1>2, <1>3, <1>11, <2>2, <3>5, <3>6, WaitToHand
    <3> QED
      BY <2>6, <3>5, <3>7
  <2>8. CASE ~s.ask
    <3>1. r = q
      BY <1>8, <2>8
    <3>2. /\ Sound(r) /\ HeldOnce(r) /\ Hand(r) = Hand(th[w]) /\ Waits(r, askWait)
          /\ r.pc \in {"idle", "run", "ask_pop", "fin", "index"}
      BY <1>4, <1>13, <3>1 DEF Drives
    <3>3. runq' = runq \cup {f} /\ asleep' = asleep /\ live' = live
      BY <1>9, <2>3, <2>8
    <3>4. OnePlace'
      BY <1>0, <1>2, <1>3, <1>11, <2>2, <3>2, <3>3, WaitToRun
    <3> QED
      BY <2>6, <3>2, <3>4
  <2> QED
    BY <2>7, <2>8
<1> QED
  <2>1. \/ p.out = "Idle" /\ p.mb = mb[g]
        \/ LET x == Head(mb[g].waiting)
           IN  /\ p.out = "Woken" /\ Listed(p.mb, mb[g]) /\ Distinct(p.mb.waiting)
               /\ x.flow \in Flows(mb[g].waiting)
               /\ Flows(p.mb.waiting) = Flows(mb[g].waiting) \ {x.flow}
    BY <1>5, <1>12, AdmitFacts
  <2> QED
    BY <1>5, <1>14, <1>15, <2>1
=============================================================================
