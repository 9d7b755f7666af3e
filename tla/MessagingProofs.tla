-------------------------- MODULE MessagingProofs ---------------------------
(***************************************************************************)
(* The steps of Messaging that keep IInv, second part: parking a receiver, *)
(* taking a parked flow out of its inbox, and finalize_flow; and what      *)
(* follows for every behaviour: a box is in one place, and the indexes of  *)
(* senders and of Asks name every flow that waits.                         *)
(***************************************************************************)
EXTENDS MessagingSteps

\* a leaf is left to Zenon unless it names SMT
USE ZenonT(40)

-----------------------------------------------------------------------------
(* The index of Asks, and the park *)

\* park_ask, first section: AskWaitIndex::insert
LEMMA AskInsertStep ==
  ASSUME IInv, NEW w \in Worker, AskInsert(w)
  PROVE  IInv'
<1>0. Types /\ OnePlace /\ Indexed /\ Asks
  BY DEF IInv
<1>1. PICK l : l = th[w]
  OBVIOUS
<1>2. /\ w \in Thread /\ Sound(l) /\ HeldOnce(l) /\ Waits(l, askWait) /\ l.pc = "ask_insert"
      /\ th[w].pc \notin Closing \cup {"fin"} /\ th[w].pc \in Helping
      /\ th[w].pc # "park_send" /\ th[w].pc \notin Pending
  BY <1>1, ThreadOf DEF Thread, AskInsert, Closing, Helping, Pending
<1>3. PICK c, f, to : c = l.cur /\ f = l.f /\ to = l.to
  OBVIOUS
<1>4. f \in Flow /\ to \in Flow /\ c \in MaybeFlow /\ c # f
  BY <1>1, <1>2, <1>3 DEF Sound, OnFlow, OnTarget, HeldOnce
<1>5. Hand(th[w]) = ({c} \ {NoFlow}) \cup {f} /\ th[w].orphans = {}
  BY <1>1, <1>2, <1>3, HandOf
<1>6. PICK no : no = (\/ askWait[f] # NoFlow
                      \/ MaxAsks # 0 /\ Cardinality({g \in Flow : askWait[g] # NoFlow}) >= MaxAsks)
  OBVIOUS
<1>7. PICK r : r = IF no THEN Finalizing(c, f) ELSE [l EXCEPT !.pc = "ask_park"]
  OBVIOUS
<1>8. /\ Goto(w, r) /\ askWait' = IF no THEN askWait ELSE [askWait EXCEPT ![f] = to]
      /\ UNCHANGED <<mb, runq, asleep, live, kill, waitAt, timers, issued, toKill>>
  BY <1>1, <1>3, <1>6, <1>7 DEF AskInsert
<1>9. CASE no
  <2>1. r = Finalizing(c, f) /\ askWait' = askWait
    BY <1>7, <1>8, <1>9
  <2>2. Sound(r) /\ HeldOnce(r) /\ Hand(r) = ({c} \ {NoFlow}) \cup {f} /\ r.pc = "fin"
    BY <1>4, <2>1, FinalizingFacts
  <2>3. /\ Hand(r) = Hand(th[w]) /\ Waits(r, askWait) /\ r.pc \notin Closing \cup {"park_send"}
        /\ th[w].pc \notin Closing \cup {"fin", "park_send"}
    BY <1>2, <1>5, <2>2 DEF Waits, Closing
  <2>4. /\ kill' \subseteq Flow /\ toKill' \subseteq Killable
        /\ \A d \in timers' : d \in [flow : Flow, epoch : Epoch]
        /\ UNCHANGED <<mb, runq, asleep, live, waitAt, askWait, issued>>
    BY <1>0, <1>8, <2>1 DEF Types, Tables
  <2> QED
    BY <1>2, <1>4, <1>8, <2>2, <2>3, <2>4, LocalStep
<1>10. CASE ~no
  <2>1. r = [l EXCEPT !.pc = "ask_park"] /\ askWait' = [askWait EXCEPT ![f] = to]
    BY <1>7, <1>8, <1>10
  <2>2. /\ Sound(r) /\ HeldOnce(r) /\ Hand(r) = Hand(l) /\ r.pc = "ask_park" /\ r.f = l.f
        /\ r.to = l.to /\ r.ask = l.ask /\ r.filter = l.filter
    <3>1. /\ "ask_park" \in Pcs /\ "ask_park" \notin Closing \cup {"fin"}
          /\ "ask_park" \notin Checking /\ "ask_park" \notin Alone /\ "ask_park" \in Helping
          /\ "ask_park" \notin Driving /\ l.pc \in Helping /\ l.pc \notin Closing \cup {"fin"}
      BY <1>2 DEF Pcs, Closing, Checking, Alone, Helping, Driving
    <3>2. l.f \in Flow /\ l.to \in Flow
      BY <1>3, <1>4
    <3> QED
      BY <1>2, <2>1, <3>1, <3>2, PcFacts, SMTT(30)
  <2>3. PICK m : m = mb[f]
    OBVIOUS
  <2>4. /\ Touch(w, r, f, m) /\ Box(m) /\ Distinct(m.waiting)
        /\ m.parked = mb[f].parked /\ Flows(m.waiting) = Flows(mb[f].waiting)
        /\ m.closed = mb[f].closed
    BY <1>0, <1>2, <1>4, <1>8, <2>3, TouchThread, BoxOf
  <2>5. /\ Hand(r) = Hand(th[w]) /\ f \in Hand(th[w]) /\ live' = live /\ runq' = runq
        /\ asleep' = asleep /\ waitAt' = waitAt /\ mb' = mb
        /\ r.pc # "park_send" /\ r.pc \notin Closing
    BY <1>1, <1>5, <1>8, <2>2 DEF Closing
  <2>6. OnePlace'
    BY <1>0, <1>2, <1>4, <2>2, <2>4, <2>5, Calm
  <2>7. Indexed'
    BY <1>0, <1>2, <1>4, <2>4, <2>5, IndexedKeep
  <2>8. Tables'
    <3>1. askWait' \in [Flow -> MaybeFlow]
      BY <1>0, <1>4, <2>1 DEF Types, Tables, MaybeFlow
    <3> QED
      BY <1>0, <1>8, <3>1 DEF Types, Tables
  <2>9. Types'
    BY <1>0, <1>2, <1>4, <2>2, <2>4, <2>8, TypesStep
  <2>10. Waits(r, askWait')
    <3>1. l.ask /\ l.filter.kind = "Correlation" /\ l.filter.from = l.to
      BY <1>2 DEF Waits
    <3>2. askWait'[f] = to
      BY <1>0, <1>4, <2>1 DEF Types, Tables
    <3> QED
      BY <1>3, <2>2, <3>1, <3>2 DEF Waits
  <2>11. Asks'
    BY <1>0, <1>2, <1>4, <1>5, <1>8, <2>1, <2>5, <2>10, AsksSet
  <2> QED
    BY <2>6, <2>7, <2>9, <2>11 DEF IInv
<1> QED
  BY <1>9, <1>10

\* The locals of a worker that has parked flow g and goes back to another one.
LEMMA ParkedRecord ==
  ASSUME NEW back \in MaybeFlow, NEW g \in Flow, NEW to \in MaybeFlow, NEW ask, ask => to \in Flow,
         NEW hop, NEW filter, NEW timed, NEW e \in Epoch,
         NEW r, r = Rec("kill_check", back, g, to, ask, hop, filter, timed, e, << >>, {})
  PROVE  /\ Sound(r) /\ HeldOnce(r) /\ Hand(r) = {back} \ {NoFlow} /\ r.pc = "kill_check"
         /\ r.f = g /\ r.ask = ask
<1>1. /\ "kill_check" \in Pcs /\ "kill_check" # "fin" /\ "kill_check" \notin Driving
      /\ "kill_check" \notin Alone /\ "kill_check" \notin OnTarget /\ "kill_check" \notin Helping
      /\ g \in MaybeFlow
  BY DEF Pcs, Driving, Alone, OnTarget, Helping, MaybeFlow
<1>2. /\ Sound(r) /\ HeldOnce(r)
      /\ Hand(r) = (IF back = NoFlow THEN {} ELSE {back}) \cup (IF "kill_check" \in Helping THEN {g} ELSE {})
  BY <1>1, PlainRec, SMTT(30)
<1>3. r.pc = "kill_check" /\ r.f = g /\ r.ask = ask
  BY DEF Rec
<1> QED
  BY <1>1, <1>2, <1>3

\* park_filter for a flow in hand: it goes into its inbox, or a hop that raced ahead makes
\* it runnable.
LEMMA ParkOrResumeStep ==
  ASSUME IInv, NEW w \in Worker, th[w].pc \in {"park", "ask_park"}, NEW g \in Flow, NEW back \in MaybeFlow,
         g # back, Hand(th[w]) = ({back} \ {NoFlow}) \cup {g},
         th[w].pc = "ask_park" => g = th[w].f, ParkOrResume(w, g, back)
  PROVE  IInv'
<1>0. Types /\ OnePlace /\ Indexed /\ Asks
  BY DEF IInv
<1>1. PICK l : l = th[w]
  OBVIOUS
<1>2. /\ w \in Thread /\ Sound(l) /\ HeldOnce(l) /\ Waits(l, askWait)
      /\ th[w].pc \notin Closing \cup {"fin"} /\ l.pc \in {"park", "ask_park"}
      /\ th[w].pc # "park_send" /\ th[w].pc \notin Pending
  BY <1>1, ThreadOf DEF Thread, Closing, Pending
<1>3. th[w].orphans = {} /\ th[w].work = << >>
  BY <1>2, HandOf
<1>4. PICK pc, c, f, to, ask, hop, filter, timed, e :
        /\ pc = l.pc /\ c = l.cur /\ f = l.f /\ to = l.to /\ ask = l.ask /\ hop = l.hop
        /\ filter = l.filter /\ timed = l.timed /\ e = l.epoch
  OBVIOUS
<1>5. PICK p : p = ParkFilter(mb[g], filter)
  OBVIOUS
<1>6. PICK m, e2 : m = p.mb /\ e2 = p.mb.epoch
  OBVIOUS
<1>7. PICK r : r = IF p.hop = NoHop
                   THEN [l EXCEPT !.pc = "kill_check", !.f = g, !.cur = back, !.epoch = e2]
                   ELSE Running(back)
  OBVIOUS
<1>8. /\ Goto(w, r) /\ mb' = [mb EXCEPT ![g] = m]
      /\ runq' = IF p.hop = NoHop THEN runq ELSE runq \cup {g}
      /\ askWait' = IF p.hop # NoHop /\ ask THEN [askWait EXCEPT ![g] = NoFlow] ELSE askWait
      /\ UNCHANGED <<asleep, live, kill, waitAt, timers, issued, toKill>>
  BY <1>1, <1>4, <1>5, <1>6, <1>7 DEF ParkOrResume
<1>9. Touch(w, r, g, m)
  BY <1>8 DEF Touch, Goto
<1>10. Box(mb[g]) /\ Distinct(mb[g].waiting)
  BY BoxOf
<1>11. g \in Hand(th[w]) /\ ~mb[g].parked /\ Hand(th[w]) \ {g} = {back} \ {NoFlow}
  <2>1. g \in Hand(th[w]) /\ Hand(th[w]) \ {g} = {back} \ {NoFlow}
    OBVIOUS
  <2> QED
    BY <1>0, <1>2, <2>1, InHandOnly DEF Parked
<1>12. /\ p.hop # NoHop => Kept(m, mb[g])
       /\ p.hop = NoHop => /\ Box(m) /\ m.parked /\ m.filter = filter
                           /\ m.waiting = mb[g].waiting /\ m.closed = mb[g].closed
  <2>1. PICK x : x = mb[g]
    OBVIOUS
  <2>2. Box(x) /\ p = ParkFilter(x, filter)
    BY <1>5, <1>10, <2>1
  <2>3. /\ p.hop # NoHop => Kept(p.mb, x)
        /\ p.hop = NoHop => /\ Box(p.mb) /\ p.mb.parked /\ p.mb.filter = filter
                            /\ p.mb.waiting = x.waiting /\ p.mb.closed = x.closed
    BY <2>2, ParkFilterFacts, SMTT(30)
  <2> QED
    BY <1>6, <2>1, <2>3
<1>13. CASE p.hop = NoHop
  <2>1. /\ Box(m) /\ m.parked /\ m.filter = filter /\ m.waiting = mb[g].waiting
        /\ m.closed = mb[g].closed /\ Flows(m.waiting) = Flows(mb[g].waiting) /\ Distinct(m.waiting)
    BY <1>10, <1>12, <1>13
  <2>2. /\ runq' = runq /\ askWait' = askWait /\ asleep' = asleep /\ live' = live /\ waitAt' = waitAt
    BY <1>8, <1>13
  <2>3. e2 \in Epoch
    BY <1>6, <2>1 DEF Box, Epoch
  <2>4. l = Rec(pc, c, f, to, ask, hop, filter, timed, e, << >>, {})
    BY <1>1, <1>2, <1>3, <1>4 DEF Sound, IsRec
  <2>5. r = [l EXCEPT !.pc = "kill_check", !.f = g, !.cur = back, !.epoch = e2]
    BY <1>7, <1>13
  <2>6. r = Rec("kill_check", back, g, to, ask, hop, filter, timed, e2, << >>, {})
    BY <2>4, <2>5 DEF Rec
  <2>7. to \in MaybeFlow /\ (ask => to \in Flow)
    BY <1>2, <1>4 DEF Sound, Checking, OnTarget
  <2>8. /\ Sound(r) /\ HeldOnce(r) /\ Hand(r) = {back} \ {NoFlow} /\ r.pc = "kill_check"
        /\ r.f = g /\ r.ask = ask
    BY <2>3, <2>6, <2>7, ParkedRecord, SMTT(30)
  <2>9. Hand(r) = Hand(th[w]) \ {g}
    BY <1>11, <2>8
  <2>10. OnePlace'
    BY <1>0, <1>2, <1>9, <1>11, <2>1, <2>2, <2>8, <2>9, HandToInbox
  <2>11. r.pc # "park_send" /\ r.pc \notin Closing
    BY <2>8 DEF Closing
  <2>12. Indexed'
    BY <1>0, <1>2, <1>9, <2>1, <2>2, <2>11, IndexedKeep
  <2>13. Tables'
    BY <1>0, <1>8, <2>2 DEF Types, Tables
  <2>14. Types'
    BY <1>0, <1>2, <1>9, <2>1, <2>8, <2>13, TypesStep
  <2>15. AskFilter(m.filter) => r.ask /\ askWait[g] \in {m.filter.from, NoFlow}
    <3>1. SUFFICES ASSUME AskFilter(filter)
                   PROVE  ask /\ askWait[g] \in {filter.from, NoFlow}
      BY <2>1, <2>8
    <3>2. l.pc = "ask_park"
      BY <1>2, <1>4, <3>1 DEF Waits
    <3>3. ask /\ filter.from = to /\ askWait[f] \in {to, NoFlow}
      BY <1>2, <1>4, <3>2 DEF Waits
    <3>4. g = f
      BY <1>1, <1>4, <3>2
    <3> QED
      BY <3>3, <3>4
  <2>16. Asks'
    BY <1>0, <1>2, <1>3, <1>9, <2>2, <2>8, <2>15, AsksPark
  <2> QED
    BY <2>10, <2>12, <2>14, <2>16 DEF IInv
<1>14. CASE p.hop # NoHop
  <2>1. /\ Box(m) /\ m.parked = mb[g].parked /\ m.closed = mb[g].closed /\ m.waiting = mb[g].waiting
        /\ ~m.parked
    BY <1>11, <1>12, <1>14 DEF Kept
  <2>2. Flows(m.waiting) = Flows(mb[g].waiting) /\ Distinct(m.waiting)
    BY <1>10, <2>1
  <2>3. r = Running(back) /\ runq' = runq \cup {g} /\ asleep' = asleep /\ live' = live /\ waitAt' = waitAt
    BY <1>7, <1>8, <1>14
  <2>4. Sound(r) /\ HeldOnce(r) /\ Hand(r) = {back} \ {NoFlow} /\ r.pc \in {"idle", "run"}
    BY <2>3, RunningFacts
  <2>5. Hand(r) = Hand(th[w]) \ {g}
    BY <1>11, <2>4
  <2>6. OnePlace'
    <3>1. /\ Touch(w, r, g, m) /\ HeldOnce(r) /\ Distinct(m.waiting) /\ g \in Hand(th[w])
          /\ m.parked = mb[g].parked /\ Flows(m.waiting) = Flows(mb[g].waiting)
          /\ Hand(r) = Hand(th[w]) \ {g}
      BY <1>9, <1>11, <2>1, <2>2, <2>4, <2>5
    <3>2. live' = live /\ runq' = runq \cup {g} /\ asleep' = asleep /\ w \in Thread /\ g \in Flow
      BY <1>2, <1>9, <2>3
    <3> QED
      BY <1>0, <3>1, <3>2, HandToRun
  <2>7. askWait' = [askWait EXCEPT ![g] = NoFlow] \/ askWait' = askWait
    BY <1>8
  <2>8. mb'[g] = m
    BY <1>0, <1>2, <1>9, Touched, SMTT(30)
  <2>9. \A a \in Flow : askWait'[a] = askWait[a] \/ (askWait'[a] = NoFlow /\ ~mb'[a].parked)
    <3>1. askWait \in [Flow -> MaybeFlow]
      BY <1>0 DEF Types, Tables
    <3>2. CASE askWait' = [askWait EXCEPT ![g] = NoFlow]
      BY <2>1, <2>8, <3>1, <3>2
    <3>3. CASE askWait' = askWait
      BY <3>3
    <3> QED
      BY <2>7, <3>2, <3>3
  <2>10. Tables'
    <3>1. askWait' \in [Flow -> MaybeFlow]
      BY <1>0, <2>7 DEF Types, Tables, MaybeFlow
    <3>2. runq' \subseteq Flow
      BY <1>0, <2>3 DEF Types, Tables
    <3> QED
      BY <1>0, <1>8, <3>1, <3>2 DEF Types, Tables
  <2>11. /\ Waits(r, askWait') /\ r.pc # "park_send" /\ r.pc \notin Closing
    BY <2>4 DEF Waits, Closing
  <2> QED
    BY <1>2, <1>3, <1>9, <2>1, <2>2, <2>3, <2>4, <2>6, <2>9, <2>10, <2>11, FrameStep
<1> QED
  BY <1>13, <1>14

\* park_on_mailbox, and park_ask's second section
LEMMA ParkStep ==
  ASSUME IInv, NEW w \in Worker, Park(w) \/ AskPark(w)
  PROVE  IInv'
<1>1. w \in Thread /\ Sound(th[w]) /\ HeldOnce(th[w]) /\ th[w].pc \in {"park", "ask_park"}
  BY ThreadOf DEF Thread, Park, AskPark
<1>2. th[w].pc \notin Closing \cup {"fin"}
  BY <1>1 DEF Closing
<1>3. CASE Park(w)
  <2>1. th[w].pc = "park" /\ ParkOrResume(w, th[w].cur, NoFlow)
    BY <1>3 DEF Park
  <2>2. th[w].cur \in Flow /\ NoFlow \in MaybeFlow /\ th[w].pc \notin Helping
    BY <1>1, <2>1 DEF Sound, Driving, MaybeFlow, Helping
  <2>3. th[w].cur # NoFlow
    BY <2>2, MessagingAssumption
  <2>4. Hand(th[w]) = ({NoFlow} \ {NoFlow}) \cup {th[w].cur}
    BY <1>1, <1>2, <2>2, <2>3, HandOf
  <2> QED
    BY <1>1, <2>1, <2>2, <2>3, <2>4, ParkOrResumeStep
<1>4. CASE AskPark(w)
  <2>1. th[w].pc = "ask_park" /\ ParkOrResume(w, th[w].f, th[w].cur)
    BY <1>4 DEF AskPark
  <2>2. th[w].f \in Flow /\ th[w].cur \in MaybeFlow /\ th[w].pc \in Helping /\ th[w].f # th[w].cur
    BY <1>1, <2>1 DEF Sound, OnFlow, Helping, HeldOnce
  <2>3. Hand(th[w]) = ({th[w].cur} \ {NoFlow}) \cup {th[w].f}
    BY <1>1, <1>2, <2>2, HandOf
  <2> QED
    BY <1>1, <2>1, <2>2, <2>3, ParkOrResumeStep
<1> QED
  BY <1>3, <1>4

-----------------------------------------------------------------------------
(* Taking a parked flow out of its inbox *)

\* The thread that finds the flow parked has it in hand.
LEMMA TakeToHand ==
  ASSUME IInv, NEW t \in Thread, NEW h \in Flow, NEW r, NEW m, Touch(t, r, h, m),
         Freed(m, mb[h]), mb[h].parked, Tables',
         runq' = runq, asleep' = asleep, live' = live, waitAt' = waitAt, askWait' = askWait,
         Sound(r), HeldOnce(r), Hand(r) = Hand(th[t]) \cup {h}, Waits(r, askWait),
         th[t].pc \notin Closing \cup {"fin", "park_send"},
         r.pc \notin Closing \cup {"park_send"},
         th[t].pc \in Pending => th[t].f = h
  PROVE  IInv'
<1>0. Types /\ OnePlace
  BY DEF IInv
<1>1. Distinct(mb[h].waiting)
  BY BoxOf
<1>2. /\ Box(m) /\ ~m.parked /\ Distinct(m.waiting)
      /\ Flows(m.waiting) = Flows(mb[h].waiting) /\ m.closed = mb[h].closed
  BY <1>1 DEF Freed
<1>3. OnePlace'
  BY <1>0, <1>2, InboxToHand
<1>4. th[t].orphans = {}
  BY HandOf
<1>5. \A a \in Flow : askWait'[a] = askWait[a] \/ (askWait'[a] = NoFlow /\ ~mb'[a].parked)
  BY SameAsks
<1>6. mb'[h] = m
  BY <1>0, Touched, SMTT(30)
<1>7. /\ th[t].pc # "park_send" /\ r.pc # "park_send" /\ r.pc \notin Closing
      /\ Waits(r, askWait')
      /\ th[t].pc \in Pending => ~mb'[th[t].f].parked
  BY <1>2, <1>6
<1> QED
  BY <1>2, <1>3, <1>4, <1>5, <1>7, FrameStep

\* The thread that finds it gone leaves the inbox as it was.
LEMMA TakeNothing ==
  ASSUME IInv, NEW t \in Thread, NEW h \in Flow, NEW r, NEW m, Touch(t, r, h, m),
         Freed(m, mb[h]), ~mb[h].parked, Tables',
         runq' = runq, asleep' = asleep, live' = live, waitAt' = waitAt, askWait' = askWait,
         Sound(r), HeldOnce(r), Hand(r) = Hand(th[t]), Waits(r, askWait),
         th[t].pc \notin Closing \cup {"fin", "park_send"},
         r.pc \notin Closing \cup {"park_send"},
         th[t].pc \in Pending => th[t].f = h
  PROVE  IInv'
<1>0. Types /\ OnePlace
  BY DEF IInv
<1>1. Distinct(mb[h].waiting) /\ Box(mb[h])
  BY BoxOf
<1>2. /\ Box(m) /\ ~m.parked /\ Distinct(m.waiting)
      /\ Flows(m.waiting) = Flows(mb[h].waiting) /\ m.closed = mb[h].closed
  BY <1>1 DEF Freed
<1>3. m.parked = mb[h].parked
  BY <1>1, <1>2 DEF Box
<1>4. OnePlace'
  BY <1>0, <1>2, <1>3, Calm
<1>5. th[t].orphans = {}
  BY HandOf
<1>6. \A a \in Flow : askWait'[a] = askWait[a] \/ (askWait'[a] = NoFlow /\ ~mb'[a].parked)
  BY SameAsks
<1>7. mb'[h] = m
  BY <1>0, Touched, SMTT(30)
<1>8. /\ th[t].pc # "park_send" /\ r.pc # "park_send" /\ r.pc \notin Closing
      /\ Waits(r, askWait')
      /\ th[t].pc \in Pending => ~mb'[th[t].f].parked
  BY <1>2, <1>7
<1> QED
  BY <1>2, <1>4, <1>5, <1>6, <1>8, FrameStep

\* finalize_if_killed
LEMMA KillTakeStep ==
  ASSUME IInv, NEW w \in Worker, KillTake(w)
  PROVE  IInv'
<1>0. Types /\ OnePlace
  BY DEF IInv
<1>1. w \in Thread /\ Sound(th[w]) /\ HeldOnce(th[w]) /\ th[w].pc = "kill_take"
  BY ThreadOf DEF Thread, KillTake
<1>2. PICK c, f : c = th[w].cur /\ f = th[w].f
  OBVIOUS
<1>3. /\ f \in Flow /\ c \in MaybeFlow /\ (th[w].ask => th[w].to \in Flow)
      /\ th[w].pc \notin Closing \cup {"fin"} /\ th[w].pc \notin Helping
      /\ th[w].pc \notin Closing \cup {"fin", "park_send"}
  BY <1>1, <1>2 DEF Sound, OnFlow, Checking, Closing, Helping
<1>4. Hand(th[w]) = {c} \ {NoFlow}
  BY <1>1, <1>2, <1>3, HandOf
<1>5. PICK p : p = TakeParked(mb[f])
  OBVIOUS
<1>6. PICK r : r = IF p.taken THEN Finalizing(c, f) ELSE [th[w] EXCEPT !.pc = "kill_restore"]
  OBVIOUS
<1>7. /\ Goto(w, r) /\ mb' = [mb EXCEPT ![f] = p.mb]
      /\ UNCHANGED <<runq, asleep, live, kill, waitAt, askWait, timers, issued, toKill>>
  BY <1>2, <1>5, <1>6 DEF KillTake
<1>8. PICK m : m = p.mb
  OBVIOUS
<1>9. Box(mb[f])
  BY <1>3, BoxOf
<1>10. Touch(w, r, f, m) /\ Freed(m, mb[f]) /\ p.taken = mb[f].parked
  BY <1>5, <1>7, <1>8, <1>9, TakeParkedFacts DEF Touch, Goto
<1>11. Tables' /\ (th[w].pc \in Pending => th[w].f = f)
  BY <1>0, <1>2, <1>7 DEF Types, Tables
<1>12. runq' = runq /\ asleep' = asleep /\ live' = live /\ waitAt' = waitAt /\ askWait' = askWait
  BY <1>7
<1>13. CASE mb[f].parked
  <2>1. r = Finalizing(c, f)
    BY <1>6, <1>10, <1>13
  <2>2. c # f
    <3>1. f \in Parked
      BY <1>3, <1>13 DEF Parked
    <3>2. f \notin Hand(th[w]) /\ f # NoFlow
      BY <1>0, <1>1, <1>3, <3>1, ParkedOnly, MessagingAssumption
    <3> QED
      BY <1>4, <3>2
  <2>3. Sound(r) /\ HeldOnce(r) /\ Hand(r) = ({c} \ {NoFlow}) \cup {f} /\ r.pc = "fin"
    BY <1>3, <2>1, <2>2, FinalizingFacts
  <2>4. /\ Hand(r) = Hand(th[w]) \cup {f} /\ Waits(r, askWait)
        /\ r.pc \notin Closing \cup {"park_send"}
    BY <1>4, <2>3 DEF Waits, Closing
  <2> QED
    BY <1>1, <1>3, <1>10, <1>11, <1>12, <1>13, <2>3, <2>4, TakeToHand
<1>14. CASE ~mb[f].parked
  <2>1. r = [th[w] EXCEPT !.pc = "kill_restore"]
    BY <1>6, <1>10, <1>14
  <2>2. "kill_restore" \notin Alone /\ th[w].f \in Flow
    BY <1>2, <1>3 DEF Alone
  <2>3. "kill_restore" # "kill_take" => th[w].to \in Flow \/ ("kill_restore" = "kill_restore" /\ ~th[w].ask)
    BY <1>3
  <2>4. /\ Sound(r) /\ HeldOnce(r) /\ Hand(r) = Hand(th[w]) /\ r.pc = "kill_restore"
        /\ \A index : Waits(r, index)
    BY <1>1, <1>3, <2>1, <2>2, <2>3, OnFacts, SMTT(30)
  <2>5. Waits(r, askWait) /\ r.pc \notin Closing \cup {"park_send"}
    BY <2>4 DEF Closing
  <2> QED
    BY <1>1, <1>3, <1>10, <1>11, <1>12, <1>14, <2>4, <2>5, TakeNothing
<1> QED
  BY <1>13, <1>14

\* extract_for_kill, a flow parked in its inbox
LEMMA ExtractParkedStep ==
  ASSUME IInv, ExtractParked
  PROVE  IInv'
<1>0. Types /\ OnePlace
  BY DEF IInv
<1>1. PICK t : t = "host"
  OBVIOUS
<1>2. t \in Thread /\ Sound(th[t]) /\ th[t].pc = "x_parked"
  BY <1>1, ThreadOf DEF Thread, ExtractParked
<1>3. PICK g : g = th[t].f
  OBVIOUS
<1>4. /\ g \in Flow /\ th[t].cur = NoFlow /\ th[t].pc \notin Pending
      /\ th[t].pc \notin Closing \cup {"fin"} /\ th[t].pc \notin Helping
      /\ th[t].pc \notin Closing \cup {"fin", "park_send"} /\ NoFlow \in MaybeFlow
  BY <1>2, <1>3 DEF Sound, OnFlow, Alone, Closing, Helping, Pending, MaybeFlow
<1>5. Hand(th[t]) = {} /\ g # NoFlow
  <2>1. Hand(th[t]) = {}
    BY <1>2, <1>4, HandOf
  <2> QED
    BY <1>4, <2>1, MessagingAssumption
<1>6. PICK p : p = TakeParked(mb[g])
  OBVIOUS
<1>7. PICK r : r = IF p.taken THEN Finalizing(NoFlow, g) ELSE [IdleThread EXCEPT !.pc = "x_index", !.f = g]
  OBVIOUS
<1>8. /\ Goto(t, r) /\ mb' = [mb EXCEPT ![g] = p.mb]
      /\ UNCHANGED <<runq, asleep, live, kill, waitAt, askWait, timers, issued, toKill>>
  BY <1>1, <1>3, <1>6, <1>7 DEF ExtractParked
<1>9. PICK m : m = p.mb
  OBVIOUS
<1>10. Box(mb[g])
  BY <1>4, BoxOf
<1>11. Touch(t, r, g, m) /\ Freed(m, mb[g]) /\ p.taken = mb[g].parked
  BY <1>6, <1>8, <1>9, <1>10, TakeParkedFacts DEF Touch, Goto
<1>12. Tables'
  BY <1>0, <1>8 DEF Types, Tables
<1>13. runq' = runq /\ asleep' = asleep /\ live' = live /\ waitAt' = waitAt /\ askWait' = askWait
  BY <1>8
<1>14. CASE mb[g].parked
  <2>1. r = Finalizing(NoFlow, g)
    BY <1>7, <1>11, <1>14
  <2>2. Sound(r) /\ HeldOnce(r) /\ Hand(r) = {g} /\ r.pc = "fin"
    BY <1>4, <1>5, <2>1, FinalizingFacts, SMTT(30)
  <2>3. /\ Hand(r) = Hand(th[t]) \cup {g} /\ Waits(r, askWait)
        /\ r.pc \notin Closing \cup {"park_send"}
    BY <1>5, <2>2 DEF Waits, Closing
  <2> QED
    BY <1>2, <1>4, <1>11, <1>12, <1>13, <1>14, <2>2, <2>3, TakeToHand
<1>15. CASE ~mb[g].parked
  <2>1. r = [IdleThread EXCEPT !.pc = "x_index", !.f = g]
    BY <1>7, <1>11, <1>15
  <2>2. r = Rec("x_index", NoFlow, g, NoFlow, No, NoHop, AnyHop, No, 0, << >>, {})
    BY <2>1, IdleFacts DEF Rec
  <2>3. "x_index" \notin OnTarget
    BY DEF OnTarget
  <2>4. /\ Sound(r) /\ HeldOnce(r) /\ Hand(r) = {} /\ r.pc = "x_index" /\ \A index : Waits(r, index)
    BY <1>4, <2>2, <2>3, LookFacts
  <2>5. /\ Waits(r, askWait) /\ r.pc \notin Closing \cup {"park_send"} /\ Hand(r) = Hand(th[t])
    BY <1>5, <2>4 DEF Closing
  <2> QED
    BY <1>2, <1>4, <1>11, <1>12, <1>13, <1>15, <2>4, <2>5, TakeNothing
<1> QED
  BY <1>14, <1>15

\* TimerWheel::fire, a deadline
LEMMA FireDeadlineStep ==
  ASSUME IInv, NEW d \in timers, FireDeadline(d)
  PROVE  IInv'
<1>0. Types
  BY DEF IInv
<1>1. PICK t, g : t = "timer" /\ g = d.flow
  OBVIOUS
<1>2. t \in Thread /\ Sound(th[t]) /\ th[t].pc = "idle"
  BY <1>1, ThreadOf DEF Thread, FireDeadline
<1>3. g \in Flow /\ g # NoFlow /\ g \in MaybeFlow /\ NoFlow \in MaybeFlow
  BY <1>0, <1>1, MessagingAssumption DEF Types, Tables, MaybeFlow
<1>4. /\ th[t].cur = NoFlow /\ th[t].pc \notin Pending
      /\ th[t].pc \notin Closing \cup {"fin"} /\ th[t].pc \notin Helping
      /\ th[t].pc \notin Closing \cup {"fin", "park_send"} /\ th[t].pc # "park_send"
  BY <1>2 DEF Sound, Alone, Closing, Helping, Pending
<1>5. Hand(th[t]) = {} /\ th[t].orphans = {}
  BY <1>2, <1>4, HandOf
<1>6. PICK p : p = TakeParkedAt(mb[g], d.epoch)
  OBVIOUS
<1>7. PICK r : r = IF p.taken THEN [IdleThread EXCEPT !.pc = "timeout", !.f = g] ELSE IdleThread
  OBVIOUS
<1>8. /\ Goto(t, r) /\ mb' = [mb EXCEPT ![g] = p.mb] /\ timers' = timers \ {d}
      /\ UNCHANGED <<runq, asleep, live, kill, waitAt, askWait, issued, toKill>>
  BY <1>1, <1>6, <1>7 DEF FireDeadline
<1>9. Tables'
  BY <1>0, <1>8 DEF Types, Tables
<1>10. runq' = runq /\ asleep' = asleep /\ live' = live /\ waitAt' = waitAt /\ askWait' = askWait
  BY <1>8
<1>11. PICK m : m = p.mb
  OBVIOUS
<1>12. Box(mb[g]) /\ Kept(mb[g], mb[g])
  BY <1>3, BoxOf
<1>13. Touch(t, r, g, m)
  BY <1>8, <1>11 DEF Touch, Goto
<1>14. CASE p.taken /\ mb[g].parked /\ Freed(p.mb, mb[g])
  <2>1. r = [IdleThread EXCEPT !.pc = "timeout", !.f = g]
    BY <1>7, <1>14
  <2>2. r = Rec("timeout", NoFlow, g, NoFlow, No, NoHop, AnyHop, No, 0, << >>, {})
    BY <2>1, IdleFacts DEF Rec
  <2>3. /\ "timeout" \in Pcs /\ "timeout" # "fin" /\ "timeout" \notin Driving
        /\ "timeout" \notin Checking /\ "timeout" \notin OnTarget /\ "timeout" \in Helping
    BY DEF Pcs, Driving, Checking, OnTarget, Helping
  <2>4. /\ Sound(r) /\ HeldOnce(r)
        /\ Hand(r) = (IF NoFlow = NoFlow THEN {} ELSE {NoFlow}) \cup (IF "timeout" \in Helping THEN {g} ELSE {})
    BY <1>3, <2>2, <2>3, PlainRec, ZeroEpoch, SMTT(30)
  <2>5. r.pc = "timeout"
    BY <2>2 DEF Rec
  <2>6. /\ Hand(r) = Hand(th[t]) \cup {g} /\ Waits(r, askWait)
        /\ r.pc \notin Closing \cup {"park_send"}
    BY <1>5, <2>3, <2>4, <2>5 DEF Waits, Closing
  <2>7. Freed(m, mb[g]) /\ mb[g].parked
    BY <1>11, <1>14
  <2> QED
    BY <1>2, <1>3, <1>4, <1>9, <1>10, <1>13, <2>4, <2>6, <2>7, TakeToHand
<1>15. CASE ~p.taken /\ p.mb = mb[g]
  <2>1. r = IdleThread /\ Kept(m, mb[g])
    BY <1>7, <1>11, <1>12, <1>15
  <2>2. Sound(r) /\ HeldOnce(r) /\ Hand(r) = {} /\ r.pc = "idle"
    BY <2>1, IdleFacts DEF IdleThread
  <2>3. /\ Hand(r) = Hand(th[t]) /\ Waits(r, askWait) /\ r.pc # "park_send" /\ r.pc \notin Closing
    BY <1>5, <2>2 DEF Waits, Closing
  <2> QED
    BY <1>2, <1>3, <1>4, <1>5, <1>9, <1>10, <1>13, <2>1, <2>2, <2>3, QuietStep
<1> QED
  <2>1. \/ p.taken /\ mb[g].parked /\ Freed(p.mb, mb[g])
        \/ ~p.taken /\ p.mb = mb[g]
    BY <1>6, <1>12, TakeParkedAtFacts
  <2> QED
    BY <1>14, <1>15, <2>1

\* resume_ask_target_gone
LEMMA AskGoneStep ==
  ASSUME IInv, NEW w \in Worker, AskGone(w)
  PROVE  IInv'
<1>0. Types /\ OnePlace
  BY DEF IInv
<1>1. w \in Thread /\ Sound(th[w]) /\ HeldOnce(th[w]) /\ th[w].pc = "ask_gone"
  BY ThreadOf DEF Thread, AskGone
<1>2. PICK c, f : c = th[w].cur /\ f = th[w].f
  OBVIOUS
<1>3. /\ f \in Flow
      /\ th[w].pc \notin Closing \cup {"fin"} /\ th[w].pc \notin Helping
      /\ th[w].pc \notin Closing \cup {"fin", "park_send"} /\ th[w].pc # "park_send"
  BY <1>1, <1>2 DEF Sound, OnFlow, Closing, Helping
<1>4. PICK p : p = TakeParked(mb[f])
  OBVIOUS
<1>5. PICK r : r = Running(c)
  OBVIOUS
<1>6. /\ Goto(w, r) /\ mb' = [mb EXCEPT ![f] = p.mb]
      /\ askWait' = IF p.taken THEN [askWait EXCEPT ![f] = NoFlow] ELSE askWait
      /\ runq' = IF p.taken THEN runq \cup {f} ELSE runq
      /\ UNCHANGED <<asleep, live, kill, waitAt, timers, issued, toKill>>
  BY <1>2, <1>4, <1>5 DEF AskGone
<1>7. /\ Sound(r) /\ HeldOnce(r) /\ Hand(r) = Hand(th[w]) /\ r.pc \in {"idle", "run"}
      /\ \A index : Waits(r, index)
  BY <1>1, <1>2, <1>3, <1>5, BackFacts
<1>8. PICK m : m = p.mb
  OBVIOUS
<1>9. Box(mb[f]) /\ Distinct(mb[f].waiting)
  BY <1>3, BoxOf
<1>10. Touch(w, r, f, m) /\ Freed(m, mb[f]) /\ p.taken = mb[f].parked
  BY <1>4, <1>6, <1>8, <1>9, TakeParkedFacts DEF Touch, Goto
<1>11. /\ r.pc \notin Closing \cup {"park_send"} /\ Waits(r, askWait) /\ Waits(r, askWait')
       /\ r.pc # "park_send" /\ r.pc \notin Closing /\ (th[w].pc \in Pending => th[w].f = f)
  BY <1>2, <1>7 DEF Closing
<1>12. Tables'
  <2>1. askWait' \in [Flow -> MaybeFlow]
    BY <1>0, <1>6 DEF Types, Tables, MaybeFlow
  <2>2. runq' \subseteq Flow
    BY <1>0, <1>3, <1>6 DEF Types, Tables
  <2> QED
    BY <1>0, <1>6, <2>1, <2>2 DEF Types, Tables
<1>13. CASE mb[f].parked
  <2>1. /\ askWait' = [askWait EXCEPT ![f] = NoFlow] /\ runq' = runq \cup {f} /\ asleep' = asleep
        /\ live' = live /\ waitAt' = waitAt
    BY <1>6, <1>10, <1>13
  <2>2. /\ Box(m) /\ ~m.parked /\ Distinct(m.waiting)
        /\ Flows(m.waiting) = Flows(mb[f].waiting) /\ m.closed = mb[f].closed
    BY <1>9, <1>10 DEF Freed
  <2>3. OnePlace'
    BY <1>0, <1>1, <1>3, <1>7, <1>10, <1>13, <2>1, <2>2, InboxToRun
  <2>4. mb'[f] = m
    BY <1>0, <1>1, <1>3, <1>10, Touched, SMTT(30)
  <2>5. \A a \in Flow : askWait'[a] = askWait[a] \/ (askWait'[a] = NoFlow /\ ~mb'[a].parked)
    <3>1. askWait \in [Flow -> MaybeFlow]
      BY <1>0 DEF Types, Tables
    <3> QED
      BY <2>1, <2>2, <2>4, <3>1
  <2>6. th[w].orphans = {} /\ ~mb'[th[w].f].parked
    BY <1>1, <1>2, <1>3, <2>2, <2>4, HandOf
  <2> QED
    BY <1>1, <1>3, <1>7, <1>10, <1>11, <1>12, <2>1, <2>2, <2>3, <2>5, <2>6, FrameStep
<1>14. CASE ~mb[f].parked
  <2>1. /\ askWait' = askWait /\ runq' = runq /\ asleep' = asleep /\ live' = live /\ waitAt' = waitAt
    BY <1>6, <1>10, <1>14
  <2> QED
    BY <1>1, <1>3, <1>7, <1>10, <1>11, <1>12, <1>14, <2>1, TakeNothing
<1> QED
  BY <1>13, <1>14

-----------------------------------------------------------------------------
(* finalize_flow *)

\* the locals of a thread in finalize: what it drives, what it closes and its work list
InFinalize(pc, c, f, to, e, work, orph) ==
  /\ pc \in Closing \cup {"fin"} /\ c \in MaybeFlow /\ f \in MaybeFlow /\ to \in MaybeFlow
  /\ e \in Epoch /\ work \in Seq(Flow) /\ orph \subseteq Flow
  /\ pc \in Closing => f \in Flow
  /\ pc = "fin" => work # << >>
  /\ pc # "fin_orphan" => orph = {}
  /\ IsInjective(work) /\ c \notin Range(work)
  /\ pc \in Closing => f # c /\ f \notin Range(work)

\* what such a thread has in its hands
Finalizes(r, pc, c, f, work, orph) ==
  /\ Sound(r) /\ HeldOnce(r) /\ r.pc = pc /\ r.f = f /\ r.orphans = orph
  /\ Hand(r) = ({c} \ {NoFlow}) \cup (IF pc \in Closing THEN {f} ELSE {}) \cup Range(work)
  /\ \A index : Waits(r, index)

\* A thread with such locals.
LEMMA FinRecord ==
  ASSUME NEW pc, NEW c, NEW f, NEW to, NEW ask, NEW hop, NEW fl, NEW timed, NEW e, NEW work,
         NEW orph, NEW r, r = Rec(pc, c, f, to, ask, hop, fl, timed, e, work, orph),
         InFinalize(pc, c, f, to, e, work, orph)
  PROVE  Finalizes(r, pc, c, f, work, orph)
<1>1. /\ IsRec(r) /\ r.pc = pc /\ r.cur = c /\ r.f = f /\ r.to = to /\ r.ask = ask
      /\ r.epoch = e /\ r.work = work /\ r.orphans = orph
  <2>1. /\ r.pc = pc /\ r.cur = c /\ r.f = f /\ r.to = to /\ r.ask = ask /\ r.hop = hop
        /\ r.filter = fl /\ r.timed = timed /\ r.epoch = e /\ r.work = work /\ r.orphans = orph
    BY DEF Rec
  <2>2. IsRec(r)
    BY <2>1 DEF IsRec
  <2> QED
    BY <2>1, <2>2
<1>0. pc \in Closing \cup {"fin"}
  BY DEF InFinalize
<1>2. /\ pc \in Pcs /\ pc \notin Driving /\ pc \notin OnTarget /\ pc \notin Checking /\ pc \notin Alone
      /\ (pc \in OnFlow <=> pc \in Closing) /\ (pc \in Helping <=> pc \in Closing)
  BY <1>0 DEF Pcs, Closing, Driving, OnTarget, Checking, Alone, OnFlow, Helping
<1>3. Sound(r)
  BY <1>1, <1>2 DEF Sound, InFinalize
<1>4. HeldOnce(r)
  BY <1>1, <1>2 DEF HeldOnce, InFinalize
<1>5. Hand(r) = ({c} \ {NoFlow}) \cup (IF pc \in Closing THEN {f} ELSE {}) \cup Range(work)
  BY <1>1, <1>2 DEF Hand
<1>6. \A index : Waits(r, index)
  BY <1>0, <1>1 DEF Waits, Closing
<1> QED
  BY <1>1, <1>3, <1>4, <1>5, <1>6 DEF Finalizes

\* The locals of a thread that finalizes, field by field.
LEMMA FinOf ==
  ASSUME IInv, NEW t \in Thread, th[t].pc \in Closing \cup {"fin"}
  PROVE  LET l == th[t]
         IN  /\ l = Rec(l.pc, l.cur, l.f, l.to, l.ask, l.hop, l.filter, l.timed, l.epoch, l.work, l.orphans)
             /\ l.cur \in MaybeFlow /\ l.f \in MaybeFlow /\ l.to \in MaybeFlow /\ l.epoch \in Epoch
             /\ l.work \in Seq(Flow) /\ l.orphans \subseteq Flow
             /\ IsInjective(l.work) /\ l.cur \notin Range(l.work)
             /\ l.pc \in Closing => l.f \in Flow /\ l.f # l.cur /\ l.f \notin Range(l.work)
             /\ l.pc = "fin" => l.work # << >>
             /\ l.pc # "fin_orphan" => l.orphans = {}
             /\ Hand(l) = ({l.cur} \ {NoFlow}) \cup (IF l.pc \in Closing THEN {l.f} ELSE {}) \cup Range(l.work)
<1> DEFINE l == th[t]
<1>1. Sound(l) /\ HeldOnce(l)
  BY ThreadOf
<1>2. l.pc \in Closing => l.pc \in OnFlow /\ l.pc \in Helping
  BY DEF Closing, OnFlow, Helping
<1>3. l.pc \in Helping <=> l.pc \in Closing
  BY DEF Closing, Helping
<1>4. Hand(l) = ({l.cur} \ {NoFlow}) \cup (IF l.pc \in Closing THEN {l.f} ELSE {}) \cup Range(l.work)
  BY <1>3 DEF Hand
<1> QED
  BY <1>1, <1>2, <1>4 DEF Sound, IsRec, HeldOnce

\* finalize_one: the inbox is closed, and its senders join the work list.
LEMMA FinCloseStep ==
  ASSUME IInv, NEW t \in Thread, FinClose(t)
  PROVE  IInv'
<1>0. Types /\ OnePlace /\ Indexed /\ Asks
  BY DEF IInv
<1>1. th[t].pc = "fin" /\ th[t].pc \in Closing \cup {"fin"} /\ th[t].pc \notin Closing
  BY DEF FinClose, Closing
<1>2. PICK c, f0, to, ask, hop, fl, timed, e, work, orph :
        /\ c = th[t].cur /\ f0 = th[t].f /\ to = th[t].to /\ ask = th[t].ask /\ hop = th[t].hop
        /\ fl = th[t].filter /\ timed = th[t].timed /\ e = th[t].epoch /\ work = th[t].work
        /\ orph = th[t].orphans
  OBVIOUS
<1>3. /\ th[t] = Rec("fin", c, f0, to, ask, hop, fl, timed, e, work, orph)
      /\ c \in MaybeFlow /\ f0 \in MaybeFlow /\ to \in MaybeFlow /\ e \in Epoch
      /\ work \in Seq(Flow) /\ IsInjective(work) /\ c \notin Range(work) /\ work # << >>
      /\ orph = {} /\ Hand(th[t]) = ({c} \ {NoFlow}) \cup Range(work)
  BY <1>1, <1>2, FinOf
<1>4. PICK g : g = Last(work)
  OBVIOUS
<1>5. PICK fw : fw = Front(work)
  OBVIOUS
<1>6. /\ g \in Flow /\ fw \in Seq(Flow) /\ IsInjective(fw) /\ g \notin Range(fw)
      /\ Range(work) = Range(fw) \cup {g}
  BY <1>3, <1>4, <1>5, PopFacts
<1>7. PICK d : d = [i \in DOMAIN mb[g].waiting |-> mb[g].waiting[i].flow]
  OBVIOUS
<1>8. /\ Box(mb[g]) /\ Distinct(mb[g].waiting) /\ IsSeq(mb[g].waiting)
      /\ Flows(mb[g].waiting) \subseteq Flow
  BY <1>6, BoxOf DEF Box
<1>9. d \in Seq(Flow) /\ IsInjective(d) /\ Range(d) = Flows(mb[g].waiting)
  BY <1>7, <1>8, DrainFacts
<1>10. g \in Hand(th[t]) /\ \A x \in Hand(th[t]) : x \notin Range(d) /\ ~mb[x].parked
  <2>1. g \in Hand(th[t])
    BY <1>3, <1>6
  <2>2. ASSUME NEW x \in Hand(th[t]) PROVE x \notin Flows(mb[g].waiting) /\ x \notin Parked /\ x \in live
    BY <1>0, <1>6, <2>2, InHandOnly
  <2>3. live \subseteq Flow
    BY <1>0 DEF Types, Tables
  <2> QED
    BY <1>9, <2>1, <2>2, <2>3 DEF Parked
<1>11. PICK nw : nw = fw \o d
  OBVIOUS
<1>12. nw \in Seq(Flow) /\ IsInjective(nw) /\ Range(nw) = Range(fw) \cup Range(d)
  <2>1. \A x \in Range(fw) : x \notin Range(d)
    BY <1>3, <1>6, <1>10
  <2> QED
    BY <1>6, <1>9, <1>11, <2>1, ExtendFacts
<1>13. g # c /\ g \notin Range(nw) /\ c \notin Range(nw)
  <2>1. c \notin Range(d)
    <3>1. CASE c = NoFlow
      BY <1>8, <1>9, <3>1, MessagingAssumption
    <3>2. CASE c # NoFlow
      BY <1>3, <1>10, <3>2
    <3> QED
      BY <3>1, <3>2
  <2> QED
    BY <1>3, <1>6, <1>10, <1>12, <2>1
<1>14. PICK l : l = th[t]
  OBVIOUS
<1>27. PICK r : r = [l EXCEPT !.pc = "fin_asks", !.f = g, !.work = nw]
  OBVIOUS
<1>15. r = Rec("fin_asks", c, g, to, ask, hop, fl, timed, e, nw, orph)
  <2>1. l = Rec("fin", c, f0, to, ask, hop, fl, timed, e, work, orph)
    BY <1>3, <1>14
  <2> QED
    BY <1>27, <2>1 DEF Rec
<1>16. /\ Goto(t, r) /\ mb' = [mb EXCEPT ![g] = Close(mb[g])] /\ kill' = kill \ {g}
       /\ askWait' = [askWait EXCEPT ![g] = NoFlow]
       /\ waitAt' = [s \in Flow |-> IF s = g \/ s \in Range(d) THEN NoFlow ELSE waitAt[s]]
       /\ UNCHANGED <<runq, asleep, live, timers, issued, toKill>>
  <2>1. [th[t] EXCEPT !.pc = "fin_asks", !.f = g, !.work = Front(@) \o d] = r
    BY <1>2, <1>5, <1>11, <1>14, <1>27
  <2> QED
    BY <1>2, <1>4, <1>7, <2>1 DEF FinClose
<1>17. "fin_asks" \in Closing \cup {"fin"} /\ "fin_asks" \in Closing /\ orph \subseteq Flow
  BY <1>3 DEF Closing
<1>18. /\ Sound(r) /\ HeldOnce(r) /\ r.pc = "fin_asks" /\ r.f = g /\ r.orphans = orph
       /\ Hand(r) = ({c} \ {NoFlow}) \cup {g} \cup Range(nw)
       /\ \A index : Waits(r, index)
  <2>1. /\ Sound(r) /\ HeldOnce(r) /\ r.pc = "fin_asks" /\ r.f = g /\ r.orphans = orph
        /\ Hand(r) = ({c} \ {NoFlow}) \cup (IF "fin_asks" \in Closing THEN {g} ELSE {}) \cup Range(nw)
        /\ \A index : Waits(r, index)
    <3>1. InFinalize("fin_asks", c, g, to, e, nw, orph)
      BY <1>3, <1>6, <1>12, <1>13, <1>17 DEF InFinalize, MaybeFlow
    <3>2. PICK pc : pc = "fin_asks"
      OBVIOUS
    <3>3. InFinalize(pc, c, g, to, e, nw, orph) /\ r = Rec(pc, c, g, to, ask, hop, fl, timed, e, nw, orph)
      BY <1>15, <3>1, <3>2
    <3>4. /\ Sound(r) /\ HeldOnce(r) /\ r.pc = pc /\ r.f = g /\ r.orphans = orph
          /\ Hand(r) = ({c} \ {NoFlow}) \cup (IF pc \in Closing THEN {g} ELSE {}) \cup Range(nw)
          /\ \A index : Waits(r, index)
      <4>1. Finalizes(r, pc, c, g, nw, orph)
        BY <3>3, FinRecord
      <4> QED
        BY <4>1 DEF Finalizes
    <3> QED
      BY <3>2, <3>4
  <2> QED
    BY <1>17, <2>1
<1>19. PICK m : m = Close(mb[g])
  OBVIOUS
<1>20. /\ Touch(t, r, g, m) /\ Box(m) /\ m.parked = mb[g].parked /\ m.closed
       /\ m.filter = mb[g].filter /\ Flows(m.waiting) = {} /\ Distinct(m.waiting)
  BY <1>8, <1>16, <1>19, CloseFacts DEF Touch, Goto
<1>21. /\ \A s \in Flow : waitAt'[s] = IF s = g \/ s \in Flows(mb[g].waiting) THEN NoFlow ELSE waitAt[s]
       /\ \A a \in Flow : askWait'[a] = IF a = g THEN NoFlow ELSE askWait[a]
       /\ live' = live /\ runq' = runq /\ asleep' = asleep
  BY <1>0, <1>9, <1>16 DEF Types, Tables
<1>22. Tables'
  <2>1. waitAt \in [Flow -> MaybeFlow] /\ askWait \in [Flow -> MaybeFlow] /\ NoFlow \in MaybeFlow
    BY <1>0 DEF Types, Tables, MaybeFlow
  <2>2. askWait' \in [Flow -> MaybeFlow]
    BY <1>16, <2>1
  <2>3. waitAt' \in [Flow -> MaybeFlow]
    BY <1>16, <2>1
  <2> QED
    BY <1>0, <1>16, <2>2, <2>3 DEF Types, Tables
<1>23. OnePlace'
  <2>1. Hand(r) = Hand(th[t]) \cup Flows(mb[g].waiting)
    BY <1>3, <1>6, <1>9, <1>12, <1>18
  <2>2. Flows(m.waiting) = Flows(mb[g].waiting) \ Flows(mb[g].waiting)
    BY <1>20
  <2> QED
    BY <1>0, <1>6, <1>18, <1>20, <1>21, <2>1, <2>2, AllToHand
<1>24. Types'
  BY <1>0, <1>6, <1>18, <1>20, <1>22, TypesStep
<1>25. Indexed'
  <2>1. th[t].pc # "park_send" /\ r.pc # "park_send" /\ (r.pc \in Closing => r.f = g)
    BY <1>1, <1>18
  <2> QED
    BY <1>0, <1>6, <1>10, <1>20, <1>21, <2>1, IndexedClose
<1>26. Asks'
  <2>1. mb'[g] = m /\ ~mb[g].parked
    BY <1>0, <1>6, <1>10, <1>20, Touched, SMTT(30)
  <2>2. ~mb'[g].parked /\ (m.parked => mb[g].parked /\ m.filter = mb[g].filter)
    BY <1>20, <2>1
  <2>3. \A a \in Flow : askWait'[a] = askWait[a] \/ (askWait'[a] = NoFlow /\ ~mb'[a].parked)
    BY <1>21, <2>2
  <2>4. /\ \A a \in th[t].orphans : a \in r.orphans \/ ~mb'[a].parked
        /\ th[t].pc \notin Pending /\ Waits(r, askWait')
    BY <1>1, <1>2, <1>3, <1>18 DEF Pending
  <2> QED
    BY <1>0, <1>6, <1>20, <2>2, <2>3, <2>4, AsksKeep
<1> QED
  BY <1>23, <1>24, <1>25, <1>26 DEF IInv

\* locals with another position and other orphans
Onward(l, p, o) == [l EXCEPT !.pc = p, !.orphans = o]
StaysInFinalize(p, o) == p \in Closing /\ o \subseteq Flow /\ (p # "fin_orphan" => o = {})

\* r are the locals l at another position of finalize, with the same flow and work list
MovesOn(r, l, p, o) ==
  /\ Sound(r) /\ HeldOnce(r) /\ r.pc = p /\ r.f = l.f /\ r.orphans = o
  /\ Hand(r) = Hand(l) /\ l.f \in Flow /\ \A index : Waits(r, index)

\* The thread goes on at another position of finalize with the same flow and work list.
LEMMA FinMove ==
  ASSUME IInv, NEW t \in Thread, th[t].pc \in Closing, NEW p, NEW o, StaysInFinalize(p, o),
         NEW r, r = Onward(th[t], p, o)
  PROVE  MovesOn(r, th[t], p, o)
<1>1. PICK p0, c, f, to, ask, hop, fl, timed, e, work, orph :
        /\ p0 = th[t].pc /\ c = th[t].cur /\ f = th[t].f /\ to = th[t].to /\ ask = th[t].ask
        /\ hop = th[t].hop /\ fl = th[t].filter /\ timed = th[t].timed /\ e = th[t].epoch
        /\ work = th[t].work /\ orph = th[t].orphans
  OBVIOUS
<1>2. th[t].pc \in Closing \cup {"fin"}
  OBVIOUS
<1>3. /\ th[t] = Rec(p0, c, f, to, ask, hop, fl, timed, e, work, orph)
      /\ c \in MaybeFlow /\ f \in MaybeFlow /\ to \in MaybeFlow /\ e \in Epoch
      /\ work \in Seq(Flow) /\ IsInjective(work) /\ c \notin Range(work)
      /\ f \in Flow /\ f # c /\ f \notin Range(work)
      /\ Hand(th[t]) = ({c} \ {NoFlow}) \cup {f} \cup Range(work)
  BY <1>1, <1>2, FinOf
<1>4. PICK l : l = th[t]
  OBVIOUS
<1>5. PICK k : k = [l EXCEPT !.pc = p, !.orphans = o]
  OBVIOUS
<1>6. k = Rec(p, c, f, to, ask, hop, fl, timed, e, work, o)
  <2>1. l = Rec(p0, c, f, to, ask, hop, fl, timed, e, work, orph)
    BY <1>3, <1>4
  <2> QED
    BY <1>5, <2>1 DEF Rec
<1>7. r = Rec(p, c, f, to, ask, hop, fl, timed, e, work, o)
  <2>1. k = r
    BY <1>4, <1>5 DEF Onward
  <2> QED
    BY <1>6, <2>1
<1>8. InFinalize(p, c, f, to, e, work, o)
  BY <1>3 DEF InFinalize, StaysInFinalize, Closing
<1>9. /\ Sound(r) /\ HeldOnce(r) /\ r.pc = p /\ r.f = f /\ r.orphans = o
      /\ Hand(r) = ({c} \ {NoFlow}) \cup (IF p \in Closing THEN {f} ELSE {}) \cup Range(work)
      /\ \A index : Waits(r, index)
  <2>1. Finalizes(r, p, c, f, work, o)
    BY <1>7, <1>8, FinRecord
  <2> QED
    BY <2>1 DEF Finalizes
<1> QED
  BY <1>1, <1>3, <1>9 DEF StaysInFinalize, MovesOn

\* wake_orphaned_asks takes the waiters of the flow out of the index.
LEMMA FinAsksStep ==
  ASSUME IInv, NEW t \in Thread, FinAsks(t)
  PROVE  IInv'
<1>0. Types /\ OnePlace /\ Indexed /\ Asks
  BY DEF IInv
<1>1. /\ th[t].pc = "fin_asks" /\ th[t].pc \in Closing /\ th[t].pc \in Closing \cup {"fin"}
      /\ th[t].pc \notin Pending /\ th[t].pc # "fin_orphan" /\ th[t].pc # "park_send"
  BY DEF FinAsks, Closing, Pending
<1>2. PICK f : f = th[t].f
  OBVIOUS
<1>3. PICK o : o = {a \in Flow : askWait[a] = f}
  OBVIOUS
<1>4. PICK p : p = IF o = {} THEN "fin_unregister" ELSE "fin_orphan"
  OBVIOUS
<1>5. PICK r : r = Onward(th[t], p, o)
  OBVIOUS
<1>6. /\ Goto(t, r) /\ mb' = mb
      /\ askWait' = [a \in Flow |-> IF a \in o THEN NoFlow ELSE askWait[a]]
      /\ UNCHANGED <<runq, asleep, live, kill, waitAt, timers, issued, toKill>>
  BY <1>2, <1>3, <1>4, <1>5 DEF FinAsks, Onward
<1>7. StaysInFinalize(p, o) /\ p \in Closing /\ p # "park_send"
  <2>1. o \subseteq Flow
    BY <1>3
  <2> QED
    BY <1>4, <2>1 DEF Closing, StaysInFinalize
<1>8. /\ Sound(r) /\ HeldOnce(r) /\ r.pc = p /\ r.f = f /\ r.orphans = o
      /\ Hand(r) = Hand(th[t]) /\ f \in Flow /\ \A index : Waits(r, index)
  <2>1. th[t].pc \in Closing
    BY <1>1
  <2>2. StaysInFinalize(p, o)
    BY <1>7
  <2>3. MovesOn(r, th[t], p, o)
    BY <1>5, <2>1, <2>2, FinMove
  <2> QED
    BY <1>2, <2>3 DEF MovesOn
<1>9. PICK m : m = mb[f]
  OBVIOUS
<1>10. Touch(t, r, f, m) /\ Box(m) /\ Distinct(m.waiting)
  BY <1>0, <1>6, <1>8, <1>9, TouchThread, BoxOf
<1>11. Tables'
  <2>1. askWait \in [Flow -> MaybeFlow] /\ NoFlow \in MaybeFlow
    BY <1>0 DEF Types, Tables, MaybeFlow
  <2>2. askWait' \in [Flow -> MaybeFlow]
    BY <1>6, <2>1
  <2> QED
    BY <1>0, <1>6, <2>2 DEF Types, Tables
<1>12. Types'
  BY <1>0, <1>8, <1>10, <1>11, TypesStep
<1>13. live' = live /\ runq' = runq /\ asleep' = asleep /\ waitAt' = waitAt
  BY <1>6
<1>14. OnePlace'
  <2>1. m.parked = mb[f].parked /\ Flows(m.waiting) = Flows(mb[f].waiting)
    BY <1>9
  <2> QED
    BY <1>0, <1>8, <1>10, <1>13, <2>1, Calm
<1>15. Indexed'
  <2>1. /\ Flows(m.waiting) = Flows(mb[f].waiting) /\ m.closed = mb[f].closed /\ r.pc # "park_send"
        /\ (r.pc \in Closing => th[t].pc \in Closing /\ r.f = th[t].f)
    BY <1>1, <1>2, <1>7, <1>8, <1>9
  <2> QED
    BY <1>0, <1>1, <1>8, <1>10, <1>13, <2>1, IndexedKeep
<1>16. Asks'
  <2>1. th[t].orphans = {}
    BY <1>1, FinOf
  <2>2. /\ \A a \in Flow : askWait'[a] = IF askWait[a] = f THEN NoFlow ELSE askWait[a]
        /\ \A a \in Flow : askWait[a] = f => a \in r.orphans
    BY <1>3, <1>6, <1>8
  <2>3. Touch(t, r, f, mb[f])
    BY <1>9, <1>10
  <2> QED
    BY <1>0, <1>1, <1>8, <2>1, <2>2, <2>3, AsksOrphan
<1> QED
  BY <1>12, <1>14, <1>15, <1>16 DEF IInv

\* wake_orphaned_asks, one waiter: taken out of its inbox if it is still there.
LEMMA FinOrphanStep ==
  ASSUME IInv, NEW t \in Thread, NEW a \in Flow, FinOrphan(t, a)
  PROVE  IInv'
<1>0. Types /\ OnePlace /\ Indexed /\ Asks
  BY DEF IInv
<1>1. /\ th[t].pc = "fin_orphan" /\ th[t].pc \in Closing /\ th[t].pc \notin Pending
      /\ th[t].pc # "park_send"
  BY DEF FinOrphan, Closing, Pending
<1>2. PICK p : p = TakeParked(mb[a])
  OBVIOUS
<1>3. PICK o : o = th[t].orphans \ {a}
  OBVIOUS
<1>4. PICK pc : pc = IF o = {} THEN "fin_unregister" ELSE "fin_orphan"
  OBVIOUS
<1>5. PICK r : r = Onward(th[t], pc, o)
  OBVIOUS
<1>6. PICK m : m = IF a \in live THEN p.mb ELSE mb[a]
  OBVIOUS
<1>7. /\ Goto(t, r) /\ mb' = IF a \in live THEN [mb EXCEPT ![a] = p.mb] ELSE mb
      /\ runq' = IF a \in live /\ p.taken THEN runq \cup {a} ELSE runq
      /\ UNCHANGED <<asleep, live, kill, waitAt, askWait, timers, issued, toKill>>
  <2>1. [th[t] EXCEPT !.pc = IF o = {} THEN "fin_unregister" ELSE @, !.orphans = o] = r
    BY <1>1, <1>4, <1>5 DEF Onward
  <2> QED
    BY <1>2, <1>3, <2>1 DEF FinOrphan
<1>8. StaysInFinalize(pc, o) /\ pc \in Closing /\ pc # "park_send"
  <2>1. th[t].orphans \subseteq Flow
    BY ThreadOf DEF Sound
  <2> QED
    BY <1>3, <1>4, <2>1 DEF Closing, StaysInFinalize
<1>9. /\ Sound(r) /\ HeldOnce(r) /\ r.pc = pc /\ r.f = th[t].f /\ r.orphans = o
      /\ Hand(r) = Hand(th[t]) /\ \A index : Waits(r, index)
  <2>1. th[t].pc \in Closing
    BY <1>1
  <2>2. StaysInFinalize(pc, o)
    BY <1>8
  <2>3. MovesOn(r, th[t], pc, o)
    BY <1>5, <2>1, <2>2, FinMove
  <2> QED
    BY <2>3 DEF MovesOn
<1>10. Box(mb[a]) /\ Distinct(mb[a].waiting)
  BY BoxOf
<1>11. Freed(p.mb, mb[a]) /\ p.taken = mb[a].parked
  BY <1>2, <1>10, TakeParkedFacts
<1>12. a \notin live => ~mb[a].parked
  <2>1. a \in Parked => a \in live
    BY <1>0, ParkedOnly
  <2> QED
    BY <2>1 DEF Parked
<1>13. /\ Box(m) /\ ~m.parked /\ Flows(m.waiting) = Flows(mb[a].waiting) /\ m.closed = mb[a].closed
       /\ Distinct(m.waiting)
  BY <1>6, <1>10, <1>11, <1>12 DEF Freed
<1>14. Touch(t, r, a, m)
  <2>1. CASE a \in live
    BY <1>6, <1>7, <2>1 DEF Touch, Goto
  <2>2. CASE a \notin live
    <3>1. mb' = mb /\ m = mb[a]
      BY <1>6, <1>7, <2>2
    <3> QED
      BY <1>0, <1>7, <3>1, TouchThread
  <2> QED
    BY <2>1, <2>2
<1>15. asleep' = asleep /\ live' = live /\ waitAt' = waitAt /\ askWait' = askWait
  BY <1>7
<1>16. Types'
  <2>1. runq' \subseteq Flow
    BY <1>0, <1>7 DEF Types, Tables
  <2>2. Tables'
    BY <1>0, <1>7, <2>1 DEF Types, Tables
  <2> QED
    BY <1>0, <1>9, <1>13, <1>14, <2>2, TypesStep
<1>17. OnePlace'
  <2>1. CASE mb[a].parked
    <3>1. runq' = runq \cup {a}
      BY <1>7, <1>11, <1>12, <2>1
    <3> QED
      BY <1>0, <1>9, <1>13, <1>14, <1>15, <2>1, <3>1, InboxToRun
  <2>2. CASE ~mb[a].parked
    <3>1. runq' = runq
      BY <1>7, <1>11, <2>2
    <3>2. m.parked = mb[a].parked
      BY <1>10, <1>13, <2>2 DEF Box
    <3> QED
      BY <1>0, <1>9, <1>13, <1>14, <1>15, <3>1, <3>2, Calm
  <2> QED
    BY <2>1, <2>2
<1>18. Indexed'
  <2>1. r.pc # "park_send" /\ (r.pc \in Closing => th[t].pc \in Closing /\ r.f = th[t].f)
    BY <1>1, <1>8, <1>9
  <2> QED
    BY <1>0, <1>1, <1>13, <1>14, <1>15, <2>1, IndexedKeep
<1>19. Asks'
  <2>1. mb'[a] = m
    BY <1>0, <1>14, Touched, SMTT(30)
  <2>2. \A b \in th[t].orphans : b \in r.orphans \/ ~mb'[b].parked
    BY <1>3, <1>9, <1>13, <2>1
  <2>3. \A b \in Flow : askWait'[b] = askWait[b] \/ (askWait'[b] = NoFlow /\ ~mb'[b].parked)
    BY <1>15, SameAsks
  <2>4. Waits(r, askWait') /\ (m.parked => mb[a].parked /\ m.filter = mb[a].filter)
    BY <1>9, <1>13
  <2> QED
    BY <1>0, <1>1, <1>14, <2>2, <2>3, <2>4, AsksKeep
<1> QED
  BY <1>16, <1>17, <1>18, <1>19 DEF IInv

\* directory.unregister; the thread goes on with its work list, or with what it drove before.
LEMMA FinUnregisterStep ==
  ASSUME IInv, NEW t \in Thread, FinUnregister(t)
  PROVE  IInv'
<1>0. Types /\ OnePlace /\ Indexed /\ Asks
  BY DEF IInv
<1>1. /\ th[t].pc = "fin_unregister" /\ th[t].pc \in Closing /\ th[t].pc \in Closing \cup {"fin"}
      /\ th[t].pc \notin Pending /\ th[t].pc # "park_send" /\ th[t].pc # "fin_orphan"
  BY DEF FinUnregister, Closing, Pending
<1>2. PICK c, f, work : c = th[t].cur /\ f = th[t].f /\ work = th[t].work
  OBVIOUS
<1>3. /\ c \in MaybeFlow /\ f \in Flow /\ work \in Seq(Flow) /\ IsInjective(work)
      /\ c \notin Range(work) /\ f # c /\ f \notin Range(work) /\ th[t].orphans = {}
      /\ Hand(th[t]) = ({c} \ {NoFlow}) \cup {f} \cup Range(work)
  BY <1>1, <1>2, FinOf
<1>4. PICK r : r = IF work = << >> THEN Running(c)
                   ELSE [IdleThread EXCEPT !.pc = "fin", !.cur = c, !.work = work]
  OBVIOUS
<1>5. /\ Goto(t, r) /\ mb' = mb /\ live' = live \ {f}
      /\ UNCHANGED <<runq, asleep, kill, waitAt, askWait, timers, issued, toKill>>
  BY <1>2, <1>4 DEF FinUnregister
<1>6. /\ Sound(r) /\ HeldOnce(r) /\ Hand(r) = ({c} \ {NoFlow}) \cup Range(work)
      /\ r.pc \in {"idle", "run", "fin"} /\ \A index : Waits(r, index)
  <2>1. CASE work = << >>
    <3>1. r = Running(c)
      BY <1>4, <2>1
    <3>2. Sound(r) /\ HeldOnce(r) /\ Hand(r) = {c} \ {NoFlow} /\ r.pc \in {"idle", "run"}
      BY <1>3, <3>1, RunningFacts
    <3>3. Range(<< >>) = {}
      BY SMTT(30) DEF Range
    <3>4. \A index : Waits(r, index)
      BY <3>2, PlainWaits DEF Plain, Pcs
    <3>5. Hand(r) = ({c} \ {NoFlow}) \cup Range(work) /\ r.pc \in {"idle", "run", "fin"}
      BY <2>1, <3>2, <3>3
    <3> QED
      BY <3>2, <3>4, <3>5
  <2>2. CASE work # << >>
    <3>1. r = [IdleThread EXCEPT !.pc = "fin", !.cur = c, !.work = work]
      BY <1>4, <2>2
    <3>2. PICK pc : pc = "fin"
      OBVIOUS
    <3>3. r = Rec("fin", c, NoFlow, NoFlow, No, NoHop, AnyHop, No, 0, work, {})
      BY <3>1, IdleFacts DEF Rec
    <3>4. r = Rec(pc, c, NoFlow, NoFlow, No, NoHop, AnyHop, No, 0, work, {})
      BY <3>2, <3>3
    <3>5. InFinalize(pc, c, NoFlow, NoFlow, 0, work, {}) /\ pc \notin Closing
      BY <1>3, <2>2, <3>2, ZeroEpoch DEF InFinalize, MaybeFlow, Closing
    <3>6. /\ Sound(r) /\ HeldOnce(r) /\ r.pc = pc
          /\ Hand(r) = ({c} \ {NoFlow}) \cup (IF pc \in Closing THEN {NoFlow} ELSE {}) \cup Range(work)
          /\ \A index : Waits(r, index)
      <4>1. Finalizes(r, pc, c, NoFlow, work, {})
        BY <3>4, <3>5, FinRecord
      <4> QED
        BY <4>1 DEF Finalizes
    <3>7. Hand(r) = ({c} \ {NoFlow}) \cup Range(work) /\ r.pc \in {"idle", "run", "fin"}
      BY <3>2, <3>5, <3>6
    <3> QED
      BY <3>6, <3>7
  <2> QED
    BY <2>1, <2>2
<1>7. /\ Hand(r) = Hand(th[t]) \ {f} /\ f \in Hand(th[t])
      /\ r.pc # "park_send" /\ r.pc \notin Closing
  BY <1>3, <1>6 DEF Closing
<1>8. runq' = runq /\ asleep' = asleep /\ waitAt' = waitAt /\ askWait' = askWait
  BY <1>5
<1>9. PICK m : m = mb[f]
  OBVIOUS
<1>10. Touch(t, r, f, mb[f]) /\ Touch(t, r, f, m) /\ Box(m)
  BY <1>0, <1>3, <1>5, <1>9, TouchThread, BoxOf
<1>11. Types'
  <2>1. Tables'
    BY <1>0, <1>5 DEF Types, Tables
  <2> QED
    BY <1>0, <1>3, <1>6, <1>10, <2>1, TypesStep
<1>12. OnePlace'
  BY <1>0, <1>5, <1>6, <1>7, <1>8, Departure
<1>13. Indexed'
  <2>1. mb[f].closed
    BY <1>0, <1>1, <1>2 DEF Indexed
  <2> QED
    BY <1>0, <1>1, <1>3, <1>5, <1>7, <1>8, <1>10, <2>1, IndexedLeave
<1>14. Asks'
  <2>1. \A a \in th[t].orphans : a \in r.orphans \/ ~mb'[a].parked
    BY <1>3
  <2>2. \A b \in Flow : askWait'[b] = askWait[b] \/ (askWait'[b] = NoFlow /\ ~mb'[b].parked)
    BY <1>8, SameAsks
  <2>3. Waits(r, askWait') /\ (m.parked => mb[f].parked /\ m.filter = mb[f].filter)
    BY <1>6, <1>9
  <2> QED
    BY <1>0, <1>1, <1>3, <1>10, <2>1, <2>2, <2>3, AsksKeep
<1> QED
  BY <1>11, <1>12, <1>13, <1>14 DEF IInv

-----------------------------------------------------------------------------
(* The theorems *)

\* Send, Reply and Ask are one operation and one delivery.
LEMMA SendsStep ==
  ASSUME IInv, NEW w \in Worker,
         \/ \E to \in Flow : Send(w, to)
         \/ Reply(w)
         \/ \E to \in Flow, timed \in BOOLEAN : Ask(w, to, timed)
  PROVE  IInv'
<1>1. \E op, to, hop, ask, timed : Issue(w, op) /\ Deliver(w, to, hop, ask, timed)
  BY DEF Send, Reply, Ask
<1>2. PICK op, to, hop, ask, timed : Issue(w, op) /\ Deliver(w, to, hop, ask, timed)
  BY <1>1
<1> QED
  BY <1>2, DeliverStep

\* A step of a worker.
LEMMA WorkerInv ==
  ASSUME IInv, NEW w \in Worker, WorkerStep(w)
  PROVE  IInv'
<1>1. CASE \E g \in Flow : Pick(w, g)
  BY <1>1, PickStep
<1>2. CASE Yield(w) \/ Sleep(w)
  BY <1>2, YieldStep
<1>3. CASE Complete(w)
  BY <1>3, CompleteStep
<1>4. CASE \/ \E to \in Flow : Send(w, to)
           \/ Reply(w)
           \/ \E to \in Flow, timed \in BOOLEAN : Ask(w, to, timed)
  BY <1>4, SendsStep
<1>5. CASE Handoff(w)
  BY <1>5, HandoffStep
<1>6. CASE IndexSender(w)
  BY <1>6, IndexSenderStep
<1>7. CASE ParkSend(w)
  BY <1>7, ParkSendStep
<1>8. CASE SenderKillTake(w)
  BY <1>8, SenderKillTakeStep
<1>9. CASE \E f \in Filters, timed \in BOOLEAN : Receive(w, f, timed)
  BY <1>9, ReceiveStep
<1>10. CASE Admit(w)
  BY <1>10, AdmitStep
<1>11. CASE AskPop(w)
  BY <1>11, AskPopStep
<1>12. CASE AskInsert(w)
  BY <1>12, AskInsertStep
<1>13. CASE Park(w) \/ AskPark(w)
  BY <1>13, ParkStep
<1>14. CASE SenderKillCheck(w) \/ KillCheck(w) \/ KillRestore(w)
  BY <1>14, SignalStep
<1>15. CASE KillTake(w)
  BY <1>15, KillTakeStep
<1>16. CASE AskCheck(w) \/ AskLive(w)
  BY <1>16, RevalidateStep
<1>17. CASE AskGone(w)
  BY <1>17, AskGoneStep
<1> QED
  BY <1>1, <1>2, <1>3, <1>4, <1>5, <1>6, <1>7, <1>8, <1>9, <1>10, <1>11, <1>12, <1>13, <1>14,
     <1>15, <1>16, <1>17 DEF WorkerStep

\* A step of the timer or of the host that kills.
LEMMA OthersInv ==
  ASSUME IInv, TimerStep \/ HostStep
  PROVE  IInv'
<1>1. CASE \E g \in Flow : WakeSleeper(g)
  BY <1>1, WakeSleeperStep
<1>2. CASE \E d \in timers : FireDeadline(d)
  BY <1>2, FireDeadlineStep
<1>3. CASE TimedOut
  BY <1>3, TimedOutStep
<1>4. CASE ExtractParked
  BY <1>4, ExtractParkedStep
<1>5. CASE ExtractSender
  BY <1>5, ExtractSenderStep
<1>6. CASE ExtractIndex
  <2>1. PICK t \in Thread : t = "host"
    BY DEF Thread
  <2>2. th[t].pc = "x_index" /\ Sound(th[t])
    BY <1>6, <2>1, ThreadOf DEF ExtractIndex
  <2>3. th[t].f \in Flow
    BY <2>2 DEF Sound, OnFlow
  <2> QED
    BY <1>6, <2>3, ExtractLookStep
<1>7. CASE \E g \in Flow : HostKill(g)
  BY <1>7, ExtractLookStep
<1> QED
  BY <1>1, <1>2, <1>3, <1>4, <1>5, <1>6, <1>7 DEF TimerStep, HostStep, ExtractStep

\* A step of a thread in finalize_flow.
LEMMA FinalizeInv ==
  ASSUME IInv, NEW t \in Thread, FinalizeStep(t)
  PROVE  IInv'
<1>1. CASE FinClose(t)
  BY <1>1, FinCloseStep
<1>2. CASE FinAsks(t)
  BY <1>2, FinAsksStep
<1>3. CASE FinUnregister(t)
  BY <1>3, FinUnregisterStep
<1>4. CASE \E a \in Flow : FinOrphan(t, a)
  BY <1>4, FinOrphanStep
<1> QED
  BY <1>1, <1>2, <1>3, <1>4 DEF FinalizeStep

\* Every step keeps the invariant.
LEMMA NextInv == IInv /\ [Next]_vars => IInv'
<1> SUFFICES ASSUME IInv, [Next]_vars PROVE IInv'
  OBVIOUS
<1>1. CASE \E w \in Worker : WorkerStep(w)
  BY <1>1, WorkerInv
<1>2. CASE TimerStep \/ HostStep
  BY <1>2, OthersInv
<1>3. CASE \E t \in Thread \ {"timer"} : FinalizeStep(t)
  BY <1>3, FinalizeInv
<1>4. CASE UNCHANGED vars
  <2>1. /\ mb' = mb /\ runq' = runq /\ asleep' = asleep /\ live' = live /\ kill' = kill
        /\ waitAt' = waitAt /\ askWait' = askWait /\ timers' = timers /\ issued' = issued
        /\ toKill' = toKill /\ th' = th
    BY <1>4 DEF vars
  <2>2. Types'
    BY <2>1 DEF IInv, Types, Tables, Boxes, Threads
  <2>3. \A p : At(p)' = At(p)
    BY <2>1 DEF At
  <2>4. OnePlace'
    BY <2>1, <2>3 DEF IInv, OnePlace
  <2>5. Indexed'
    <3>1. \A w, g : OnItsWay(w, g)' <=> OnItsWay(w, g)
      BY <2>1 DEF OnItsWay
    <3> QED
      BY <2>1, <3>1 DEF IInv, Indexed
  <2>6. Asks'
    BY <2>1 DEF IInv, Asks, Asking
  <2> QED
    BY <2>2, <2>4, <2>5, <2>6 DEF IInv
<1> QED
  BY <1>1, <1>2, <1>3, <1>4 DEF Next

\* The inductive invariant of the message path: deliver, park, admit, kill, timeout and
\* finalize, with every window between two of their critical sections open to the others.
THEOREM Invariant == Spec => []IInv
BY InitInv, NextInv, PTL DEF Spec

\* Every registered flow's box is in exactly one place: a run queue, the timer, its own
\* inbox, one waiting list, or the hands of one thread (worker.rs, reactor.rs, the inbox),
\* and a finalized one is nowhere.
THEOREM FlowsHaveOneOwner == Spec => []FlowsOwned
<1>1. OnePlace => FlowInOnePlace
  BY DEF OnePlace, FlowInOnePlace, Distinct
<1>2. IInv => FlowsOwned
  BY <1>1, TypesTypeOK DEF IInv, FlowsOwned
<1> QED
  BY <1>2, Invariant, PTL

\* WaitingSendIndex names every sender parked in an inbox, that inbox is open and registered,
\* and the index names nothing else (park_waiting_send, admit, kill, finalize_one).
THEOREM SendersAreIndexed == Spec => []WaitIndexExact
<1>1. IInv => WaitIndexExact
  BY IndexedExact DEF IInv
<1> QED
  BY <1>1, Invariant, PTL

\* A parked Ask is in AskWaitIndex under its target, or in the list of the thread that
\* finalizes the target, or is still to be revalidated by the worker that parked it.
THEOREM AsksAreIndexed == Spec => []AskIndexed
<1>1. IInv => AskIndexed
  BY AsksIndexed DEF IInv
<1> QED
  BY <1>1, Invariant, PTL
=============================================================================
