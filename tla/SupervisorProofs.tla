-------------------------- MODULE SupervisorProofs --------------------------
(***************************************************************************)
(* Proofs about Supervisor, for any specs, strategies, exits and clock:    *)
(* the table of children is exact whenever the drive loop reads it.  What  *)
(* the sequences hold besides ids is not restricted, so a sequence is a    *)
(* sequence of whatever it contains.                                       *)
(***************************************************************************)
EXTENDS Supervisor, WellFoundedInduction, TLAPS

-----------------------------------------------------------------------------
(* Sequences *)

IsSeq(s) == s \in Seq(Range(s))

\* A sequence has a length, and its positions are numbered from one.
LEMMA Shape ==
  ASSUME NEW s, IsSeq(s)
  PROVE  Len(s) \in Nat /\ DOMAIN s = 1..Len(s)
BY DEF IsSeq

\* A sequence of elements of some set is a sequence.
LEMMA IsSeqOf ==
  ASSUME NEW S, NEW s, s \in Seq(S)
  PROVE  IsSeq(s)
<1>1. Len(s) \in Nat /\ s \in [1..Len(s) -> S]
  OBVIOUS
<1>2. \A i \in 1..Len(s) : s[i] \in Range(s)
  BY <1>1, Zenon DEF Range
<1>3. s \in [1..Len(s) -> Range(s)]
  BY <1>1, <1>2, Zenon
<1> QED
  BY <1>1, <1>3 DEF IsSeq

\* Append adds one element behind the others: Vec::push of a row, push_back of an exit.
LEMMA AppendSeq ==
  ASSUME NEW s, IsSeq(s), NEW x
  PROVE  /\ IsSeq(Append(s, x)) /\ Len(Append(s, x)) = Len(s) + 1
         /\ \A i \in 1..Len(s) : Append(s, x)[i] = s[i]
         /\ Append(s, x)[Len(s) + 1] = x
<1> DEFINE S == Range(s) \cup {x}
<1>1. s \in Seq(S) /\ x \in S
  <2>1. Len(s) \in Nat /\ DOMAIN s = 1..Len(s) /\ s = [i \in 1..Len(s) |-> s[i]]
    BY DEF IsSeq
  <2>2. \A i \in 1..Len(s) : s[i] \in S
    BY <2>1, Zenon DEF Range
  <2> HIDE DEF S
  <2> [i \in 1..Len(s) |-> s[i]] \in Seq(S)
    BY <2>1, <2>2
  <2> QED
    BY <2>1, Zenon DEF S
<1> HIDE DEF S
<1>2. Append(s, x) \in Seq(S)
  BY <1>1
<1>3. IsSeq(Append(s, x))
  BY <1>2, IsSeqOf, Zenon
<1> QED
  BY <1>1, <1>2, <1>3

\* Tail takes the first element off: pop_front.
LEMMA TailSeq ==
  ASSUME NEW s, IsSeq(s), s # <<>>
  PROVE  /\ Len(s) >= 1 /\ Head(s) = s[1]
         /\ IsSeq(Tail(s)) /\ Len(Tail(s)) = Len(s) - 1
         /\ \A i \in 1..(Len(s) - 1) : Tail(s)[i] = s[i + 1]
<1> DEFINE S == Range(s)
<1>1. s \in Seq(S)
  BY Zenon DEF IsSeq
<1> HIDE DEF S
<1>2. Tail(s) \in Seq(S)
  BY <1>1
<1>3. IsSeq(Tail(s))
  BY <1>2, IsSeqOf, Zenon
<1> QED
  BY <1>1, <1>2, <1>3

\* RemoveAt closes the gap: ChildTable's Vec::remove.
LEMMA RemoveAtSeq ==
  ASSUME NEW s, IsSeq(s), NEW i \in 1..Len(s)
  PROVE  /\ IsSeq(RemoveAt(s, i)) /\ Len(RemoveAt(s, i)) = Len(s) - 1
         /\ \A j \in 1..(Len(s) - 1) : RemoveAt(s, i)[j] = IF j < i THEN s[j] ELSE s[j + 1]
<1> DEFINE S == Range(s)
           a == SubSeq(s, 1, i - 1)
           b == SubSeq(s, i + 1, Len(s))
<1>1. s \in Seq(S) /\ Len(s) \in Nat
  BY Shape, Zenon DEF IsSeq
<1> HIDE DEF S
<1>2. a \in Seq(S) /\ Len(a) = i - 1 /\ \A j \in 1..(i - 1) : a[j] = s[j]
  BY <1>1
<1>3. b \in Seq(S) /\ Len(b) = Len(s) - i /\ \A j \in 1..(Len(s) - i) : b[j] = s[j + i]
  BY <1>1
<1>4. RemoveAt(s, i) = a \o b
  BY Zenon DEF RemoveAt
<1> HIDE DEF a, b
<1>5. /\ a \o b \in Seq(S) /\ Len(a \o b) = Len(s) - 1
      /\ \A j \in 1..(Len(s) - 1) : (a \o b)[j] = IF j < i THEN a[j] ELSE b[j - (i - 1)]
  <2>1. a \in Seq(S) /\ b \in Seq(S)
    BY <1>2, <1>3, Zenon
  <2>2. a \o b \in Seq(S) /\ Len(a \o b) = Len(a) + Len(b)
    BY <2>1
  <2>3. \A j \in 1..(Len(a) + Len(b)) : (a \o b)[j] = IF j <= Len(a) THEN a[j] ELSE b[j - Len(a)]
    BY <2>1
  <2> QED
    BY <1>1, <1>2, <1>3, <2>2, <2>3
<1>6. \A j \in 1..(Len(s) - 1) : (a \o b)[j] = IF j < i THEN s[j] ELSE s[j + 1]
  <2> SUFFICES ASSUME NEW j \in 1..(Len(s) - 1)
               PROVE  (a \o b)[j] = IF j < i THEN s[j] ELSE s[j + 1]
    BY Zenon
  <2>1. CASE j < i
    BY <1>1, <1>2, <1>5, <2>1
  <2>2. CASE ~(j < i)
    <3>1. j - (i - 1) \in 1..(Len(s) - i) /\ j - (i - 1) + i = j + 1
      BY <1>1, <2>2
    <3> QED
      BY <1>3, <1>5, <2>2, <3>1, Zenon
  <2> QED
    BY <2>1, <2>2, Zenon
<1>7. IsSeq(a \o b)
  BY <1>5, IsSeqOf, Zenon
<1> QED
  BY <1>4, <1>5, <1>6, <1>7, Zenon

\* A table whose rows are changed in place keeps its length.
LEMMA MapSeq ==
  ASSUME NEW s, IsSeq(s), NEW t, DOMAIN t = DOMAIN s, t = [i \in DOMAIN t |-> t[i]]
  PROVE  IsSeq(t) /\ Len(t) = Len(s)
<1>1. Len(s) \in Nat /\ DOMAIN t = 1..Len(s)
  BY Shape, Zenon
<1>2. \A i \in 1..Len(s) : t[i] \in Range(t)
  BY <1>1, Zenon DEF Range
<1>3. [i \in 1..Len(s) |-> t[i]] \in Seq(Range(t))
  BY <1>1, <1>2
<1>4. t \in Seq(Range(t))
  BY <1>1, <1>3, Zenon
<1> QED
  BY <1>1, <1>4 DEF IsSeq
-----------------------------------------------------------------------------
(* The invariant *)

HasRow(f) == \E i \in DOMAIN children : children[i].id = f
MustEnd(f) == \E i \in DOMAIN children : children[i].id = f /\ children[i].expected

States == {"none", "run", "parked", "taken", "ending", "unregistered", "gone"}

Types ==
  /\ DOMAIN flow = Flow
  /\ \A f \in Flow : DOMAIN flow[f] = {"st", "child", "killed", "exit"} /\ flow[f].st \in States
  /\ DOMAIN th = Thread
  /\ \A t \in Thread : DOMAIN th[t] = {"pc", "todo", "kills", "id"}
  /\ DOMAIN cascade = {"on", "waiting", "specs"}

Locking == {"name", "undo"}

LockInv ==
  /\ tableLock \in {"free", "held"}
  /\ tableLock = "held" <=> \E t \in Thread : th[t].pc \in Locking
  /\ \A t, u \in Thread : {th[t].pc, th[u].pc} \subseteq Locking => t = u

\* a flow has at most one row, from its spawn on
TableInv ==
  /\ IsSeq(children)
  /\ \A i \in DOMAIN children : /\ DOMAIN children[i] = {"id", "child", "expected"}
                                /\ children[i].id \in Flow /\ flow[children[i].id].st # "none"
  /\ \A i, j \in DOMAIN children : children[i].id = children[j].id => i = j

\* a flow's exit is queued once, when it is gone, and its row is there until it is handled
QueueInv ==
  /\ IsSeq(events)
  /\ th[Drive].pc = "handle" => events # <<>>
  /\ \A i \in DOMAIN events : /\ events[i][1] \in Flow /\ flow[events[i][1]].st = "gone"
                              /\ HasRow(events[i][1])
  /\ \A i, j \in DOMAIN events : events[i][1] = events[j][1] => i = j
  /\ \A f \in Flow : flow[f].st \notin {"none", "gone"} => HasRow(f)
  /\ NoGhostRow

\* the siblings handle_exit chose still have their rows when start_cascade marks them
WaitInv ==
  /\ \A f \in cascade.waiting : MustEnd(f)
  /\ th[Drive].pc = "cascade" => \A f \in Range(th[Drive].kills) : HasRow(f)

IInv == Types /\ LockInv /\ TableInv /\ QueueInv /\ WaitInv
-----------------------------------------------------------------------------
(* What a step may leave alone *)

\* no flow is started, and none is gone that was not
FlowKept ==
  /\ DOMAIN flow' = Flow
  /\ \A f \in Flow :
       /\ DOMAIN flow'[f] = {"st", "child", "killed", "exit"} /\ flow'[f].st \in States
       /\ flow'[f].st = "none" <=> flow[f].st = "none"
       /\ flow'[f].st = "gone" <=> flow[f].st = "gone"

\* the rows stay, and what was told to end still is
RowsKept ==
  /\ IsSeq(children') /\ DOMAIN children' = DOMAIN children
  /\ \A i \in DOMAIN children :
       /\ DOMAIN children'[i] = {"id", "child", "expected"}
       /\ children'[i].id = children[i].id
       /\ children[i].expected => children'[i].expected

\* the threads keep their shape
ThreadsKept ==
  /\ DOMAIN th' = Thread
  /\ \A t \in Thread : DOMAIN th'[t] = {"pc", "todo", "kills", "id"}

\* nobody takes or releases the children mutex
LockKept ==
  /\ tableLock' = tableLock
  /\ \A t \in Thread : th'[t].pc \in Locking <=> th[t].pc \in Locking

\* the cascade waits for no one else, and no list of siblings is made
WaitKept ==
  /\ DOMAIN cascade' = {"on", "waiting", "specs"} /\ cascade'.waiting \subseteq cascade.waiting
  /\ th'[Drive].pc = "cascade" => th[Drive].pc = "cascade" /\ th'[Drive].kills = th[Drive].kills

LEMMA Rows ==
  ASSUME RowsKept
  PROVE  /\ \A f : HasRow(f) => HasRow(f)'
         /\ \A f : MustEnd(f) => MustEnd(f)'
BY Zenon DEF RowsKept, HasRow, MustEnd

LEMMA LockStays ==
  ASSUME LockInv, LockKept
  PROVE  LockInv'
BY Zenon DEF LockInv, LockKept

LEMMA TableStays ==
  ASSUME TableInv, FlowKept, RowsKept
  PROVE  TableInv'
BY DEF TableInv, FlowKept, RowsKept

LEMMA QueueStays ==
  ASSUME TableInv, QueueInv, FlowKept, RowsKept, events' = events,
         th'[Drive].pc = "handle" => events # <<>>
  PROVE  QueueInv'
<1>1. \A f : HasRow(f) => HasRow(f)'
  BY Rows, Zenon
<1>2. NoGhostRow'
  BY DEF TableInv, QueueInv, NoGhostRow, FlowKept, RowsKept, Queued
<1> QED
  BY <1>1, <1>2, Zenon DEF QueueInv, FlowKept

LEMMA WaitStays ==
  ASSUME WaitInv, RowsKept, WaitKept
  PROVE  WaitInv'
BY Rows, Zenon DEF WaitInv, WaitKept

\* A step that starts and ends no flow, and takes no row, keeps the invariant.
LEMMA CalmStep ==
  ASSUME IInv, FlowKept, RowsKept, ThreadsKept, LockInv', WaitKept, events' = events,
         th'[Drive].pc = "handle" => events # <<>>
  PROVE  IInv'
<1>1. Types'
  BY Zenon DEF IInv, Types, FlowKept, ThreadsKept, WaitKept
<1> QED
  BY <1>1, TableStays, QueueStays, WaitStays, Zenon DEF IInv

LEMMA SameFlows ==
  ASSUME IInv, flow' = flow
  PROVE  FlowKept
BY Zenon DEF IInv, Types, FlowKept

LEMMA SameRows ==
  ASSUME IInv, children' = children
  PROVE  RowsKept
BY Zenon DEF IInv, TableInv, RowsKept

\* Goto, for a thread that neither takes nor releases the children mutex
LEMMA GotoKeeps ==
  ASSUME IInv, NEW t \in Thread, NEW r, Goto(t, r), DOMAIN r = {"pc", "todo", "kills", "id"}
  PROVE  /\ ThreadsKept
         /\ th'[t] = r /\ \A u \in Thread : u # t => th'[u] = th[u]
         /\ (r.pc \in Locking <=> th[t].pc \in Locking) /\ tableLock' = tableLock => LockInv'
<1>1. th'[t] = r /\ (\A u \in Thread : u # t => th'[u] = th[u]) /\ ThreadsKept
  BY Zenon DEF IInv, Types, Goto, ThreadsKept
<1>2. (r.pc \in Locking <=> th[t].pc \in Locking) /\ tableLock' = tableLock => LockKept
  BY <1>1, Zenon DEF LockKept
<1> QED
  BY <1>1, <1>2, LockStays, Zenon DEF IInv
-----------------------------------------------------------------------------
(* The supervised flows *)

LEMMA SameThreads ==
  ASSUME IInv, th' = th, tableLock' = tableLock, cascade' = cascade
  PROVE  /\ ThreadsKept /\ LockInv' /\ WaitKept
         /\ th'[Drive].pc = "handle" => events # <<>>
BY Zenon DEF IInv, Types, ThreadsKept, LockInv, WaitKept, QueueInv

\* A flow that parks, wakes, exits or leaves the directory has its row and is not gone.
LEMMA FlowMoves ==
  ASSUME IInv, NEW f \in Flow, Park(f) \/ Wake(f) \/ Exit(f) \/ ExitKilled(f) \/ FinDirectory(f)
  PROVE  IInv'
<1>1. FlowKept
  <2>1. Types
    BY Zenon DEF IInv
  <2>2. CASE Park(f)
    BY <2>1, <2>2, Zenon DEF Types, Park, FlowKept, States
  <2>3. CASE Wake(f)
    BY <2>1, <2>3, Zenon DEF Types, Wake, FlowKept, States
  <2>4. CASE Exit(f)
    <3>1. PICK e \in Exits :
             flow' = [flow EXCEPT ![f] = [@ EXCEPT !.st = "ending", !.exit = e, !.killed = FALSE]]
      BY <2>4, Zenon DEF Exit
    <3>2. flow[f].st = "run"
      BY <2>4, Zenon DEF Exit
    <3> QED
      BY <2>1, <3>1, <3>2, Zenon DEF Types, FlowKept, States
  <2>5. CASE ExitKilled(f)
    BY <2>1, <2>5, Zenon DEF Types, ExitKilled, FlowKept, States
  <2>6. CASE FinDirectory(f)
    BY <2>1, <2>6, Zenon DEF Types, FinDirectory, FlowKept, States
  <2> QED
    BY <2>2, <2>3, <2>4, <2>5, <2>6, Zenon
<1>2. UNCHANGED <<children, events, cascade, tableLock, th>>
  BY Zenon DEF Park, Wake, Exit, ExitKilled, FinDirectory, slot
<1> QED
  BY <1>1, <1>2, SameRows, SameThreads, CalmStep, Zenon

\* request_kill takes a parked flow or signals a running one; nobody is gone by it.
LEMMA KillKeeps ==
  ASSUME IInv, NEW t \in Thread, NEW f, NEW wait, NEW next, request_kill(t, f, wait, next),
         DOMAIN next = {"pc", "todo", "kills", "id"}
  PROVE  /\ FlowKept
         /\ \E r : /\ Goto(t, r) /\ DOMAIN r = {"pc", "todo", "kills", "id"}
                  /\ r.kills = next.kills
                  /\ r.pc = IF flow[f].st = "parked" THEN wait ELSE next.pc
<1>1. FlowKept
  <2>1. Types
    BY Zenon DEF IInv
  <2>2. CASE flow[f].st = "parked"
    <3>1. flow' = [flow EXCEPT ![f].st = "taken", ![f].exit = <<"Failed", "OnFailure">>]
      BY <2>2, Zenon DEF request_kill
    <3> QED
      BY <2>1, <2>2, <3>1, Zenon DEF Types, FlowKept, States
  <2>3. CASE flow[f].st = "run"
    <3>1. flow' = [flow EXCEPT ![f].killed = TRUE]
      BY <2>3, Zenon DEF request_kill
    <3> QED
      BY <2>1, <2>3, <3>1, Zenon DEF Types, FlowKept, States
  <2>4. CASE flow[f].st \notin {"parked", "run"}
    <3>1. flow' = flow
      BY <2>4, Zenon DEF request_kill
    <3> QED
      BY <3>1, SameFlows, Zenon
  <2> QED
    BY <2>2, <2>3, <2>4, Zenon
<1>2. CASE flow[f].st = "parked"
  <2> DEFINE r == [next EXCEPT !.pc = wait, !.id = f]
  <2>1. Goto(t, r)
    BY <1>2, Zenon DEF request_kill
  <2>2. DOMAIN r = {"pc", "todo", "kills", "id"} /\ r.kills = next.kills /\ r.pc = wait
    BY Zenon
  <2> HIDE DEF r
  <2> QED
    BY <1>1, <1>2, <2>1, <2>2, Zenon
<1>3. CASE flow[f].st # "parked"
  BY <1>1, <1>3, Zenon DEF request_kill
<1> QED
  BY <1>2, <1>3, Zenon

\* notify: the exit of a flow that has its row is queued, once.
LEMMA NotifyStep ==
  ASSUME IInv, NEW f \in Flow, notify(f)
  PROVE  IInv'
<1> DEFINE ev == <<f, flow[f].exit[1], flow[f].exit[2]>>
<1>1. /\ flow[f].st = "unregistered" /\ th[Drive].pc # "take"
      /\ flow' = [flow EXCEPT ![f] = [Blank EXCEPT !.st = "gone"]]
      /\ events' = Append(events, ev)
      /\ UNCHANGED <<children, tableLock, cascade, th>>
  BY Zenon DEF notify, slot
<1>2. ev[1] = f
  BY Zenon
<1> HIDE DEF ev
<1>3. Types /\ LockInv /\ TableInv /\ QueueInv /\ WaitInv
  BY Zenon DEF IInv
<1>4. /\ DOMAIN flow' = Flow /\ DOMAIN flow'[f] = {"st", "child", "killed", "exit"}
      /\ flow'[f].st = "gone" /\ \A g \in Flow : g # f => flow'[g] = flow[g]
  BY <1>1, <1>3, Zenon DEF Types, Blank
<1>5. /\ IsSeq(events) /\ Len(events) \in Nat /\ DOMAIN events = 1..Len(events)
      /\ IsSeq(events') /\ DOMAIN events' = 1..(Len(events) + 1)
      /\ \A i \in DOMAIN events : events'[i] = events[i]
      /\ events'[Len(events) + 1][1] = f
  BY <1>1, <1>2, <1>3, Shape, AppendSeq DEF QueueInv
<1>6. Types'
  BY <1>1, <1>3, <1>4, Zenon DEF Types, States
<1>7. LockInv' /\ WaitInv'
  <2>1. LockInv'
    BY <1>1, <1>3, Zenon DEF LockInv
  <2>2. \A g : (MustEnd(g)' <=> MustEnd(g)) /\ (HasRow(g)' <=> HasRow(g))
    BY <1>1, Zenon DEF MustEnd, HasRow
  <2>3. cascade' = cascade /\ th' = th
    BY <1>1, Zenon
  <2> QED
    BY <1>3, <2>1, <2>2, <2>3, Zenon DEF WaitInv
<1>8. TableInv'
  BY <1>1, <1>3, <1>4, Zenon DEF TableInv
<1>9. \A g : HasRow(g)' <=> HasRow(g)
  BY <1>1, Zenon DEF HasRow
<1>10. HasRow(f) /\ \A i \in DOMAIN events : events[i][1] # f
  BY <1>1, <1>3, Zenon DEF QueueInv
<1>11. NoGhostRow'
  <2>1. ASSUME NEW i \in DOMAIN children, flow'[children[i].id].st = "gone"
        PROVE  Queued(children[i].id)'
    <3>1. CASE children[i].id = f
      BY <1>1, <1>5, <3>1 DEF Queued
    <3>2. CASE children[i].id # f
      <4>1. Queued(children[i].id)
        BY <1>3, <1>4, <2>1, <3>2, Zenon DEF TableInv, QueueInv, NoGhostRow
      <4>2. PICK j \in DOMAIN events : events[j][1] = children[i].id
        BY <4>1, Zenon DEF Queued
      <4>3. j \in DOMAIN events' /\ events'[j][1] = children'[i].id
        BY <1>1, <1>5, <4>2
      <4> QED
        BY <4>3, Zenon DEF Queued
    <3> QED
      BY <3>1, <3>2, Zenon
  <2> QED
    BY <1>1, <2>1, Zenon DEF NoGhostRow
<1>12. \A i \in DOMAIN events' : i \in DOMAIN events \/ i = Len(events) + 1
  BY <1>5
<1>13. QueueInv'
  <2>1. \A i \in DOMAIN events' : /\ events'[i][1] \in Flow /\ flow'[events'[i][1]].st = "gone"
                                 /\ \E k \in DOMAIN children' : children'[k].id = events'[i][1]
    <3> TAKE i \in DOMAIN events'
    <3>1. CASE i \in DOMAIN events
      BY <1>3, <1>4, <1>5, <1>1, <3>1 DEF QueueInv, HasRow
    <3>2. CASE i = Len(events) + 1
      BY <1>1, <1>4, <1>5, <1>10, <3>2, Zenon DEF HasRow
    <3> QED
      BY <1>12, <3>1, <3>2, Zenon
  <2>2. \A i, j \in DOMAIN events' : events'[i][1] = events'[j][1] => i = j
    BY <1>3, <1>5, <1>10, <1>12, Zenon DEF QueueInv
  <2>3. \A g \in Flow : flow'[g].st \notin {"none", "gone"} => HasRow(g)'
    BY <1>3, <1>4, <1>9, Zenon DEF QueueInv
  <2>4. th'[Drive].pc = "handle" => events' # <<>>
    BY <1>1, <1>5
  <2> QED
    BY <1>5, <1>11, <2>1, <2>2, <2>3, <2>4, Zenon DEF QueueInv, HasRow
<1> QED
  BY <1>6, <1>7, <1>8, <1>13, Zenon DEF IInv
-----------------------------------------------------------------------------
(* The threads *)

Shaped(r) == DOMAIN r = {"pc", "todo", "kills", "id"}

\* A thread that goes on, outside the children mutex, and starts no cascade.
LEMMA ThreadMove ==
  ASSUME IInv, NEW t \in Thread, NEW r, Goto(t, r), Shaped(r), FlowKept, RowsKept, LockInv',
         r.pc # "cascade", r.pc = "handle" => events # <<>>, events' = events,
         DOMAIN cascade' = {"on", "waiting", "specs"}, cascade'.waiting \subseteq cascade.waiting
  PROVE  IInv'
<1>1. ThreadsKept /\ th'[t] = r /\ \A u \in Thread : u # t => th'[u] = th[u]
  BY GotoKeeps, Zenon DEF Shaped
<1>2. Drive \in Thread /\ (th[Drive].pc = "handle" => events # <<>>)
  BY Zenon DEF Thread, IInv, QueueInv
<1>3. WaitKept /\ (th'[Drive].pc = "handle" => events # <<>>)
  BY <1>1, <1>2, Zenon DEF WaitKept
<1> QED
  BY <1>1, <1>3, CalmStep, Zenon

\* The same, of a step that changes the thread and perhaps the cascade alone.
LEMMA ThreadAlone ==
  ASSUME IInv, NEW t \in Thread, NEW r, Goto(t, r), Shaped(r),
         r.pc \notin Locking \cup {"cascade"}, th[t].pc \notin Locking,
         r.pc = "handle" => events # <<>>, UNCHANGED <<flow, children, tableLock, events>>,
         DOMAIN cascade' = {"on", "waiting", "specs"}, cascade'.waiting \subseteq cascade.waiting
  PROVE  IInv'
<1>1. FlowKept /\ RowsKept
  BY SameFlows, SameRows, Zenon
<1>2. LockInv'
  BY GotoKeeps, Zenon DEF Shaped
<1> QED
  BY <1>1, <1>2, ThreadMove, Zenon

\* The drive loop, up to the event it takes, and what it does after the kills.
LEMMA DriveCalm ==
  ASSUME IInv, Top \/ Take \/ Woken \/ Finalized \/ Prune
  PROVE  IInv'
<1>1. /\ Drive \in Thread /\ Shaped(th[Drive])
      /\ DOMAIN cascade = {"on", "waiting", "specs"}
  BY Zenon DEF IInv, Types, Thread, Shaped
<1>2. CASE Top
  <2>1. PICK pc \in {"stopped", "take"} : Step(Drive, pc)
    BY <1>2, Zenon DEF Top
  <2> DEFINE r == [th[Drive] EXCEPT !.pc = pc]
  <2>2. Goto(Drive, r) /\ Shaped(r) /\ r.pc = pc
    BY <1>1, <2>1, Zenon DEF Step, Shaped
  <2> HIDE DEF r
  <2> QED
    BY <1>1, <1>2, <2>2, ThreadAlone, Zenon DEF Top, Locking, slot
<1>3. CASE Take
  <2>1. PICK pc \in {"wait", "handle"} : Step(Drive, pc) /\ (pc = "handle" => events # <<>>)
    BY <1>3, Zenon DEF Take
  <2> DEFINE r == [th[Drive] EXCEPT !.pc = pc]
  <2>2. Goto(Drive, r) /\ Shaped(r) /\ r.pc = pc
    BY <1>1, <2>1, Zenon DEF Step, Shaped
  <2> HIDE DEF r
  <2> QED
    BY <1>1, <1>3, <2>1, <2>2, ThreadAlone, Zenon DEF Take, Locking, slot
<1>4. CASE Woken
  <2> DEFINE r == [th[Drive] EXCEPT !.pc = "top"]
  <2>2. Goto(Drive, r) /\ Shaped(r) /\ r.pc = "top"
    BY <1>1, <1>4, Zenon DEF Step, Shaped, Woken
  <2> HIDE DEF r
  <2> QED
    BY <1>1, <1>4, <2>2, ThreadAlone, Zenon DEF Woken, Locking, slot
<1>5. CASE Finalized
  <2> DEFINE r == [th[Drive] EXCEPT !.pc = "kill", !.id = 0]
  <2>2. Goto(Drive, r) /\ Shaped(r) /\ r.pc = "kill"
    BY <1>1, <1>5, Zenon DEF Shaped, Finalized
  <2> HIDE DEF r
  <2> QED
    BY <1>1, <1>5, <2>2, ThreadAlone, Zenon DEF Finalized, Locking, slot
<1>6. CASE Prune
  <2>1. CASE {f \in cascade.waiting : InDirectory(f)} = {}
    <3> DEFINE r == [AtTop EXCEPT !.pc = "respawn", !.todo = cascade.specs]
    <3>1. Goto(Drive, r) /\ Shaped(r) /\ r.pc = "respawn"
      BY <1>6, <2>1, Zenon DEF Shaped, AtTop, Prune
    <3>2. cascade' = NoCascade
      BY <1>6, <2>1, Zenon DEF Prune
    <3>3. DOMAIN cascade' = {"on", "waiting", "specs"} /\ cascade'.waiting = {}
      BY <3>2, Zenon DEF NoCascade
    <3> HIDE DEF r
    <3> QED
      BY <1>1, <1>6, <3>1, <3>3, ThreadAlone, Zenon DEF Prune, Locking
  <2>2. CASE {f \in cascade.waiting : InDirectory(f)} # {}
    <3>1. /\ cascade' = [cascade EXCEPT !.waiting = {f \in cascade.waiting : InDirectory(f)}]
          /\ Goto(Drive, AtTop)
      BY <1>6, <2>2, Zenon DEF Prune
    <3>2. DOMAIN cascade' = {"on", "waiting", "specs"} /\ cascade'.waiting \subseteq cascade.waiting
      BY <1>1, <3>1, Zenon
    <3>3. Shaped(AtTop) /\ AtTop.pc = "top"
      BY Zenon DEF Shaped, AtTop
    <3> QED
      BY <1>1, <1>6, <3>1, <3>2, <3>3, ThreadAlone, Zenon DEF Prune, Locking
  <2> QED
    BY <2>1, <2>2, Zenon
<1> QED
  BY <1>2, <1>3, <1>4, <1>5, <1>6, Zenon

\* The kills of a cascade end nobody's row.
LEMMA KillStep ==
  ASSUME IInv, KillNext
  PROVE  IInv'
<1> DEFINE next == [th[Drive] EXCEPT !.kills = Tail(@)]
           f == Head(th[Drive].kills)
<1>1. /\ Drive \in Thread /\ Shaped(th[Drive])
      /\ DOMAIN cascade = {"on", "waiting", "specs"}
  BY Zenon DEF IInv, Types, Thread, Shaped
<1>2. /\ th[Drive].pc = "kill" /\ request_kill(Drive, f, "finalize", next)
      /\ UNCHANGED <<children, tableLock, events, cascade>>
  BY Zenon DEF KillNext, slot
<1>3. DOMAIN next = {"pc", "todo", "kills", "id"} /\ next.pc = "kill"
  BY <1>1, <1>2, Zenon DEF Shaped
<1> HIDE DEF next, f
<1>4. FlowKept
  BY <1>1, <1>2, <1>3, KillKeeps, Zenon
<1>5. PICK r : Goto(Drive, r) /\ Shaped(r) /\ r.pc \in {"finalize", "kill"}
  BY <1>1, <1>2, <1>3, KillKeeps DEF Shaped
<1>6. LockInv'
  BY <1>1, <1>2, <1>5, GotoKeeps, Zenon DEF Shaped, Locking
<1> QED
  BY <1>1, <1>2, <1>4, <1>5, <1>6, SameRows, ThreadMove, Zenon

\* The host stops the supervisor.
LEMMA HostCalm ==
  ASSUME IInv, StopFlag \/ StopNotify \/ Join
  PROVE  IInv'
<1>1. /\ Host \in Thread /\ Shaped(th[Host])
      /\ DOMAIN cascade = {"on", "waiting", "specs"}
  BY Zenon DEF IInv, Types, Thread, Shaped
<1>2. PICK pc \in {"notify", "join", "done"} : Step(Host, pc)
  BY Zenon DEF StopFlag, StopNotify, Join
<1> DEFINE r == [th[Host] EXCEPT !.pc = pc]
<1>3. Goto(Host, r) /\ Shaped(r) /\ r.pc = pc
  BY <1>1, <1>2, Zenon DEF Step, Shaped
<1>4. /\ th[Host].pc \in {"serve", "notify", "join"}
      /\ UNCHANGED <<flow, children, tableLock, events, cascade>>
  BY Zenon DEF StopFlag, StopNotify, Join, slot
<1> HIDE DEF r
<1> QED
  BY <1>1, <1>3, <1>4, ThreadAlone, Zenon DEF Locking
-----------------------------------------------------------------------------
(* spawn_child *)

\* The mutex goes to a thread that finds it free, or stays with or is released by its holder.
LEMMA LockMoves ==
  ASSUME IInv, NEW t \in Thread, NEW r, Goto(t, r), Shaped(r),
         th[t].pc \in Locking \/ tableLock = "free",
         tableLock' = IF r.pc \in Locking THEN "held" ELSE "free"
  PROVE  LockInv'
<1>1. th'[t] = r /\ \A u \in Thread : u # t => th'[u] = th[u]
  BY GotoKeeps, Zenon DEF Shaped
<1>2. LockInv
  BY Zenon DEF IInv
<1>3. \A u \in Thread : u # t => th'[u].pc \notin Locking
  BY <1>1, <1>2 DEF LockInv
<1> QED
  BY <1>1, <1>3, Zenon DEF LockInv

\* A child's name is registered, or its row is marked and the child is told to end.
LEMMA RegisterStep ==
  ASSUME IInv, NEW t \in Thread, RegisterChild(t)
  PROVE  IInv'
<1> DEFINE f == th[t].id
           c == flow[f].child
           back == [th[t] EXCEPT !.pc = "respawn", !.id = 0]
<1>1. /\ Shaped(th[t]) /\ DOMAIN cascade = {"on", "waiting", "specs"}
      /\ th[t].pc \in Locking /\ UNCHANGED <<events, cascade>>
  BY Zenon DEF IInv, Types, Shaped, RegisterChild, Locking, slot
<1>2. Shaped(back) /\ back.pc = "respawn"
  BY <1>1, Zenon DEF Shaped
<1>3. CASE \A r \in registry : r[1] # c
  <2>1. Goto(t, back) /\ tableLock' = "free" /\ UNCHANGED <<flow, children>>
    BY <1>3, Zenon DEF RegisterChild
  <2> HIDE DEF back, f, c
  <2>2. LockInv'
    BY <1>1, <1>2, <2>1, LockMoves, Zenon DEF Locking
  <2> QED
    BY <1>1, <1>2, <2>1, <2>2, SameFlows, SameRows, ThreadMove, Zenon
<1>4. CASE \E r \in registry : r[1] = c
  <2>1. /\ children' = [i \in DOMAIN children |->
                          IF children[i].id = f THEN [children[i] EXCEPT !.expected = TRUE]
                          ELSE children[i]]
        /\ request_kill(t, f, "undo", back)
        /\ tableLock' = IF flow[f].st = "parked" THEN "held" ELSE "free"
    BY <1>4, Zenon DEF RegisterChild
  <2> HIDE DEF back, f, c
  <2>2. RowsKept
    <3>1. TableInv
      BY Zenon DEF IInv
    <3>2. IsSeq(children') /\ DOMAIN children' = DOMAIN children
      BY <2>1, <3>1, MapSeq, Zenon DEF TableInv
    <3> QED
      BY <2>1, <3>1, <3>2, Zenon DEF TableInv, RowsKept
  <2>3. FlowKept
    BY <1>2, <2>1, KillKeeps, Zenon DEF Shaped
  <2>4. PICK r : /\ Goto(t, r) /\ Shaped(r)
                 /\ r.pc = IF flow[f].st = "parked" THEN "undo" ELSE "respawn"
    BY <1>2, <2>1, KillKeeps DEF Shaped
  <2>5. LockInv'
    BY <1>1, <2>1, <2>4, LockMoves, Zenon DEF Locking
  <2> QED
    BY <1>1, <2>2, <2>3, <2>4, <2>5, ThreadMove, Zenon
<1> QED
  BY <1>3, <1>4, Zenon

LEMMA ChildCalm ==
  ASSUME IInv, NEW t \in Thread, Undone(t) \/ Spawned(t)
  PROVE  IInv'
<1>1. Shaped(th[t]) /\ DOMAIN cascade = {"on", "waiting", "specs"}
  BY Zenon DEF IInv, Types, Shaped
<1>2. CASE Undone(t)
  <2> DEFINE r == [th[t] EXCEPT !.pc = "respawn", !.id = 0]
  <2>1. Goto(t, r) /\ Shaped(r) /\ r.pc = "respawn"
    BY <1>1, <1>2, Zenon DEF Shaped, Undone
  <2> HIDE DEF r
  <2>2. LockInv'
    BY <1>2, <2>1, LockMoves, Zenon DEF Undone, Locking
  <2> QED
    BY <1>1, <1>2, <2>1, <2>2, SameFlows, SameRows, ThreadMove, Zenon DEF Undone, slot
<1>3. CASE Spawned(t)
  <2>1. PICK pc \in {"top", "serve"} : Goto(t, [AtTop EXCEPT !.pc = pc])
    BY <1>3, Zenon DEF Spawned
  <2> DEFINE r == [AtTop EXCEPT !.pc = pc]
  <2>2. Goto(t, r) /\ Shaped(r) /\ r.pc = pc
    BY <2>1, Zenon DEF AtTop, Shaped
  <2> HIDE DEF r
  <2> QED
    BY <1>1, <1>3, <2>2, ThreadAlone, Zenon DEF Spawned, Locking, slot
<1> QED
  BY <1>2, <1>3, Zenon

\* The flow ids are handed out in order, as long as there are any.
LEMMA FreshLowest ==
  ASSUME FreshFlows # {}
  PROVE  Lowest(FreshFlows) \in FreshFlows
<1> DEFINE R == OpToRel(<, Nat)
           T == FreshFlows
<1>1. T \subseteq Nat /\ T # {}
  BY SupervisorAssumption DEF FreshFlows, Flow
<1>2. IsWellFoundedOn(R, Nat)
  BY NatLessThanWellFounded, Zenon
<1>3. \A y, x \in Nat : y < x => <<y, x>> \in R
  BY Zenon DEF OpToRel
<1> HIDE DEF R, T
<1>4. PICK x \in T : \A y \in T : <<y, x>> \notin R
  BY <1>1, <1>2, WFMin, Zenon
<1>5. ASSUME NEW y \in T PROVE x <= y
  <2>1. x \in Nat /\ y \in Nat
    BY <1>1, Zenon
  <2>2. ~(y < x)
    BY <1>3, <1>4, <2>1, Zenon
  <2> QED
    BY <2>1, <2>2
<1> QED
  BY <1>4, <1>5, Zenon DEF Lowest, T

\* A new flow and its row, behind the others.
LEMMA AddChild ==
  ASSUME IInv, NEW t \in Thread, NEW f \in Flow, flow[f].st = "none",
         NEW blank, DOMAIN blank = {"st", "child", "killed", "exit"}, blank.st = "run",
         NEW row, DOMAIN row = {"id", "child", "expected"}, row.id = f,
         NEW r, Goto(t, r), Shaped(r), r.pc \in {"name", "respawn"}, LockInv',
         flow' = [flow EXCEPT ![f] = blank], children' = Append(children, row),
         UNCHANGED <<events, cascade>>
  PROVE  IInv'
<1>1. Types /\ TableInv /\ QueueInv /\ WaitInv
  BY Zenon DEF IInv
<1>2. ThreadsKept /\ th'[t] = r /\ \A u \in Thread : u # t => th'[u] = th[u]
  BY GotoKeeps, Zenon DEF Shaped
<1>3. /\ Drive \in Thread /\ (th'[Drive].pc = "handle" => events # <<>>)
      /\ th'[Drive].pc = "cascade" => th[Drive].pc = "cascade" /\ th'[Drive] = th[Drive]
  BY <1>1, <1>2, Zenon DEF Thread, QueueInv
<1>4. /\ Len(children) \in Nat /\ DOMAIN children = 1..Len(children)
      /\ IsSeq(children') /\ DOMAIN children' = 1..(Len(children) + 1)
      /\ \A i \in DOMAIN children : children'[i] = children[i]
      /\ children'[Len(children) + 1] = row
  BY <1>1, Shape, AppendSeq DEF TableInv
<1>5. \A i \in DOMAIN children' : i \in DOMAIN children \/ i = Len(children) + 1
  BY <1>4
<1>6. /\ DOMAIN children \subseteq DOMAIN children' /\ Len(children) + 1 \in DOMAIN children'
      /\ Len(children) + 1 \notin DOMAIN children
  BY <1>4
<1>7. /\ DOMAIN flow' = Flow /\ flow'[f] = blank
      /\ \A g \in Flow : g # f => flow'[g] = flow[g]
  BY <1>1, Zenon DEF Types
<1>8. (\A g : HasRow(g) => HasRow(g)') /\ (\A g : MustEnd(g) => MustEnd(g)')
  BY <1>4, <1>6 DEF HasRow, MustEnd
<1>9. \A i \in DOMAIN children : children[i].id # f
  BY <1>1, Zenon DEF TableInv
<1>10. Types'
  BY <1>1, <1>2, <1>7, Zenon DEF Types, ThreadsKept, States
<1>11. TableInv'
  <2>1. \A i \in DOMAIN children' : /\ DOMAIN children'[i] = {"id", "child", "expected"}
                                   /\ children'[i].id \in Flow /\ flow'[children'[i].id].st # "none"
    BY <1>1, <1>4, <1>5, <1>7 DEF TableInv
  <2>2. \A i, j \in DOMAIN children' : children'[i].id = children'[j].id => i = j
    BY <1>1, <1>4, <1>5, <1>9 DEF TableInv
  <2> QED
    BY <1>4, <2>1, <2>2, Zenon DEF TableInv
<1>12. NoGhostRow'
  BY <1>1, <1>4, <1>5, <1>7, <1>9 DEF QueueInv, TableInv, NoGhostRow, Queued
<1>13. HasRow(f)'
  BY <1>4, <1>6, Zenon DEF HasRow
<1>14. QueueInv'
  <2>1. \A i \in DOMAIN events : events[i][1] # f
    BY <1>1, Zenon DEF QueueInv
  <2>2. \A i \in DOMAIN events : /\ events[i][1] \in Flow /\ flow'[events[i][1]].st = "gone"
                                /\ HasRow(events[i][1])'
    BY <1>1, <1>7, <1>8, <2>1, Zenon DEF QueueInv
  <2>3. \A g \in Flow : flow'[g].st \notin {"none", "gone"} => HasRow(g)'
    BY <1>1, <1>7, <1>8, <1>13, Zenon DEF QueueInv
  <2> QED
    BY <1>1, <1>3, <1>12, <2>2, <2>3, Zenon DEF QueueInv
<1>15. WaitInv'
  BY <1>1, <1>3, <1>8, Zenon DEF WaitInv
<1> QED
  BY <1>10, <1>11, <1>14, <1>15, Zenon DEF IInv

\* spawn_linked and the child's row, under one hold of the mutex: no flow runs without one.
LEMMA SpawnStep ==
  ASSUME IInv, NEW t \in Thread, SpawnLinked(t)
  PROVE  IInv'
<1> DEFINE next == [th[t] EXCEPT !.todo = Tail(@)]
           c == Head(th[t].todo)
           f == Lowest(FreshFlows)
<1>1. /\ Shaped(th[t]) /\ DOMAIN cascade = {"on", "waiting", "specs"}
      /\ th[t].pc = "respawn" /\ tableLock = "free" /\ UNCHANGED <<events, cascade>>
  BY Zenon DEF IInv, Types, Shaped, SpawnLinked, slot
<1>2. Shaped(next) /\ next.pc = "respawn"
  BY <1>1, Zenon DEF Shaped
<1>3. CASE FreshFlows = {}
  <2>1. Goto(t, next) /\ UNCHANGED <<flow, children, tableLock>>
    BY <1>3, Zenon DEF SpawnLinked
  <2> HIDE DEF next, c, f
  <2> QED
    BY <1>1, <1>2, <2>1, ThreadAlone, Zenon DEF Locking
<1>4. CASE FreshFlows # {}
  <2> DEFINE r == IF c \in Named THEN [next EXCEPT !.pc = "name", !.id = f] ELSE next
             blank == [Blank EXCEPT !.st = "run", !.child = c]
  <2>1. /\ flow' = [flow EXCEPT ![f] = blank]
        /\ children' = Append(children, Row(f, c))
        /\ Goto(t, r)
        /\ tableLock' = IF c \in Named THEN "held" ELSE "free"
    BY <1>4, Zenon DEF SpawnLinked
  <2>2. Shaped(r) /\ r.pc = IF c \in Named THEN "name" ELSE "respawn"
    BY <1>2, Zenon DEF Shaped
  <2>3. DOMAIN blank = {"st", "child", "killed", "exit"} /\ blank.st = "run"
    BY Zenon DEF Blank
  <2>4. /\ DOMAIN Row(f, c) = {"id", "child", "expected"}
        /\ Row(f, c).id = f /\ ~Row(f, c).expected
    BY Zenon DEF Row
  <2> HIDE DEF next, c, r, blank
  <2>5. f \in Flow /\ flow[f].st = "none"
    <3>1. f \in FreshFlows
      BY <1>4, FreshLowest, Zenon
    <3> QED
      BY <3>1, Zenon DEF FreshFlows
  <2> HIDE DEF f
  <2>6. LockInv'
    BY <1>1, <2>1, <2>2, LockMoves, Zenon DEF Locking
  <2> DEFINE row == Row(f, c)
  <2>7. children' = Append(children, row) /\ DOMAIN row = {"id", "child", "expected"} /\ row.id = f
    BY <2>1, <2>4, Zenon
  <2> HIDE DEF row
  <2>8. r.pc \in {"name", "respawn"}
    BY <2>2, Zenon
  <2> QED
    BY <1>1, <2>1, <2>2, <2>3, <2>5, <2>6, <2>7, <2>8, AddChild, Zenon
<1> QED
  BY <1>3, <1>4, Zenon
-----------------------------------------------------------------------------
(* handle_exit and start_cascade *)

\* The row of the flow at the head of the queue is taken out with the event; the flow is
\* gone, so nobody else misses the row.
LEMMA DropChild ==
  ASSUME IInv, events # <<>>, NEW i \in DOMAIN children, children[i].id = Head(events)[1],
         NEW r, Goto(Drive, r), Shaped(r), th[Drive].pc = "handle",
         r.pc \notin Locking \cup {"handle"},
         r.pc = "cascade" => \A k \in Range(r.kills) :
                                \E j \in DOMAIN RemoveAt(children, i) : RemoveAt(children, i)[j].id = k,
         UNCHANGED <<flow, tableLock>>, events' = Tail(events), children' = RemoveAt(children, i),
         DOMAIN cascade' = {"on", "waiting", "specs"}, cascade'.waiting \subseteq cascade.waiting,
         children[i].id \notin cascade'.waiting
  PROVE  IInv'
<1> DEFINE f == children[i].id
           n == Len(children)
<1>1. Types /\ LockInv /\ TableInv /\ QueueInv /\ WaitInv /\ Drive \in Thread
  BY Zenon DEF IInv, Thread
<1>2. ThreadsKept /\ th'[Drive] = r /\ LockInv'
  BY <1>1, GotoKeeps, Zenon DEF Shaped, Locking
<1>3. /\ Len(events) \in Nat /\ DOMAIN events = 1..Len(events) /\ Len(events) >= 1
      /\ events[1][1] = f
      /\ IsSeq(events') /\ DOMAIN events' = 1..(Len(events) - 1)
      /\ \A j \in DOMAIN events' : events'[j] = events[j + 1]
  BY <1>1, Shape, TailSeq DEF QueueInv
<1>4. /\ n \in Nat /\ DOMAIN children = 1..n
      /\ IsSeq(children') /\ DOMAIN children' = 1..(n - 1)
      /\ \A j \in DOMAIN children' : children'[j] = IF j < i THEN children[j] ELSE children[j + 1]
  <2>1. IsSeq(children) /\ n \in Nat /\ DOMAIN children = 1..n /\ i \in 1..n
    BY <1>1, Shape, Zenon DEF TableInv
  <2>2. /\ IsSeq(children') /\ Len(children') = n - 1
        /\ \A j \in 1..(n - 1) : children'[j] = IF j < i THEN children[j] ELSE children[j + 1]
    BY <2>1, RemoveAtSeq, Zenon
  <2>3. DOMAIN children' = 1..(n - 1)
    BY <2>2, Shape, Zenon
  <2> QED
    BY <2>1, <2>2, <2>3, Zenon
<1>5. f \in Flow /\ flow[f].st = "gone"
  BY <1>1, <1>3 DEF QueueInv
<1>6. \A j \in DOMAIN children : children[j].id = f => j = i
  BY <1>1, Zenon DEF TableInv
<1> HIDE DEF f, n
\* the rows that are left are the others, each at the place `old` gives
<1> DEFINE old(j) == IF j < i THEN j ELSE j + 1
           new(j) == IF j < i THEN j ELSE j - 1
<1>7. \A j \in DOMAIN children' : /\ old(j) \in DOMAIN children /\ old(j) # i
                                 /\ children'[j] = children[old(j)]
  BY <1>4
<1>8. \A j \in DOMAIN children : j # i => /\ new(j) \in DOMAIN children'
                                         /\ children'[new(j)] = children[j]
  BY <1>4
<1>9. \A j, k \in DOMAIN children' : old(j) = old(k) => j = k
  BY <1>4
<1> HIDE DEF old, new
<1>10. \A g : HasRow(g) /\ g # f => HasRow(g)'
  BY <1>8 DEF HasRow, f
<1>11. \A g : MustEnd(g) /\ g # f => MustEnd(g)'
  BY <1>8 DEF MustEnd, f
<1>12. Types'
  BY <1>1, <1>2, Zenon DEF Types, ThreadsKept
<1>13. TableInv'
  BY <1>1, <1>4, <1>7, <1>9 DEF TableInv
<1>14. \A j \in DOMAIN events' : /\ j + 1 \in DOMAIN events /\ events'[j] = events[j + 1]
                                /\ events[j + 1][1] # f
  BY <1>1, <1>3 DEF QueueInv
<1>15. \A g : Queued(g) /\ g # f => \E j \in DOMAIN events' : events'[j][1] = g
  <2> SUFFICES ASSUME NEW g, Queued(g), g # f
               PROVE  \E j \in DOMAIN events' : events'[j][1] = g
    BY Zenon
  <2>1. PICK j \in DOMAIN events : events[j][1] = g
    BY Zenon DEF Queued
  <2>2. j - 1 \in DOMAIN events' /\ events'[j - 1] = events[j]
    BY <1>3, <2>1
  <2> QED
    BY <2>1, <2>2, Zenon
<1>16. NoGhostRow'
  <2>1. ASSUME NEW j \in DOMAIN children', flow[children'[j].id].st = "gone"
        PROVE  \E k \in DOMAIN events' : events'[k][1] = children'[j].id
    <3>1. children'[j] = children[old(j)] /\ old(j) \in DOMAIN children /\ children[old(j)].id # f
      BY <1>6, <1>7, Zenon
    <3>2. Queued(children[old(j)].id)
      BY <1>1, <2>1, <3>1, Zenon DEF QueueInv, NoGhostRow
    <3>3. PICK g : g = children[old(j)].id
      BY Zenon
    <3>4. Queued(g) /\ g # f /\ children'[j].id = g
      BY <3>1, <3>2, <3>3, Zenon
    <3>5. \E k \in DOMAIN events' : events'[k][1] = g
      BY <1>15, <3>4, Zenon
    <3> QED
      BY <3>4, <3>5, Zenon
  <2> QED
    BY <2>1, Zenon DEF NoGhostRow, Queued
<1>17. QueueInv'
  <2>1. \A j \in DOMAIN events' : /\ events'[j][1] \in Flow /\ flow[events'[j][1]].st = "gone"
                                 /\ \E k \in DOMAIN children' : children'[k].id = events'[j][1]
    <3> TAKE j \in DOMAIN events'
    <3> DEFINE g == events[j + 1][1]
    <3>1. events'[j][1] = g /\ g # f /\ g \in Flow /\ flow[g].st = "gone" /\ HasRow(g)
      BY <1>1, <1>14, Zenon DEF QueueInv
    <3> HIDE DEF g
    <3> QED
      BY <1>8, <3>1 DEF HasRow, f
  <2>2. \A j, k \in DOMAIN events' : events'[j][1] = events'[k][1] => j = k
    BY <1>1, <1>3, <1>14 DEF QueueInv
  <2>3. \A g \in Flow : flow[g].st \notin {"none", "gone"} => HasRow(g)'
    BY <1>1, <1>5, <1>10, Zenon DEF QueueInv
  <2> QED
    BY <1>2, <1>3, <1>16, <2>1, <2>2, <2>3, Zenon DEF QueueInv, HasRow
<1>18. WaitInv'
  <2>1. \A g \in cascade'.waiting : MustEnd(g)'
    BY <1>1, <1>11, Zenon DEF WaitInv, f
  <2>2. r.pc = "cascade" => \A k \in Range(r.kills) : \E j \in DOMAIN children' : children'[j].id = k
    BY Zenon
  <2> QED
    BY <1>2, <2>1, <2>2, Zenon DEF WaitInv, HasRow
<1> QED
  BY <1>2, <1>12, <1>13, <1>17, <1>18, Zenon DEF IInv

\* The siblings of the failed row that the strategy ends are rows that are left.
LEMMA LaterHasRows ==
  ASSUME IInv, NEW i \in DOMAIN children, NEW k \in Range(Later(i))
  PROVE  \E j \in DOMAIN RemoveAt(children, i) : RemoveAt(children, i)[j].id = k
<1> DEFINE left == RemoveAt(children, i)
<1>1. /\ Len(left) \in Nat /\ DOMAIN left = 1..Len(left) /\ i \in Nat /\ i >= 1
  <2>1. IsSeq(children) /\ i \in 1..Len(children) /\ Len(children) \in Nat
    BY Shape, Zenon DEF IInv, TableInv
  <2>2. IsSeq(left)
    BY <2>1, RemoveAtSeq, Zenon
  <2> QED
    BY <2>1, <2>2, Shape
<1> HIDE DEF left
<1>2. CASE strategy = "OneForAll"
  <2>1. Later(i) = [j \in DOMAIN left |-> left[j].id]
    BY <1>2, Zenon DEF Later, left
  <2> QED
    BY <2>1, Zenon DEF Range, left
<1>3. CASE strategy = "RestForOne"
  <2>1. Later(i) = [j \in 1..(Len(left) - i + 1) |-> left[j + i - 1].id]
    BY <1>3, Zenon DEF Later, left
  <2>2. PICK j \in 1..(Len(left) - i + 1) : k = left[j + i - 1].id
    BY <2>1, Zenon DEF Range
  <2>3. j + i - 1 \in DOMAIN left
    BY <1>1, <2>2
  <2> QED
    BY <2>2, <2>3, Zenon DEF left
<1>4. CASE strategy \notin {"OneForAll", "RestForOne"}
  <2>1. Later(i) = <<>>
    BY <1>4, Zenon DEF Later
  <2> QED
    BY <2>1 DEF Range
<1> QED
  BY <1>2, <1>3, <1>4, Zenon

\* handle_exit finds the row, takes it out, and an expected exit is struck off the cascade.
LEMMA HandleStep ==
  ASSUME IInv, handle_exit
  PROVE  IInv'
<1> DEFINE f == Head(events)[1]
           i == CHOOSE j \in RowsOf(f) : TRUE
           row == children[i]
<1>1. Types /\ TableInv /\ QueueInv /\ WaitInv
  BY Zenon DEF IInv
<1>2. /\ th[Drive].pc = "handle" /\ events' = Tail(events) /\ events # <<>>
      /\ UNCHANGED <<flow, tableLock>>
  BY <1>1, Zenon DEF handle_exit, QueueInv
<1>3. RowsOf(f) # {}
  <2>1. 1 \in DOMAIN events /\ f = events[1][1]
    BY <1>1, <1>2, Shape, TailSeq DEF QueueInv
  <2> QED
    BY <1>1, <2>1 DEF QueueInv, HasRow, RowsOf
<1>4. i \in DOMAIN children /\ row.id = f
  <2>1. i \in RowsOf(f)
    BY <1>3, Zenon
  <2> HIDE DEF i, f
  <2> QED
    BY <2>1, Zenon DEF RowsOf
<1>5. children' = RemoveAt(children, i)
  BY <1>3, Zenon DEF handle_exit
<1>6. DOMAIN cascade = {"on", "waiting", "specs"} /\ Shaped(AtTop) /\ AtTop.pc = "top"
  BY <1>1, Zenon DEF Types, Shaped, AtTop
<1>7. f \in cascade.waiting => row.expected
  <2> HIDE DEF f, i
  <2>1. ASSUME f \in cascade.waiting PROVE row.expected
    <3>1. PICK j \in DOMAIN children : children[j].id = f /\ children[j].expected
      BY <1>1, <2>1, Zenon DEF WaitInv, MustEnd
    <3>2. j = i
      BY <1>1, <1>4, <3>1, Zenon DEF TableInv
    <3> QED
      BY <3>1, <3>2, Zenon
  <2> QED
    BY <2>1, Zenon
<1>8. CASE row.expected
  <2>1. Progress(f)
    BY <1>3, <1>8, Zenon DEF handle_exit
  <2> HIDE DEF f, i
  <2>2. CASE cascade.on /\ cascade.waiting \ {f} = {}
    <3> DEFINE r == [AtTop EXCEPT !.pc = "respawn", !.todo = cascade.specs]
    <3>1. Goto(Drive, r) /\ cascade' = NoCascade
      BY <2>1, <2>2, Zenon DEF Progress
    <3>2. DOMAIN cascade' = {"on", "waiting", "specs"} /\ cascade'.waiting = {}
      BY <3>1, Zenon DEF NoCascade
    <3>3. Shaped(r) /\ r.pc = "respawn"
      BY Zenon DEF Shaped, AtTop
    <3> HIDE DEF r
    <3> QED
      BY <1>2, <1>4, <1>5, <3>1, <3>2, <3>3, DropChild, Zenon DEF Locking, f
  <2>3. CASE ~(cascade.on /\ cascade.waiting \ {f} = {})
    <3>1. Goto(Drive, AtTop) /\ cascade' = [cascade EXCEPT !.waiting = cascade.waiting \ {f}]
      BY <2>1, <2>3, Zenon DEF Progress
    <3>2. /\ DOMAIN cascade' = {"on", "waiting", "specs"} /\ cascade'.waiting \subseteq cascade.waiting
          /\ f \notin cascade'.waiting
      BY <1>6, <3>1, Zenon
    <3> QED
      BY <1>2, <1>4, <1>5, <1>6, <3>1, <3>2, DropChild, Zenon DEF Locking, f
  <2> QED
    BY <2>2, <2>3, Zenon
<1>9. CASE ~row.expected /\ Goto(Drive, AtTop) /\ UNCHANGED cascade
  <2> HIDE DEF f, i
  <2> QED
    BY <1>2, <1>4, <1>5, <1>6, <1>7, <1>9, DropChild, Zenon DEF Locking, f
<1>10. CASE /\ ~row.expected /\ UNCHANGED cascade
            /\ Goto(Drive, [pc |-> IF strategy = "OneForOne" THEN "respawn" ELSE "cascade",
                            todo |-> <<row.child>>, kills |-> Later(i), id |-> i])
  <2> DEFINE r == [pc |-> IF strategy = "OneForOne" THEN "respawn" ELSE "cascade",
                   todo |-> <<row.child>>, kills |-> Later(i), id |-> i]
  <2>1. Goto(Drive, r) /\ Shaped(r) /\ r.pc \in {"respawn", "cascade"} /\ r.kills = Later(i)
    BY <1>10, Zenon DEF Shaped
  <2> HIDE DEF f, i, r
  <2>2. \A k \in Range(Later(i)) :
           \E j \in DOMAIN RemoveAt(children, i) : RemoveAt(children, i)[j].id = k
    BY <1>4, LaterHasRows, Zenon
  <2> QED
    BY <1>2, <1>4, <1>5, <1>6, <1>7, <1>10, <2>1, <2>2, DropChild, Zenon DEF Locking, f
<1> QED
  BY <1>3, <1>8, <1>9, <1>10, Zenon DEF handle_exit

\* start_cascade waits for siblings that have a row, and marks every one of them.
LEMMA CascadeStep ==
  ASSUME IInv, start_cascade
  PROVE  IInv'
<1> DEFINE marked == Range(th[Drive].kills)
           found == SelectSeq(children, LAMBDA r : r.id \in marked)
           specs == [j \in DOMAIN found |-> found[j].child]
           at == IF strategy = "OneForAll" THEN th[Drive].id ELSE 1
           all == [AtTop EXCEPT !.pc = "kill", !.kills = th[Drive].kills]
           wave == [on |-> TRUE, waiting |-> marked,
                    specs |-> InsertAt(specs, at, Head(th[Drive].todo))]
<1>1. /\ th[Drive].pc = "cascade"
      /\ children' = [j \in DOMAIN children |->
                         IF children[j].id \in marked THEN [children[j] EXCEPT !.expected = TRUE]
                         ELSE children[j]]
      /\ UNCHANGED <<flow, events, tableLock>>
  BY Zenon DEF start_cascade
<1>2. \/ Goto(Drive, AtTop) /\ UNCHANGED cascade
      \/ cascade' = wave /\ Goto(Drive, all)
  BY Zenon DEF start_cascade
<1>3. /\ Shaped(AtTop) /\ AtTop.pc = "top" /\ Shaped(all) /\ all.pc = "kill"
      /\ DOMAIN wave = {"on", "waiting", "specs"} /\ wave.waiting = marked
  BY Zenon DEF Shaped, AtTop
<1> HIDE DEF all, wave, found, specs, at
<1>4. Types /\ TableInv /\ QueueInv /\ WaitInv /\ Drive \in Thread
  BY Zenon DEF IInv, Thread
<1>5. \A f \in marked : HasRow(f)
  BY <1>1, <1>4, Zenon DEF WaitInv
<1> HIDE DEF marked
<1>6. RowsKept
  <2>1. IsSeq(children') /\ DOMAIN children' = DOMAIN children
    BY <1>1, <1>4, MapSeq, Zenon DEF TableInv
  <2> QED
    BY <1>1, <1>4, <2>1, Zenon DEF TableInv, RowsKept
<1>7. \A f \in marked : MustEnd(f)'
  <2> SUFFICES ASSUME NEW f \in marked PROVE MustEnd(f)'
    BY Zenon
  <2>1. PICK j \in DOMAIN children : children[j].id = f
    BY <1>5, Zenon DEF HasRow
  <2>2. j \in DOMAIN children' /\ children'[j].id = f /\ children'[j].expected
    BY <1>1, <1>4, <2>1, Zenon DEF TableInv
  <2> QED
    BY <2>2, Zenon DEF MustEnd
<1>8. PICK r : Goto(Drive, r) /\ Shaped(r) /\ r.pc \in {"top", "kill"}
  BY <1>2, <1>3, Zenon
<1>9. ThreadsKept /\ th'[Drive] = r /\ LockInv'
  BY <1>1, <1>4, <1>8, GotoKeeps, Zenon DEF Shaped, Locking
<1>10. FlowKept
  BY <1>1, SameFlows, Zenon
<1>11. TableInv' /\ QueueInv'
  BY <1>1, <1>4, <1>6, <1>8, <1>9, <1>10, TableStays, QueueStays, Zenon
<1>12. DOMAIN cascade' = {"on", "waiting", "specs"} /\ cascade'.waiting \in {cascade.waiting, marked}
  BY <1>2, <1>3, <1>4, Zenon DEF Types
<1>13. WaitInv'
  BY <1>4, <1>6, <1>7, <1>8, <1>9, <1>12, Rows, Zenon DEF WaitInv
<1>14. Types'
  BY <1>9, <1>10, <1>12, Zenon DEF Types, ThreadsKept, FlowKept
<1> QED
  BY <1>9, <1>11, <1>13, <1>14, Zenon DEF IInv

-----------------------------------------------------------------------------
(* The theorem *)

LEMMA Initially ==
  ASSUME Init
  PROVE  IInv
<1>1. /\ \A t \in Thread : Shaped(th[t]) /\ th[t].pc \in {"top", "respawn"}
      /\ DOMAIN th = Thread
  BY Zenon DEF Init, AtTop, Shaped
<1>2. Types
  BY <1>1, Zenon DEF Init, Types, Blank, NoCascade, States, Shaped
<1>3. LockInv
  BY <1>1, Zenon DEF Init, LockInv, Locking
<1>4. IsSeq(children) /\ IsSeq(events) /\ children = <<>> /\ events = <<>>
  <2>1. <<>> \in Seq({})
    OBVIOUS
  <2>2. IsSeq(<<>>)
    BY <2>1, IsSeqOf, Zenon
  <2> QED
    BY <2>2, Zenon DEF Init
<1>5. TableInv
  BY <1>4 DEF TableInv
<1>6. Drive \in Thread /\ \A f \in Flow : flow[f].st = "none"
  BY Zenon DEF Init, Blank, Thread
<1>7. QueueInv
  BY <1>1, <1>4, <1>6 DEF QueueInv, NoGhostRow
<1>8. WaitInv
  BY <1>1, <1>6, Zenon DEF Init, NoCascade, WaitInv
<1> QED
  BY <1>2, <1>3, <1>5, <1>7, <1>8, Zenon DEF IInv

LEMMA StepKeeps ==
  ASSUME IInv, [Next]_vars
  PROVE  IInv'
<1>1. CASE UNCHANGED vars
  BY <1>1, SameFlows, SameRows, SameThreads, CalmStep, Zenon DEF vars
<1>2. CASE DriveStep
  BY <1>2, DriveCalm, HandleStep, CascadeStep, KillStep, Zenon DEF DriveStep
<1>3. CASE StopFlag \/ StopNotify \/ Join
  BY <1>3, HostCalm, Zenon
<1>4. ASSUME NEW t \in Thread, ChildStep(t) PROVE IInv'
  BY <1>4, SpawnStep, RegisterStep, ChildCalm, Zenon DEF ChildStep
<1>5. ASSUME NEW f \in Flow, Park(f) \/ Wake(f) \/ Exit(f) \/ ExitKilled(f) \/ FinalizeStep(f)
      PROVE  IInv'
  BY <1>5, FlowMoves, NotifyStep, Zenon DEF FinalizeStep
<1> QED
  BY <1>1, <1>2, <1>3, <1>4, <1>5, Zenon DEF Next

\* The table of children is exact whenever the drive loop reads it, for any number of
\* children, restarts and flows, any strategy and any exits: an exit finds its row, no row
\* outlives its child's exit, and a cascade waits only for children that will end
\* (spawn_child, handle_exit, start_cascade, SupervisorLink::notify).
THEOREM ChildrenHold == Spec => []ChildrenExact
<1>1. IInv => ChildrenExact
  <2> SUFFICES ASSUME IInv PROVE ChildrenExact
    BY Zenon
  <2>1. TypeOK
    BY Zenon DEF IInv, Types, LockInv, TypeOK, States, Locking
  <2>2. NoGhostRow
    BY Zenon DEF IInv, QueueInv
  <2>3. ExitFindsItsRow
    <3> SUFFICES ASSUME th[Drive].pc = "handle" PROVE RowsOf(Head(events)[1]) # {}
      BY Zenon DEF ExitFindsItsRow
    <3>1. 1 \in DOMAIN events /\ Head(events) = events[1]
      BY Shape, TailSeq DEF IInv, QueueInv
    <3> QED
      BY <3>1 DEF IInv, QueueInv, HasRow, RowsOf
  <2>4. CascadeWaitsForTheEnding
    <3> SUFFICES ASSUME NEW f \in cascade.waiting
                 PROVE  /\ \E i \in RowsOf(f) : children[i].expected
                        /\ flow[f].st = "gone" => Queued(f)
      BY Zenon DEF CascadeWaitsForTheEnding
    <3>1. PICK i \in DOMAIN children : children[i].id = f /\ children[i].expected
      BY Zenon DEF IInv, WaitInv, MustEnd
    <3> QED
      BY <2>2, <3>1, Zenon DEF RowsOf, NoGhostRow
  <2> QED
    BY <2>1, <2>2, <2>3, <2>4, Zenon DEF ChildrenExact
<1> QED
  BY <1>1, Initially, StepKeeps, PTL DEF Spec
=============================================================================
