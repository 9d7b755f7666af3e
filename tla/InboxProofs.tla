---------------------------- MODULE InboxProofs ----------------------------
(***************************************************************************)
(* Proofs about Inbox, for every capacity, budget, policy, set of senders  *)
(* and filters.                                                            *)
(***************************************************************************)
EXTENDS Inbox, TLAPS, SequenceTheorems, WellFoundedInduction

\* A non-empty set of naturals has a least element.
LEMMA LeastNatural ==
  ASSUME NEW T, T \subseteq Nat, T # {}
  PROVE  \E x \in T : \A y \in T : x <= y
<1> DEFINE R == OpToRel(<, Nat)
<1>1. \A y, x \in Nat : y < x => <<y, x>> \in R
  BY DEF OpToRel
<1>2. IsWellFoundedOn(R, Nat)
  BY NatLessThanWellFounded, Zenon
<1> HIDE DEF R
<1>3. PICK x \in T : \A y \in T : ~(<<y, x>> \in R)
  BY <1>2, WFMin, Zenon
<1>4. ASSUME NEW y \in T PROVE x <= y
  <2>1. x \in Nat /\ y \in Nat
    OBVIOUS
  <2>2. ~(y < x)
    BY <1>1, <1>3, <2>1, Zenon
  <2> QED
    BY <2>1, <2>2
<1> QED
  BY <1>4

\* First picks that element.
LEMMA FirstNatural ==
  ASSUME NEW T, T \subseteq Nat, T # {}
  PROVE  First(T) \in T /\ \A y \in T : First(T) <= y
BY LeastNatural, Zenon DEF First

\* Removing one element of a sequence leaves a sequence, one shorter.
LEMMA RemoveAtFacts ==
  ASSUME NEW S, NEW s \in Seq(S), NEW i \in 1..Len(s)
  PROVE  RemoveAt(s, i) \in Seq(S) /\ Len(RemoveAt(s, i)) = Len(s) - 1
<1> DEFINE left == SubSeq(s, 1, i - 1)
           right == SubSeq(s, i + 1, Len(s))
<1>1. left \in Seq(S) /\ Len(left) = i - 1
  BY SubSeqProperties
<1>2. right \in Seq(S) /\ Len(right) = Len(s) - i
  BY SubSeqProperties
<1>3. RemoveAt(s, i) = left \o right
  BY DEF RemoveAt
<1> HIDE DEF left, right
<1>4. left \o right \in Seq(S) /\ Len(left \o right) = Len(left) + Len(right)
  BY <1>1, <1>2, ConcatProperties, Zenon
<1> QED
  BY <1>1, <1>2, <1>3, <1>4

-----------------------------------------------------------------------------
(* The inbox operators *)

\* n differs from m at most in its queue and the charge for it
SameBut(m, n) ==
  /\ n.parked = m.parked /\ n.filter = m.filter /\ n.epoch = m.epoch
  /\ n.waiting = m.waiting /\ n.closed = m.closed

\* The "no hop" result is a hop record.
LEMMA NoHopType == NoHop \in HopRec
BY DEF NoHop, HopRec

\* usize::saturating_sub stays in the naturals.
LEMMA SaturatingSubType ==
  ASSUME NEW x, NEW y
  PROVE  SaturatingSub(x, y) \in Nat
BY DEF SaturatingSub

\* push_back adds one hop at the end and changes only the queue and its charge.
LEMMA PushBackFacts ==
  ASSUME NEW m \in InboxRec, NEW h \in HopRec
  PROVE  /\ PushBack(m, h) \in InboxRec
         /\ PushBack(m, h).queue = Append(m.queue, h)
         /\ Len(PushBack(m, h).queue) = Len(m.queue) + 1
         /\ SameBut(m, PushBack(m, h))
<1>1. m.queue \in Seq(HopRec) /\ m.bytes \in Nat /\ h.cost \in Nat
  BY DEF InboxRec, HopRec
<1>2. Append(m.queue, h) \in Seq(HopRec) /\ Len(Append(m.queue, h)) = Len(m.queue) + 1
  BY <1>1, AppendProperties
<1>3. m.bytes + h.cost \in Nat
  BY <1>1
<1>4. PushBack(m, h) \in InboxRec
  BY <1>2, <1>3, Zenon DEF PushBack, InboxRec
<1>5. PushBack(m, h).queue = Append(m.queue, h) /\ SameBut(m, PushBack(m, h))
  BY DEF PushBack, InboxRec, SameBut
<1> QED
  BY <1>2, <1>4, <1>5

\* Taking a hop out leaves one hop fewer and changes only the queue and its charge.
LEMMA TakeAtFacts ==
  ASSUME NEW m \in InboxRec, NEW i \in 1..Len(m.queue)
  PROVE  /\ TakeAt(m, i) \in InboxRec
         /\ Len(TakeAt(m, i).queue) = Len(m.queue) - 1
         /\ SameBut(m, TakeAt(m, i))
<1>1. m.queue \in Seq(HopRec)
  BY DEF InboxRec
<1>2. RemoveAt(m.queue, i) \in Seq(HopRec) /\ Len(RemoveAt(m.queue, i)) = Len(m.queue) - 1
  BY <1>1, RemoveAtFacts
<1>3. SaturatingSub(m.bytes, m.queue[i].cost) \in Nat
  BY SaturatingSubType
<1> QED
  BY <1>2, <1>3, Zenon DEF TakeAt, InboxRec, SameBut

\* Evicting k hops from the front leaves an inbox with k hops fewer.
LEMMA DropFrontFacts ==
  ASSUME NEW m \in InboxRec, NEW k \in 0..Len(m.queue)
  PROVE  /\ DropFront(m, k) \in InboxRec
         /\ Len(DropFront(m, k).queue) = Len(m.queue) - k
         /\ SameBut(m, DropFront(m, k))
<1>1. m.queue \in Seq(HopRec)
  BY DEF InboxRec
<1>2. /\ SubSeq(m.queue, k + 1, Len(m.queue)) \in Seq(HopRec)
      /\ Len(SubSeq(m.queue, k + 1, Len(m.queue))) = Len(m.queue) - k
  BY <1>1, SubSeqProperties
<1>3. SaturatingSub(m.bytes, Bytes(SubSeq(m.queue, 1, k))) \in Nat
  BY SaturatingSubType
<1> QED
  BY <1>2, <1>3, Zenon DEF DropFront, InboxRec, SameBut

\* the oldest match is a position of the queue
LEMMA FirstMatchFacts ==
  ASSUME NEW m \in InboxRec, NEW f
  PROVE  FirstMatch(m, f) \in 0..Len(m.queue)
<1> DEFINE I == {i \in DOMAIN m.queue : Matches(f, m.queue[i])}
<1>1. m.queue \in Seq(HopRec)
  BY DEF InboxRec
<1>2. FirstMatch(m, f) = First(I)
  BY Zenon DEF FirstMatch
<1>3. I \subseteq 1..Len(m.queue) /\ I \subseteq Nat
  BY <1>1
<1> HIDE DEF I
<1>4. I # {} => First(I) \in I
  BY <1>3, FirstNatural, Zenon
<1>5. CASE I = {}
  BY <1>1, <1>2, <1>5 DEF First
<1>6. CASE I # {}
  <2>1. FirstMatch(m, f) = First(I) /\ First(I) \in 1..Len(m.queue)
    BY <1>2, <1>3, <1>4, <1>6, Zenon
  <2> QED
    BY <1>1, <2>1
<1> QED
  BY <1>5, <1>6

\* try_pop_filter never lengthens the queue and touches neither waiter nor senders.
LEMMA TryPopFacts ==
  ASSUME NEW m \in InboxRec, NEW f
  PROVE  /\ TryPop(m, f).mb \in InboxRec
         /\ TryPop(m, f).hop \in HopRec
         /\ Len(TryPop(m, f).mb.queue) <= Len(m.queue)
         /\ SameBut(m, TryPop(m, f).mb)
<1>1. m.queue \in Seq(HopRec) /\ Len(m.queue) \in Nat
  BY DEF InboxRec
<1>2. CASE FirstMatch(m, f) = 0
  BY <1>1, <1>2, NoHopType DEF TryPop, SameBut
<1>3. CASE FirstMatch(m, f) # 0
  <2>1. FirstMatch(m, f) \in 1..Len(m.queue)
    BY <1>1, <1>3, FirstMatchFacts
  <2> QED
    BY <1>1, <1>3, <2>1, TakeAtFacts DEF TryPop
<1> QED
  BY <1>2, <1>3

\* eviction stops when the hop fits or the queue is empty
LEMMA EvictForFacts ==
  ASSUME NEW m \in InboxRec, NEW c
  PROVE  /\ EvictFor(m, c) \in InboxRec
         /\ Len(EvictFor(m, c).queue) = 0 \/ Fits(EvictFor(m, c), c)
         /\ SameBut(m, EvictFor(m, c))
<1> DEFINE n == Len(m.queue)
           enough(k) == k = n \/ Fits(DropFront(m, k), c)
           K == {k \in 0..n : enough(k)}
<1>1. m.queue \in Seq(HopRec) /\ n \in Nat
  BY DEF InboxRec
<1>2. n \in K /\ K \subseteq Nat
  BY <1>1
<1>3. PICK x \in K : \A y \in K : x <= y
  BY <1>2, LeastNatural, Zenon
<1>4. x \in 0..n /\ enough(x) /\ \A j \in 0..(x - 1) : ~enough(j)
  BY <1>1, <1>3
<1> DEFINE k0 == CHOOSE k \in 0..n : enough(k) /\ \A j \in 0..(k - 1) : ~enough(j)
<1>5. k0 \in 0..n /\ enough(k0)
  BY <1>4
<1>6. EvictFor(m, c) = DropFront(m, k0)
  BY DEF EvictFor
<1> HIDE DEF k0
<1>7. Len(DropFront(m, k0).queue) = n - k0
  BY <1>5, DropFrontFacts
<1> QED
  BY <1>1, <1>5, <1>6, <1>7, DropFrontFacts

\* what every operator that offers a hop leaves: a well-typed inbox within its hop
\* bound, its waiter either handed the hop or untouched
Offered(m, r) ==
  /\ r.mb \in InboxRec
  /\ Len(m.queue) <= Capacity => Len(r.mb.queue) <= Capacity
  /\ r.mb.epoch = m.epoch /\ r.mb.waiting = m.waiting /\ r.mb.closed = m.closed
  /\ IF r.out = "Handoff" THEN r.mb.parked = FALSE
     ELSE r.mb.parked = m.parked /\ r.mb.filter = m.filter

\* A push after the capacity test keeps the hop bound.
LEMMA PushIfFits ==
  ASSUME NEW m \in InboxRec, NEW h \in HopRec,
         Len(m.queue) = 0 \/ Fits(m, h.cost)
  PROVE  Len(PushBack(m, h).queue) <= Capacity
<1>1. Len(m.queue) \in Nat /\ Capacity \in Nat \ {0}
  BY MailboxAssumption DEF InboxRec
<1>2. Len(PushBack(m, h).queue) = Len(m.queue) + 1
  BY PushBackFacts
<1> QED
  BY <1>1, <1>2 DEF Fits, IsFull

\* enqueue keeps the hop bound under each of the three policies.
LEMMA EnqueueFacts ==
  ASSUME NEW m \in InboxRec, NEW h \in HopRec
  PROVE  Offered(m, Enqueue(m, h, m.policy)) /\ Enqueue(m, h, m.policy).out # "Handoff"
<1> DEFINE room == EvictFor(m, h.cost)
<1>1. CASE Fits(m, h.cost)
  BY <1>1, PushBackFacts, PushIfFits DEF Enqueue, Offered, SameBut
<1>2. CASE ~Fits(m, h.cost) /\ m.policy \in {"Reject", "DropNewest"}
  BY <1>2 DEF Enqueue, Offered, FullReason
<1>3. CASE ~Fits(m, h.cost) /\ m.policy = "DropOldest"
  <2>1. /\ room \in InboxRec /\ SameBut(m, room)
        /\ Len(room.queue) = 0 \/ Fits(room, h.cost)
    BY EvictForFacts
  <2>2. Enqueue(m, h, m.policy) =
          IF WouldExceedBytes(room, h.cost)
          THEN [mb |-> room, out |-> "ByteLimit"]
          ELSE [mb |-> PushBack(room, h), out |-> "QueuedDropOldest"]
    BY <1>3 DEF Enqueue
  <2>3. Len(room.queue) <= Capacity
    <3>1. Len(room.queue) \in Nat /\ Capacity \in Nat
      BY <2>1, MailboxAssumption DEF InboxRec
    <3> QED
      BY <2>1, <3>1 DEF Fits, IsFull
  <2>4. /\ PushBack(room, h) \in InboxRec /\ SameBut(room, PushBack(room, h))
        /\ Len(PushBack(room, h).queue) <= Capacity
    BY <2>1, PushBackFacts, PushIfFits
  <2> HIDE DEF room
  <2>5. CASE WouldExceedBytes(room, h.cost)
    BY <2>1, <2>2, <2>3, <2>5 DEF Offered, SameBut
  <2>6. CASE ~WouldExceedBytes(room, h.cost)
    BY <2>1, <2>2, <2>4, <2>6 DEF Offered, SameBut
  <2> QED
    BY <2>5, <2>6
<1> QED
  BY <1>1, <1>2, <1>3, MailboxAssumption, Zenon DEF InboxRec

\* Taking the waiter out resets the filter and nothing else.
LEMMA UnparkFacts ==
  ASSUME NEW m \in InboxRec
  PROVE  /\ Unpark(m) \in InboxRec
         /\ Unpark(m).queue = m.queue /\ Unpark(m).epoch = m.epoch
         /\ Unpark(m).waiting = m.waiting /\ Unpark(m).closed = m.closed
         /\ Unpark(m).parked = FALSE
BY InboxAssumption, Zenon DEF Unpark, InboxRec

\* Mailbox::push keeps the hop bound, and unparks exactly when it hands off.
LEMMA PushFacts ==
  ASSUME NEW m \in InboxRec, NEW h \in HopRec
  PROVE  Offered(m, Push(m, h)) /\ (m.closed => Push(m, h).out = "Closed")
<1>1. CASE m.closed
  BY <1>1, Zenon DEF Push, Offered
<1>2. CASE ~m.closed /\ WakesWaiter(m, h)
  BY <1>2, UnparkFacts, Zenon DEF Push, Offered
<1>3. CASE ~m.closed /\ ~WakesWaiter(m, h)
  <2>1. Push(m, h) = Enqueue(m, h, m.policy)
    BY <1>3 DEF Push
  <2> QED
    BY <1>3, <2>1, EnqueueFacts
<1> QED
  BY <1>1, <1>2, <1>3

\* Mailbox::push_system keeps the hop bound: it evicts before it pushes.
LEMMA PushSystemFacts ==
  ASSUME NEW m \in InboxRec, NEW h \in HopRec
  PROVE  Offered(m, PushSystem(m, h))
<1> DEFINE room == EvictFor(m, h.cost)
<1>1. CASE m.closed
  BY <1>1, Zenon DEF PushSystem, Offered
<1>2. CASE ~m.closed /\ WakesWaiter(m, h)
  BY <1>2, UnparkFacts, Zenon DEF PushSystem, Offered
<1>3. CASE ~m.closed /\ ~WakesWaiter(m, h)
  <2>1. PushSystem(m, h) = [mb |-> PushBack(room, h), out |-> "Queued"]
    BY <1>3 DEF PushSystem, ForcePush
  <2>2. /\ room \in InboxRec /\ SameBut(m, room)
        /\ Len(room.queue) = 0 \/ Fits(room, h.cost)
    BY EvictForFacts
  <2> HIDE DEF room
  <2> QED
    BY <2>1, <2>2, PushBackFacts, PushIfFits DEF Offered, SameBut
<1> QED
  BY <1>1, <1>2, <1>3

\* Mailbox::park_filter takes a hop or installs the waiter in the next epoch.
LEMMA ParkFilterFacts ==
  ASSUME NEW m \in InboxRec, NEW f \in Filter, m.epoch + 1 < EpochMod
  PROVE  LET r == ParkFilter(m, f)
         IN  /\ r.mb \in InboxRec /\ r.hop \in HopRec
             /\ Len(r.mb.queue) <= Len(m.queue)
             /\ r.mb.waiting = m.waiting /\ r.mb.closed = m.closed
             /\ IF r.hop # NoHop
                THEN r.mb.parked = m.parked /\ r.mb.epoch = m.epoch
                ELSE r.mb.parked = TRUE /\ r.mb.epoch = m.epoch + 1
<1>1. CASE TryPop(m, f).hop # NoHop
  <2>1. ParkFilter(m, f) = TryPop(m, f)
    BY <1>1 DEF ParkFilter
  <2> QED
    BY <1>1, <2>1, TryPopFacts DEF SameBut
<1>2. CASE TryPop(m, f).hop = NoHop
  <2>1. ParkFilter(m, f) = [mb |-> InstallWaiter(m, f), hop |-> NoHop]
    BY <1>2 DEF ParkFilter
  <2>2. m.epoch \in Nat /\ EpochMod \in Nat \ {0} /\ m.queue \in Seq(HopRec)
    BY MailboxAssumption DEF InboxRec
  <2>3. /\ m.epoch + 1 \in 0..(EpochMod - 1)
        /\ (m.epoch + 1) % EpochMod = m.epoch + 1
    <3>1. m.epoch + 1 \in 0..(EpochMod - 1)
      BY <2>2
    <3>2. (m.epoch + 1) % EpochMod = m.epoch + 1
      BY <2>2
    <3> QED
      BY <3>1, <3>2
  <2> DEFINE e == m.epoch + 1
  <2>4. InstallWaiter(m, f) = [m EXCEPT !.epoch = e, !.filter = f, !.parked = TRUE]
    BY <2>3, Zenon DEF InstallWaiter
  <2> HIDE DEF e
  <2>5. e \in 0..(EpochMod - 1)
    BY <2>3 DEF e
  <2>6. /\ InstallWaiter(m, f) \in InboxRec
        /\ InstallWaiter(m, f).queue = m.queue
        /\ InstallWaiter(m, f).waiting = m.waiting
        /\ InstallWaiter(m, f).closed = m.closed
        /\ InstallWaiter(m, f).parked = TRUE
        /\ InstallWaiter(m, f).epoch = e
    BY <2>4, <2>5, Zenon DEF InboxRec
  <2> QED
    BY <2>1, <2>2, <2>6, NoHopType DEF e
<1> QED
  BY <1>1, <1>2, Zenon

\* Mailbox::park_sender adds at most one hop, and no waiter to a closed inbox.
LEMMA ParkSenderFacts ==
  ASSUME NEW m \in InboxRec, NEW w \in WaiterRec
  PROVE  LET r == ParkSender(m, w)
         IN  /\ r.mb \in InboxRec
             /\ r.out \in {"Undeliverable", "Closed", "Delivered", "WaitersFull", "Parked"}
             /\ Len(m.queue) <= Capacity => Len(r.mb.queue) <= Capacity
             /\ r.mb.closed = m.closed /\ r.mb.epoch = m.epoch
             /\ r.mb.parked = m.parked /\ r.mb.filter = m.filter
             /\ m.closed => r.mb.waiting = m.waiting
<1>1. w.hop \in HopRec /\ m.waiting \in Seq(WaiterRec)
  BY DEF WaiterRec, InboxRec
<1>2. CASE ~CanEverFit(w.hop.cost) \/ m.closed
  BY <1>2 DEF ParkSender
<1>3. CASE CanEverFit(w.hop.cost) /\ ~m.closed /\ Fits(m, w.hop.cost)
  <2>1. ParkSender(m, w) = [mb |-> PushBack(m, w.hop), out |-> "Delivered"]
    BY <1>3 DEF ParkSender
  <2> QED
    BY <1>1, <1>3, <2>1, PushBackFacts, PushIfFits DEF SameBut
<1>4. CASE CanEverFit(w.hop.cost) /\ ~m.closed /\ ~Fits(m, w.hop.cost)
  <2>1. Append(m.waiting, w) \in Seq(WaiterRec)
    BY <1>1, AppendProperties
  <2> QED
    BY <1>4, <2>1, Zenon DEF ParkSender, InboxRec
<1> QED
  BY <1>2, <1>3, <1>4

\* Mailbox::admit_waiting_sender moves at most one waiter's hop into free room.
LEMMA AdmitFacts ==
  ASSUME NEW m \in InboxRec
  PROVE  LET r == AdmitWaitingSender(m)
         IN  /\ r.mb \in InboxRec
             /\ Len(m.queue) <= Capacity => Len(r.mb.queue) <= Capacity
             /\ r.mb.closed = m.closed /\ r.mb.epoch = m.epoch
             /\ r.mb.parked = m.parked /\ r.mb.filter = m.filter
             /\ m.closed => r.mb.waiting = m.waiting
             /\ r.out = "Woken" => Head(m.waiting) \in WaiterRec
<1> DEFINE w == Head(m.waiting)
           cond == ~m.closed /\ m.waiting # << >> /\ Fits(m, w.hop.cost)
<1>1. m.waiting \in Seq(WaiterRec)
  BY DEF InboxRec
<1>2. CASE cond
  <2>1. w \in WaiterRec /\ Tail(m.waiting) \in Seq(WaiterRec)
    BY <1>1, <1>2, HeadTailProperties
  <2>2. w.hop \in HopRec
    BY <2>1 DEF WaiterRec
  <2> DEFINE p == PushBack(m, w.hop)
  <2>3. p \in InboxRec /\ SameBut(m, p) /\ Len(p.queue) <= Capacity
    BY <1>2, <2>2, PushBackFacts, PushIfFits
  <2>4. AdmitWaitingSender(m) = [mb |-> [p EXCEPT !.waiting = Tail(@)], out |-> "Woken"]
    BY <1>2 DEF AdmitWaitingSender
  <2> HIDE DEF p
  <2>5. p.waiting = m.waiting
    BY <2>3 DEF SameBut
  <2> DEFINE q == [p EXCEPT !.waiting = Tail(m.waiting)]
  <2>6. q \in InboxRec /\ q.queue = p.queue /\ q.closed = p.closed /\ q.epoch = p.epoch
        /\ q.parked = p.parked /\ q.filter = p.filter
    BY <2>1, <2>3, Zenon DEF InboxRec
  <2>7. AdmitWaitingSender(m).mb = q
    BY <2>4, <2>5
  <2> HIDE DEF q
  <2> QED
    BY <1>2, <2>1, <2>3, <2>6, <2>7 DEF SameBut
<1>3. CASE ~cond
  <2>1. AdmitWaitingSender(m) = [mb |-> m, out |-> "Idle"]
    BY <1>3 DEF AdmitWaitingSender
  <2> QED
    BY <2>1
<1> QED
  BY <1>2, <1>3

\* Mailbox::take_waiting_sender only shortens the waiting list.
LEMMA TakeWaitingSenderFacts ==
  ASSUME NEW m \in InboxRec, NEW f
  PROVE  LET n == TakeWaitingSender(m, f).mb
         IN  /\ n \in InboxRec /\ n.queue = m.queue
             /\ n.closed = m.closed /\ n.epoch = m.epoch
             /\ n.parked = m.parked /\ n.filter = m.filter
             /\ m.waiting = << >> => n.waiting = << >>
<1> DEFINE I == {j \in DOMAIN m.waiting : m.waiting[j].flow = f}
           rest == IF First(I) = 0 THEN m.waiting ELSE RemoveAt(m.waiting, First(I))
<1>1. m.waiting \in Seq(WaiterRec) /\ Len(m.waiting) \in Nat
  BY DEF InboxRec
<1>2. TakeWaitingSender(m, f).mb = [m EXCEPT !.waiting = rest]
  BY DEF TakeWaitingSender
<1>3. I \subseteq 1..Len(m.waiting) /\ I \subseteq Nat
  BY <1>1
<1>4. m.waiting = << >> => I = {}
  BY <1>1
<1>5. I # {} => First(I) \in 1..Len(m.waiting)
  <2> HIDE DEF I
  <2> QED
    BY <1>3, FirstNatural, Zenon
<1>6. I = {} => First(I) = 0
  BY DEF First
<1>7. rest \in Seq(WaiterRec) /\ (m.waiting = << >> => rest = << >>)
  <2> HIDE DEF I
  <2> QED
    BY <1>1, <1>4, <1>5, <1>6, RemoveAtFacts
<1> HIDE DEF rest
<1> QED
  BY <1>2, <1>7, Zenon DEF InboxRec

-----------------------------------------------------------------------------
(* The inductive invariant *)

\* the inbox holds its owner exactly while the owner is parked
ParkedOwner == inbox.parked <=> owner.pc = "parked"

\* within MaxWaits parks the epoch is the number of the wait, and an armed deadline
\* carries the epoch of the wait it was armed for
EpochsFresh ==
  /\ inbox.epoch = waits
  /\ \A d \in deadlines : d.epoch = d.wait

Inv == TypeOK /\ HopBound /\ ClosedDrained /\ ParkedOwner /\ EpochsFresh

\* A freshly minted hop is a hop record.
LEMMA HopType ==
  ASSUME minted \in Nat, NEW shape \in Shape \cup SysShape,
         NEW who \in {"host", "system"} \cup Sender
  PROVE  Hop(who, shape) \in HopRec
<1>1. shape.n \in Int /\ shape.cost \in Nat /\ minted + 1 \in Nat
  BY InboxAssumption
<1> QED
  BY <1>1 DEF Hop, HopRec

\* What a push of any kind leaves of the invariant.
LEMMA OfferKeepsInv ==
  ASSUME Inv, NEW r, Offered(inbox, r), inbox' = r.mb,
         owner' = (IF r.out = "Handoff" THEN Running ELSE owner),
         minted < MaxHops, minted' = minted + 1,
         UNCHANGED <<deadlines, waits>>,
         held' \in [Sender -> HopRec],
         sender' \in [Sender -> {"run", "refused", "waiting", "dead"}]
  PROVE  Inv'
<1>1. inbox' \in InboxRec
  BY DEF Offered
<1>2. owner' \in [pc : {"run", "admit", "park", "parked", "dying", "gone"}, filter : Filter]
  BY InboxAssumption DEF Inv, TypeOK, Running
<1>3. TypeOK'
  BY <1>1, <1>2, InboxAssumption DEF Inv, TypeOK
<1>4. HopBound' /\ ClosedDrained' /\ EpochsFresh'
  BY DEF Inv, HopBound, ClosedDrained, EpochsFresh, Offered
<1>5. ParkedOwner'
  BY DEF Inv, ParkedOwner, Offered, Running
<1> QED
  BY <1>3, <1>4, <1>5 DEF Inv

\* The invariant holds of a new inbox with a running owner.
LEMMA InitInv == Init => Inv
<1> SUFFICES ASSUME Init PROVE Inv
  OBVIOUS
<1>1. PICK p \in Policies : inbox = NewInbox(p)
  BY DEF Init
<1>2. inbox \in InboxRec
  <2>1. 0 \in 0..(EpochMod - 1) /\ AnyHop \in Filter
    BY MailboxAssumption, InboxAssumption
  <2> QED
    BY <1>1, <2>1 DEF NewInbox, InboxRec
<1>3. TypeOK
  BY <1>2, NoHopType, InboxAssumption DEF Init, TypeOK, Running
<1>4. HopBound /\ ClosedDrained /\ ParkedOwner /\ EpochsFresh
  BY <1>1, MailboxAssumption
  DEF Init, HopBound, ClosedDrained, ParkedOwner, EpochsFresh, NewInbox, Running
<1> QED
  BY <1>3, <1>4 DEF Inv

\* Every critical section on the inbox preserves the invariant.
LEMMA StepInv == Inv /\ [Next]_vars => Inv'
<1> SUFFICES ASSUME Inv, [Next]_vars PROVE Inv'
  OBVIOUS
<1> USE DEF Inv
<1>0. inbox \in InboxRec /\ minted \in Nat
  BY InboxAssumption DEF TypeOK
<1>1. ASSUME NEW s \in Sender, NEW shape \in Shape, SendPush(s, shape) PROVE Inv'
  <2> DEFINE h == Hop(s, shape)
             r == Push(inbox, h)
  <2>1. h \in HopRec
    BY <1>0, HopType, Zenon
  <2>2. Offered(inbox, r)
    BY <1>0, <2>1, PushFacts
  <2>3. held' \in [Sender -> HopRec]
    BY <1>1, <2>1, NoHopType DEF SendPush, TypeOK
  <2>4. sender' \in [Sender -> {"run", "refused", "waiting", "dead"}]
    BY <1>1 DEF SendPush, TypeOK
  <2>5. /\ inbox' = r.mb /\ minted < MaxHops /\ minted' = minted + 1
        /\ owner' = (IF r.out = "Handoff" THEN Running ELSE owner)
        /\ UNCHANGED <<deadlines, waits>>
    BY <1>1 DEF SendPush, Account, OwnerAfter
  <2> HIDE DEF r, h
  <2> QED
    BY <2>2, <2>3, <2>4, <2>5, OfferKeepsInv
<1>2. ASSUME NEW shape \in Shape, HostSend(shape) PROVE Inv'
  <2> DEFINE h == Hop("host", shape)
             r == Push(inbox, h)
  <2>1. h \in HopRec
    BY <1>0, HopType
  <2>2. Offered(inbox, r)
    BY <1>0, <2>1, PushFacts
  <2>3. /\ inbox' = r.mb /\ minted < MaxHops /\ minted' = minted + 1
        /\ owner' = (IF r.out = "Handoff" THEN Running ELSE owner)
        /\ UNCHANGED <<deadlines, waits>>
    BY <1>2 DEF HostSend, Account, OwnerAfter
  <2>4. /\ held' \in [Sender -> HopRec]
        /\ sender' \in [Sender -> {"run", "refused", "waiting", "dead"}]
    BY <1>2 DEF HostSend, TypeOK
  <2> HIDE DEF r, h
  <2> QED
    BY <2>2, <2>3, <2>4, OfferKeepsInv
<1>3. ASSUME NEW shape \in SysShape, SystemHop(shape) PROVE Inv'
  <2> DEFINE h == Hop("system", shape)
             r == PushSystem(inbox, h)
  <2>1. h \in HopRec
    BY <1>0, HopType
  <2>2. Offered(inbox, r)
    BY <1>0, <2>1, PushSystemFacts
  <2>3. /\ inbox' = r.mb /\ minted < MaxHops /\ minted' = minted + 1
        /\ owner' = (IF r.out = "Handoff" THEN Running ELSE owner)
        /\ UNCHANGED <<deadlines, waits>>
    BY <1>3 DEF SystemHop, Account, OwnerAfter
  <2>4. /\ held' \in [Sender -> HopRec]
        /\ sender' \in [Sender -> {"run", "refused", "waiting", "dead"}]
    BY <1>3 DEF SystemHop, TypeOK
  <2> HIDE DEF r, h
  <2> QED
    BY <2>2, <2>3, <2>4, OfferKeepsInv
<1>4. ASSUME NEW s \in Sender, ParkRefused(s) PROVE Inv'
  <2> DEFINE w == [flow |-> s, hop |-> held[s], pending |-> "send"]
             r == ParkSender(inbox, w)
  <2>1. w \in WaiterRec
    BY DEF TypeOK, WaiterRec
  <2>2. /\ r.mb \in InboxRec
        /\ r.out \in {"Undeliverable", "Closed", "Delivered", "WaitersFull", "Parked"}
        /\ Len(inbox.queue) <= Capacity => Len(r.mb.queue) <= Capacity
        /\ r.mb.closed = inbox.closed /\ r.mb.epoch = inbox.epoch
        /\ r.mb.parked = inbox.parked
        /\ inbox.closed => r.mb.waiting = inbox.waiting
    BY <1>0, <2>1, ParkSenderFacts
  <2>3. inbox' = r.mb /\ UNCHANGED <<owner, deadlines, waits, minted>>
    BY <1>4 DEF ParkRefused
  <2>4. sender' = [sender EXCEPT ![s] =
                     CASE r.out = "Parked" -> "waiting"
                       [] r.out = "Delivered" -> "run"
                       [] r.out \in {"Closed", "WaitersFull", "Undeliverable"} -> "dead"]
        /\ held' = [held EXCEPT ![s] = NoHop]
    BY <1>4 DEF ParkRefused
  <2> HIDE DEF r, w
  <2>5. /\ sender' \in [Sender -> {"run", "refused", "waiting", "dead"}]
        /\ held' \in [Sender -> HopRec]
    BY <2>2, <2>4, NoHopType DEF TypeOK
  <2>6. TypeOK'
    BY <2>2, <2>3, <2>5 DEF TypeOK
  <2> QED
    BY <2>2, <2>3, <2>6 DEF HopBound, ClosedDrained, ParkedOwner, EpochsFresh
<1>5. ASSUME NEW f \in Filter, Receive(f) PROVE Inv'
  <2> DEFINE r == TryPop(inbox, f)
  <2>1. /\ r.mb \in InboxRec /\ Len(r.mb.queue) <= Len(inbox.queue)
        /\ SameBut(inbox, r.mb)
    BY <1>0, TryPopFacts
  <2>2. /\ inbox' = r.mb /\ owner.pc = "run"
        /\ owner' = IF r.hop = NoHop THEN [pc |-> "park", filter |-> f]
                                     ELSE [pc |-> "admit", filter |-> AnyHop]
        /\ UNCHANGED <<held, sender, deadlines, waits, minted>>
    BY <1>5 DEF Receive
  <2> HIDE DEF r
  <2>3. TypeOK'
    BY <2>1, <2>2, InboxAssumption DEF TypeOK
  <2>4. HopBound'
    <3>1. Len(inbox.queue) \in Nat /\ Len(r.mb.queue) \in Nat /\ Capacity \in Nat
      BY <1>0, <2>1, MailboxAssumption DEF InboxRec
    <3> QED
      BY <2>1, <2>2, <3>1 DEF HopBound
  <2> QED
    BY <2>1, <2>2, <2>3, <2>4, Zenon DEF SameBut, ClosedDrained, ParkedOwner, EpochsFresh
<1>6. CASE Admit
  <2> DEFINE r == AdmitWaitingSender(inbox)
             w == Head(inbox.waiting)
  <2>1. /\ r.mb \in InboxRec
        /\ Len(inbox.queue) <= Capacity => Len(r.mb.queue) <= Capacity
        /\ r.mb.closed = inbox.closed /\ r.mb.epoch = inbox.epoch
        /\ r.mb.parked = inbox.parked
        /\ inbox.closed => r.mb.waiting = inbox.waiting
    BY <1>0, AdmitFacts
  <2>2. /\ inbox' = r.mb /\ owner.pc = "admit" /\ owner' = Running
        /\ sender' = IF r.out = "Woken" THEN [sender EXCEPT ![w.flow] = "run"] ELSE sender
        /\ UNCHANGED <<held, deadlines, waits, minted>>
    BY <1>6 DEF Admit
  <2> HIDE DEF r, w
  <2>3. TypeOK'
    BY <2>1, <2>2, InboxAssumption, Zenon DEF TypeOK, Running
  <2> QED
    BY <2>1, <2>2, <2>3 DEF HopBound, ClosedDrained, ParkedOwner, EpochsFresh, Running
<1>7. ASSUME NEW timed \in BOOLEAN, Park(timed) PROVE Inv'
  <2> DEFINE r == ParkFilter(inbox, owner.filter)
  <2>1. inbox.epoch + 1 < EpochMod /\ waits + 1 \in 1..MaxWaits /\ waits \in Nat
    BY <1>7, InboxAssumption, MailboxAssumption DEF Park, TypeOK, EpochsFresh
  <2>2. /\ r.mb \in InboxRec /\ Len(r.mb.queue) <= Len(inbox.queue)
        /\ r.mb.waiting = inbox.waiting /\ r.mb.closed = inbox.closed
        /\ IF r.hop # NoHop
           THEN r.mb.parked = inbox.parked /\ r.mb.epoch = inbox.epoch
           ELSE r.mb.parked = TRUE /\ r.mb.epoch = inbox.epoch + 1
    <3>1. owner.filter \in Filter
      BY DEF TypeOK
    <3> QED
      BY <1>0, <2>1, <3>1, ParkFilterFacts, Zenon
  <2>3. inbox' = r.mb /\ owner.pc = "park" /\ UNCHANGED <<held, sender, minted>>
    BY <1>7 DEF Park
  <2>4. HopBound'
    <3>1. Len(inbox.queue) \in Nat /\ Len(r.mb.queue) \in Nat /\ Capacity \in Nat
      <4>1. \A m \in InboxRec : m.queue \in Seq(HopRec)
        BY Zenon DEF InboxRec
      <4>2. inbox.queue \in Seq(HopRec) /\ r.mb.queue \in Seq(HopRec)
        BY <1>0, <2>2, <4>1, Zenon
      <4> HIDE DEF r
      <4> QED
        BY <4>2, MailboxAssumption
    <3> HIDE DEF r
    <3> QED
      BY <2>2, <2>3, <3>1 DEF HopBound
  <2>5. CASE r.hop # NoHop
    <3>1. owner' = Running /\ UNCHANGED <<waits, deadlines>>
      BY <1>7, <2>5 DEF Park
    <3> HIDE DEF r
    <3>2. TypeOK'
      BY <2>2, <2>3, <3>1, InboxAssumption DEF TypeOK, Running
    <3> QED
      BY <2>2, <2>3, <2>5, <2>4, <3>1, <3>2
      DEF ClosedDrained, ParkedOwner, EpochsFresh, Running
  <2>6. CASE r.hop = NoHop
    <3> DEFINE d0 == [epoch |-> r.mb.epoch, wait |-> waits + 1]
    <3>1. /\ owner' = [pc |-> "parked", filter |-> AnyHop] /\ waits' = waits + 1
          /\ deadlines' = IF timed THEN deadlines \cup {d0} ELSE deadlines
      BY <1>7, <2>6 DEF Park
    <3>2. r.mb.epoch \in 0..(EpochMod - 1) /\ r.mb.epoch = waits + 1
      BY <2>2, <2>6, Zenon DEF InboxRec, EpochsFresh
    <3>3. /\ d0 \in [epoch : 0..(EpochMod - 1), wait : 1..MaxWaits]
          /\ d0.epoch = d0.wait
      BY <2>1, <3>2
    <3> HIDE DEF r, d0
    <3>4. TypeOK'
      BY <2>1, <2>2, <2>3, <3>1, <3>3, InboxAssumption DEF TypeOK
    <3>5. EpochsFresh'
      BY <2>3, <3>1, <3>2, <3>3 DEF EpochsFresh
    <3> QED
      BY <2>2, <2>3, <2>6, <2>4, <3>1, <3>4, <3>5 DEF ClosedDrained, ParkedOwner
  <2> QED
    BY <2>5, <2>6
<1>8. ASSUME NEW d \in deadlines, FireDeadline(d) PROVE Inv'
  <2>1. /\ inbox' \in InboxRec /\ inbox'.queue = inbox.queue /\ inbox'.epoch = inbox.epoch
        /\ inbox'.waiting = inbox.waiting /\ inbox'.closed = inbox.closed
    BY <1>0, <1>8, UnparkFacts, Zenon DEF FireDeadline, TakeParkedAt
  <2>2. ParkedOwner'
    BY <1>0, <1>8, UnparkFacts, Zenon DEF FireDeadline, TakeParkedAt, ParkedOwner, Running
  <2>3. TypeOK'
    BY <1>8, <2>1, InboxAssumption DEF FireDeadline, TypeOK, Running
  <2> QED
    BY <1>8, <2>1, <2>2, <2>3 DEF FireDeadline, HopBound, ClosedDrained, EpochsFresh
<1>9. CASE KillOwner
  <2>1. /\ inbox' = Unpark(inbox) /\ UNCHANGED <<held, sender, deadlines, waits, minted>>
        /\ owner' = IF inbox.parked THEN [owner EXCEPT !.pc = "dying"] ELSE owner
    BY <1>9 DEF KillOwner, TakeParked
  <2>2. TypeOK'
    BY <1>0, <2>1, UnparkFacts, Zenon DEF TypeOK
  <2> QED
    BY <1>0, <2>1, <2>2, UnparkFacts, Zenon
    DEF HopBound, ClosedDrained, ParkedOwner, EpochsFresh, TypeOK
<1>10. ASSUME NEW s \in Sender, KillSender(s) PROVE Inv'
  <2> DEFINE n == TakeWaitingSender(inbox, s).mb
  <2>1. /\ n \in InboxRec /\ n.queue = inbox.queue
        /\ n.closed = inbox.closed /\ n.epoch = inbox.epoch /\ n.parked = inbox.parked
        /\ inbox.waiting = << >> => n.waiting = << >>
    BY <1>0, TakeWaitingSenderFacts
  <2>2. inbox' = n /\ UNCHANGED <<owner, held, deadlines, waits, minted>>
    BY <1>10 DEF KillSender
  <2>3. sender' \in [Sender -> {"run", "refused", "waiting", "dead"}]
    BY <1>10 DEF KillSender, TypeOK
  <2> HIDE DEF n
  <2>4. TypeOK'
    BY <2>1, <2>2, <2>3 DEF TypeOK
  <2> QED
    BY <2>1, <2>2, <2>4 DEF HopBound, ClosedDrained, ParkedOwner, EpochsFresh
<1>11. CASE CloseInbox
  <2>1. /\ inbox' = Close(inbox) /\ owner.pc \in {"run", "dying"}
        /\ owner' = [owner EXCEPT !.pc = "gone"]
        /\ UNCHANGED <<held, deadlines, waits, minted>>
        /\ sender' = [s \in Sender |-> IF IsWaiting(inbox, s) THEN "dead" ELSE sender[s]]
    BY <1>11 DEF CloseInbox
  <2>2. /\ Close(inbox) \in InboxRec /\ Close(inbox).queue = inbox.queue
        /\ Close(inbox).waiting = << >> /\ Close(inbox).epoch = inbox.epoch
        /\ Close(inbox).parked = inbox.parked
    <3>1. << >> \in Seq(WaiterRec)
      OBVIOUS
    <3>2. Close(inbox) \in InboxRec
      BY <1>0, <3>1, Zenon DEF Close, InboxRec
    <3> QED
      BY <1>0, <3>2 DEF Close, InboxRec
  <2>3. sender' \in [Sender -> {"run", "refused", "waiting", "dead"}]
    BY <2>1 DEF TypeOK
  <2>4. TypeOK'
    BY <2>1, <2>2, <2>3 DEF TypeOK
  <2> QED
    BY <2>1, <2>2, <2>4 DEF HopBound, ClosedDrained, ParkedOwner, EpochsFresh, TypeOK
<1>12. CASE UNCHANGED vars
  BY <1>12 DEF vars, TypeOK, HopBound, ClosedDrained, ParkedOwner, EpochsFresh
<1> QED
  BY <1>1, <1>2, <1>3, <1>4, <1>5, <1>6, <1>7, <1>8, <1>9, <1>10, <1>11, <1>12 DEF Next

\* The inductive invariant holds throughout: types, the hop bound, a drained closed inbox,
\* an owner that is parked exactly when the inbox holds it, and deadlines no newer than
\* the current wait epoch.
THEOREM Invariant == Spec => []Inv
<1>1. Init => Inv
  BY InitInv
<1>2. Inv /\ [Next]_vars => Inv'
  BY StepInv
<1> QED
  BY <1>1, <1>2, PTL DEF Spec

-----------------------------------------------------------------------------
(* The results *)

\* The inbox and the flows around it keep their types, under every policy.
THEOREM TypeCorrect == Spec => []TypeOK
<1>1. Inv => TypeOK
  BY DEF Inv
<1> QED
  BY <1>1, Invariant, PTL

\* MailboxQueue never holds more than MailboxCapacity hops, whatever the policy and
\* however many system hops force_push puts in.
THEOREM CapacityBound == Spec => []HopBound
<1>1. Inv => HopBound
  BY DEF Inv
<1> QED
  BY <1>1, Invariant, PTL

\* No sender flow is left in the waiting list of a closed inbox.
THEOREM CloseDrains == Spec => []ClosedDrained
<1>1. Inv => ClosedDrained
  BY DEF Inv
<1> QED
  BY <1>1, Invariant, PTL

\* The bounds of a mailbox, for every capacity, policy and set of senders.
THEOREM MailboxBounds == Spec => []InboxSound
<1>1. Inv => InboxSound
  BY DEF Inv, InboxSound
<1> QED
  BY <1>1, Invariant, PTL

\* Only the timer takes a deadline out of the wheel.
LEMMA OnlyFireDropsDeadlines ==
  ASSUME Next, \A d \in deadlines : ~FireDeadline(d)
  PROVE  deadlines \subseteq deadlines'
BY Zenon DEF Next, SendPush, HostSend, SystemHop, ParkRefused, Receive, Admit, Park, KillOwner,
       KillSender, CloseInbox

\* A ReceiveTimeout deadline ends only the wait it was armed for (WaitEpoch), as long
\* as the wrapping epoch has not come round.
THEOREM DeadlineSafety == Spec => DeadlineOwnsItsWait
<1> DEFINE A == \A d \in deadlines \ deadlines' :
                  inbox.parked /\ ~inbox'.parked => d.wait = waits
<1>1. Inv /\ [Next]_vars => [A]_vars
  <2> SUFFICES ASSUME Inv, Next, NEW d \in deadlines \ deadlines',
                      inbox.parked, ~inbox'.parked
               PROVE  d.wait = waits
    OBVIOUS
  <2>1. PICK e \in deadlines : FireDeadline(e)
    BY OnlyFireDropsDeadlines
  <2>2. d = e
    BY <2>1 DEF FireDeadline
  <2>3. inbox.epoch = d.epoch
    BY <2>1, <2>2 DEF FireDeadline, TakeParkedAt
  <2> QED
    BY <2>3 DEF Inv, EpochsFresh
<1> QED
  BY <1>1, Invariant, PTL DEF Spec, DeadlineOwnsItsWait

\* A waiter that stays parked keeps the filter it parked with: no offered hop, kill,
\* stale deadline or sender operation widens a selective wait.
THEOREM SelectiveWaitKept == Spec => FilterKept
<1> DEFINE A == inbox.parked /\ inbox'.parked => inbox'.filter = inbox.filter
<1>1. Inv /\ [Next]_vars => [A]_vars
  <2> SUFFICES ASSUME Inv, Next, inbox.parked, inbox'.parked
               PROVE  inbox'.filter = inbox.filter
    OBVIOUS
  <2>0. inbox \in InboxRec /\ minted \in Nat /\ owner.pc = "parked"
    BY InboxAssumption DEF Inv, TypeOK, ParkedOwner
  <2>1. ASSUME NEW r, Offered(inbox, r), inbox' = r.mb PROVE inbox'.filter = inbox.filter
    BY <2>1, Zenon DEF Offered
  <2>2. ASSUME NEW s \in Sender, NEW shape \in Shape, SendPush(s, shape)
        PROVE  inbox'.filter = inbox.filter
    <3>1. Hop(s, shape) \in HopRec
      BY <2>0, HopType, Zenon
    <3>2. inbox' = Push(inbox, Hop(s, shape)).mb
      BY <2>2 DEF SendPush
    <3> QED
      BY <2>0, <2>1, <3>1, <3>2, PushFacts
  <2>3. ASSUME NEW shape \in Shape, HostSend(shape)
        PROVE  inbox'.filter = inbox.filter
    <3>1. Hop("host", shape) \in HopRec
      BY <2>0, HopType
    <3>2. inbox' = Push(inbox, Hop("host", shape)).mb
      BY <2>3 DEF HostSend
    <3> QED
      BY <2>0, <2>1, <3>1, <3>2, PushFacts
  <2>4. ASSUME NEW shape \in SysShape, SystemHop(shape)
        PROVE  inbox'.filter = inbox.filter
    <3>1. Hop("system", shape) \in HopRec
      BY <2>0, HopType
    <3>2. inbox' = PushSystem(inbox, Hop("system", shape)).mb
      BY <2>4 DEF SystemHop
    <3> QED
      BY <2>0, <2>1, <3>1, <3>2, PushSystemFacts, Zenon
  <2>5. ASSUME NEW s \in Sender, ParkRefused(s)
        PROVE  inbox'.filter = inbox.filter
    <3>1. [flow |-> s, hop |-> held[s], pending |-> "send"] \in WaiterRec
      BY DEF Inv, TypeOK, WaiterRec
    <3>2. inbox' = ParkSender(inbox, [flow |-> s, hop |-> held[s], pending |-> "send"]).mb
      BY <2>5 DEF ParkRefused
    <3> QED
      BY <2>0, <3>1, <3>2, ParkSenderFacts
  <2>6. ASSUME NEW d \in deadlines, FireDeadline(d)
        PROVE  inbox'.filter = inbox.filter
    BY <2>0, <2>6, UnparkFacts, Zenon DEF FireDeadline, TakeParkedAt
  <2>7. CASE KillOwner
    BY <2>0, <2>7, UnparkFacts, Zenon DEF KillOwner, TakeParked
  <2>8. ASSUME NEW s \in Sender, KillSender(s)
        PROVE  inbox'.filter = inbox.filter
    <3>1. inbox' = TakeWaitingSender(inbox, s).mb
      BY <2>8 DEF KillSender
    <3> QED
      BY <2>0, <3>1, TakeWaitingSenderFacts
  <2>9. /\ \A f \in Filter : ~Receive(f)
        /\ ~Admit
        /\ \A timed \in BOOLEAN : ~Park(timed)
        /\ ~CloseInbox
    BY <2>0 DEF Receive, Admit, Park, CloseInbox
  <2> QED
    BY <2>2, <2>3, <2>4, <2>5, <2>6, <2>7, <2>8, <2>9, Zenon DEF Next
<1> QED
  BY <1>1, Invariant, PTL DEF Spec, FilterKept

\* A stale deadline neither ends a wait nor widens its filter.
THEOREM WaitsAreKept == Spec => WaitKept
BY DeadlineSafety, SelectiveWaitKept DEF WaitKept
=============================================================================
