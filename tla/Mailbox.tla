------------------------------ MODULE Mailbox ------------------------------
(***************************************************************************)
(* The per-flow inbox: the bounded hop queue of mailbox/queue.rs and the   *)
(* methods of `Mailbox` in mailbox/mod.rs, as operators on an inbox record.*)
(*                                                                         *)
(* Every `Mailbox` method takes the inbox mutex once, so a method is one   *)
(* operator from an inbox to the inbox it leaves and the result it         *)
(* returns.  What two threads do BETWEEN two methods is for the modules    *)
(* that use this one (Inbox, Messaging).                                   *)
(*                                                                         *)
(* A hop is [tag, kind, n, rid, sender, cost]: application tag, wire kind  *)
(* and value of its payload, request id, authenticated sender and          *)
(* `memory_size`.  Hops here respect the nesting limit: `set_reg` and the  *)
(* decoder refuse deeper values before they reach a mailbox.               *)
(***************************************************************************)
EXTENDS Integers, Sequences, FiniteSets, Functions

CONSTANTS
  Capacity,   \* MailboxCapacity: hops one inbox may hold
  ByteLimit,  \* MailboxBytes: bytes one inbox may hold
  Policies,   \* the OverflowPolicy values inboxes are configured with
  EpochMod    \* the wait epoch is a wrapping counter (2^64 in the code)

ASSUME MailboxAssumption ==
  /\ Capacity \in Nat \ {0}
  /\ ByteLimit \in Nat \ {0}
  /\ Policies \subseteq {"Reject", "DropNewest", "DropOldest"}
  /\ EpochMod \in Nat \ {0, 1}

\* the methods of Vec and VecDeque: the least position of a set, 0 when there is none;
\* what a removal leaves; the last element, and the sequence without it
First(S) == IF S = {} THEN 0 ELSE CHOOSE x \in S : \A y \in S : x <= y
RemoveAt(s, i) == SubSeq(s, 1, i - 1) \o SubSeq(s, i + 1, Len(s))
Last(s) == s[Len(s)]
Front(s) == SubSeq(s, 1, Len(s) - 1)

NoHop == [tag |-> "none", kind |-> "unit", n |-> 0, rid |-> 0, sender |-> "none", cost |-> 0]

-----------------------------------------------------------------------------
(* Wait filters *)

AnyHop == [kind |-> "Any"]

\* IntCmp::holds
Holds(cmp, payload, bound) ==
  CASE cmp = "Eq" -> payload = bound
    [] cmp = "Lt" -> payload < bound
    [] cmp = "Le" -> payload <= bound

\* WaitFilter::matches; a Correlation without expect_sender has from = "any"
Matches(f, h) ==
  CASE f.kind = "Any" -> TRUE
    [] f.kind = "Tag" -> h.tag = f.tag
    [] f.kind = "PayloadKind" -> h.kind = f.payload
    [] f.kind = "TagPayload" -> h.tag = f.tag /\ h.kind = "int" /\ h.n = f.n
    [] f.kind = "TagValue" -> h.tag = f.tag /\ h.kind = f.payload /\ h.n = f.n
    [] f.kind = "TagCmp" -> h.tag = f.tag /\ h.kind = "int" /\ Holds(f.cmp, h.n, f.n)
    [] f.kind = "Correlation" -> h.rid = f.rid /\ f.from \in {"any", h.sender}
    [] f.kind = "TaggedCorrelation" -> h.tag = f.tag /\ h.rid = f.rid

-----------------------------------------------------------------------------
(* MailboxQueue *)

\* what `bytes` is charged for a run of hops
Bytes(q) == FoldFunction(LAMBDA h, acc : h.cost + acc, 0, q)

SaturatingSub(a, b) == IF a - b \in Nat THEN a - b ELSE 0

\* mutant of IsFull: the bound is off by one
IsFullOffByOne(mb) == Len(mb.queue) > Capacity

IsFull(mb) == Len(mb.queue) >= Capacity

WouldExceedBytes(mb, cost) == mb.bytes + cost > ByteLimit

Fits(mb, cost) == ~IsFull(mb) /\ ~WouldExceedBytes(mb, cost)

CanEverFit(cost) == cost <= ByteLimit

PushBack(mb, h) ==
  [mb EXCEPT !.queue = Append(@, h), !.bytes = @ + h.cost]

\* position of the oldest hop `filter` accepts, 0 when there is none
FirstMatch(mb, filter) == First({i \in DOMAIN mb.queue : Matches(filter, mb.queue[i])})

\* mutant of TakeAt: the last hop fills the hole
TakeAtSwapRemove(mb, i) ==
  [mb EXCEPT !.queue = Front([@ EXCEPT ![i] = Last(mb.queue)]),
             !.bytes = SaturatingSub(@, mb.queue[i].cost)]

\* MailboxQueue::take once the position is known
TakeAt(mb, i) ==
  [mb EXCEPT !.queue = RemoveAt(@, i),
             !.bytes = SaturatingSub(@, mb.queue[i].cost)]

\* mutant of DropFront: an evicted hop stays charged
DropFrontNoRefund(mb, k) == [mb EXCEPT !.queue = SubSeq(@, k + 1, Len(@))]

DropFront(mb, k) ==
  [mb EXCEPT !.queue = SubSeq(@, k + 1, Len(@)),
             !.bytes = SaturatingSub(@, Bytes(SubSeq(mb.queue, 1, k)))]

\* the eviction loop: drop from the front until `cost` fits or nothing is left
EvictFor(mb, cost) ==
  LET enough(k) == k = Len(mb.queue) \/ Fits(DropFront(mb, k), cost)
  IN  DropFront(mb, CHOOSE k \in 0..Len(mb.queue) :
                      enough(k) /\ \A j \in 0..(k - 1) : ~enough(j))

FullReason(mb) == IF IsFull(mb) THEN "MessageLimit" ELSE "ByteLimit"

\* MailboxQueue::enqueue under `policy`, with enqueue_locked's result
Enqueue(mb, h, policy) ==
  CASE Fits(mb, h.cost) -> [mb |-> PushBack(mb, h), out |-> "Queued"]
    [] ~Fits(mb, h.cost) /\ policy = "Reject" ->
         [mb |-> mb, out |-> FullReason(mb)]
    [] ~Fits(mb, h.cost) /\ policy = "DropNewest" ->
         [mb |-> mb, out |-> "DroppedNewest"]
    [] ~Fits(mb, h.cost) /\ policy = "DropOldest" ->
         LET room == EvictFor(mb, h.cost)
         IN  IF WouldExceedBytes(room, h.cost)
             THEN [mb |-> room, out |-> "ByteLimit"]
             ELSE [mb |-> PushBack(room, h), out |-> "QueuedDropOldest"]

\* MailboxQueue::force_push: evict from the front, then push whatever the budget
ForcePush(mb, h) == PushBack(EvictFor(mb, h.cost), h)

-----------------------------------------------------------------------------
(* Mailbox methods *)

\* Mailbox::with_config
NewInbox(policy) ==
  [policy |-> policy, queue |-> << >>, bytes |-> 0, parked |-> FALSE,
   filter |-> AnyHop, epoch |-> 0, waiting |-> << >>, closed |-> FALSE]

Unpark(mb) == [mb EXCEPT !.parked = FALSE, !.filter = AnyHop]

WakesWaiter(mb, h) == mb.parked /\ Matches(mb.filter, h)

\* Mailbox::push
Push(mb, h) ==
  CASE mb.closed -> [mb |-> mb, out |-> "Closed"]
    [] ~mb.closed /\ WakesWaiter(mb, h) -> [mb |-> Unpark(mb), out |-> "Handoff"]
    [] ~mb.closed /\ ~WakesWaiter(mb, h) -> Enqueue(mb, h, mb.policy)

\* Mailbox::push_system; a closed inbox swallows the hop
PushSystem(mb, h) ==
  CASE mb.closed -> [mb |-> mb, out |-> "Queued"]
    [] ~mb.closed /\ WakesWaiter(mb, h) -> [mb |-> Unpark(mb), out |-> "Handoff"]
    [] ~mb.closed /\ ~WakesWaiter(mb, h) -> [mb |-> ForcePush(mb, h), out |-> "Queued"]

\* Mailbox::try_pop_filter: [mb, hop], hop = NoHop when nothing matched
TryPop(mb, filter) ==
  LET i == FirstMatch(mb, filter)
  IN  IF i = 0 THEN [mb |-> mb, hop |-> NoHop]
               ELSE [mb |-> TakeAt(mb, i), hop |-> mb.queue[i]]

\* the second half of Mailbox::park_filter: install the waiter in a new epoch
InstallWaiter(mb, filter) ==
  [mb EXCEPT !.epoch = (@ + 1) % EpochMod, !.filter = filter, !.parked = TRUE]

\* Mailbox::park_filter: a hop that raced ahead is taken instead of parking
ParkFilter(mb, filter) ==
  LET got == TryPop(mb, filter)
  IN  IF got.hop # NoHop THEN got
      ELSE [mb |-> InstallWaiter(mb, filter), hop |-> NoHop]

\* mutant of TakeParkedAt: any wait is taken
TakeParkedAtAny(mb, epoch) == [mb |-> Unpark(mb), taken |-> mb.parked]

\* Mailbox::take_parked_at: only the wait `epoch` identifies
TakeParkedAt(mb, epoch) ==
  IF mb.epoch = epoch /\ mb.parked
  THEN [mb |-> Unpark(mb), taken |-> TRUE]
  ELSE [mb |-> mb, taken |-> FALSE]

\* Mailbox::take_parked: whoever is parked
TakeParked(mb) == [mb |-> Unpark(mb), taken |-> mb.parked]

\* Mailbox::close: the inbox it leaves; its waiting senders are the result
Close(mb) == [mb EXCEPT !.closed = TRUE, !.waiting = << >>]

\* Mailbox::park_sender: w is a WaitingSender, its flow, its hop and what it does next
ParkSender(mb, w) ==
  CASE ~CanEverFit(w.hop.cost) -> [mb |-> mb, out |-> "Undeliverable"]
    [] CanEverFit(w.hop.cost) /\ mb.closed -> [mb |-> mb, out |-> "Closed"]
    [] CanEverFit(w.hop.cost) /\ ~mb.closed /\ Fits(mb, w.hop.cost) ->
         [mb |-> PushBack(mb, w.hop), out |-> "Delivered"]
    [] CanEverFit(w.hop.cost) /\ ~mb.closed /\ ~Fits(mb, w.hop.cost) ->
         IF Len(mb.waiting) >= Capacity
         THEN [mb |-> mb, out |-> "WaitersFull"]
         ELSE [mb |-> [mb EXCEPT !.waiting = Append(@, w)], out |-> "Parked"]

\* Mailbox::admit_waiting_sender: the head waiter's hop, if it fits; a waiter
\* that does not fit goes back to the head.  park_sender refuses a hop that can
\* never fit, so the Undeliverable arm of the code has no waiter to act on.
AdmitWaitingSender(mb) ==
  IF ~mb.closed /\ mb.waiting # << >> /\ Fits(mb, Head(mb.waiting).hop.cost)
  THEN [mb |-> [PushBack(mb, Head(mb.waiting).hop) EXCEPT !.waiting = Tail(@)],
        out |-> "Woken"]
  ELSE [mb |-> mb, out |-> "Idle"]

IsWaiting(mb, f) == \E i \in DOMAIN mb.waiting : mb.waiting[i].flow = f

\* Mailbox::take_waiting_sender
TakeWaitingSender(mb, f) ==
  LET i == First({j \in DOMAIN mb.waiting : mb.waiting[j].flow = f})
  IN  [mb |-> [mb EXCEPT !.waiting = IF i = 0 THEN @ ELSE RemoveAt(@, i)], taken |-> i # 0]
=============================================================================
