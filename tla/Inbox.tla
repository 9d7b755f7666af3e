------------------------------- MODULE Inbox -------------------------------
(***************************************************************************)
(* One inbox under every caller it has: the worker that runs the owning    *)
(* flow (Receive), bytecode senders (push, then park_sender when refused), *)
(* the host and the lifecycle code (push, push_system), the timer          *)
(* (take_parked_at), a killer (take_parked, take_waiting_sender) and       *)
(* finalize (close).  One step is one critical section on the inbox, so    *)
(* callers interleave between sections exactly as threads do.              *)
(***************************************************************************)
EXTENDS Mailbox

CONSTANTS
  Sender,     \* bytecode flows that send to this inbox
  Shape,      \* the [tag, kind, n, cost] a user hop may have
  SysShape,   \* the shapes of system hops (DOWN, EXIT)
  Filter,     \* the wait filters the owner uses
  MaxHops,    \* bound: hops minted in a behaviour
  MaxWaits    \* bound: parks in a behaviour (the code would need 2^64 to wrap)

ASSUME InboxAssumption ==
  /\ MaxHops \in Nat /\ MaxWaits \in Nat
  /\ MaxWaits < EpochMod
  /\ AnyHop \in Filter
  /\ \A s \in Shape \cup SysShape : s.n \in Int /\ s.cost \in Nat

VARIABLES
  inbox,      \* the MailboxInner
  owner,      \* the owning flow: [pc, filter it is about to park with]
  held,       \* the refused hop a sender still has in hand, NoHop otherwise
  sender,     \* where each sender flow is
  deadlines,  \* armed ReceiveTimeout entries: [epoch, wait]
  waits,      \* parks so far; numbers a wait without wrapping
  minted,     \* hops so far; numbers a hop
  accepted, taken, evicted  \* hops the queue took in, handed out, threw out

vars == <<inbox, owner, held, sender, deadlines, waits, minted,
          accepted, taken, evicted>>

Queued == Range(inbox.queue)

Running == [pc |-> "run", filter |-> AnyHop]

-----------------------------------------------------------------------------

Init ==
  /\ inbox \in {NewInbox(p) : p \in Policies}
  /\ owner = Running
  /\ held = [s \in Sender |-> NoHop]
  /\ sender = [s \in Sender |-> "run"]
  /\ deadlines = {}
  /\ waits = 0
  /\ minted = 0
  /\ accepted = {} /\ taken = {} /\ evicted = {}

\* the next hop of `who`, numbered so that every hop is distinct
Hop(who, shape) ==
  [tag |-> shape.tag, kind |-> shape.kind, n |-> shape.n, cost |-> shape.cost,
   rid |-> minted + 1, sender |-> who]

\* book-keeping of a step that leaves inbox `mb` after offering `h`
Account(mb, out, h) ==
  /\ minted' = minted + 1
  /\ accepted' = IF out \in {"Queued", "QueuedDropOldest", "Handoff"} /\ ~inbox.closed
                 THEN accepted \cup {h} ELSE accepted
  /\ taken' = IF out = "Handoff" THEN taken \cup {h} ELSE taken
  /\ evicted' = evicted \cup (Queued \ Range(mb.queue))

\* a handoff resumes the owner with the hop
OwnerAfter(out) ==
  owner' = IF out = "Handoff" THEN Running ELSE owner

\* worker::deliver for a bytecode Send
SendPush(s, shape) ==
  LET h == Hop(s, shape)
      r == Push(inbox, h)
  IN  /\ sender[s] = "run" /\ minted < MaxHops
      /\ inbox' = r.mb
      /\ Account(r.mb, r.out, h)
      /\ OwnerAfter(r.out)
      /\ sender' = [sender EXCEPT ![s] =
                      CASE r.out = "Closed" -> "dead"
                        [] r.out \in {"MessageLimit", "ByteLimit"} -> "refused"
                        [] OTHER -> "run"]
      /\ held' = [held EXCEPT ![s] = IF r.out \in {"MessageLimit", "ByteLimit"}
                                     THEN h ELSE NoHop]
      /\ UNCHANGED <<deadlines, waits>>

\* Runtime::send; a refusal is reported to the host and the hop is gone
HostSend(shape) ==
  LET h == Hop("host", shape)
      r == Push(inbox, h)
  IN  /\ minted < MaxHops
      /\ inbox' = r.mb
      /\ Account(r.mb, r.out, h)
      /\ OwnerAfter(r.out)
      /\ UNCHANGED <<held, sender, deadlines, waits>>

\* deliver_system_hop: DOWN of a monitor, EXIT of a trapped link
SystemHop(shape) ==
  LET h == Hop("system", shape)
      r == PushSystem(inbox, h)
  IN  /\ minted < MaxHops
      /\ inbox' = r.mb
      /\ Account(r.mb, r.out, h)
      /\ OwnerAfter(r.out)
      /\ UNCHANGED <<held, sender, deadlines, waits>>

\* park_waiting_send: a refused sender parks, or its hop goes in after all
ParkRefused(s) ==
  LET r == ParkSender(inbox, [flow |-> s, hop |-> held[s], pending |-> "send"])
  IN  /\ sender[s] = "refused"
      /\ inbox' = r.mb
      /\ sender' = [sender EXCEPT ![s] =
                      CASE r.out = "Parked" -> "waiting"
                        [] r.out = "Delivered" -> "run"
                        [] r.out \in {"Closed", "WaitersFull", "Undeliverable"} -> "dead"]
      /\ accepted' = IF r.out = "Delivered" THEN accepted \cup {held[s]} ELSE accepted
      /\ held' = [held EXCEPT ![s] = NoHop]
      /\ UNCHANGED <<owner, deadlines, waits, minted, taken, evicted>>

\* VmResult::Receive, the first look at the queue
Receive(filter) ==
  LET r == TryPop(inbox, filter)
  IN  /\ owner.pc = "run"
      /\ inbox' = r.mb
      /\ owner' = IF r.hop = NoHop THEN [pc |-> "park", filter |-> filter]
                                   ELSE [pc |-> "admit", filter |-> AnyHop]
      /\ taken' = IF r.hop = NoHop THEN taken ELSE taken \cup {r.hop}
      /\ UNCHANGED <<held, sender, deadlines, waits, minted, accepted, evicted>>

\* admit_waiting_on, after the pop
Admit ==
  LET r == AdmitWaitingSender(inbox)
      w == Head(inbox.waiting)
  IN  /\ owner.pc = "admit"
      /\ inbox' = r.mb
      /\ owner' = Running
      /\ sender' = IF r.out = "Woken" THEN [sender EXCEPT ![w.flow] = "run"] ELSE sender
      /\ accepted' = IF r.out = "Woken" THEN accepted \cup {w.hop} ELSE accepted
      /\ UNCHANGED <<held, deadlines, waits, minted, taken, evicted>>

\* park_on_mailbox, with or without a deadline
Park(timed) ==
  LET r == ParkFilter(inbox, owner.filter)
  IN  /\ owner.pc = "park" /\ waits < MaxWaits
      /\ inbox' = r.mb
      /\ IF r.hop # NoHop
         THEN /\ owner' = Running
              /\ taken' = taken \cup {r.hop}
              /\ UNCHANGED <<waits, deadlines>>
         ELSE /\ owner' = [pc |-> "parked", filter |-> AnyHop]
              /\ waits' = waits + 1
              /\ deadlines' = IF timed
                              THEN deadlines \cup {[epoch |-> r.mb.epoch, wait |-> waits + 1]}
                              ELSE deadlines
              /\ UNCHANGED taken
      /\ UNCHANGED <<held, sender, minted, accepted, evicted>>

\* TimerWheel::fire on a WakeReceiver entry
FireDeadline(d) ==
  LET r == TakeParkedAt(inbox, d.epoch)
  IN  /\ deadlines' = deadlines \ {d}
      /\ inbox' = r.mb
      /\ owner' = IF r.taken THEN Running ELSE owner
      /\ UNCHANGED <<held, sender, waits, minted, accepted, taken, evicted>>

\* extract_for_kill on the owner: parked, it is finalized by the killer
KillOwner ==
  LET r == TakeParked(inbox)
  IN  /\ owner.pc # "dying" /\ owner.pc # "gone"
      /\ inbox' = r.mb
      /\ owner' = IF r.taken THEN [owner EXCEPT !.pc = "dying"] ELSE owner
      /\ UNCHANGED <<held, sender, deadlines, waits, minted, accepted, taken, evicted>>

\* extract_for_kill on a sender parked here
KillSender(s) ==
  LET r == TakeWaitingSender(inbox, s)
  IN  /\ sender[s] = "waiting"
      /\ inbox' = r.mb
      /\ sender' = [sender EXCEPT ![s] = IF r.taken THEN "dead" ELSE @]
      /\ UNCHANGED <<owner, held, deadlines, waits, minted, accepted, taken, evicted>>

\* finalize_one on the owner: its waiting senders fail with it
CloseInbox ==
  /\ owner.pc \in {"run", "dying"}
  /\ inbox' = Close(inbox)
  /\ sender' = [s \in Sender |-> IF IsWaiting(inbox, s) THEN "dead" ELSE sender[s]]
  /\ owner' = [owner EXCEPT !.pc = "gone"]
  /\ UNCHANGED <<held, deadlines, waits, minted, accepted, taken, evicted>>

Next ==
  \/ \E s \in Sender, shape \in Shape : SendPush(s, shape)
  \/ \E shape \in Shape : HostSend(shape)
  \/ \E shape \in SysShape : SystemHop(shape)
  \/ \E s \in Sender : ParkRefused(s)
  \/ \E f \in Filter : Receive(f)
  \/ Admit
  \/ \E timed \in BOOLEAN : Park(timed)
  \/ \E d \in deadlines : FireDeadline(d)
  \/ KillOwner
  \/ \E s \in Sender : KillSender(s)
  \/ CloseInbox

Spec == Init /\ [][Next]_vars

-----------------------------------------------------------------------------
(* Properties *)

HopRec ==
  [tag : {NoHop.tag} \cup {s.tag : s \in Shape \cup SysShape},
   kind : {NoHop.kind} \cup {s.kind : s \in Shape \cup SysShape},
   n : Int, rid : Nat, sender : {NoHop.sender, "host", "system"} \cup Sender, cost : Nat]

WaiterRec == [flow : Sender, hop : HopRec, pending : {"send"}]

InboxRec == [policy : Policies, queue : Seq(HopRec), bytes : Nat, parked : BOOLEAN,
             filter : Filter, epoch : 0..(EpochMod - 1), waiting : Seq(WaiterRec),
             closed : BOOLEAN]

\* Every variable stays in its range: the shape of MailboxInner and of the
\* flows around it.
TypeOK ==
  /\ inbox \in InboxRec
  /\ owner \in [pc : {"run", "admit", "park", "parked", "dying", "gone"}, filter : Filter]
  /\ held \in [Sender -> HopRec]
  /\ sender \in [Sender -> {"run", "refused", "waiting", "dead"}]
  /\ deadlines \subseteq [epoch : 0..(EpochMod - 1), wait : 1..MaxWaits]
  /\ waits \in 0..MaxWaits /\ minted \in 0..MaxHops

\* The memory contract of mailbox/mod.rs:3-14, in hops: whatever the policy, and
\* however many system hops are forced in, the queue never holds more than
\* MailboxCapacity hops.
HopBound == Len(inbox.queue) <= Capacity

\* The same contract in bytes: the budget is passed only by one system hop that
\* force_push put alone in the queue.
ByteBound ==
  \/ inbox.bytes <= ByteLimit
  \/ Len(inbox.queue) = 1 /\ inbox.queue[1].sender = "system"

\* queue.rs:18-24: the charge moves in lockstep with every push, pop, selective
\* take and eviction, so it never drifts from what the queued hops cost.
BytesExact == inbox.bytes = Bytes(inbox.queue)

\* A closed inbox holds no parked sender (mailbox/mod.rs:208-210): park_sender
\* after close, from a thread that was refused before it, is turned away.
ClosedDrained == inbox.closed => inbox.waiting = << >>

\* A sender flow parked in WAITING_SEND is in the inbox exactly once, and a flow
\* the inbox holds believes it waits: park, admit, kill and close neither lose
\* nor duplicate the Box<Flow>.
NoSenderLost ==
  \A s \in Sender :
    Cardinality({i \in DOMAIN inbox.waiting : inbox.waiting[i].flow = s})
      = IF sender[s] = "waiting" THEN 1 ELSE 0

\* Every hop the inbox accepted is in exactly one place: still queued, handed
\* to the owner, or thrown out by DropOldest / force_push; nothing is queued
\* twice and nothing vanishes in a selective take.
HopsConserved ==
  /\ accepted = Queued \cup taken \cup evicted
  /\ Queued \cap taken = {} /\ Queued \cap evicted = {} /\ taken \cap evicted = {}
  /\ Cardinality(Queued) = Len(inbox.queue)

\* mailbox.md "FIFO skip": a step removes hops and appends at most one, but never
\* reorders the hops that stay (remove_at shifts, eviction drops from the front).
FifoSkip ==
  [][LET kept == SelectSeq(inbox.queue, LAMBDA h : h \in Range(inbox'.queue))
     IN  kept = SubSeq(inbox'.queue, 1, Len(kept))]_vars

\* WaitEpoch: a deadline ends only the wait it was armed for, even when the flow
\* was woken by a hop and has parked again since (mailbox/mod.rs:283-305).
DeadlineOwnsItsWait ==
  [][\A d \in deadlines \ deadlines' :
       inbox.parked /\ ~inbox'.parked => d.wait = waits]_vars

\* A waiter that stays parked keeps its filter: a stale deadline, a non-matching
\* hop or a system hop does not downgrade a selective wait to "any hop wakes me"
\* (mailbox/mod.rs:495-497).
FilterKept ==
  [][inbox.parked /\ inbox'.parked => inbox'.filter = inbox.filter]_vars

\* The bounds of a mailbox hold under every policy and interleaving: its shape, its
\* capacity in hops, and no sender left behind in a closed one.
InboxSound == TypeOK /\ HopBound /\ ClosedDrained

\* Nothing is lost, doubled or miscounted: every accepted hop and every parked sender
\* is in exactly one place, and the byte charge is that of the hops in the queue.
NothingLost == NoSenderLost /\ HopsConserved /\ BytesExact /\ ByteBound

\* A wait is ended and changed only by what it waits for: a stale deadline neither ends
\* it nor widens its filter.
WaitKept == DeadlineOwnsItsWait /\ FilterKept
=============================================================================
