----------------------------- MODULE HostAwait -----------------------------
(***************************************************************************)
(* Host I/O without blocking a worker (host_await.rs): a flow registers a  *)
(* ticket, the bridge works on a thread of its own and settles the ticket  *)
(* with a value, a failure or by dropping its completer, while the flow    *)
(* runs, parks, is killed, completes, or the runtime shuts down.  One step *)
(* is one critical section; three tables meet here, each behind its own    *)
(* lock: the ticket index, the failure slots and the kill signals.         *)
(*                                                                         *)
(* A flow is driven by the thread that bears its name: the worker that has *)
(* it.  What that worker still does after the flow is parked (look for a   *)
(* kill) is another thread, a Parker, because the flow may already run on  *)
(* another worker by then.  Every hop an inbox holds is a completion.      *)
(***************************************************************************)
EXTENDS Naturals, Sequences, FiniteSets

CONSTANTS
  Flow, Parker, Killer, NoFlow,
  Main,         \* the host thread that shuts the runtime down
  MaxTickets,   \* ticket ids there are; i64::MAX - 1 in the code
  MaxAwaits,    \* RuntimeConfig::max_host_awaits, 0 = unlimited
  Capacity,     \* inbox capacity in hops
  Policy,       \* "Reject", "DropNewest" or "DropOldest"
  MaxYields,    \* bound: times a flow yields
  MaxHostActs   \* bound: kills and shutdowns together

ASSUME Bounds == MaxTickets \in Nat /\ MaxAwaits \in Nat /\ Capacity \in Nat \ {0}

Ticket == 1 .. MaxTickets

\* a thread has one name
ASSUME Names ==
  /\ NoFlow \notin Flow
  /\ Flow \cap (Parker \cup Killer \cup Ticket \cup {Main}) = {}
  /\ Parker \cap (Killer \cup Ticket \cup {Main}) = {}
  /\ Killer \cap (Ticket \cup {Main}) = {}
  /\ Main \notin Ticket

VARIABLES
  aw,         \* HostAwaitIndex: byTicket, byFlow, next
  cancelled,  \* tickets whose cancellation flag is raised
  slot,       \* HostAwaitFailures: [failed, settled]; absent = both FALSE
  kill,       \* KillSignals: flow -> "none", "killed" or "fault"
  live,       \* FlowDirectory
  inbox,      \* flow -> [q, closed]
  box,        \* where the flow is: "queued", "running", "parked", "held", "done"
  outcome,    \* what the join handle is told; "none" until then
  told,       \* flows whose host was told, before they ended, that they fail
  hops,       \* completion hops delivered per ticket
  yields,
  th

vars == <<aw, cancelled, slot, kill, live, inbox, box, outcome, told, hops, yields, th>>
tickets == <<aw, cancelled>>
flows == <<live, inbox, box>>
ends == <<outcome, told>>

Thread == Flow \cup Parker \cup Killer \cup Ticket \cup {Main}

\* f: the flow worked on; tk: the ticket being submitted; kind: the result of
\* a slice, or what the host settles with; out: finalize's outcome;
\* work: flows finalize_stranded still has to end; took: 1 once its pass took one
Ready ==
  [pc |-> "idle", f |-> NoFlow, tk |-> 0, kind |-> "none", out |-> "none",
   work |-> {}, took |-> 0]

Goto(t, r) == th' = [th EXCEPT ![t] = r]
Step(t, pc) == Goto(t, [th[t] EXCEPT !.pc = pc])

Init ==
  /\ aw = [byTicket |-> [t \in Ticket |-> NoFlow], byFlow |-> [f \in Flow |-> {}], next |-> 1]
  /\ cancelled = {}
  /\ slot = [f \in Flow |-> [failed |-> FALSE, settled |-> FALSE]]
  /\ kill = [f \in Flow |-> "none"]
  /\ live = Flow
  /\ inbox = [f \in Flow |-> [q |-> << >>, closed |-> FALSE]]
  /\ box = [f \in Flow |-> "queued"]
  /\ outcome = [f \in Flow |-> "none"]
  /\ told = {}
  /\ hops = [t \in Ticket |-> 0]
  /\ yields = [f \in Flow |-> 0]
  /\ th = [t \in Thread |-> IF t \in Flow THEN [Ready EXCEPT !.f = t] ELSE Ready]

-----------------------------------------------------------------------------
(* HostAwaitIndex: both maps change under one lock.                        *)

Outstanding(a) == {t \in Ticket : a.byTicket[t] # NoFlow}

\* LimitReached and IdExhausted
RegisterFails(a) ==
  \/ MaxAwaits # 0 /\ Cardinality(Outstanding(a)) >= MaxAwaits
  \/ a.next > MaxTickets

register(a, f) ==
  [a EXCEPT !.byTicket[a.next] = f, !.byFlow[f] = @ \cup {a.next}, !.next = @ + 1]

unlink(a, f, t) == [a EXCEPT !.byFlow[f] = @ \ {t}]

take_ticket(a, t) == unlink([a EXCEPT !.byTicket[t] = NoFlow], a.byTicket[t], t)

take_flow_ids(a, f) ==
  [a EXCEPT !.byFlow[f] = {},
            !.byTicket = [t \in Ticket |-> IF t \in a.byFlow[f] THEN NoFlow ELSE @[t]]]

\* cancel_flow: what it removed is flagged, and the bridge is told after
cancel_flow(f) ==
  /\ aw' = take_flow_ids(aw, f)
  /\ cancelled' = cancelled \cup aw.byFlow[f]

cancel_all ==
  /\ aw' = [aw EXCEPT !.byFlow = [f \in Flow |-> {}], !.byTicket = [t \in Ticket |-> NoFlow]]
  /\ cancelled' = cancelled \cup Outstanding(aw)

-----------------------------------------------------------------------------
(* HostAwaitFailures.                                                      *)

request(f) ==
  /\ ~slot[f].settled
  /\ slot' = [slot EXCEPT ![f].failed = TRUE]
  /\ told' = IF outcome[f] = "none" THEN told \cup {f} ELSE told

take(f) == slot' = [slot EXCEPT ![f].failed = FALSE]

\* mutant of commit_success: a failure that came first is not returned
commit_success_blind(f, out) ==
  /\ slot' = [slot EXCEPT ![f] = [failed |-> FALSE, settled |-> TRUE]]
  /\ out = "completed"

commit_success(f, out) ==
  /\ slot' = [slot EXCEPT ![f] = [failed |-> FALSE, settled |-> TRUE]]
  /\ out = IF slot[f].failed THEN "host" ELSE "completed"

seal(f) == slot' = [slot EXCEPT ![f] = [failed |-> FALSE, settled |-> TRUE]]

clear(f) == slot' = [slot EXCEPT ![f] = [failed |-> FALSE, settled |-> FALSE]]

-----------------------------------------------------------------------------
(* The worker that drives flow f (drive_process).                          *)

\* back to the head of drive_process's loop
Loop(f) == Goto(f, [Ready EXCEPT !.pc = "loop", !.f = f])

Finalize(t, f, out) == Goto(t, [th[t] EXCEPT !.pc = "seal", !.f = f, !.out = out])

Pick(f) ==
  /\ box[f] = "queued"
  /\ th[f].pc = "idle"
  /\ th[Main].pc \in {"idle", "flagged", "join"}
  /\ box' = [box EXCEPT ![f] = "running"]
  /\ Step(f, "start")
  /\ UNCHANGED <<tickets, slot, kill, live, inbox, ends, hops, yields>>

\* the slice ends in one of the results this model is about
RunSlice(f) ==
  IF th[Main].pc # "idle"
  THEN Finalize(f, f, "shutdown")
  ELSE \E r \in {"complete", "trap", "yield", "await", "receive"} :
         /\ r = "yield" => yields[f] < MaxYields
         /\ Goto(f, [th[f] EXCEPT !.pc = "ran", !.kind = r])

\* park_flow_if_host_failed runs in four places; where the driver goes on.
\* Nothing a slice does touches this state: it runs in the step that checks.
GoOn(f) ==
  CASE th[f].pc = "start" -> Step(f, "startkill")
    [] th[f].pc = "loop" -> RunSlice(f)
    [] th[f].pc = "ran" -> Step(f, "dispatch")
    [] th[f].pc = "submitted" -> Step(f, "awaitkill")

\* a pending failure also consumes the kill signal that came with it
park_flow_if_host_failed(f) ==
  /\ th[f].pc \in {"start", "loop", "ran", "submitted"}
  /\ take(f)
  /\ IF slot[f].failed
     THEN /\ kill' = [kill EXCEPT ![f] = "none"]
          /\ Finalize(f, f, "host")
     ELSE GoOn(f) /\ UNCHANGED kill
  /\ UNCHANGED <<tickets, flows, ends, hops, yields>>

TakeKill(f) ==
  /\ th[f].pc \in {"startkill", "awaitkill"}
  /\ kill' = [kill EXCEPT ![f] = "none"]
  /\ IF kill[f] # "none" THEN Step(f, "message") ELSE Loop(f)
  /\ UNCHANGED <<tickets, slot, flows, ends, hops, yields>>

\* message_or_kill: a host failure names the end of a killed flow
message_or_kill(t) ==
  /\ th[t].pc = "message"
  /\ take(th[t].f)
  /\ Finalize(t, th[t].f,
       IF slot[th[t].f].failed \/ th[t].kind = "error" THEN "host" ELSE "killed")
  /\ UNCHANGED <<tickets, kill, flows, ends, hops, yields>>

Dispatch(f, r) == th[f].pc = "dispatch" /\ th[f].kind = r

finish_ok(f) ==
  /\ Dispatch(f, "complete")
  /\ \E out \in {"completed", "host"} :
       /\ commit_success(f, out)
       /\ kill' = [kill EXCEPT ![f] = IF out = "host" THEN "none" ELSE @]
       /\ Finalize(f, f, out)
  /\ UNCHANGED <<tickets, flows, ends, hops, yields>>

finish_failed(f) ==
  /\ Dispatch(f, "trap")
  /\ Finalize(f, f, "fault")
  /\ UNCHANGED <<tickets, slot, kill, flows, ends, hops, yields>>

Yield(f) ==
  /\ Dispatch(f, "yield")
  /\ yields' = [yields EXCEPT ![f] = @ + 1]
  /\ box' = [box EXCEPT ![f] = "queued"]
  /\ Goto(f, [Ready EXCEPT !.f = f])
  /\ UNCHANGED <<tickets, slot, kill, live, inbox, ends, hops>>

\* VmResult::HostAwait: a table that has no ticket fails the flow
Await(f) ==
  /\ Dispatch(f, "await")
  /\ IF RegisterFails(aw)
     THEN Finalize(f, f, "fault") /\ UNCHANGED aw
     ELSE /\ aw' = register(aw, f)
          /\ Goto(f, [th[f] EXCEPT !.pc = "submit", !.tk = aw.next])
  /\ UNCHANGED <<cancelled, slot, kill, flows, ends, hops, yields>>

\* the bridge starts a host thread; when that fails the completer is dropped,
\* and settled, on the worker, which goes on when that is over
Submit(f) ==
  /\ th[f].pc = "submit"
  /\ \/ th' = [th EXCEPT ![f].pc = "submitted", ![th[f].tk].pc = "work"]
     \/ th' = [th EXCEPT ![f].pc = "dropped",
                         ![th[f].tk] = [@ EXCEPT !.pc = "take", !.kind = "error"]]
  /\ UNCHANGED <<tickets, slot, kill, flows, ends, hops, yields>>

Submitted(f) ==
  /\ th[f].pc = "dropped"
  /\ th[th[f].tk].pc = "end"
  /\ Step(f, "submitted")
  /\ UNCHANGED <<tickets, slot, kill, flows, ends, hops, yields>>

Receive(f) ==
  /\ Dispatch(f, "receive")
  /\ IF inbox[f].q # << >>
     THEN /\ inbox' = [inbox EXCEPT ![f].q = Tail(@)]
          /\ Loop(f)
     ELSE /\ Step(f, "park")
          /\ UNCHANGED inbox
  /\ UNCHANGED <<tickets, slot, kill, live, box, ends, hops, yields>>

\* park_filter looks once more; a free worker (any: they are alike) goes
\* on behind a parked flow
Park(f) ==
  /\ th[f].pc = "park"
  /\ IF inbox[f].q # << >> \/ inbox[f].closed
     THEN /\ inbox' = [inbox EXCEPT ![f].q = IF @ = << >> THEN @ ELSE Tail(@)]
          /\ box' = [box EXCEPT ![f] = "queued"]
          /\ Goto(f, [Ready EXCEPT !.f = f])
     ELSE LET free == {w \in Parker : th[w].pc = "idle"} IN
          /\ free # {}
          /\ box' = [box EXCEPT ![f] = "parked"]
          /\ th' = [th EXCEPT ![f] = [Ready EXCEPT !.f = f],
                              ![CHOOSE w \in free : TRUE] = [Ready EXCEPT !.pc = "look", !.f = f]]
          /\ UNCHANGED inbox
  /\ UNCHANGED <<tickets, slot, kill, live, ends, hops, yields>>

\* finalize_if_killed: take the signal, then the flow, or put the signal back
LookForKill(w) ==
  /\ th[w].pc = "look"
  /\ kill' = [kill EXCEPT ![th[w].f] = "none"]
  /\ Goto(w, IF kill[th[w].f] = "none" THEN Ready
             ELSE [th[w] EXCEPT !.pc = "retake", !.out = kill[th[w].f]])
  /\ UNCHANGED <<tickets, slot, flows, ends, hops, yields>>

\* mutant of Retake: the flow is ended whether or not it is still parked
RetakeAlways(w) ==
  /\ th[w].pc = "retake"
  /\ Step(w, "message")
  /\ UNCHANGED <<tickets, slot, kill, flows, ends, hops, yields>>

Retake(w) ==
  /\ th[w].pc = "retake"
  /\ IF box[th[w].f] = "parked"
     THEN /\ box' = [box EXCEPT ![th[w].f] = "held"]
          /\ Step(w, "message")
     ELSE /\ Step(w, "restore")
          /\ UNCHANGED box
  /\ UNCHANGED <<tickets, slot, kill, live, inbox, ends, hops, yields>>

restore_kill_reason(w) ==
  /\ th[w].pc = "restore"
  /\ kill' = [kill EXCEPT ![th[w].f] = th[w].out]
  /\ Goto(w, Ready)
  /\ UNCHANGED <<tickets, slot, flows, ends, hops, yields>>

-----------------------------------------------------------------------------
(* The host: the completer of ticket t.                                    *)

\* mutant of FinishHostAwait: a completer dropped unused settles nothing
FinishHostAwaitForgetsDrop(t) ==
  /\ th[t].pc = "work"
  /\ \/ \E k \in IF t \in cancelled THEN {"value"} ELSE {"value", "badcap", "error"} :
          Goto(t, [th[t] EXCEPT !.pc = "take", !.kind = k])
     \/ Step(t, "end")
  /\ UNCHANGED <<tickets, slot, kill, flows, ends, hops, yields>>

\* finish_host_await: a cancelled operation completes with Unit; otherwise
\* the host has a value, a value with a capability it may not grant, or an
\* error; a completer that is dropped fails the flow like an error does
FinishHostAwait(t) ==
  /\ th[t].pc = "work"
  /\ \E k \in IF t \in cancelled THEN {"value"} ELSE {"value", "badcap", "error"} :
       Goto(t, [th[t] EXCEPT !.pc = "take", !.kind = k])
  /\ UNCHANGED <<tickets, slot, kill, flows, ends, hops, yields>>

\* the completer has its answer: delivered, stale, rejected or refused
Answer(t) == Goto(t, [Ready EXCEPT !.pc = "end"])

FailLive(t, f) == Goto(t, [th[t] EXCEPT !.pc = "lookup", !.f = f, !.kind = "error"])

\* mutant of settle: the ticket is read and removed in two steps
settle_without_taking(t) ==
  /\ th[t].pc = "take"
  /\ IF aw.byTicket[t] = NoFlow
     THEN Answer(t)
     ELSE IF th[t].kind = "value"
          THEN Goto(t, [th[t] EXCEPT !.pc = "deliver", !.f = aw.byTicket[t]])
          ELSE FailLive(t, aw.byTicket[t])
  /\ UNCHANGED <<tickets, slot, kill, flows, ends, hops, yields>>

\* settle, up to the choice take_ticket and the authentication make
settle(t) ==
  /\ th[t].pc = "take"
  /\ IF aw.byTicket[t] = NoFlow
     THEN Answer(t) /\ UNCHANGED aw
     ELSE /\ aw' = take_ticket(aw, t)
          /\ IF th[t].kind = "value"
             THEN Goto(t, [th[t] EXCEPT !.pc = "deliver", !.f = aw.byTicket[t]])
             ELSE FailLive(t, aw.byTicket[t])
  /\ UNCHANGED <<cancelled, slot, kill, flows, ends, hops, yields>>

deliver_ready(t) ==
  /\ th[t].pc = "deliver"
  /\ IF th[t].f \in live THEN Step(t, "push") ELSE Answer(t)
  /\ UNCHANGED <<tickets, slot, kill, flows, ends, hops, yields>>

\* deliver_staged: Mailbox::push and what each Delivery leads to
deliver_staged(t) ==
  LET f == th[t].f
      full == Len(inbox[f].q) >= Capacity
  IN
  /\ th[t].pc = "push"
  /\ IF inbox[f].closed
     THEN Answer(t) /\ UNCHANGED <<flows, hops>>
     ELSE IF box[f] = "parked"
     THEN /\ box' = [box EXCEPT ![f] = "queued"]
          /\ hops' = [hops EXCEPT ![t] = @ + 1]
          /\ Answer(t)
          /\ UNCHANGED <<live, inbox>>
     ELSE IF full /\ Policy # "DropOldest"
     THEN FailLive(t, f) /\ UNCHANGED <<flows, hops>>
     ELSE /\ inbox' = [inbox EXCEPT ![f].q = Append(IF full THEN Tail(@) ELSE @, t)]
          /\ hops' = [hops EXCEPT ![t] = @ + 1]
          /\ Answer(t)
          /\ UNCHANGED <<live, box>>
  /\ UNCHANGED <<tickets, slot, kill, ends, yields>>

\* fail_live, first lock: an unknown flow is not failed
fail_live(t) ==
  /\ th[t].pc = "lookup"
  /\ IF th[t].f \in live THEN Step(t, "request")
     ELSE Answer(t)
  /\ UNCHANGED <<tickets, slot, kill, flows, ends, hops, yields>>

\* second lock: the request, refused once the flow has committed
FailRequest(t) ==
  /\ th[t].pc = "request"
  /\ \/ request(th[t].f) /\ Step(t, "extract")
     \/ /\ slot[th[t].f].settled
        /\ Answer(t)
        /\ UNCHANGED <<slot, told>>
  /\ UNCHANGED <<tickets, kill, flows, outcome, hops, yields>>

-----------------------------------------------------------------------------
(* extract_for_kill, by a killer or by fail_live.                          *)

\* the thread has nothing left to do
Leave(t) ==
  Goto(t, IF t \in Flow THEN [Ready EXCEPT !.f = t]
          ELSE IF t \in Parker THEN Ready
          ELSE IF t # Main THEN [Ready EXCEPT !.pc = "end"]
          ELSE [th[t] EXCEPT !.pc = IF th[t].kind = "queue" THEN "ending" ELSE "close"])

HostMayAct == Cardinality({t \in Killer \cup {Main} : th[t].pc # "idle"}) < MaxHostActs

request_kill(k, f) ==
  /\ th[k].pc = "idle"
  /\ HostMayAct
  /\ Goto(k, [th[k] EXCEPT !.pc = "extract", !.f = f])
  /\ UNCHANGED <<tickets, slot, kill, flows, ends, hops, yields>>

extract_for_kill(t) ==
  /\ th[t].pc = "extract"
  /\ IF th[t].f \in live THEN Step(t, "signal") ELSE Leave(t)
  /\ UNCHANGED <<tickets, slot, kill, flows, ends, hops, yields>>

SetKill(t) ==
  /\ th[t].pc = "signal"
  /\ kill' = [kill EXCEPT ![th[t].f] = IF t \in Killer THEN "killed" ELSE "fault"]
  /\ Step(t, "takeparked")
  /\ UNCHANGED <<tickets, slot, flows, ends, hops, yields>>

TakeParked(t) ==
  /\ th[t].pc = "takeparked"
  /\ IF box[th[t].f] = "parked"
     THEN /\ box' = [box EXCEPT ![th[t].f] = "held"]
          /\ Step(t, "message")
     ELSE /\ Step(t, "canceltickets")
          /\ UNCHANGED box
  /\ UNCHANGED <<tickets, slot, kill, live, inbox, ends, hops, yields>>

try_take_host_await(t) ==
  /\ th[t].pc = "canceltickets"
  /\ cancel_flow(th[t].f)
  /\ Leave(t)
  /\ UNCHANGED <<slot, kill, flows, ends, hops, yields>>

-----------------------------------------------------------------------------
(* finalize_one, the parts that touch these tables, in its order.          *)

FinalizeSeal(t) ==
  /\ th[t].pc = "seal"
  /\ seal(th[t].f)
  /\ Step(t, "endkill")
  /\ UNCHANGED <<tickets, kill, flows, ends, hops, yields>>

FinalizeKill(t) ==
  /\ th[t].pc = "endkill"
  /\ kill' = [kill EXCEPT ![th[t].f] = "none"]
  /\ Step(t, "endtickets")
  /\ UNCHANGED <<tickets, slot, flows, ends, hops, yields>>

FinalizeTickets(t) ==
  /\ th[t].pc = "endtickets"
  /\ cancel_flow(th[t].f)
  /\ Step(t, "endbox")
  /\ UNCHANGED <<slot, kill, flows, ends, hops, yields>>

FinalizeClose(t) ==
  /\ th[t].pc = "endbox"
  /\ inbox' = [inbox EXCEPT ![th[t].f] = [q |-> << >>, closed |-> TRUE]]
  /\ Step(t, "unregister")
  /\ UNCHANGED <<tickets, slot, kill, live, box, ends, hops, yields>>

FinalizeUnregister(t) ==
  /\ th[t].pc = "unregister"
  /\ live' = live \ {th[t].f}
  /\ Step(t, "tell")
  /\ UNCHANGED <<tickets, slot, kill, inbox, box, ends, hops, yields>>

FinalizeComplete(t) ==
  /\ th[t].pc = "tell"
  /\ outcome' = [outcome EXCEPT ![th[t].f] = th[t].out]
  /\ box' = [box EXCEPT ![th[t].f] = "done"]
  /\ Step(t, "clear")
  /\ UNCHANGED <<tickets, slot, kill, live, inbox, told, hops, yields>>

FinalizeClear(t) ==
  /\ th[t].pc = "clear"
  /\ clear(th[t].f)
  /\ Leave(t)
  /\ UNCHANGED <<tickets, kill, flows, ends, hops, yields>>

-----------------------------------------------------------------------------
(* Runtime::shutdown.                                                      *)

request_shutdown ==
  /\ th[Main].pc = "idle"
  /\ HostMayAct
  /\ Step(Main, "flagged")
  /\ UNCHANGED <<tickets, slot, kill, flows, ends, hops, yields>>

\* before the workers are joined, and again at the head of finalize_stranded
finalize_host_awaits ==
  /\ \/ th[Main].pc = "flagged" /\ Step(Main, "join")
     \/ th[Main].pc = "sweep" /\ Step(Main, "drain")
  /\ cancel_all
  /\ UNCHANGED <<slot, kill, flows, ends, hops, yields>>

\* a joined worker has let go of its flow and of the one it parked
finish ==
  /\ th[Main].pc = "join"
  /\ \A t \in Flow \cup Parker : th[t].pc = "idle"
  /\ Step(Main, "sweep")
  /\ UNCHANGED <<tickets, slot, kill, flows, ends, hops, yields>>

\* a pass of finalize_stranded drains the queues, ...
DrainQueues ==
  LET queued == {f \in Flow : box[f] = "queued"} IN
  /\ th[Main].pc = "drain"
  /\ box' = [f \in Flow |-> IF f \in queued THEN "held" ELSE box[f]]
  /\ Goto(Main, [th[Main] EXCEPT !.pc = "ending", !.kind = "queue",
                                             !.work = queued, !.took = IF queued = {} THEN 0 ELSE 1])
  /\ UNCHANGED <<tickets, slot, kill, live, inbox, ends, hops, yields>>

\* ... ends what it took, and then visits the inboxes of the directory
EndDrained ==
  LET me == th[Main] IN
  /\ me.pc = "ending"
  /\ IF me.work # {}
     THEN \E f \in me.work :
            Goto(Main, [me EXCEPT !.pc = "seal", !.f = f, !.out = "shutdown",
                                        !.work = @ \ {f}])
     ELSE Goto(Main, [me EXCEPT !.pc = "visit", !.kind = "box", !.work = live])
  /\ UNCHANGED <<tickets, slot, kill, flows, ends, hops, yields>>

\* a pass that took nothing is the last; every other one ends a flow, so that
\* fewer than eight flows never meet the code's limit of eight passes
VisitInboxes ==
  LET me == th[Main] IN
  /\ me.pc = "visit"
  /\ IF me.work = {}
     THEN /\ Step(Main, IF me.took = 0 THEN "down" ELSE "drain")
          /\ UNCHANGED box
     ELSE \E f \in me.work :
            IF box[f] = "parked"
            THEN /\ box' = [box EXCEPT ![f] = "held"]
                 /\ Goto(Main, [me EXCEPT !.pc = "seal", !.f = f, !.out = "shutdown",
                                                !.work = @ \ {f}, !.took = 1])
            ELSE /\ Goto(Main, [me EXCEPT !.pc = "close", !.f = f, !.work = @ \ {f}])
                 /\ UNCHANGED box
  /\ UNCHANGED <<tickets, slot, kill, live, inbox, ends, hops, yields>>

CloseInbox ==
  /\ th[Main].pc = "close"
  /\ inbox' = [inbox EXCEPT ![th[Main].f] = [q |-> << >>, closed |-> TRUE]]
  /\ Step(Main, "visit")
  /\ UNCHANGED <<tickets, slot, kill, live, box, ends, hops, yields>>

-----------------------------------------------------------------------------
Drive(f) ==
  \/ Pick(f) \/ park_flow_if_host_failed(f) \/ TakeKill(f)
  \/ finish_ok(f) \/ finish_failed(f) \/ Yield(f) \/ Await(f) \/ Submit(f)
  \/ Submitted(f) \/ Receive(f) \/ Park(f)

ParkTail(w) == LookForKill(w) \/ Retake(w) \/ restore_kill_reason(w)

Complete(t) ==
  FinishHostAwait(t) \/ settle(t) \/ deliver_ready(t) \/ deliver_staged(t)
  \/ fail_live(t) \/ FailRequest(t)

Extract(t) ==
  extract_for_kill(t) \/ SetKill(t) \/ TakeParked(t) \/ try_take_host_await(t)

End(t) ==
  \/ message_or_kill(t) \/ FinalizeSeal(t) \/ FinalizeKill(t) \/ FinalizeTickets(t)
  \/ FinalizeClose(t) \/ FinalizeUnregister(t) \/ FinalizeComplete(t) \/ FinalizeClear(t)

ShutDown ==
  finalize_host_awaits \/ finish \/ DrainQueues \/ EndDrained \/ VisitInboxes \/ CloseInbox

Next ==
  \/ \E f \in Flow : Drive(f)
  \/ \E w \in Parker : ParkTail(w)
  \/ \E t \in Ticket : Complete(t)
  \/ \E t \in Ticket \cup Killer : Extract(t)
  \/ \E k \in Killer, f \in Flow : request_kill(k, f)
  \/ \E t \in Thread : End(t)
  \/ request_shutdown \/ ShutDown

Spec == Init /\ [][Next]_vars

\* threads that have something to do get to do it; kills and the shutdown are
\* the host's choice
Fairness ==
  /\ \A f \in Flow : WF_vars(Drive(f) \/ End(f))
  /\ \A w \in Parker : WF_vars(ParkTail(w) \/ End(w))
  /\ \A t \in Ticket : WF_vars(Complete(t) \/ Extract(t) \/ End(t))
  /\ \A k \in Killer : WF_vars(Extract(k) \/ End(k))
  /\ WF_vars(ShutDown \/ End(Main))

FairSpec == Spec /\ Fairness

-----------------------------------------------------------------------------
TypeOK ==
  /\ aw \in [byTicket : [Ticket -> Flow \cup {NoFlow}], byFlow : [Flow -> SUBSET Ticket],
             next : 1 .. MaxTickets + 1]
  /\ \A f \in Flow : aw.byFlow[f] = {t \in Ticket : aw.byTicket[t] = f}
  /\ cancelled \subseteq Ticket
  /\ slot \in [Flow -> [failed : BOOLEAN, settled : BOOLEAN]]
  /\ kill \in [Flow -> {"none", "killed", "fault"}]
  /\ live \subseteq Flow
  /\ \A f \in Flow : Len(inbox[f].q) <= Capacity /\ (inbox[f].closed => inbox[f].q = << >>)
  /\ box \in [Flow -> {"queued", "running", "parked", "held", "done"}]

\* A host that is told its failure was recorded, while the flow has not ended,
\* is never contradicted: that flow does not complete (fail_live, commit_success).
FailureIsHeard == \A f \in told : outcome[f] # "completed"

\* When the join handle has its outcome no ticket of the flow is left for a
\* late completion to win (finalize_one's cancel_flow against settle).
NoTicketOutlivesFlow == \A f \in Flow : outcome[f] # "none" => aw.byFlow[f] = {}

\* A flow that has ended is in no queue, inbox or thread: whoever finds it dead
\* found it once (push, take_parked, finalize_if_killed and the drain compete).
EndedOnce ==
  \A f \in Flow :
    /\ \A t, u \in {x \in Thread : th[x].f = f /\ th[x].pc \in
         {"message", "seal", "endkill", "endtickets", "endbox", "unregister", "tell"}} : t = u
    /\ outcome[f] # "none" <=> box[f] = "done"

\* The ticket table seen through AwaitTickets: a ticket in the index is open,
\* one that left it was cancelled or taken by its completer.
TicketState ==
  [t \in Ticket |->
     IF t >= aw.next THEN "unused"
     ELSE IF aw.byTicket[t] # NoFlow THEN "open"
     ELSE IF t \in cancelled THEN "cancelled" ELSE "taken"]

Abstract == INSTANCE AwaitTickets WITH state <- TicketState, hops <- hops

\* Completion, kill, exit and shutdown settle a ticket as AwaitTickets says:
\* one removal decides, and only its winner delivers, once.
SettledOnce == Abstract!Spec

\* A flow parked with an operation outstanding does not stay parked, unless a
\* kill signal that a racing check put back is waiting for it.
AwaitEnds ==
  \A f \in Flow :
    (box[f] = "parked" /\ aw.byFlow[f] # {}) ~> (box[f] # "parked" \/ kill[f] # "none")

\* A flow that ended leaves nothing: it ended once, in one thread, and no ticket of its
\* own can still be settled (host_await.rs, finalize.rs).
EndedClean == TypeOK /\ EndedOnce /\ NoTicketOutlivesFlow
=============================================================================
