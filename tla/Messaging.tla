----------------------------- MODULE Messaging -----------------------------
(***************************************************************************)
(* The scheduler around the inboxes: workers that run flows and carry out  *)
(* Send, Receive and Ask (worker.rs), the deadlines of the timer thread,   *)
(* the kill path and the part of finalize that touches inboxes             *)
(* (finalize.rs).  One step is one critical section: a flow parks in one   *)
(* section and is indexed, checked, woken or killed in others, and threads *)
(* interleave between them.                                                *)
(*                                                                         *)
(* A flow's bytecode is abstracted to the operations Program[f] it may     *)
(* issue next, in any order, at most MaxOps of them; it may also complete  *)
(* at any point.  A flow is a Box<Flow> in the code: the model keeps where *)
(* the box is (a run queue, a thread's hands, an inbox, the timer).        *)
(***************************************************************************)
EXTENDS Mailbox

CONSTANTS
  Flow, Worker, NoFlow,
  Program,    \* [Flow -> set of operations]; see the handlers below
  Killable,   \* the flows the host kills, each once
  MaxAsks,    \* RuntimeConfig::max_ask_waits, 0 = unlimited
  MaxOps      \* bound: operations one flow issues

Filters == {o.filter : o \in {x \in UNION {Program[g] : g \in Flow} : x.op = "receive"}}

\* a flow is no placeholder, and a Receive that matches a request id expects no sender
\* (receive_filter)
ASSUME MessagingAssumption ==
  /\ {NoFlow, "any"} \cap Flow = {} /\ MaxOps \in Nat
  /\ \A f \in Filters : f.kind = "Correlation" => f.from = "any"

VARIABLES
  mb,         \* every flow's inbox
  runq,       \* runnable flows: injector and local deques together
  asleep,     \* flows held by the timer wheel (Sleep)
  live,       \* FlowDirectory: registered flows
  kill,       \* KillSignals
  waitAt,     \* WaitingSendIndex: sender -> target
  askWait,    \* AskWaitIndex: asker -> target
  timers,     \* armed ReceiveTimeout entries [flow, epoch]
  issued,     \* operations each flow has issued; the next request id
  got,        \* the value last written into a flow's receive register
  toKill,     \* host kills not made yet
  th          \* threads: workers, the timer thread and one host thread

vars == <<mb, runq, asleep, live, kill, waitAt, askWait, timers, issued, got, toKill, th>>

Thread == Worker \cup {"timer", "host"}

\* cur: the flow a worker drives; f: the flow a helper works on; to, ask, hop,
\* filter, timed, epoch: the helper's locals; work, orphans: finalize's lists
IdleThread ==
  [pc |-> "idle", cur |-> NoFlow, f |-> NoFlow, to |-> NoFlow, ask |-> FALSE,
   hop |-> NoHop, filter |-> AnyHop, timed |-> FALSE, epoch |-> 0,
   work |-> << >>, orphans |-> {}]

Running(g) ==
  [IdleThread EXCEPT !.pc = IF g = NoFlow THEN "idle" ELSE "run", !.cur = g]

\* the TAG_SYS_EXIT hop an orphaned Ask is resumed with
ExitHop(dead) == [NoHop EXCEPT !.tag = "exit", !.sender = dead]

Correlation(rid, from) == [kind |-> "Correlation", rid |-> rid, from |-> from]

Init ==
  /\ mb \in {[g \in Flow |-> NewInbox(p)] : p \in Policies}
  /\ runq = Flow
  /\ asleep = {}
  /\ live = Flow
  /\ kill = {}
  /\ waitAt = [g \in Flow |-> NoFlow]
  /\ askWait = [g \in Flow |-> NoFlow]
  /\ timers = {}
  /\ issued = [g \in Flow |-> 0]
  /\ got = [g \in Flow |-> NoHop]
  /\ toKill = Killable
  /\ th = [t \in Thread |-> IdleThread]

\* thread t goes on as record r
Goto(t, r) == th' = [th EXCEPT ![t] = r]

\* thread t takes flow g into finalize_flow; afterwards it drives `cur` again
Finalizing(cur, g) ==
  [IdleThread EXCEPT !.pc = "fin", !.cur = cur, !.work = <<g>>]

Issue(w, op) ==
  LET g == th[w].cur IN
  /\ th[w].pc = "run" /\ op \in Program[g] /\ issued[g] < MaxOps
  /\ issued' = [issued EXCEPT ![g] = @ + 1]

-----------------------------------------------------------------------------
(* Picking up a flow, and the operations that do not touch an inbox *)

\* find_work and the prologue of drive_process: a pending kill ends the flow here
Pick(w, g) ==
  /\ th[w].pc = "idle" /\ g \in runq
  /\ runq' = runq \ {g}
  /\ kill' = kill \ {g}
  /\ Goto(w, IF g \in kill THEN Finalizing(NoFlow, g) ELSE Running(g))
  /\ UNCHANGED <<mb, asleep, live, waitAt, askWait, timers, issued, got, toKill>>

\* VmResult::Yield
Yield(w) ==
  /\ Issue(w, [op |-> "yield"])
  /\ runq' = runq \cup {th[w].cur}
  /\ Goto(w, IdleThread)
  /\ UNCHANGED <<mb, asleep, live, kill, waitAt, askWait, timers, got, toKill>>

\* VmResult::Sleep and schedule_sleep
Sleep(w) ==
  /\ Issue(w, [op |-> "sleep"])
  /\ asleep' = asleep \cup {th[w].cur}
  /\ Goto(w, IdleThread)
  /\ UNCHANGED <<mb, runq, live, kill, waitAt, askWait, timers, got, toKill>>

\* VmResult::Complete and VmResult::Trap
Complete(w) ==
  /\ th[w].pc = "run"
  /\ Goto(w, Finalizing(NoFlow, th[w].cur))
  /\ UNCHANGED <<mb, runq, asleep, live, kill, waitAt, askWait, timers, issued, got, toKill>>

-----------------------------------------------------------------------------
(* Send and Ask: worker::deliver and what follows *)

\* what a worker does after the hop was accepted
AfterDelivery(cur, ask, to, hop, timed) ==
  IF ask THEN [IdleThread EXCEPT !.pc = "ask_pop", !.cur = cur, !.to = to, !.ask = TRUE,
                                 !.filter = Correlation(hop.rid, to), !.timed = timed]
         ELSE Running(cur)

\* deliver(target, hop) from flow th[w].cur: lookup and push
Deliver(w, to, hop, ask, timed) ==
  LET g == th[w].cur
      r == IF to \in live THEN Push(mb[to], hop) ELSE [mb |-> mb[to], out |-> "Closed"]
      local == [IdleThread EXCEPT !.cur = g, !.to = to, !.ask = ask, !.hop = hop,
                                  !.timed = timed]
  IN  /\ mb' = [mb EXCEPT ![to] = r.mb]
      /\ Goto(w, CASE r.out \in {"Queued", "QueuedDropOldest"} ->
                        AfterDelivery(g, ask, to, hop, timed)
                   [] r.out = "DroppedNewest" ->
                        IF ask THEN Finalizing(NoFlow, g) ELSE Running(g)
                   [] r.out = "Handoff" -> [local EXCEPT !.pc = "handoff", !.f = to]
                   [] r.out \in {"MessageLimit", "ByteLimit"} -> [local EXCEPT !.pc = "index"]
                   [] r.out = "Closed" -> Finalizing(NoFlow, g))
      /\ UNCHANGED <<runq, asleep, live, kill, waitAt, askWait, timers, got, toKill>>

HopOf(g, tag, rid) ==
  [tag |-> tag, kind |-> "int", n |-> 0, rid |-> rid, sender |-> g, cost |-> 1]

\* VmResult::Send; the request id is the flow's next one
Send(w, to) ==
  /\ Issue(w, [op |-> "send", to |-> to])
  /\ Deliver(w, to, HopOf(th[w].cur, "msg", issued[th[w].cur] + 1), FALSE, FALSE)

\* VmResult::Send answering the request received last
Reply(w) ==
  LET g == th[w].cur IN
  /\ Issue(w, [op |-> "reply"])
  /\ got[g].tag = "req"
  /\ Deliver(w, got[g].sender, HopOf(g, "rep", got[g].rid), FALSE, FALSE)

\* VmResult::Ask
Ask(w, to, timed) ==
  /\ Issue(w, [op |-> "ask", to |-> to, timed |-> timed])
  /\ Deliver(w, to, HopOf(th[w].cur, "req", issued[th[w].cur] + 1), TRUE, timed)

\* the Handoff arm of deliver: the woken flow resumes with the hop
Handoff(t) ==
  LET l == th[t] IN
  /\ l.pc = "handoff"
  /\ askWait' = [askWait EXCEPT ![l.f] = NoFlow]
  /\ got' = [got EXCEPT ![l.f] = l.hop]
  /\ runq' = runq \cup {l.f}
  /\ Goto(t, AfterDelivery(l.cur, l.ask, l.to, l.hop, l.timed))
  /\ UNCHANGED <<mb, asleep, live, kill, waitAt, timers, issued, toKill>>

\* park_waiting_send, first section: waiting_send_at.insert
IndexSender(w) ==
  LET l == th[w] IN
  /\ l.pc = "index"
  /\ waitAt' = [waitAt EXCEPT ![l.cur] = l.to]
  /\ Goto(w, [l EXCEPT !.pc = "park_send"])
  /\ UNCHANGED <<mb, runq, asleep, live, kill, askWait, timers, issued, got, toKill>>

\* mutant of ParkSend: the index entry goes even when the sender parked
ParkSendUnindexed(w) ==
  LET l == th[w]
      me == [flow |-> l.cur, hop |-> l.hop, ask |-> l.ask, timed |-> l.timed]
      r == IF l.to \in live THEN ParkSender(mb[l.to], me)
                            ELSE [mb |-> mb[l.to], out |-> "Closed"]
  IN  /\ l.pc = "park_send"
      /\ mb' = [mb EXCEPT ![l.to] = r.mb]
      /\ waitAt' = [waitAt EXCEPT ![l.cur] = NoFlow]
      /\ Goto(w, CASE r.out = "Parked" ->
                        [IdleThread EXCEPT !.pc = "wkill_check", !.f = l.cur, !.to = l.to]
                   [] r.out = "Delivered" -> AfterDelivery(l.cur, l.ask, l.to, l.hop, l.timed)
                   [] r.out \in {"Closed", "WaitersFull", "Undeliverable"} ->
                        Finalizing(NoFlow, l.cur))
      /\ UNCHANGED <<runq, asleep, live, kill, askWait, timers, issued, got, toKill>>

\* park_waiting_send, second section: lookup and park_sender
ParkSend(w) ==
  LET l == th[w]
      me == [flow |-> l.cur, hop |-> l.hop, ask |-> l.ask, timed |-> l.timed]
      r == IF l.to \in live THEN ParkSender(mb[l.to], me)
                            ELSE [mb |-> mb[l.to], out |-> "Closed"]
  IN  /\ l.pc = "park_send"
      /\ mb' = [mb EXCEPT ![l.to] = r.mb]
      /\ waitAt' = IF r.out = "Parked" THEN waitAt ELSE [waitAt EXCEPT ![l.cur] = NoFlow]
      /\ Goto(w, CASE r.out = "Parked" ->
                        [IdleThread EXCEPT !.pc = "wkill_check", !.f = l.cur, !.to = l.to]
                   [] r.out = "Delivered" -> AfterDelivery(l.cur, l.ask, l.to, l.hop, l.timed)
                   [] r.out \in {"Closed", "WaitersFull", "Undeliverable"} ->
                        Finalizing(NoFlow, l.cur))
      /\ UNCHANGED <<runq, asleep, live, kill, askWait, timers, issued, got, toKill>>

\* finalize_if_killed_waiting_send: take the signal ...
SenderKillCheck(w) ==
  LET l == th[w] IN
  /\ l.pc = "wkill_check"
  /\ kill' = kill \ {l.f}
  /\ Goto(w, IF l.f \in kill THEN [l EXCEPT !.pc = "wkill_take"] ELSE IdleThread)
  /\ UNCHANGED <<mb, runq, asleep, live, waitAt, askWait, timers, issued, got, toKill>>

\* mutant of SenderKillTake: the sender is finalized without being taken
SenderKillAlways(w) ==
  LET l == th[w]
      r == TakeWaitingSender(mb[l.to], l.f)
  IN  /\ l.pc = "wkill_take"
      /\ mb' = [mb EXCEPT ![l.to] = r.mb]
      /\ waitAt' = [waitAt EXCEPT ![l.f] = NoFlow]
      /\ Goto(w, Finalizing(NoFlow, l.f))
      /\ UNCHANGED <<runq, asleep, live, kill, askWait, timers, issued, got, toKill>>

\* ... then the sender, if it still waits there
SenderKillTake(w) ==
  LET l == th[w]
      r == TakeWaitingSender(mb[l.to], l.f)
  IN  /\ l.pc = "wkill_take"
      /\ mb' = [mb EXCEPT ![l.to] = r.mb]
      /\ waitAt' = IF r.taken THEN [waitAt EXCEPT ![l.f] = NoFlow] ELSE waitAt
      /\ Goto(w, IF r.taken THEN Finalizing(NoFlow, l.f) ELSE [l EXCEPT !.pc = "kill_restore"])
      /\ UNCHANGED <<runq, asleep, live, kill, askWait, timers, issued, got, toKill>>

-----------------------------------------------------------------------------
(* Receive, and the park every wait ends in *)

\* VmResult::Receive, the first look at the queue
Receive(w, filter, timed) ==
  LET g == th[w].cur
      r == TryPop(mb[g], filter)
  IN  /\ Issue(w, [op |-> "receive", filter |-> filter, timed |-> timed])
      /\ mb' = [mb EXCEPT ![g] = r.mb]
      /\ got' = IF r.hop = NoHop THEN got ELSE [got EXCEPT ![g] = r.hop]
      /\ Goto(w, IF r.hop = NoHop
                 THEN [Running(g) EXCEPT !.pc = "park", !.filter = filter, !.timed = timed]
                 ELSE [Running(g) EXCEPT !.pc = "admit"])
      /\ UNCHANGED <<runq, asleep, live, kill, waitAt, askWait, timers, toKill>>

\* admit_waiting_on: one sender per pop; an asker goes on to park for its reply
Admit(w) ==
  LET g == th[w].cur
      r == AdmitWaitingSender(mb[g])
      s == Head(mb[g].waiting)
      woken == r.out = "Woken"
  IN  /\ th[w].pc = "admit"
      /\ mb' = [mb EXCEPT ![g] = r.mb]
      /\ waitAt' = IF woken THEN [waitAt EXCEPT ![s.flow] = NoFlow] ELSE waitAt
      /\ runq' = IF woken /\ ~s.ask THEN runq \cup {s.flow} ELSE runq
      /\ Goto(w, IF woken /\ s.ask
                 THEN [Running(g) EXCEPT !.pc = "ask_insert", !.f = s.flow, !.to = g, !.ask = TRUE,
                                         !.filter = Correlation(s.hop.rid, g), !.timed = s.timed]
                 ELSE Running(g))
      /\ UNCHANGED <<asleep, live, kill, askWait, timers, issued, got, toKill>>

\* VmResult::Ask after the delivery: the reply may already be here
AskPop(w) ==
  LET l == th[w]
      r == TryPop(mb[l.cur], l.filter)
  IN  /\ l.pc = "ask_pop"
      /\ mb' = [mb EXCEPT ![l.cur] = r.mb]
      /\ got' = IF r.hop = NoHop THEN got ELSE [got EXCEPT ![l.cur] = r.hop]
      /\ Goto(w, IF r.hop = NoHop
                 THEN [l EXCEPT !.pc = "ask_insert", !.f = l.cur, !.cur = NoFlow]
                 ELSE Running(l.cur))
      /\ UNCHANGED <<runq, asleep, live, kill, waitAt, askWait, timers, issued, toKill>>

\* park_ask, first section: AskWaitIndex::insert
AskInsert(w) ==
  LET l == th[w]
      refused == \/ askWait[l.f] # NoFlow
                 \/ MaxAsks # 0 /\ Cardinality({g \in Flow : askWait[g] # NoFlow}) >= MaxAsks
  IN  /\ l.pc = "ask_insert"
      /\ askWait' = IF refused THEN askWait ELSE [askWait EXCEPT ![l.f] = l.to]
      /\ Goto(w, IF refused THEN Finalizing(l.cur, l.f) ELSE [l EXCEPT !.pc = "ask_park"])
      /\ UNCHANGED <<mb, runq, asleep, live, kill, waitAt, timers, issued, got, toKill>>

\* park_filter for flow g; a hop that raced ahead resumes g through the injector,
\* otherwise the thread goes on at kill_check with the epoch of this wait
ParkOrResume(w, g, back) ==
  LET l == th[w]
      r == ParkFilter(mb[g], l.filter)
  IN  /\ mb' = [mb EXCEPT ![g] = r.mb]
      /\ got' = IF r.hop = NoHop THEN got ELSE [got EXCEPT ![g] = r.hop]
      /\ runq' = IF r.hop = NoHop THEN runq ELSE runq \cup {g}
      /\ askWait' = IF r.hop # NoHop /\ l.ask THEN [askWait EXCEPT ![g] = NoFlow] ELSE askWait
      /\ Goto(w, IF r.hop = NoHop
                 THEN [l EXCEPT !.pc = "kill_check", !.f = g, !.cur = back, !.epoch = r.mb.epoch]
                 ELSE Running(back))
      /\ UNCHANGED <<asleep, live, kill, waitAt, timers, issued, toKill>>

\* park_on_mailbox
Park(w) == th[w].pc = "park" /\ ParkOrResume(w, th[w].cur, NoFlow)

\* park_ask, second section
AskPark(w) == th[w].pc = "ask_park" /\ ParkOrResume(w, th[w].f, th[w].cur)

\* the deadline of the wait just installed, if the operation has one
Armed(l) == IF l.timed THEN {[flow |-> l.f, epoch |-> l.epoch]} ELSE {}

\* finalize_if_killed: take the signal; without one a plain receive is done
\* (after arming its deadline) and an Ask revalidates
KillCheck(w) ==
  LET l == th[w]
      hit == l.f \in kill
  IN  /\ l.pc = "kill_check"
      /\ kill' = kill \ {l.f}
      /\ timers' = IF hit \/ l.ask THEN timers ELSE timers \cup Armed(l)
      /\ Goto(w, CASE hit -> [l EXCEPT !.pc = "kill_take"]
                   [] ~hit /\ l.ask -> [l EXCEPT !.pc = "ask_check"]
                   [] ~hit /\ ~l.ask -> Running(l.cur))
      /\ UNCHANGED <<mb, runq, asleep, live, waitAt, askWait, issued, got, toKill>>

\* finalize_if_killed: take the flow if it is still parked
KillTake(w) ==
  LET l == th[w]
      r == TakeParked(mb[l.f])
  IN  /\ l.pc = "kill_take"
      /\ mb' = [mb EXCEPT ![l.f] = r.mb]
      /\ Goto(w, IF r.taken THEN Finalizing(l.cur, l.f) ELSE [l EXCEPT !.pc = "kill_restore"])
      /\ UNCHANGED <<runq, asleep, live, kill, waitAt, askWait, timers, issued, got, toKill>>

\* restore_kill_reason; a receive then arms its deadline, an Ask revalidates
KillRestore(w) ==
  LET l == th[w] IN
  /\ l.pc = "kill_restore"
  /\ kill' = kill \cup {l.f}
  /\ timers' = IF l.ask THEN timers ELSE timers \cup Armed(l)
  /\ Goto(w, IF l.ask THEN [l EXCEPT !.pc = "ask_check"] ELSE Running(l.cur))
  /\ UNCHANGED <<mb, runq, asleep, live, waitAt, askWait, issued, got, toKill>>

\* park_ask revalidates: still indexed on the target (target_of) ...
AskCheck(w) ==
  LET l == th[w] IN
  /\ l.pc = "ask_check"
  /\ Goto(w, [l EXCEPT !.pc = IF askWait[l.f] = l.to THEN "ask_live" ELSE "ask_gone"])
  /\ UNCHANGED <<mb, runq, asleep, live, kill, waitAt, askWait, timers, issued, got, toKill>>

\* mutant of AskLive: the deadline is never armed
AskLiveUnarmed(w) ==
  LET l == th[w]
      alive == l.to \in live
  IN  /\ l.pc = "ask_live"
      /\ Goto(w, IF alive THEN Running(l.cur) ELSE [l EXCEPT !.pc = "ask_gone"])
      /\ UNCHANGED <<mb, runq, asleep, live, kill, waitAt, askWait, timers, issued, got, toKill>>

\* ... and the target still registered: arm the deadline, or self-wake
AskLive(w) ==
  LET l == th[w]
      alive == l.to \in live
  IN  /\ l.pc = "ask_live"
      /\ timers' = IF alive THEN timers \cup Armed(l) ELSE timers
      /\ Goto(w, IF alive THEN Running(l.cur) ELSE [l EXCEPT !.pc = "ask_gone"])
      /\ UNCHANGED <<mb, runq, asleep, live, kill, waitAt, askWait, issued, got, toKill>>

\* resume_ask_target_gone
AskGone(w) ==
  LET l == th[w]
      r == TakeParked(mb[l.f])
  IN  /\ l.pc = "ask_gone"
      /\ mb' = [mb EXCEPT ![l.f] = r.mb]
      /\ askWait' = IF r.taken THEN [askWait EXCEPT ![l.f] = NoFlow] ELSE askWait
      /\ got' = IF r.taken THEN [got EXCEPT ![l.f] = ExitHop(l.to)] ELSE got
      /\ runq' = IF r.taken THEN runq \cup {l.f} ELSE runq
      /\ Goto(w, Running(l.cur))
      /\ UNCHANGED <<asleep, live, kill, waitAt, timers, issued, toKill>>

-----------------------------------------------------------------------------
(* The timer thread *)

\* TimerWheel::fire, WakeSleeper
WakeSleeper(g) ==
  /\ th["timer"].pc = "idle" /\ g \in asleep
  /\ asleep' = asleep \ {g}
  /\ runq' = runq \cup {g}
  /\ UNCHANGED <<mb, live, kill, waitAt, askWait, timers, issued, got, toKill, th>>

\* TimerWheel::fire, WakeReceiver: take the wait the deadline was armed for
FireDeadline(d) ==
  LET r == TakeParkedAt(mb[d.flow], d.epoch)
  IN  /\ th["timer"].pc = "idle"
      /\ timers' = timers \ {d}
      /\ mb' = [mb EXCEPT ![d.flow] = r.mb]
      /\ Goto("timer", IF r.taken THEN [IdleThread EXCEPT !.pc = "timeout", !.f = d.flow]
                                  ELSE IdleThread)
      /\ UNCHANGED <<runq, asleep, live, kill, waitAt, askWait, issued, got, toKill>>

\* ... and resume it with Unit
TimedOut ==
  LET g == th["timer"].f IN
  /\ th["timer"].pc = "timeout"
  /\ askWait' = [askWait EXCEPT ![g] = NoFlow]
  /\ got' = [got EXCEPT ![g] = NoHop]
  /\ runq' = runq \cup {g}
  /\ Goto("timer", IdleThread)
  /\ UNCHANGED <<mb, asleep, live, kill, waitAt, timers, issued, toKill>>

-----------------------------------------------------------------------------
(* The host thread: Runtime::kill and extract_for_kill *)

HostKill(g) ==
  /\ th["host"].pc = "idle" /\ g \in toKill /\ g \in live
  /\ toKill' = toKill \ {g}
  /\ kill' = kill \cup {g}
  /\ Goto("host", [IdleThread EXCEPT !.pc = "x_parked", !.f = g])
  /\ UNCHANGED <<mb, runq, asleep, live, waitAt, askWait, timers, issued, got>>

ExtractParked ==
  LET g == th["host"].f
      r == TakeParked(mb[g])
  IN  /\ th["host"].pc = "x_parked"
      /\ mb' = [mb EXCEPT ![g] = r.mb]
      /\ Goto("host", IF r.taken THEN Finalizing(NoFlow, g)
                      ELSE [IdleThread EXCEPT !.pc = "x_index", !.f = g])
      /\ UNCHANGED <<runq, asleep, live, kill, waitAt, askWait, timers, issued, got, toKill>>

ExtractIndex ==
  LET g == th["host"].f IN
  /\ th["host"].pc = "x_index"
  /\ Goto("host", IF waitAt[g] # NoFlow /\ waitAt[g] \in live
                  THEN [IdleThread EXCEPT !.pc = "x_sender", !.f = g, !.to = waitAt[g]]
                  ELSE IdleThread)
  /\ UNCHANGED <<mb, runq, asleep, live, kill, waitAt, askWait, timers, issued, got, toKill>>

ExtractSender ==
  LET l == th["host"]
      r == TakeWaitingSender(mb[l.to], l.f)
  IN  /\ l.pc = "x_sender"
      /\ mb' = [mb EXCEPT ![l.to] = r.mb]
      /\ waitAt' = IF r.taken THEN [waitAt EXCEPT ![l.f] = NoFlow] ELSE waitAt
      /\ Goto("host", IF r.taken THEN Finalizing(NoFlow, l.f) ELSE IdleThread)
      /\ UNCHANGED <<runq, asleep, live, kill, askWait, timers, issued, got, toKill>>

-----------------------------------------------------------------------------
(* finalize_flow on any thread: a work list, popped from the back *)

\* finalize_one up to Mailbox::close; drained senders join the work list
FinClose(t) ==
  LET l == th[t]
      g == Last(l.work)
      drained == [i \in DOMAIN mb[g].waiting |-> mb[g].waiting[i].flow]
  IN  /\ l.pc = "fin"
      /\ kill' = kill \ {g}
      /\ askWait' = [askWait EXCEPT ![g] = NoFlow]
      /\ waitAt' = [s \in Flow |-> IF s = g \/ s \in Range(drained) THEN NoFlow ELSE waitAt[s]]
      /\ mb' = [mb EXCEPT ![g] = Close(@)]
      /\ Goto(t, [l EXCEPT !.pc = "fin_asks", !.f = g, !.work = Front(@) \o drained])
      /\ UNCHANGED <<runq, asleep, live, timers, issued, got, toKill>>

\* mutant of FinAsks: the waiters leave the index and are forgotten
FinAsksForgets(t) ==
  LET l == th[t] IN
  /\ l.pc = "fin_asks"
  /\ askWait' = [a \in Flow |-> IF askWait[a] = l.f THEN NoFlow ELSE askWait[a]]
  /\ Goto(t, [l EXCEPT !.pc = "fin_unregister"])
  /\ UNCHANGED <<mb, runq, asleep, live, kill, waitAt, timers, issued, got, toKill>>

\* wake_orphaned_asks: take_waiters_of
FinAsks(t) ==
  LET l == th[t]
      waiters == {a \in Flow : askWait[a] = l.f}
  IN  /\ l.pc = "fin_asks"
      /\ askWait' = [a \in Flow |-> IF a \in waiters THEN NoFlow ELSE askWait[a]]
      /\ Goto(t, [l EXCEPT !.pc = IF waiters = {} THEN "fin_unregister" ELSE "fin_orphan",
                           !.orphans = waiters])
      /\ UNCHANGED <<mb, runq, asleep, live, kill, waitAt, timers, issued, got, toKill>>

\* wake_orphaned_asks: one waiter, taken whatever it is parked for
FinOrphan(t, a) ==
  LET l == th[t]
      found == a \in live
      r == TakeParked(mb[a])
      rest == l.orphans \ {a}
  IN  /\ l.pc = "fin_orphan" /\ a \in l.orphans
      /\ mb' = IF found THEN [mb EXCEPT ![a] = r.mb] ELSE mb
      /\ got' = IF found /\ r.taken THEN [got EXCEPT ![a] = ExitHop(l.f)] ELSE got
      /\ runq' = IF found /\ r.taken THEN runq \cup {a} ELSE runq
      /\ Goto(t, [l EXCEPT !.pc = IF rest = {} THEN "fin_unregister" ELSE @, !.orphans = rest])
      /\ UNCHANGED <<asleep, live, kill, waitAt, askWait, timers, issued, toKill>>

\* directory.unregister and the rest of finalize_one; then the next of the list
FinUnregister(t) ==
  LET l == th[t] IN
  /\ l.pc = "fin_unregister"
  /\ live' = live \ {l.f}
  /\ Goto(t, IF l.work = << >> THEN Running(l.cur)
             ELSE [IdleThread EXCEPT !.pc = "fin", !.cur = l.cur, !.work = l.work])
  /\ UNCHANGED <<mb, runq, asleep, kill, waitAt, askWait, timers, issued, got, toKill>>

-----------------------------------------------------------------------------

WorkerStep(w) ==
  \/ \E g \in Flow : Pick(w, g)
  \/ Yield(w) \/ Sleep(w) \/ Complete(w)
  \/ \E to \in Flow : Send(w, to)
  \/ Reply(w)
  \/ \E to \in Flow, timed \in BOOLEAN : Ask(w, to, timed)
  \/ Handoff(w) \/ IndexSender(w) \/ ParkSend(w) \/ SenderKillCheck(w) \/ SenderKillTake(w)
  \/ \E f \in Filters, timed \in BOOLEAN : Receive(w, f, timed)
  \/ Admit(w) \/ AskPop(w) \/ AskInsert(w) \/ Park(w) \/ AskPark(w)
  \/ KillCheck(w) \/ KillTake(w) \/ KillRestore(w)
  \/ AskCheck(w) \/ AskLive(w) \/ AskGone(w)

TimerStep ==
  \/ \E g \in Flow : WakeSleeper(g)
  \/ \E d \in timers : FireDeadline(d)
  \/ TimedOut

ExtractStep == ExtractParked \/ ExtractIndex \/ ExtractSender

HostStep == ExtractStep \/ \E g \in Flow : HostKill(g)

FinalizeStep(t) ==
  \/ FinClose(t) \/ FinAsks(t) \/ FinUnregister(t)
  \/ \E a \in Flow : FinOrphan(t, a)

Next ==
  \/ \E w \in Worker : WorkerStep(w)
  \/ TimerStep
  \/ HostStep
  \/ \E t \in Thread \ {"timer"} : FinalizeStep(t)

Spec == Init /\ [][Next]_vars

\* No thread stops inside a handler and the timer thread keeps firing: OS threads are
\* scheduled, a worker looks for work as long as a flow is runnable, and a flow's
\* bytecode goes on to its next operation or completes.  The host need not kill.
FairSpec ==
  /\ Spec
  /\ \A w \in Worker : WF_vars(WorkerStep(w))
  /\ WF_vars(TimerStep)
  /\ WF_vars(ExtractStep)
  /\ \A t \in Thread \ {"timer"} : WF_vars(FinalizeStep(t))

-----------------------------------------------------------------------------
(* Properties *)

Pcs == {"idle", "run", "handoff", "index", "park_send", "wkill_check", "wkill_take",
        "admit", "ask_pop", "ask_insert", "park", "ask_park", "kill_check", "kill_take",
        "kill_restore", "ask_check", "ask_live", "ask_gone", "timeout", "x_parked", "x_index",
        "x_sender", "fin", "fin_asks", "fin_orphan", "fin_unregister"}

\* Every variable stays in its range.
TypeOK ==
  /\ \A g \in Flow :
       /\ DOMAIN mb[g] = DOMAIN NewInbox("Reject")
       /\ mb[g].parked \in BOOLEAN /\ mb[g].closed \in BOOLEAN
       /\ mb[g].epoch \in 0..(EpochMod - 1)
       /\ \A i \in DOMAIN mb[g].waiting : mb[g].waiting[i].flow \in Flow
  /\ runq \subseteq Flow /\ asleep \subseteq Flow /\ live \subseteq Flow
  /\ kill \subseteq Flow /\ toKill \subseteq Killable
  /\ waitAt \in [Flow -> Flow \cup {NoFlow}]
  /\ askWait \in [Flow -> Flow \cup {NoFlow}]
  /\ \A d \in timers : d \in [flow : Flow, epoch : 0..(EpochMod - 1)]
  /\ issued \in [Flow -> 0..MaxOps]
  /\ \A t \in Thread :
       /\ th[t].pc \in Pcs
       /\ {th[t].cur, th[t].f, th[t].to} \subseteq Flow \cup {NoFlow}
       /\ th[t].work \in Seq(Flow) /\ th[t].orphans \subseteq Flow

\* the positions at which a thread's f is a box it has in hand
Helping == {"handoff", "timeout", "ask_insert", "ask_park", "fin_asks", "fin_orphan",
            "fin_unregister"}

\* the flows whose box a thread has in hand
Hand(l) ==
  (IF l.cur = NoFlow THEN {} ELSE {l.cur}) \cup (IF l.pc \in Helping THEN {l.f} ELSE {})
  \cup Range(l.work)

\* ... each of them once
HeldOnce(l) ==
  /\ IsInjective(l.work) /\ l.cur \notin Range(l.work)
  /\ l.pc \in Helping => l.f # l.cur /\ l.f \notin Range(l.work)

\* the senders parked in an inbox
Senders(m) == {m.waiting[i].flow : i \in DOMAIN m.waiting}

\* where a box may be: a run queue, the timer, its own inbox, the waiting list of a
\* target, a thread's hands; and whose boxes are there
Place == ({"runq", "asleep", "inbox"} \X {NoFlow}) \cup ({"waiting"} \X Flow) \cup ({"hand"} \X Thread)
At(p) ==
  CASE p[1] = "runq" -> runq
    [] p[1] = "asleep" -> asleep
    [] p[1] = "inbox" -> {g \in Flow : mb[g].parked}
    [] p[1] = "waiting" -> Senders(mb[p[2]])
    [] p[1] = "hand" -> Hand(th[p[2]])

\* A registered flow is in exactly one place, once, and a finalized one in none: no
\* interleaving of handoff, timeout, admit, kill and finalize drops a flow without
\* completing it or lets two threads own it.
FlowInOnePlace ==
  /\ \A p \in Place : \A g \in At(p) : \A q \in Place : g \in At(q) => q = p
  /\ UNION {At(p) : p \in Place} = live
  /\ \A t \in Thread : HeldOnce(th[t])
  /\ \A h \in Flow : \A i, j \in DOMAIN mb[h].waiting :
       mb[h].waiting[i].flow = mb[h].waiting[j].flow => i = j

\* A sender parked in WAITING_SEND can be found by a kill: the index names the
\* inbox that holds it (park_waiting_send inserts before it parks), and that
\* inbox is open, so its owner's finalize will still drain it.
WaitingSenderFound ==
  \A g, h \in Flow : IsWaiting(mb[h], g) => waitAt[g] = h /\ ~mb[h].closed /\ h \in live

\* WaitingSendIndex never names a target for a flow that is neither in that inbox nor
\* on its way into it: every path that takes the sender out (admit, kill, close of
\* the target) drops the entry too.  A stale one would make a later kill look in the
\* wrong inbox.
WaitIndexFresh ==
  \A g \in Flow : waitAt[g] # NoFlow =>
    \/ IsWaiting(mb[waitAt[g]], g)
    \/ \E w \in Worker : th[w].pc = "park_send" /\ th[w].cur = g /\ th[w].to = waitAt[g]

\* Every parked Ask can be found when its target exits: it is in AskWaitIndex under
\* that target, or the exit has just taken it from the index and is about to wake it,
\* or the thread that parked it has not revalidated yet.  (A Receive that matches a
\* request id from any sender is no Ask: it has no target whose exit it waits for.)
\* Handoff, timeout, kill and finalize of other flows never drop the membership of an
\* Ask that still waits.
AskIndexed ==
  \A a \in Flow : mb[a].parked /\ mb[a].filter.kind = "Correlation" /\ mb[a].filter.from # "any" =>
    \/ askWait[a] = mb[a].filter.from
    \/ \E t \in Thread : a \in th[t].orphans
    \/ \E w \in Worker : th[w].f = a /\ th[w].ask

\* A wait with a deadline ends: once a flow is about to park for a timed Receive or for
\* the reply of a delivered AskTimeout, it is runnable again or finalized, whatever
\* hops, kills and exits race the arming of the deadline.
TimedWaitEnds ==
  \A g \in Flow :
    (\E w \in Worker :
       \/ th[w].pc \in {"ask_insert", "ask_park"} /\ th[w].timed /\ th[w].f = g
       \/ th[w].pc = "park" /\ th[w].timed /\ th[w].cur = g)
    ~> (g \in runq \/ g \notin live)

\* WaitingSendIndex is exact: it names every sender parked in an inbox, and nothing else.
WaitIndexExact == WaitingSenderFound /\ WaitIndexFresh

\* Every flow has one owner while it lives, and the runtime's tables keep their types.
FlowsOwned == TypeOK /\ FlowInOnePlace

\* mailbox/mod.rs:169-172: a hop never sits in the queue beside a parked flow that
\* waits for it.
NoMissedHop ==
  \A g \in Flow : mb[g].parked => FirstMatch(mb[g], mb[g].filter) = 0


=============================================================================
