----------------------------- MODULE Lifecycle -----------------------------
(***************************************************************************)
(* Links, monitors, names, trap_exit and kill signals while flows exit:    *)
(* the relation handlers of worker.rs and runtime.rs against finalize_one  *)
(* (finalize.rs), which dismantles a dying flow's relations table by table *)
(* and carries a linked exit from flow to flow.  One step is one critical  *)
(* section.                                                                *)
(*                                                                         *)
(* Every flow has the thread that drives it, named after it, up to the     *)
(* point where it parks; a Worker is the rest of that worker's run through *)
(* park_on_mailbox, during which the flow may be resumed elsewhere.  Host  *)
(* threads call Runtime.  A flow's box is with its own thread, in its      *)
(* inbox ("parked") or with another thread's finalize ("taken").           *)
(***************************************************************************)
EXTENDS Relations, Sequences

CONSTANTS
  Flow, Host, Worker, Name,
  MaxLinks, MaxMonitors, MaxNames,  \* RuntimeConfig quotas, 0 = unlimited
  Ops,        \* the relation operations issued in this instance
  Ending,     \* the flows whose bytecode comes to an end
  MaxOps      \* bound: relation operations in a behaviour

ASSUME LifecycleAssumption ==
  /\ Flow \cap Host = {} /\ Flow \cap Worker = {} /\ Host \cap Worker = {}
  /\ MaxLinks \in Nat /\ MaxMonitors \in Nat /\ MaxNames \in Nat /\ MaxOps \in Nat

VARIABLES
  lt, mt, rg,   \* LinkTable, MonitorTable, Registry
  live,         \* FlowDirectory
  closed,       \* flows whose inbox finalize has closed
  trap,         \* TrapExitFlags
  kill,         \* KillSignals, "none" = no entry
  got,          \* the system hops delivered to each flow
  nextLink, nextMonitor,  \* NEXT_LINK, NEXT_MONITOR
  linkIds,      \* link ids handed out
  monitorRefs,  \* monitor refs handed out, per caller
  silenced,     \* monitor refs a demonitor has removed
  restored,     \* flows whose signal a failed take_parked has put back
  ops,          \* operations issued so far
  th            \* threads

links == <<lt, nextLink, linkIds>>
monitors == <<mt, nextMonitor, monitorRefs, silenced>>
exits == <<live, closed, trap, kill, got, restored>>

vars == <<lt, nextLink, linkIds, mt, nextMonitor, monitorRefs, silenced, rg,
          live, closed, trap, kill, got, restored, ops, th>>

Thread == Flow \cup Host \cup Worker

Reason == {"normal", "fault", "killed", "link"}

Down(id) == [kind |-> "down", of |-> id]
Exit(f) == [kind |-> "exit", of |-> f]

\* f, to, id, alive: a handler's locals; f, reason, rows, to, work: finalize's
Ready(t) ==
  [pc |-> "ready", f |-> t, to |-> t, id |-> 0, alive |-> TRUE, reason |-> "normal",
   rows |-> {}, work |-> << >>]

\* flow f is in a run queue
Runnable(f) == [Ready(f) EXCEPT !.pc = "runnable"]

\* a thread about to run finalize_one on f
Finalizing(f, reason) == [Ready(f) EXCEPT !.pc = "fin_clear", !.reason = reason]

Init ==
  /\ lt = NoLinks /\ mt = NoMonitors /\ rg = NoNames
  /\ live = Flow /\ closed = {} /\ trap = {}
  /\ kill = [f \in Flow |-> "none"]
  /\ got = [f \in Flow |-> {}]
  /\ nextLink = 1 /\ nextMonitor = 1
  /\ linkIds = {} /\ silenced = {} /\ restored = {}
  /\ monitorRefs = [t \in Thread |-> {}]
  /\ ops = 0
  /\ th = [t \in Thread |-> IF t \in Flow THEN Runnable(t) ELSE Ready(t)]

Goto(t, r) == th' = [th EXCEPT ![t] = r]

At(t, pc) == [th[t] EXCEPT !.pc = pc]

\* a handler returns an error: finish_failed for bytecode, Err for the host
Refused(t) == IF t \in Flow THEN Finalizing(t, "fault") ELSE Ready(t)

\* thread t issues a relation operation on behalf of flow f
Issue(t, op, f) ==
  /\ op \in Ops /\ ops < MaxOps
  /\ th[t].pc = "ready"
  /\ IF t \in Flow THEN f = t ELSE f \in live
  /\ ops' = ops + 1

-----------------------------------------------------------------------------
(* Links: VmResult::Link, Runtime::link and LinkStore::link_if_live *)

\* resolve_relation_cap, or require_live of both endpoints
Link(t, a, b) ==
  /\ Issue(t, "link", a) /\ b \in live /\ a # b
  /\ Goto(t, [Ready(a) EXCEPT !.pc = "link_insert", !.to = b])
  /\ UNCHANGED <<links, monitors, rg, exits>>

\* link_if_live under the table's mutex
LinkInsert(t) ==
  LET l == th[t]
      refused == \/ HasPair(lt, l.f, l.to)
                 \/ MaxLinks # 0 /\ Cardinality(lt.links) >= MaxLinks
  IN  /\ l.pc = "link_insert"
      /\ lt' = IF refused THEN lt ELSE InsertLink(lt, nextLink, l.f, l.to)
      /\ nextLink' = IF refused THEN nextLink ELSE nextLink + 1
      /\ Goto(t, IF refused THEN Refused(t)
                 ELSE [l EXCEPT !.pc = "confirm_a", !.id = nextLink])
      /\ UNCHANGED linkIds /\ UNCHANGED <<monitors, rg, exits, ops>>

\* confirm_live, first lookup
ConfirmA(t) ==
  /\ th[t].pc = "confirm_a"
  /\ Goto(t, [th[t] EXCEPT !.pc = "confirm_b", !.alive = th[t].f \in live])
  /\ UNCHANGED <<links, monitors, rg, exits, ops>>

\* mutant of ConfirmB: only the first endpoint is confirmed
ConfirmBSkipped(t) ==
  LET l == th[t] IN
  /\ l.pc = "confirm_b"
  /\ linkIds' = IF l.alive THEN linkIds \cup {l.id} ELSE linkIds
  /\ Goto(t, IF l.alive THEN Ready(t) ELSE At(t, "link_undo"))
  /\ UNCHANGED <<lt, nextLink>> /\ UNCHANGED <<monitors, rg, exits, ops>>

\* confirm_live, second lookup: Linked, or roll back
ConfirmB(t) ==
  LET l == th[t]
      linked == l.alive /\ l.to \in live
  IN  /\ l.pc = "confirm_b"
      /\ linkIds' = IF linked THEN linkIds \cup {l.id} ELSE linkIds
      /\ Goto(t, IF linked THEN Ready(t) ELSE At(t, "link_undo"))
      /\ UNCHANGED <<lt, nextLink>> /\ UNCHANGED <<monitors, rg, exits, ops>>

\* force_remove: NoSuchFlow when the row was still there, Consumed otherwise
LinkUndo(t) ==
  LET l == th[t] IN
  /\ l.pc = "link_undo"
  /\ lt' = UnlinkId(lt, l.id)
  /\ Goto(t, IF HasLink(lt, l.id) THEN Refused(t) ELSE Ready(t))
  /\ UNCHANGED <<nextLink, linkIds>> /\ UNCHANGED <<monitors, rg, exits, ops>>

\* VmResult::Unlink and Runtime::unlink
Unlink(t, owner, id) ==
  LET mine == \E l \in lt.links : l.id = id /\ owner \in {l.a, l.b}
  IN  /\ Issue(t, "unlink", owner)
      /\ lt' = IF mine THEN UnlinkId(lt, id) ELSE lt
      /\ Goto(t, IF mine THEN Ready(t) ELSE Refused(t))
      /\ UNCHANGED <<nextLink, linkIds>> /\ UNCHANGED <<monitors, rg, exits>>

\* VmResult::SetTrapExit and Runtime::set_trap_exit
SetTrap(t, f, on) ==
  /\ Issue(t, "trap", f)
  /\ trap' = IF on THEN trap \cup {f} ELSE trap \ {f}
  /\ UNCHANGED <<live, closed, kill, got, restored>> /\ UNCHANGED <<links, monitors, rg, th>>

-----------------------------------------------------------------------------
(* Monitors *)

Monitor(t, owner, target) ==
  /\ Issue(t, "monitor", owner) /\ target \in live /\ owner # target
  /\ Goto(t, [Ready(owner) EXCEPT !.pc = "mon_create", !.to = target])
  /\ UNCHANGED <<links, monitors, rg, exits>>

\* MonitorStore::create; bytecode is done, the host re-checks its target
MonitorCreate(t) ==
  LET l == th[t]
      refused == MaxMonitors # 0 /\ Cardinality(mt.rows) >= MaxMonitors
  IN  /\ l.pc = "mon_create"
      /\ mt' = IF refused THEN mt ELSE InsertMonitor(mt, nextMonitor, l.f, l.to)
      /\ nextMonitor' = IF refused THEN nextMonitor ELSE nextMonitor + 1
      /\ monitorRefs' = IF refused \/ t \in Host THEN monitorRefs
                        ELSE [monitorRefs EXCEPT ![t] = @ \cup {nextMonitor}]
      /\ Goto(t, CASE refused -> Refused(t)
                   [] ~refused /\ t \in Flow -> Ready(t)
                   [] ~refused /\ t \notin Flow ->
                        [l EXCEPT !.pc = "mon_check", !.id = nextMonitor])
      /\ UNCHANGED silenced /\ UNCHANGED <<links, rg, exits, ops>>

\* the caller of Runtime::monitor gets its ref
Returned(t) == monitorRefs' = [monitorRefs EXCEPT ![t] = @ \cup {th[t].id}]

\* Runtime::monitor, the second require_live(target)
MonitorCheck(t) ==
  LET alive == th[t].to \in live IN
  /\ th[t].pc = "mon_check"
  /\ IF alive THEN Returned(t) ELSE UNCHANGED monitorRefs
  /\ Goto(t, IF alive THEN Ready(t) ELSE At(t, "mon_undo"))
  /\ UNCHANGED <<mt, nextMonitor, silenced>> /\ UNCHANGED <<links, rg, exits, ops>>

\* ... a target that finalized meanwhile: drop the relation ...
MonitorUndo(t) ==
  /\ th[t].pc = "mon_undo"
  /\ mt' = RemoveOwned(mt, th[t].f, th[t].id)
  /\ Goto(t, At(t, "mon_down"))
  /\ UNCHANGED <<nextMonitor, monitorRefs, silenced>> /\ UNCHANGED <<links, rg, exits, ops>>

\* deliver_system_hop to f while thread t goes on as r: a parked f is resumed
Deliver(t, f, hop, r) ==
  LET open == f \in live \ closed IN
  /\ got' = IF open THEN [got EXCEPT ![f] = @ \cup {hop}] ELSE got
  /\ th' = [u \in Thread |-> CASE u = t -> r
                               [] u # t /\ u = f /\ open /\ th[u].pc = "parked" -> Runnable(u)
                               [] OTHER -> th[u]]

\* ... and synthesize its DOWN
MonitorDown(t) ==
  /\ th[t].pc = "mon_down"
  /\ Deliver(t, th[t].f, Down(th[t].id), Ready(t))
  /\ Returned(t)
  /\ UNCHANGED <<mt, nextMonitor, silenced, live, closed, trap, kill, restored>> /\ UNCHANGED <<links, rg, ops>>

\* mutant of Demonitor: ownership is checked and the row stays
DemonitorKeepsRow(t, owner, id) ==
  LET mine == OwnsMonitor(mt, owner, id) IN
  /\ Issue(t, "demonitor", owner)
  /\ silenced' = IF mine THEN silenced \cup {id} ELSE silenced
  /\ Goto(t, IF mine THEN Ready(t) ELSE Refused(t))
  /\ UNCHANGED <<mt, nextMonitor, monitorRefs>> /\ UNCHANGED <<links, rg, exits>>

\* VmResult::Demonitor and Runtime::demonitor
Demonitor(t, owner, id) ==
  LET mine == OwnsMonitor(mt, owner, id) IN
  /\ Issue(t, "demonitor", owner)
  /\ mt' = RemoveOwned(mt, owner, id)
  /\ silenced' = IF mine THEN silenced \cup {id} ELSE silenced
  /\ Goto(t, IF mine THEN Ready(t) ELSE Refused(t))
  /\ UNCHANGED <<nextMonitor, monitorRefs>> /\ UNCHANGED <<links, rg, exits>>

-----------------------------------------------------------------------------
(* Names *)

\* VmResult::RegisterName registers the flow itself; Runtime::register_name a live
\* target of a Cap
Register(t, f) ==
  /\ Issue(t, "register", f)
  /\ Goto(t, [Ready(f) EXCEPT !.pc = "reg_insert"])
  /\ UNCHANGED <<links, monitors, rg, exits>>

\* RegistryStore::register
RegisterInsert(t, name) ==
  LET l == th[t]
      refused == \/ NameTaken(rg, name)
                 \/ MaxNames # 0 /\ Cardinality(rg.names) >= MaxNames
  IN  /\ l.pc = "reg_insert"
      /\ rg' = IF refused THEN rg ELSE RegisterName(rg, name, l.f)
      /\ Goto(t, IF refused THEN Refused(t) ELSE Ready(t))
      /\ UNCHANGED <<links, monitors, exits, ops>>

\* Runtime::unregister_name
Unregister(t, name) ==
  /\ t \in Host /\ th[t].pc = "ready"
  /\ "register" \in Ops /\ ops < MaxOps /\ ops' = ops + 1
  /\ rg' = UnregisterName(rg, name)
  /\ UNCHANGED <<links, monitors, exits, th>>

-----------------------------------------------------------------------------
(* Running, parking, exit and kill *)

\* VmResult::Complete (normal), VmResult::Trap and finish_failed (fault)
Complete(f, reason) ==
  /\ f \in Ending /\ th[f].pc = "ready"
  /\ Goto(f, Finalizing(f, reason))
  /\ UNCHANGED <<links, monitors, rg, exits, ops>>

\* drive_process: a quantum starts by consuming the kill signal
Quantum(f) ==
  /\ th[f].pc = "runnable"
  /\ kill' = [kill EXCEPT ![f] = "none"]
  /\ Goto(f, IF kill[f] = "none" THEN Ready(f) ELSE Finalizing(f, kill[f]))
  /\ UNCHANGED <<live, closed, trap, got, restored>> /\ UNCHANGED <<links, monitors, rg, ops>>

\* the instruction budget is used up, or VmResult::Yield
Yield(f) ==
  /\ th[f].pc = "ready"
  /\ Goto(f, Runnable(f))
  /\ UNCHANGED <<links, monitors, rg, exits, ops>>

\* park_filter; worker w goes on with finalize_if_killed
Park(f, w) ==
  /\ th[f].pc = "ready" /\ th[w].pc = "ready"
  /\ th' = [th EXCEPT ![f] = At(f, "parked"), ![w] = [Ready(f) EXCEPT !.pc = "park_check"]]
  /\ UNCHANGED <<links, monitors, rg, exits, ops>>

\* mutant of ParkCheck: nobody looks at the signal after the flow has parked
ParkUnchecked(w) ==
  /\ th[w].pc = "park_check"
  /\ Goto(w, Ready(w))
  /\ UNCHANGED <<links, monitors, rg, exits, ops>>

\* take_kill_reason
ParkCheck(w) ==
  LET f == th[w].f IN
  /\ th[w].pc = "park_check"
  /\ kill' = [kill EXCEPT ![f] = "none"]
  /\ Goto(w, IF kill[f] = "none" THEN Ready(w)
             ELSE [th[w] EXCEPT !.pc = "park_take", !.reason = kill[f]])
  /\ UNCHANGED <<live, closed, trap, got, restored>> /\ UNCHANGED <<links, monitors, rg, ops>>

\* a user hop or a deadline resumes it
Resume(f) ==
  /\ th[f].pc = "parked"
  /\ Goto(f, Runnable(f))
  /\ UNCHANGED <<links, monitors, rg, exits, ops>>

\* Runtime::kill by the host, VmResult::ExitSignal by a flow
Signal(t, g, reason) ==
  /\ Issue(t, "signal", IF t \in Flow THEN t ELSE g) /\ g \in live
  /\ reason \in IF t \in Flow THEN {"fault", "killed"} ELSE {"killed"}
  /\ Goto(t, [Ready(t) EXCEPT !.to = g, !.reason = reason,
                !.pc = CASE t = g -> "sig_self"
                         [] t # g /\ t \in Flow -> "sig_trap"
                         [] t \notin Flow -> "kill_set"])
  /\ UNCHANGED <<links, monitors, rg, exits>>

\* VmResult::ExitSignal to itself: finalize at once, unless it traps
SignalSelf(t) ==
  LET l == th[t] IN
  /\ l.pc = "sig_self"
  /\ Goto(t, IF t \in trap /\ l.reason # "killed" THEN At(t, "sig_trap")
             ELSE Finalizing(t, l.reason))
  /\ UNCHANGED <<links, monitors, rg, exits, ops>>

\* signal_exit: does the target trap?
SignalTrap(t) ==
  LET l == th[t] IN
  /\ l.pc = "sig_trap"
  /\ Goto(t, At(t, IF l.to \in trap /\ l.reason # "killed" THEN "sig_exit" ELSE "kill_set"))
  /\ UNCHANGED <<links, monitors, rg, exits, ops>>

SignalExit(t) ==
  /\ th[t].pc = "sig_exit"
  /\ Deliver(t, th[t].to, Exit(th[t].f), Ready(t))
  /\ UNCHANGED <<live, closed, trap, kill, restored>> /\ UNCHANGED <<links, monitors, rg, ops>>

\* extract_for_kill: lookup and KillSignals::set; thread t goes on as r, or as
\* `gone` when the target has left the directory
SetSignal(t, g, reason, r, gone) ==
  /\ kill' = IF g \in live THEN [kill EXCEPT ![g] = reason] ELSE kill
  /\ Goto(t, IF g \in live THEN r ELSE gone)

\* extract_for_kill: take_parked; thread t goes on as r with the box, or as `none`
TakeParked(t, g, r, none) ==
  th' = [u \in Thread |->
           CASE u = t -> IF th[g].pc = "parked" THEN r ELSE none
             [] u # t /\ u = g /\ th[u].pc = "parked" -> At(u, "taken")
             [] OTHER -> th[u]]

\* request_kill
KillSet(t) ==
  /\ th[t].pc = "kill_set"
  /\ SetSignal(t, th[t].to, th[t].reason, At(t, "kill_take"), Ready(t))
  /\ UNCHANGED <<live, closed, trap, got, restored>> /\ UNCHANGED <<links, monitors, rg, ops>>

KillTake(t) ==
  /\ th[t].pc = "kill_take"
  /\ TakeParked(t, th[t].to, Finalizing(th[t].to, th[t].reason), Ready(t))
  /\ UNCHANGED <<links, monitors, rg, exits, ops>>

\* finalize_if_killed: take_parked
ParkTake(w) ==
  /\ th[w].pc = "park_take"
  /\ TakeParked(w, th[w].f, Finalizing(th[w].f, th[w].reason), At(w, "park_restore"))
  /\ UNCHANGED <<links, monitors, rg, exits, ops>>

\* restore_kill_reason: the flow was resumed or taken meanwhile
ParkRestore(w) ==
  LET f == th[w].f IN
  /\ th[w].pc = "park_restore"
  /\ kill' = [kill EXCEPT ![f] = th[w].reason]
  /\ restored' = restored \cup {f}
  /\ Goto(w, Ready(w))
  /\ UNCHANGED <<live, closed, trap, got>> /\ UNCHANGED <<links, monitors, rg, ops>>

-----------------------------------------------------------------------------
(* finalize_flow on any thread: finalize_one for f, then for the work list *)

\* finalize_one up to Mailbox::close, as far as relations see it
FinClear(t) ==
  LET f == th[t].f IN
  /\ th[t].pc = "fin_clear"
  /\ kill' = [kill EXCEPT ![f] = "none"]
  /\ trap' = trap \ {f}
  /\ closed' = closed \cup {f}
  /\ Goto(t, At(t, "fin_unregister"))
  /\ UNCHANGED <<live, got, restored>> /\ UNCHANGED <<links, monitors, rg, ops>>

\* directory.unregister
FinUnregister(t) ==
  /\ th[t].pc = "fin_unregister"
  /\ live' = live \ {th[t].f}
  /\ Goto(t, At(t, "fin_owned"))
  /\ UNCHANGED <<closed, trap, kill, got, restored>> /\ UNCHANGED <<links, monitors, rg, ops>>

\* monitors.remove_owned_by
FinOwned(t) ==
  /\ th[t].pc = "fin_owned"
  /\ mt' = RemoveOwnedBy(mt, th[t].f)
  /\ Goto(t, At(t, "fin_names"))
  /\ UNCHANGED <<nextMonitor, monitorRefs, silenced>> /\ UNCHANGED <<links, rg, exits, ops>>

\* registry.unregister_flow
FinNames(t) ==
  /\ th[t].pc = "fin_names"
  /\ rg' = UnregisterFlow(rg, th[t].f)
  /\ Goto(t, At(t, "fin_notify"))
  /\ UNCHANGED <<links, monitors, exits, ops>>

\* monitors.notify_target_exit
FinNotify(t) ==
  LET f == th[t].f IN
  /\ th[t].pc = "fin_notify"
  /\ mt' = NotifyTargetExit(mt, f)
  /\ Goto(t, [At(t, "fin_down") EXCEPT
                !.rows = {[id |-> m.id, flow |-> m.owner] : m \in MonitorsOf(mt, f)}])
  /\ UNCHANGED <<nextMonitor, monitorRefs, silenced>> /\ UNCHANGED <<links, rg, exits, ops>>

\* finalize's loops go through a table's rows in the order of their ids
IsNext(r, rows) == r \in rows /\ \A s \in rows : r.id <= s.id

\* deliver_down, one event
FinDown(t, r) ==
  /\ th[t].pc = "fin_down" /\ IsNext(r, th[t].rows)
  /\ Deliver(t, r.flow, Down(r.id), [th[t] EXCEPT !.rows = @ \ {r}])
  /\ UNCHANGED <<live, closed, trap, kill, restored>> /\ UNCHANGED <<links, monitors, rg, ops>>

\* links.remove_links_of
FinLinks(t) ==
  LET f == th[t].f IN
  /\ th[t].pc = "fin_down" /\ th[t].rows = {}
  /\ lt' = RemoveLinksOf(lt, f)
  /\ Goto(t, [At(t, "fin_peer") EXCEPT !.rows = PeersOf(lt, f)])
  /\ UNCHANGED <<nextLink, linkIds>> /\ UNCHANGED <<monitors, rg, exits, ops>>

\* one peer: trap_exits.is_enabled decides between an EXIT hop and a linked kill
FinPeer(t, r) ==
  LET l == [th[t] EXCEPT !.rows = @ \ {r}, !.to = r.flow] IN
  /\ th[t].pc = "fin_peer" /\ IsNext(r, th[t].rows)
  /\ Goto(t, CASE r.flow \in trap -> [l EXCEPT !.pc = "fin_exit"]
               [] r.flow \notin trap /\ l.reason # "normal" -> [l EXCEPT !.pc = "fin_kill"]
               [] r.flow \notin trap /\ l.reason = "normal" -> l)
  /\ UNCHANGED <<links, monitors, rg, exits, ops>>

\* deliver_exit
FinExit(t) ==
  /\ th[t].pc = "fin_exit"
  /\ Deliver(t, th[t].to, Exit(th[t].f), At(t, "fin_peer"))
  /\ UNCHANGED <<live, closed, trap, kill, restored>> /\ UNCHANGED <<links, monitors, rg, ops>>

\* collect_link_exit: signal the peer ...
FinKill(t) ==
  /\ th[t].pc = "fin_kill"
  /\ SetSignal(t, th[t].to, "link", At(t, "fin_take"), At(t, "fin_peer"))
  /\ UNCHANGED <<live, closed, trap, got, restored>> /\ UNCHANGED <<links, monitors, rg, ops>>

\* mutant of FinTake: a peer that is not parked goes on the work list as well
FinTakeAlways(t) ==
  LET l == [At(t, "fin_peer") EXCEPT !.work = Append(@, th[t].to)] IN
  /\ th[t].pc = "fin_take"
  /\ TakeParked(t, th[t].to, l, l)
  /\ UNCHANGED <<links, monitors, rg, exits, ops>>

\* ... and put it on the work list when it was parked
FinTake(t) ==
  /\ th[t].pc = "fin_take"
  /\ TakeParked(t, th[t].to, [At(t, "fin_peer") EXCEPT !.work = Append(@, th[t].to)],
                At(t, "fin_peer"))
  /\ UNCHANGED <<links, monitors, rg, exits, ops>>

\* the next flow of the work list, popped from the back, or back to the caller
FinNext(t) ==
  LET w == th[t].work IN
  /\ th[t].pc = "fin_peer" /\ th[t].rows = {}
  /\ Goto(t, CASE w # << >> -> [Finalizing(w[Len(w)], "link") EXCEPT
                                  !.work = SubSeq(w, 1, Len(w) - 1)]
               [] w = << >> /\ t \in closed -> At(t, "gone")
               [] w = << >> /\ t \notin closed -> Ready(t))
  /\ UNCHANGED <<links, monitors, rg, exits, ops>>

-----------------------------------------------------------------------------

Request(t) ==
  \/ \E f, g \in Flow : Link(t, f, g) \/ Monitor(t, f, g)
  \/ \E f \in Flow, id \in linkIds : Unlink(t, f, id)
  \/ \E f \in Flow, on \in BOOLEAN : SetTrap(t, f, on)
  \/ \E f \in Flow, id \in monitorRefs[t] : Demonitor(t, f, id)
  \/ \E f \in Flow : Register(t, f)
  \/ \E name \in Name : Unregister(t, name)
  \/ \E g \in Flow, reason \in Reason : Signal(t, g, reason)

Handler(t) ==
  \/ LinkInsert(t) \/ ConfirmA(t) \/ ConfirmB(t) \/ LinkUndo(t)
  \/ MonitorCreate(t) \/ MonitorCheck(t) \/ MonitorUndo(t) \/ MonitorDown(t)
  \/ \E name \in Name : RegisterInsert(t, name)
  \/ SignalSelf(t) \/ SignalTrap(t) \/ SignalExit(t) \/ KillSet(t) \/ KillTake(t)

Finalize(t) ==
  \/ FinClear(t) \/ FinUnregister(t) \/ FinOwned(t) \/ FinNames(t) \/ FinNotify(t)
  \/ FinLinks(t) \/ FinExit(t) \/ FinKill(t) \/ FinTake(t) \/ FinNext(t)
  \/ \E r \in th[t].rows : FinDown(t, r) \/ FinPeer(t, r)

FlowStep(f) ==
  \/ Quantum(f) \/ Yield(f) \/ Resume(f)
  \/ \E w \in Worker : Park(f, w)
  \/ \E reason \in {"normal", "fault"} : Complete(f, reason)

WorkerStep(w) == ParkCheck(w) \/ ParkTake(w) \/ ParkRestore(w)

Next ==
  \/ \E t \in Flow \cup Host : Request(t) \/ Handler(t)
  \/ \E t \in Thread : Finalize(t)
  \/ \E f \in Flow : FlowStep(f)
  \/ \E w \in Worker : WorkerStep(w)

Spec == Init /\ [][Next]_vars

\* No OS thread stops inside a handler, inside finalize or inside park_on_mailbox; a
\* runnable flow is driven, and a running one comes to the end of its quantum.  No flow
\* need ask for anything, park, or be resumed.
FairSpec ==
  /\ Spec
  /\ \A t \in Flow \cup Host : WF_vars(Handler(t))
  /\ \A t \in Thread : WF_vars(Finalize(t))
  /\ \A f \in Flow : WF_vars(Quantum(f)) /\ WF_vars(Yield(f))
  /\ \A w \in Worker : WF_vars(WorkerStep(w))

-----------------------------------------------------------------------------
(* Properties *)

HandlerPc == {"link_insert", "confirm_a", "confirm_b", "link_undo", "mon_create", "mon_check",
              "mon_undo", "mon_down", "reg_insert", "sig_self", "sig_trap", "sig_exit",
              "kill_set", "kill_take"}
ParkPc == {"park_check", "park_take", "park_restore"}
FinPc == {"fin_clear", "fin_unregister", "fin_owned", "fin_names", "fin_notify", "fin_down",
          "fin_peer", "fin_exit", "fin_kill", "fin_take"}

RowRec == [id : Nat, flow : Flow]

ThreadRec ==
  [pc : {"runnable", "ready", "parked", "taken", "gone"} \cup HandlerPc \cup ParkPc \cup FinPc,
   f : Thread, to : Thread, id : Nat, alive : BOOLEAN, reason : Reason,
   rows : SUBSET RowRec, work : Seq(Flow)]

\* Every variable stays in its range.
TypeOK ==
  /\ lt.links \subseteq [id : Nat, a : Flow, b : Flow]
  /\ mt.rows \subseteq [id : Nat, owner : Flow, target : Flow]
  /\ rg.names \subseteq [name : Name, flow : Flow]
  /\ live \subseteq Flow /\ closed \subseteq Flow /\ trap \subseteq Flow /\ restored \subseteq Flow
  /\ kill \in [Flow -> Reason \cup {"none"}]
  /\ got \in [Flow -> SUBSET ([kind : {"down"}, of : Nat] \cup [kind : {"exit"}, of : Flow])]
  /\ nextLink \in Nat \ {0} /\ nextMonitor \in Nat \ {0}
  /\ linkIds \subseteq Nat /\ silenced \subseteq Nat
  /\ monitorRefs \in [Thread -> SUBSET Nat]
  /\ ops \in 0..MaxOps
  /\ th \in [Thread -> ThreadRec]

\* "Three maps stay in lockstep" (link.rs:73-75, and the indexes of monitor.rs:142 and
\* registry.rs): whatever requests, roll-backs and exits interleave, an index has an
\* entry for a flow exactly when the record it stands for exists, a pair of flows has at
\* most one link and a name at most one flow.
IndexesAgree == LinksAgree(lt) /\ MonitorsAgree(mt) /\ NamesAgree(rg)

\* finalize of f has left the directory and has not swept f's links yet
SweepPending(f) ==
  \E t \in Thread : th[t].f = f /\ th[t].pc \in {"fin_owned", "fin_names", "fin_notify", "fin_down"}

\* lifecycle.md:52-55, link.rs:237-245: a link with a dead endpoint never stays.  Either
\* that endpoint's finalize is still to sweep it, or the thread that inserted it is still
\* to find out and roll it back.
NoZombieLink ==
  \A l \in lt.links : \A f \in {l.a, l.b} \ live :
    \/ SweepPending(l.a) \/ SweepPending(l.b)
    \/ \E t \in Thread :
         /\ th[t].id = l.id
         /\ \/ th[t].pc \in {"confirm_a", "link_undo"}
            \/ th[t].pc = "confirm_b" /\ (~th[t].alive \/ l.b \notin live)

\* runtime.rs:968-969: a monitor that Runtime::monitor returned on a target that is gone
\* is not left waiting for a DOWN nobody sends: the target's finalize has yet to collect it.
NoDeafMonitor ==
  \A h \in Host : \A m \in mt.rows :
    m.id \in monitorRefs[h] /\ m.target \notin live =>
      \E t \in Thread : th[t].f = m.target /\ th[t].pc \in {"fin_owned", "fin_names", "fin_notify"}

\* After a demonitor that succeeded, the owner never receives the DOWN of that monitor
\* (MonitorTable::remove_owned against notify_target_exit): no thread that collected
\* events before has it in hand, and no inbox gets it later.
DemonitorSilences ==
  \A id \in silenced :
    /\ \A f \in Flow : Down(id) \notin got[f]
    /\ \A t \in Thread : /\ ~(th[t].pc = "fin_down" /\ \E r \in th[t].rows : r.id = id)
                         /\ ~(th[t].pc \in {"mon_undo", "mon_down"} /\ th[t].id = id)

\* the flows thread t is finalizing or has queued for it
Doomed(t) == {th[t].work[i] : i \in DOMAIN th[t].work}
             \cup IF th[t].pc \in FinPc THEN {th[t].f} ELSE {}

\* A flow is finalized once, by one thread: while linked exits, kills and its own end
\* race for it, no two threads hold its box, no work list names it twice, and nobody
\* finalizes a flow that its own thread still runs.
FinalizedOnce ==
  /\ \A t, u \in Thread : t # u => Doomed(t) \cap Doomed(u) = {}
  /\ \A t \in Thread :
       /\ \A i, j \in DOMAIN th[t].work : i # j => th[t].work[i] # th[t].work[j]
       /\ th[t].pc \in FinPc => \A i \in DOMAIN th[t].work : th[t].work[i] # th[t].f
       /\ \A f \in Doomed(t) : f = t \/ th[f].pc = "taken"

\* lifecycle.md:41-50: an abnormal exit ends every linked flow or, if it traps, is told to
\* it.  Once finalize of f has swept the link to g, g is closed or gets f's EXIT, whether
\* g runs, parks or changes its trap flag meanwhile.  The one exception the code leaves is
\* a g that is resumed between the two halves of finalize_if_killed: its signal is put
\* back when g may have parked again (finalize.rs:133).
LinkedExitArrives ==
  \A f \in Flow : \A g \in Flow \ {f} :
    (\E t \in Thread : /\ th[t].pc = "fin_peer" /\ th[t].f = f /\ th[t].reason # "normal"
                       /\ \E r \in th[t].rows : r.flow = g)
    ~> (g \in closed \/ Exit(f) \in got[g] \/ g \in restored)

\* Links survive every race of requests, roll-backs and exits: the indexes agree with
\* the records and no link keeps a dead endpoint (link.rs, registry.rs, finalize.rs).
LinksSound == TypeOK /\ IndexesAgree /\ NoZombieLink

\* A monitor tells its owner what it promised: a DOWN when the target ends, and nothing
\* after a demonitor that succeeded (monitor.rs, runtime.rs).
MonitorsSound == NoDeafMonitor /\ DemonitorSilences
=============================================================================
