----------------------------- MODULE Supervisor -----------------------------
(***************************************************************************)
(* A supervisor (scheduler/supervisor.rs, flow_supervisor.rs): the drive   *)
(* thread that takes exits off the event queue and restarts children, the  *)
(* host that starts children and stops the supervisor, and the finalizers  *)
(* that end flows on the workers: the directory, then names and event.     *)
(*                                                                         *)
(* Locks: `events` is held by the drive thread at "take",                  *)
(* `children` by the thread in tableLock.  The cascade slot, the restart   *)
(* marks and the intensity flag are written by the drive thread alone.     *)
(***************************************************************************)
EXTENDS Naturals, Sequences, FiniteSets, Functions

CONSTANTS
    Children,      \* the child specs, 1..n in start order
    Named,         \* the specs with a name
    Strategies,    \* the strategies to check
    Exits,         \* the <<outcome, restart policy>> a flow may end with
    MaxFlows,      \* bound: incarnations; the ids run out after that (FlowIdExhausted)
    MaxRestarts,   \* SupervisorConfig::max_restarts
    Period,        \* SupervisorConfig::max_period, in ticks
    MaxTime,       \* bound: ticks of the clock
    Drive,         \* the drive thread
    Host           \* the host's thread

ASSUME SupervisorAssumption ==
    /\ Children = 1..Cardinality(Children) /\ Named \subseteq Children
    /\ Strategies \subseteq {"OneForOne", "OneForAll", "RestForOne"}
    /\ {MaxFlows, MaxRestarts, Period, MaxTime} \subseteq Nat
    /\ Drive # Host

VARIABLES
    strategy,      \* config.strategy
    flow,          \* per incarnation [st, child, killed, exit]
    registry,      \* the registered names: <<child, flow>>
    events,        \* exits waiting for the drive loop: <<flow, outcome, policy>>
    signalled,     \* the drive thread was woken in its condvar wait
    children,      \* ChildTable in start order: [id, child, expected]
    tableLock,     \* who holds the children mutex
    cascade,       \* [on, waiting, specs]
    times,         \* restart_times
    exceeded,      \* intensity_exceeded
    shutdown,      \* the shutdown flag
    now,           \* Instant::now when it was last read, by intensity_hit
    waves,         \* history: when a restart wave was let through
    th             \* per thread [pc, todo, kills, id]

rest == <<strategy, now>>
slot == <<cascade, times, exceeded, waves>>
vars == <<strategy, flow, registry, events, signalled, children, tableLock, cascade, times,
          exceeded, shutdown, now, waves, th>>

Flow == 1..MaxFlows
Thread == {Drive, Host}
NoCascade == [on |-> FALSE, waiting |-> {}, specs |-> <<>>]
NoExit == <<"none", "none">>
Blank == [st |-> "none", child |-> 0, killed |-> FALSE, exit |-> NoExit]

Goto(t, r) == th' = [th EXCEPT ![t] = r]
Step(t, pc) == Goto(t, [th[t] EXCEPT !.pc = pc])
AtTop == [pc |-> "top", todo |-> <<>>, kills |-> <<>>, id |-> 0]

Init ==
    /\ strategy \in Strategies
    /\ flow = [f \in Flow |-> Blank]
    /\ registry = {} /\ events = <<>> /\ signalled = FALSE
    /\ children = <<>> /\ tableLock = "free"
    /\ cascade = NoCascade /\ times = <<>> /\ exceeded = FALSE
    /\ shutdown = FALSE /\ now = 0 /\ waves = <<>>
    /\ th = [t \in Thread |-> IF t = Drive THEN AtTop
                              ELSE [AtTop EXCEPT !.pc = "respawn", !.todo = [i \in 1..Cardinality(Children) |-> i]]]

\* Vec::remove and Vec::insert, at a place counted from one
RemoveAt(s, i) == SubSeq(s, 1, i - 1) \o SubSeq(s, i + 1, Len(s))
InsertAt(s, i, e) == SubSeq(s, 1, i - 1) \o <<e>> \o SubSeq(s, i, Len(s))

InDirectory(f) == flow[f].st \in {"run", "parked", "taken", "ending"}

-----------------------------------------------------------------------------
(* The supervised flows.                                                   *)

Park(f) ==
    /\ flow[f].st = "run" /\ ~flow[f].killed
    /\ flow' = [flow EXCEPT ![f].st = "parked"]
    /\ UNCHANGED <<rest, slot, registry, events, signalled, children, tableLock, shutdown, th>>

Wake(f) ==
    /\ flow[f].st = "parked"
    /\ flow' = [flow EXCEPT ![f].st = "run"]
    /\ UNCHANGED <<rest, slot, registry, events, signalled, children, tableLock, shutdown, th>>

\* the flow ends by itself
Exit(f) ==
    /\ flow[f].st = "run"
    /\ \E e \in Exits : flow' = [flow EXCEPT ![f] = [@ EXCEPT !.st = "ending", !.exit = e, !.killed = FALSE]]
    /\ UNCHANGED <<rest, slot, registry, events, signalled, children, tableLock, shutdown, th>>

\* the worker finds the kill signal at the edge of a quantum
ExitKilled(f) ==
    /\ flow[f].st = "run" /\ flow[f].killed
    /\ flow' = [flow EXCEPT ![f] = [@ EXCEPT !.st = "ending", !.exit = <<"Failed", "OnFailure">>,
                                           !.killed = FALSE]]
    /\ UNCHANGED <<rest, slot, registry, events, signalled, children, tableLock, shutdown, th>>

\* finalize_one up to directory.unregister
FinDirectory(f) ==
    /\ flow[f].st \in {"ending", "taken"}
    /\ flow' = [flow EXCEPT ![f].st = "unregistered"]
    /\ UNCHANGED <<rest, slot, registry, events, signalled, children, tableLock, shutdown, th>>

\* mutant of notify: the exit is queued and nobody is woken
notify_silent(f) ==
    /\ flow[f].st = "unregistered"
    /\ th[Drive].pc # "take"
    /\ flow' = [flow EXCEPT ![f] = [Blank EXCEPT !.st = "gone"]]
    /\ registry' = {r \in registry : r[2] # f}
    /\ events' = Append(events, <<f, flow[f].exit[1], flow[f].exit[2]>>)
    /\ UNCHANGED <<rest, slot, signalled, children, tableLock, shutdown, th>>

\* the rest of finalize_one: the names, then SupervisorLink::notify
notify(f) ==
    /\ flow[f].st = "unregistered"
    /\ th[Drive].pc # "take"
    /\ flow' = [flow EXCEPT ![f] = [Blank EXCEPT !.st = "gone"]]
    /\ registry' = {r \in registry : r[2] # f}
    /\ events' = Append(events, <<f, flow[f].exit[1], flow[f].exit[2]>>)
    /\ signalled' = (signalled \/ th[Drive].pc = "wait")
    /\ UNCHANGED <<rest, slot, children, tableLock, shutdown, th>>

\* request_kill on f by t: a parked flow is taken and ended by t itself, at `wait`;
\* one that is running gets the signal
request_kill(t, f, wait, next) ==
    /\ flow' = CASE flow[f].st = "parked" ->
                      [flow EXCEPT ![f].st = "taken", ![f].exit = <<"Failed", "OnFailure">>]
                 [] flow[f].st = "run" -> [flow EXCEPT ![f].killed = TRUE]
                 [] OTHER -> flow
    /\ Goto(t, IF flow[f].st = "parked" THEN [next EXCEPT !.pc = wait, !.id = f] ELSE next)

-----------------------------------------------------------------------------
(* spawn_child, by the host and by the drive thread.                       *)

FreshFlows == {f \in Flow : flow[f].st = "none"}
Lowest(S) == CHOOSE f \in S : \A g \in S : f <= g
Row(f, c) == [id |-> f, child |-> c, expected |-> FALSE]

\* mutant of SpawnLinked: the child's row is left to a later step
SpawnWithoutRow(t) ==
    /\ th[t].pc = "respawn" /\ th[t].todo # <<>> /\ ~(t = Drive /\ exceeded)
    /\ tableLock = "free" /\ FreshFlows # {}
    /\ flow' = [flow EXCEPT ![Lowest(FreshFlows)] = [Blank EXCEPT !.st = "run", !.child = Head(th[t].todo)]]
    /\ Goto(t, [th[t] EXCEPT !.todo = Tail(@)])
    /\ UNCHANGED <<children, tableLock, rest, slot, registry, events, signalled, shutdown>>

\* under the children lock: spawn_linked, then the child's row
SpawnLinked(t) ==
    /\ th[t].pc = "respawn" /\ th[t].todo # <<>> /\ ~(t = Drive /\ exceeded)
    /\ tableLock = "free"
    /\ LET next == [th[t] EXCEPT !.todo = Tail(@)]
           c == Head(th[t].todo)
           f == Lowest(FreshFlows)
       IN  \/ /\ FreshFlows = {}
              /\ Goto(t, next)
              /\ UNCHANGED <<flow, children, tableLock>>
           \/ /\ FreshFlows # {}
              /\ flow' = [flow EXCEPT ![f] = [Blank EXCEPT !.st = "run", !.child = c]]
              /\ children' = Append(children, Row(f, c))
              /\ Goto(t, IF c \in Named THEN [next EXCEPT !.pc = "name", !.id = f] ELSE next)
              /\ tableLock' = IF c \in Named THEN "held" ELSE "free"
    /\ UNCHANGED <<rest, slot, registry, events, signalled, shutdown>>

\* register_child_name: a name that is taken ends the child it was for
RegisterChild(t) ==
    /\ th[t].pc = "name"
    /\ LET f == th[t].id
           c == flow[f].child
           back == [th[t] EXCEPT !.pc = "respawn", !.id = 0]
       IN  \/ /\ \A r \in registry : r[1] # c
              /\ registry' = registry \cup {<<c, f>>}
              /\ tableLock' = "free" /\ Goto(t, back)
              /\ UNCHANGED <<flow, children>>
           \/ /\ \E r \in registry : r[1] = c
              /\ children' = [i \in DOMAIN children |->
                                IF children[i].id = f THEN [children[i] EXCEPT !.expected = TRUE]
                                ELSE children[i]]
              /\ request_kill(t, f, "undo", back)
              /\ tableLock' = IF flow[f].st = "parked" THEN "held" ELSE "free"
              /\ UNCHANGED registry
    /\ UNCHANGED <<rest, slot, events, signalled, shutdown>>

\* the child whose name was refused is finalized by this thread
Undone(t) ==
    /\ th[t].pc = "undo" /\ flow[th[t].id].st = "gone"
    /\ tableLock' = "free"
    /\ Goto(t, [th[t] EXCEPT !.pc = "respawn", !.id = 0])
    /\ UNCHANGED <<rest, slot, flow, registry, events, signalled, children, shutdown>>

\* the host has started its children; the drive thread has respawned its own, or
\* finish_cascade stops at the intensity limit
Spawned(t) ==
    /\ th[t].pc = "respawn"
    /\ th[t].todo = <<>> \/ (t = Drive /\ exceeded)
    /\ Goto(t, [AtTop EXCEPT !.pc = IF t = Drive THEN "top" ELSE "serve"])
    /\ UNCHANGED <<rest, slot, flow, registry, events, signalled, children, tableLock, shutdown>>

-----------------------------------------------------------------------------
(* drive.                                                                  *)

\* the flag is read before the lock and under it
Top ==
    /\ th[Drive].pc = "top"
    /\ Step(Drive, IF shutdown THEN "stopped" ELSE "take")
    /\ UNCHANGED <<rest, slot, flow, registry, events, signalled, children, tableLock, shutdown>>

\* pop_front, or wait on the condvar, which releases the lock
Take ==
    /\ th[Drive].pc = "take"
    /\ IF events = <<>>
       THEN Step(Drive, "wait") ELSE Step(Drive, "handle")
    /\ UNCHANGED <<rest, slot, flow, registry, events, signalled, children, tableLock, shutdown>>

Woken ==
    /\ th[Drive].pc = "wait" /\ signalled
    /\ signalled' = FALSE
    /\ Step(Drive, "top")
    /\ UNCHANGED <<rest, slot, flow, registry, events, children, tableLock, shutdown>>

should_restart(policy, outcome) ==
    policy = "Always" \/ (policy = "OnFailure" /\ outcome = "Failed")

\* mutant of prune_restart_window: a window that reaches past the start of the
\* clock has no mark in it
prune_all_early(ts, t) ==
    IF t < Period THEN <<>> ELSE SelectSeq(ts, LAMBDA x : x >= t - Period)

\* prune_restart_window: drop the marks before now - max_period
prune_restart_window(ts, t) ==
    IF t < Period THEN ts ELSE SelectSeq(ts, LAMBDA x : x >= t - Period)

\* intensity_hit: record the wave, then compare
Marks(t) == prune_restart_window(Append(times, t), t)
IntensityHit(t) == Len(Marks(t)) > MaxRestarts

RowsOf(f) == {i \in DOMAIN children : children[i].id = f}

\* on_cascade_progress, and finish_cascade when it was the last one
Progress(f) ==
    LET left == cascade.waiting \ {f}
    IN  IF cascade.on /\ left = {}
        THEN /\ cascade' = NoCascade
             /\ Goto(Drive, [AtTop EXCEPT !.pc = "respawn", !.todo = cascade.specs])
        ELSE /\ cascade' = [cascade EXCEPT !.waiting = left]
             /\ Goto(Drive, AtTop)

\* the siblings the strategy ends, in start order, once the row is gone
Later(i) ==
    LET left == RemoveAt(children, i)
    IN  CASE strategy = "OneForAll" -> [j \in DOMAIN left |-> left[j].id]
          [] strategy = "RestForOne" -> [j \in 1..(Len(left) - i + 1) |-> left[j + i - 1].id]
          [] OTHER -> <<>>

\* handle_exit.  `id` keeps the failed row's place, `todo` its spec, `kills` later
handle_exit ==
    /\ th[Drive].pc = "handle" /\ tableLock = "free"
    /\ events' = Tail(events)
    /\ LET ev == Head(events)
           f == ev[1]
           i == CHOOSE j \in RowsOf(f) : TRUE
           row == children[i]
           quiet == Goto(Drive, AtTop) /\ UNCHANGED <<cascade, waves>>
           same == UNCHANGED <<times, exceeded, now>>
       IN  IF RowsOf(f) = {}
           THEN quiet /\ same /\ UNCHANGED children
           ELSE
           /\ children' = RemoveAt(children, i)
           /\ \/ /\ row.expected
                 /\ Progress(f)
                 /\ same /\ UNCHANGED waves
              \/ /\ ~row.expected /\ (~should_restart(ev[3], ev[2]) \/ exceeded)
                 /\ quiet /\ same
              \/ /\ ~row.expected /\ should_restart(ev[3], ev[2]) /\ ~exceeded
                 /\ now' \in now..MaxTime
                 /\ times' = Marks(now') /\ exceeded' = IntensityHit(now')
                 /\ IF exceeded' \/ cascade.on THEN quiet
                    ELSE /\ waves' = Append(waves, now')
                         /\ Goto(Drive, [pc |-> IF strategy = "OneForOne" THEN "respawn" ELSE "cascade",
                                         todo |-> <<row.child>>, kills |-> Later(i), id |-> i])
                         /\ UNCHANGED cascade
    /\ UNCHANGED <<strategy, flow, registry, signalled, tableLock, shutdown>>

\* start_cascade: mark the siblings and publish the cascade
start_cascade ==
    /\ th[Drive].pc = "cascade" /\ tableLock = "free"
    /\ LET later == th[Drive].kills
           marked == Range(later)
           found == SelectSeq(children, LAMBDA r : r.id \in marked)
           specs == [j \in DOMAIN found |-> found[j].child]
           at == IF strategy = "OneForAll" THEN th[Drive].id ELSE 1
       IN  /\ children' = [j \in DOMAIN children |->
                             IF children[j].id \in marked THEN [children[j] EXCEPT !.expected = TRUE]
                             ELSE children[j]]
           /\ IF at > Len(specs) + 1
              THEN Goto(Drive, AtTop) /\ UNCHANGED cascade
              ELSE /\ cascade' = [on |-> TRUE, waiting |-> marked,
                                  specs |-> InsertAt(specs, at, Head(th[Drive].todo))]
                   /\ Goto(Drive, [AtTop EXCEPT !.pc = "kill", !.kills = later])
    /\ UNCHANGED <<rest, flow, registry, events, signalled, tableLock, times, exceeded, waves, shutdown>>

KillNext ==
    /\ th[Drive].pc = "kill" /\ th[Drive].kills # <<>>
    /\ request_kill(Drive, Head(th[Drive].kills), "finalize", [th[Drive] EXCEPT !.kills = Tail(@)])
    /\ UNCHANGED <<rest, slot, registry, events, signalled, children, tableLock, shutdown>>

Finalized ==
    /\ th[Drive].pc = "finalize" /\ flow[th[Drive].id].st = "gone"
    /\ Goto(Drive, [th[Drive] EXCEPT !.pc = "kill", !.id = 0])
    /\ UNCHANGED <<rest, slot, flow, registry, events, signalled, children, tableLock, shutdown>>

\* mutant of Prune: the flows that are already gone are still waited for, though
\* none of them will be heard of again
PruneNothing ==
    /\ th[Drive].pc = "kill" /\ th[Drive].kills = <<>>
    /\ Goto(Drive, AtTop)
    /\ UNCHANGED <<cascade, rest, times, exceeded, waves, flow, registry, events, signalled, children,
                   tableLock, shutdown>>

\* the end of start_cascade: who is gone is not waited for
Prune ==
    /\ th[Drive].pc = "kill" /\ th[Drive].kills = <<>>
    /\ LET left == {f \in cascade.waiting : InDirectory(f)}
       IN  IF left = {}
           THEN /\ cascade' = NoCascade
                /\ Goto(Drive, [AtTop EXCEPT !.pc = "respawn", !.todo = cascade.specs])
           ELSE /\ cascade' = [cascade EXCEPT !.waiting = left]
                /\ Goto(Drive, AtTop)
    /\ UNCHANGED <<rest, times, exceeded, waves, flow, registry, events, signalled, children,
                   tableLock, shutdown>>

-----------------------------------------------------------------------------
(* stop_drive.                                                             *)

StopFlag ==
    /\ th[Host].pc = "serve"
    /\ shutdown' = TRUE
    /\ Step(Host, "notify")
    /\ UNCHANGED <<rest, slot, flow, registry, events, signalled, children, tableLock>>

\* notify_all, without the events lock
StopNotify ==
    /\ th[Host].pc = "notify"
    /\ signalled' = (signalled \/ th[Drive].pc = "wait")
    /\ Step(Host, "join")
    /\ UNCHANGED <<rest, slot, flow, registry, events, children, tableLock, shutdown>>

Join ==
    /\ th[Host].pc = "join" /\ th[Drive].pc = "stopped"
    /\ Step(Host, "done")
    /\ UNCHANGED <<rest, slot, flow, registry, events, signalled, children, tableLock, shutdown>>

DriveStep ==
    \/ Top \/ Take \/ Woken \/ handle_exit \/ start_cascade \/ KillNext \/ Finalized \/ Prune
ChildStep(t) == SpawnLinked(t) \/ RegisterChild(t) \/ Undone(t) \/ Spawned(t)
FinalizeStep(f) == FinDirectory(f) \/ notify(f)

Next ==
    \/ DriveStep \/ StopFlag \/ StopNotify \/ Join
    \/ \E t \in Thread : ChildStep(t)
    \/ \E f \in Flow : Park(f) \/ Wake(f) \/ Exit(f) \/ ExitKilled(f) \/ FinalizeStep(f)

Spec == Init /\ [][Next]_vars

\* the drive thread, the workers' finalizers and a kill at the edge of a quantum
Fairness ==
    /\ WF_vars(DriveStep)
    /\ WF_vars(StopNotify) /\ WF_vars(Join)
    /\ \A t \in Thread : WF_vars(ChildStep(t))
    /\ \A f \in Flow : WF_vars(FinalizeStep(f)) /\ WF_vars(ExitKilled(f))

FairSpec == Spec /\ Fairness

-----------------------------------------------------------------------------
(* Properties.                                                             *)

Queued(f) == \E i \in DOMAIN events : events[i][1] = f

\* The state has its type, and the children mutex is held exactly while a child
\* waits for its name or its end.
TypeOK ==
    /\ \A f \in Flow : flow[f].st \in {"none", "run", "parked", "taken", "ending", "unregistered",
                                       "gone"}
    /\ tableLock \in {"free", "held"}
    /\ tableLock = "held" <=> \E t \in Thread : th[t].pc \in {"name", "undo"}
    /\ \A t, u \in Thread : {th[t].pc, th[u].pc} \subseteq {"name", "undo"} => t = u

\* An exit finds the row of its child: spawn_child holds the table across the
\* spawn, so a child that faults in its first quantum is never handled before its
\* row exists, and no exit is delivered twice.
ExitFindsItsRow ==
    th[Drive].pc = "handle" /\ tableLock = "free" => RowsOf(Head(events)[1]) # {}

\* Every row is the row of a child whose exit is still to come: no child ends
\* without its row being taken out (supervisor.rs, SupervisorLink::notify).
NoGhostRow ==
    \A i \in DOMAIN children :
        flow[children[i].id].st = "gone" => Queued(children[i].id)

\* A cascade waits only for children that were told to end and whose exit the drive
\* loop has not handled, so their exits will finish it (start_cascade's prune).
CascadeWaitsForTheEnding ==
    \A f \in cascade.waiting :
        /\ \E i \in RowsOf(f) : children[i].expected
        /\ flow[f].st = "gone" => Queued(f)

\* Restart waves stay under the intensity: no window of max_period holds more than
\* max_restarts of them, also before the clock is one period old
\* (prune_restart_window).
WavesBounded ==
    \A i \in DOMAIN waves :
        Cardinality({j \in DOMAIN waves : waves[j] \in waves[i]..(waves[i] + Period)}) <= MaxRestarts

\* A child's exit is handled unless the supervisor is stopped: the event queue and
\* its condvar lose no wakeup (SupervisorLink::notify, drive).
ExitIsHandled ==
    \A f \in Flow : (flow[f].st = "gone") ~> (RowsOf(f) = {} \/ shutdown)

\* A cascade that was started comes to its respawns unless the supervisor is
\* stopped (start_cascade, on_cascade_progress, finish_cascade).
CascadeEnds ==
    cascade.on ~> (~cascade.on \/ shutdown)

\* The table of children is exact whenever the drive loop reads it: an exit finds its
\* row, no row outlives its child, and a cascade waits only for children that will end.
ChildrenExact == TypeOK /\ ExitFindsItsRow /\ NoGhostRow /\ CascadeWaitsForTheEnding
=============================================================================
