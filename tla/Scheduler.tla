----------------------------- MODULE Scheduler -----------------------------
(***************************************************************************)
(* The threads of a runtime: the workers with their Chase-Lev deques and   *)
(* the injector they share (scheduler/worker.rs, runqueue.rs, runqueue/    *)
(* chase_lev.rs), the timer thread (timer.rs), the embedder's thread that  *)
(* spawns flows and shuts the runtime down (runtime.rs), and a thread that *)
(* joins a flow through its handle (oneshot.rs, handle.rs).                *)
(*                                                                         *)
(* A flow is its program: the effects its slices end in, then completion.  *)
(* What a hop carries, kills, quotas and host awaits are other modules'.   *)
(* A deque is stepped one atomic operation at a time, in a sequentially    *)
(* consistent order; two neighbouring operations of the owner that no      *)
(* stealer can tell apart are one step.                                    *)
(***************************************************************************)
EXTENDS TimerWheel

CONSTANTS
    Scenes,        \* bound: [prog: flow -> its effects; traps: flow -> the flows that trap its
                   \* exit; roots: the flows the embedder spawns; last: "none", "finish" or
                   \* "signal", how it ends the runtime; join: the flow that is joined; mode:
                   \* "join", "deadline" or "poll"; workers: the worker threads]
    Workers,       \* bound: worker threads of every scene
    Flows,         \* bound: flows of every scene
    LocalCap,      \* LOCAL_CAP, slots of a deque, at least 1
    InjectorBatch, \* INJECTOR_BATCH, at least 1
    MaxSpins,      \* steal attempts on one victim, at least 1
    MaxPasses,     \* passes of finalize_stranded, at least 1
    MaxAnswers     \* bound: answers of a handle that is asked again

ASSUME SchedulerAssumption ==
    {Workers, Flows, LocalCap, InjectorBatch, MaxSpins, MaxPasses, MaxAnswers, Slots, Levels, TickNs}
        \subseteq Nat \ {0}

VARIABLES
    scene,         \* the member of Scenes that is run
    born,          \* the flows spawn_on has made
    step,          \* flow -> effects of its program that are over
    inbox,         \* flow -> hops that wait in its mailbox
    parked,        \* flows inside a mailbox
    injector,      \* Injector::inner
    top, bottom,   \* worker -> the ends of its deque
    ring,          \* worker -> slot -> flow; a slot that was moved out keeps its bits
    th,            \* worker, or Host -> [pc; flow: it runs or ends; item: it pushes, or the copy it
                   \* steals; k: what follows; t: the top it loaded, or the flows a pass took; v:
                   \* the victim, or the source it drains; n: spins, or more notifications;
                   \* batch; pass]
    now,           \* the clock
    wheel,         \* the wheel
    timer,         \* the timer thread: [pc, due, until]
    stop,          \* [workers: Shared::shutdown, timer: TimerWheel::shutdown]
    slot,          \* flow -> the oneshot slot of its outcome
    outcome,       \* history: flow -> the outcome finalize_flow gave it, or "none"
    join           \* the joiner: [pc, answers]

flowVars == <<scene, born, step, inbox, parked>>
queueVars == <<injector, top, bottom, ring>>
timeVars == <<now, wheel, timer>>
endVars == <<slot, outcome, join>>
vars == <<flowVars, queueVars, th, timeVars, stop, endVars>>

Flow == 1..Flows
Worker == 1..Workers
Host == 0
Thread == Worker \cup {Host}

Idle(pc) == [pc |-> pc, flow |-> 0, item |-> 0, k |-> "", t |-> 0, v |-> 0, n |-> 0,
             batch |-> <<>>, pass |-> 0]

Init ==
    /\ scene \in Scenes
    /\ born = {} /\ parked = {} /\ injector = <<>>
    /\ step = [f \in Flow |-> 0] /\ inbox = [f \in Flow |-> 0]
    /\ top = [w \in Worker |-> 0] /\ bottom = [w \in Worker |-> 0]
    /\ ring = [w \in Worker |-> [i \in 0..(LocalCap - 1) |-> 0]]
    /\ th = [w \in Thread |-> Idle(IF w = Host THEN "next" ELSE IF w <= scene.workers THEN "find" ELSE "exited")]
    /\ now = 0 /\ wheel = EmptyWheel
    /\ timer = [pc |-> "top", due |-> <<>>, until |-> 0]
    /\ stop = [workers |-> FALSE, timer |-> FALSE]
    /\ slot = [f \in Flow |-> "Pending"] /\ outcome = [f \in Flow |-> "none"]
    /\ join = [pc |-> "idle", answers |-> <<>>]

-----------------------------------------------------------------------------
(* The deques and the injector.                                            *)

\* run_worker's loop condition, then the owner's half of pop: bottom - 1 is published.
\* On an empty deque no stealer can tell, and pop restores it
Find(w) ==
    /\ th[w].pc = "find"
    /\ IF stop.workers \/ bottom[w] = top[w]
         THEN th' = [th EXCEPT ![w] = Idle(IF stop.workers THEN "exited" ELSE "inject")] /\ UNCHANGED bottom
         ELSE th' = [th EXCEPT ![w].pc = "pop"] /\ bottom' = [bottom EXCEPT ![w] = @ - 1]
    /\ UNCHANGED <<flowVars, injector, top, ring, timeVars, stop, endVars>>

Take(w, f) == [Idle("run") EXCEPT !.flow = f]

\* mutant of PopTop: the last task is taken without the race for top
PopTopNoRace(w) ==
    LET b == bottom[w]  t == top[w]
    IN  /\ th[w].pc = "pop"
        /\ IF b < t
             THEN th' = [th EXCEPT ![w].pc = "inject"] /\ bottom' = [bottom EXCEPT ![w] = t]
             ELSE th' = [th EXCEPT ![w] = Take(w, ring[w][b % LocalCap])] /\ UNCHANGED bottom
        /\ UNCHANGED <<flowVars, injector, top, ring, timeVars, stop, endVars>>

\* the rest of pop: empty, a task nobody can reach, or the last one
PopTop(w) ==
    LET b == bottom[w]  t == top[w]
    IN  /\ th[w].pc = "pop"
        /\ IF b < t
             THEN th' = [th EXCEPT ![w].pc = "inject"] /\ bottom' = [bottom EXCEPT ![w] = t]
             ELSE /\ th' = [th EXCEPT ![w] = IF b > t THEN Take(w, ring[w][b % LocalCap])
                                             ELSE [@ EXCEPT !.pc = "popcas", !.t = t]]
                  /\ UNCHANGED bottom
        /\ UNCHANGED <<flowVars, injector, top, ring, timeVars, stop, endVars>>

PopCas(w) ==
    LET t == th[w].t
    IN  /\ th[w].pc = "popcas"
        /\ bottom' = [bottom EXCEPT ![w] = t + 1]
        /\ IF top[w] = t
             THEN /\ top' = [top EXCEPT ![w] = t + 1]
                  /\ th' = [th EXCEPT ![w] = Take(w, ring[w][t % LocalCap])]
             ELSE th' = [th EXCEPT ![w] = Idle("inject")] /\ UNCHANGED top
        /\ UNCHANGED <<flowVars, injector, ring, timeVars, stop, endVars>>

\* find_work's loop over the stealers; its own deque is empty
Victims(w) == {v \in Worker : v > th[w].v /\ v # w}
NextVictim(w) == IF Victims(w) = {} THEN Idle("wait") ELSE [Idle("steal") EXCEPT !.v = Min(Victims(w))]

\* take_injector: a batch under the lock; the oldest runs, the rest goes to the deque
Inject(w) ==
    LET n == Min({InjectorBatch, Len(injector)})
    IN  /\ th[w].pc = "inject"
        /\ injector' = SubSeq(injector, n + 1, Len(injector))
        /\ th' = [th EXCEPT ![w] =
               IF n = 0 THEN NextVictim(w)
               ELSE [Idle("spread") EXCEPT !.flow = Head(injector), !.batch = SubSeq(injector, 2, n)]]
        /\ UNCHANGED <<flowVars, top, bottom, ring, timeVars, stop, endVars>>

\* LocalQueue::push: full, the task is returned
Full(w) == bottom[w] - top[w] >= LocalCap

\* ... or stored at bottom, which is then published
PushLocal(w, f) ==
    /\ ring' = [ring EXCEPT ![w][bottom[w] % LocalCap] = f]
    /\ bottom' = [bottom EXCEPT ![w] = @ + 1]

\* the newest of the batch is pushed first, since the owner pops the newest; what does
\* not fit goes back to the injector and nobody is woken
Spread(w) ==
    LET r == th[w]
    IN  /\ r.pc = "spread"
        /\ IF r.batch = <<>> \/ Full(w) THEN UNCHANGED <<ring, bottom>> ELSE PushLocal(w, Last(r.batch))
        /\ th' = [th EXCEPT ![w] = CASE r.batch = <<>> -> Take(w, r.flow)
                                    [] r.batch # <<>> /\ ~Full(w) -> [r EXCEPT !.batch = Front(@)]
                                    [] OTHER -> [r EXCEPT !.pc = "spill", !.item = Last(r.batch),
                                                          !.batch = Front(@), !.k = "spread"]]
        /\ UNCHANGED <<flowVars, injector, top, timeVars, stop, endVars>>

\* enqueue_flow of the task push returned: enqueue_local then wakes a worker, and so
\* does the sender that called it
Spill(w) ==
    /\ th[w].pc = "spill"
    /\ injector' = Append(injector, th[w].item)
    /\ th' = [th EXCEPT ![w] = IF @.k = "spread" THEN [@ EXCEPT !.pc = "spread", !.item = 0, !.k = ""]
                               ELSE [@ EXCEPT !.pc = "wake", !.item = 0, !.n = 1]]
    /\ UNCHANGED <<flowVars, top, bottom, ring, timeVars, stop, endVars>>

\* wake_workers: one sleeping worker, if there is one; th[w].n more to go
Notified(ws) == [x \in Thread |-> IF x \in ws /\ th[x].pc = "asleep" THEN Idle("find") ELSE th[x]]
Wake(w) ==
    LET asleep == {x \in Worker : th[x].pc = "asleep"}
        next == IF th[w].n > 0 THEN [th[w] EXCEPT !.n = @ - 1] ELSE [th[w] EXCEPT !.pc = th[w].k, !.k = ""]
    IN  /\ th[w].pc = "wake"
        /\ \/ asleep = {} /\ th' = [th EXCEPT ![w] = next]
           \/ \E x \in asleep : th' = [Notified({x}) EXCEPT ![w] = next]
        /\ UNCHANGED <<flowVars, queueVars, timeVars, stop, endVars>>

\* top, then bottom: Empty as of the second load, which is when this step is taken
Steal(w) ==
    LET v == th[w].v
    IN  /\ th[w].pc = "steal"
        /\ th' = [th EXCEPT ![w] = IF top[v] >= bottom[v] THEN NextVictim(w)
                                   ELSE [@ EXCEPT !.pc = "stealread", !.t = top[v]]]
        /\ UNCHANGED <<flowVars, queueVars, timeVars, stop, endVars>>

\* the slot may have been taken, and written again, since
StealRead(w) ==
    /\ th[w].pc = "stealread"
    /\ th' = [th EXCEPT ![w] = [@ EXCEPT !.pc = "stealcas", !.item = ring[th[w].v][th[w].t % LocalCap]]]
    /\ UNCHANGED <<flowVars, queueVars, timeVars, stop, endVars>>

\* the bitwise copy is kept by the thread whose exchange succeeds
StealCas(w) ==
    LET v == th[w].v  t == th[w].t
    IN  /\ th[w].pc = "stealcas"
        /\ IF top[v] = t
             THEN top' = [top EXCEPT ![v] = t + 1] /\ th' = [th EXCEPT ![w] = Take(w, @.item)]
             ELSE /\ th' = [th EXCEPT ![w] = IF @.n + 1 >= MaxSpins THEN NextVictim(w)
                                             ELSE [@ EXCEPT !.pc = "steal", !.item = 0, !.n = @ + 1]]
                  /\ UNCHANGED top
        /\ UNCHANGED <<flowVars, injector, bottom, ring, timeVars, stop, endVars>>

\* wait_for_work: the flag is read under the lock every notification is sent under
WaitForWork(w) ==
    /\ th[w].pc = "wait"
    /\ th' = [th EXCEPT ![w] = Idle(IF stop.workers THEN "find" ELSE "asleep")]
    /\ UNCHANGED <<flowVars, queueVars, timeVars, stop, endVars>>

\* mutant of WaitTimeout: the wait is unbounded
WaitForever(w) == FALSE /\ UNCHANGED vars

\* the wait of 50 ms is over; one that finds nothing to do only goes back to it
WaitTimeout(w) ==
    /\ th[w].pc = "asleep"
    /\ stop.workers \/ injector # <<>> \/ \E v \in Worker : top[v] # bottom[v]
    /\ th' = [th EXCEPT ![w] = Idle("find")]
    /\ UNCHANGED <<flowVars, queueVars, timeVars, stop, endVars>>

-----------------------------------------------------------------------------
(* A slice of a flow and the effect it ends in (drive_process).             *)

Op(f) == IF step[f] < Len(scene.prog[f]) THEN scene.prog[f][step[f] + 1] ELSE [op |-> "complete"]
Advance(f) == step' = [step EXCEPT ![f] = @ + 1]
Runs(w, op) == th[w].pc = "run" /\ ~stop.workers /\ Op(th[w].flow).op = op

\* Complete, or the check of the flag at the head of the loop
Finish(w) ==
    LET f == th[w].flow
    IN  /\ th[w].pc = "run"
        /\ \/ stop.workers /\ outcome' = [outcome EXCEPT ![f] = "shutdown"]
           \/ Runs(w, "complete") /\ outcome' = [outcome EXCEPT ![f] = "ok"]
        /\ th' = [th EXCEPT ![w].pc = IF scene.traps[f] = 0 THEN "complete" ELSE "end"]
        /\ UNCHANGED <<flowVars, queueVars, timeVars, stop, slot, join>>

\* Yield: behind the siblings if the deque has some (has_tasks), else straight back
\* onto it, which then has room
Yield(w) ==
    LET f == th[w].flow
    IN  /\ Runs(w, "yield")
        /\ Advance(f)
        /\ IF bottom[w] - top[w] > 0
             THEN /\ injector' = Append(injector, f)
                  /\ th' = [th EXCEPT ![w] = [Idle("wake") EXCEPT !.k = "find"]]
                  /\ UNCHANGED <<ring, bottom>>
             ELSE /\ PushLocal(w, f)
                  /\ th' = [th EXCEPT ![w] = Idle("find")]
                  /\ UNCHANGED injector
        /\ UNCHANGED <<scene, born, inbox, parked, top, timeVars, stop, endVars>>

\* Sleep: TimerWheel::push, under the wheel's lock, with its notification
Sleep(w) ==
    LET f == th[w].flow
    IN  /\ Runs(w, "sleep")
        /\ timer.pc # "locked"
        /\ Advance(f)
        /\ wheel' = insert(wheel, [deadline |-> deadline_from_now(now, Op(f).arg), flow |-> f])
        /\ timer' = [timer EXCEPT !.pc = IF @ = "waiting" THEN "top" ELSE @]
        /\ th' = [th EXCEPT ![w] = Idle("find")]
        /\ UNCHANGED <<scene, born, inbox, parked, queueVars, now, stop, endVars>>

\* Receive: a hop that is there is taken
Receive(w) ==
    LET f == th[w].flow
    IN  /\ Runs(w, "receive")
        /\ IF inbox[f] > 0
             THEN inbox' = [inbox EXCEPT ![f] = @ - 1] /\ Advance(f) /\ UNCHANGED th
             ELSE th' = [th EXCEPT ![w].pc = "park"] /\ UNCHANGED <<inbox, step>>
        /\ UNCHANGED <<scene, born, parked, queueVars, timeVars, stop, endVars>>

\* park_on_mailbox: a hop that came meanwhile sends the flow to the injector
Park(w) ==
    LET f == th[w].flow
    IN  /\ th[w].pc = "park"
        /\ Advance(f)
        /\ IF inbox[f] > 0
             THEN /\ inbox' = [inbox EXCEPT ![f] = @ - 1]
                  /\ injector' = Append(injector, f)
                  /\ th' = [th EXCEPT ![w] = [Idle("wake") EXCEPT !.k = "find"]]
                  /\ UNCHANGED parked
             ELSE /\ parked' = parked \cup {f}
                  /\ th' = [th EXCEPT ![w] = Idle("find")]
                  /\ UNCHANGED <<inbox, injector>>
        /\ UNCHANGED <<scene, born, top, bottom, ring, timeVars, stop, endVars>>

\* Send: a parked receiver is handed the hop and goes to this worker's deque
Send(w) ==
    LET f == th[w].flow  g == Op(f).arg
    IN  /\ Runs(w, "send")
        /\ Advance(f)
        /\ parked' = parked \ {g}
        /\ inbox' = [inbox EXCEPT ![g] = IF g \in born \ parked /\ outcome[g] = "none" THEN @ + 1 ELSE @]
        /\ IF g \in parked /\ ~Full(w) THEN PushLocal(w, g) ELSE UNCHANGED <<ring, bottom>>
        /\ th' = [th EXCEPT ![w] = CASE g \notin parked -> @
                                    [] g \in parked /\ Full(w) -> [@ EXCEPT !.pc = "spill", !.item = g, !.k = "run"]
                                    [] OTHER -> [@ EXCEPT !.pc = "wake", !.k = "run"]]
        /\ UNCHANGED <<scene, born, injector, top, timeVars, stop, endVars>>

\* spawn_on: the flow goes to the injector and a worker is woken
SpawnOn(w, g, k) ==
    /\ born' = born \cup {g}
    /\ injector' = Append(injector, g)
    /\ th' = [th EXCEPT ![w].pc = "wake", ![w].k = k]

Spawn(w) ==
    LET f == th[w].flow
    IN  /\ Runs(w, "spawn")
        /\ Advance(f)
        /\ SpawnOn(w, Op(f).arg, "run")
        /\ UNCHANGED <<scene, inbox, parked, top, bottom, ring, timeVars, stop, endVars>>

-----------------------------------------------------------------------------
(* finalize_flow, as the run queues and the joiner see it.                  *)

\* deliver_exit to the peer that traps the exit: parked, it goes to the injector
HandOff(w) ==
    LET g == scene.traps[th[w].flow]
    IN  /\ th[w].pc = "end"
        /\ IF g \in parked
             THEN /\ parked' = parked \ {g} /\ injector' = Append(injector, g)
                  /\ th' = [th EXCEPT ![w].pc = "wake", ![w].k = "complete"]
                  /\ UNCHANGED inbox
             ELSE /\ inbox' = [x \in Flow |-> IF x = g /\ g \in born /\ outcome[g] = "none"
                                              THEN inbox[x] + 1 ELSE inbox[x]]
                  /\ th' = [th EXCEPT ![w].pc = "complete"]
                  /\ UNCHANGED <<parked, injector>>
        /\ UNCHANGED <<scene, born, step, top, bottom, ring, timeVars, stop, endVars>>

\* Sender::send: the value is stored under the lock
Complete(w) ==
    /\ th[w].pc = "complete"
    /\ slot' = [slot EXCEPT ![th[w].flow] = outcome[th[w].flow]]
    /\ th' = [th EXCEPT ![w] = [@ EXCEPT !.pc = "notify", !.item = th[w].flow, !.flow = 0]]
    /\ UNCHANGED <<flowVars, queueVars, timeVars, stop, outcome, join>>

\* ... and the joiner is notified after it is released
JoinerWoken(fs) == [join EXCEPT !.pc = IF @ = "waiting" /\ scene.join \in fs THEN "idle" ELSE @]

\* mutant of Notify: the joiner is left to find out by itself
NotifySilent(w) ==
    /\ th[w].pc = "notify"
    /\ th' = [th EXCEPT ![w] = IF w = Host THEN [@ EXCEPT !.pc = "sweep", !.item = 0] ELSE Idle("find")]
    /\ UNCHANGED <<flowVars, queueVars, timeVars, stop, endVars>>

Notify(w) ==
    /\ th[w].pc = "notify"
    /\ join' = JoinerWoken({th[w].item})
    /\ th' = [th EXCEPT ![w] = IF w = Host THEN [@ EXCEPT !.pc = "sweep", !.item = 0] ELSE Idle("find")]
    /\ UNCHANGED <<flowVars, queueVars, timeVars, stop, slot, outcome>>

-----------------------------------------------------------------------------
(* The joiner: FlowHandle over Receiver.                                    *)

\* collect of a slot that is not Pending: an outcome is handed out once
collect(s) ==
    [answer |-> IF s = "Taken" THEN "AlreadyCollected" ELSE s,
     slot |-> IF s = "Abandoned" THEN s ELSE "Taken"]

Answered(f) ==
    /\ slot[f] # "Pending"
    /\ join' = [pc |-> "idle", answers |-> Append(join.answers, collect(slot[f]).answer)]
    /\ slot' = [slot EXCEPT ![f] = collect(slot[f]).slot]

\* a handle that survives its answer may be asked again
Asks(mode) ==
    /\ scene.mode = mode /\ scene.join \in born
    /\ Len(join.answers) < IF mode = "join" THEN 1 ELSE MaxAnswers

\* join, over wait_forever
Join ==
    /\ Asks("join") /\ join.pc = "idle"
    /\ \/ Answered(scene.join)
       \/ slot[scene.join] = "Pending" /\ join' = [join EXCEPT !.pc = "waiting"] /\ UNCHANGED slot
    /\ UNCHANGED <<flowVars, queueVars, th, timeVars, stop, outcome>>

\* join_deadline, asked again when it gives up; "late" is its last look at the slot
JoinDeadline ==
    /\ Asks("deadline") /\ join.pc \in {"idle", "late"}
    /\ \/ Answered(scene.join)
       \/ /\ slot[scene.join] = "Pending" /\ UNCHANGED slot
          /\ join' = [join EXCEPT !.pc = IF @ = "idle" THEN "waiting" ELSE "idle"]
    /\ UNCHANGED <<flowVars, queueVars, th, timeVars, stop, outcome>>

\* try_join: None of a Pending slot changes nothing
TryJoin ==
    /\ Asks("poll") /\ Answered(scene.join)
    /\ UNCHANGED <<flowVars, queueVars, th, timeVars, stop, outcome>>

\* the deadline has passed
JoinTimeout ==
    /\ scene.mode = "deadline" /\ join.pc = "waiting"
    /\ join' = [join EXCEPT !.pc = "late"]
    /\ UNCHANGED <<flowVars, queueVars, th, timeVars, stop, slot, outcome>>

-----------------------------------------------------------------------------
(* The timer thread (TimerWheel::drive, fire).                              *)

\* the wheel is locked, then the flag is read under a lock of its own
TimerTop ==
    /\ timer.pc = "top"
    /\ timer' = [timer EXCEPT !.pc = IF stop.timer THEN "exited" ELSE "locked"]
    /\ UNCHANGED <<flowVars, queueVars, th, now, wheel, stop, endVars>>

\* what is due leaves the wheel; when nothing is, the wait gives the lock back
TimerCollect ==
    LET c == collect_due(wheel, now)
    IN  /\ timer.pc = "locked"
        /\ wheel' = c.w
        /\ timer' = IF c.due # <<>> THEN [pc |-> "fire", due |-> c.due, until |-> 0]
                    ELSE [pc |-> "waiting", due |-> <<>>, until |-> next_deadline(c.w)]
        /\ UNCHANGED <<flowVars, queueVars, th, now, stop, endVars>>

\* the deadline it waits for has passed, or the 250 ms without one; that wait only
\* matters once the flag is up
TimerWait ==
    /\ timer.pc = "waiting"
    /\ IF timer.until = NoTime THEN stop.timer ELSE timer.until <= now
    /\ timer' = [timer EXCEPT !.pc = "top", !.until = 0]
    /\ UNCHANGED <<flowVars, queueVars, th, now, wheel, stop, endVars>>

TimerFire ==
    /\ timer.pc = "fire"
    /\ injector' = Append(injector, Head(timer.due).flow)
    /\ timer' = [timer EXCEPT !.pc = "fired", !.due = Tail(@)]
    /\ UNCHANGED <<flowVars, top, bottom, ring, th, now, wheel, stop, endVars>>

TimerNotify ==
    /\ timer.pc = "fired"
    /\ th' = Notified(Worker)
    /\ timer' = [timer EXCEPT !.pc = IF timer.due = <<>> THEN "top" ELSE "fire"]
    /\ UNCHANGED <<flowVars, queueVars, now, wheel, stop, endVars>>

\* time passes while something is timed
Tick ==
    /\ Entries(wheel) # {} /\ now < MaxInstant
    /\ now' = now + 1
    /\ UNCHANGED <<flowVars, queueVars, th, wheel, timer, stop, endVars>>

-----------------------------------------------------------------------------
(* The embedder's thread: spawns, then Runtime::finish, or a drop of the    *)
(* runtime on a worker, which only signals.                                 *)

Roots == scene.roots

HostSpawn ==
    /\ th[Host].pc = "next"
    /\ \E i \in DOMAIN Roots :
          /\ Roots[i] \notin born /\ \A j \in 1..(i - 1) : Roots[j] \in born
          /\ SpawnOn(Host, Roots[i], "next")
    /\ UNCHANGED <<scene, step, inbox, parked, top, bottom, ring, timeVars, stop, endVars>>

\* request_shutdown, in three steps: the flags, the timer's condvar, the workers'
RequestShutdown ==
    /\ th[Host].pc = "next" /\ ToSet(Roots) \subseteq born /\ scene.last # "none"
    /\ stop' = [workers |-> TRUE, timer |-> TRUE]
    /\ th' = [th EXCEPT ![Host].pc = "notifytimer"]
    /\ UNCHANGED <<flowVars, queueVars, timeVars, endVars>>

NotifyTimer ==
    /\ th[Host].pc = "notifytimer"
    /\ timer' = [timer EXCEPT !.pc = IF @ = "waiting" THEN "top" ELSE @]
    /\ th' = [th EXCEPT ![Host].pc = "notifyworkers"]
    /\ UNCHANGED <<flowVars, queueVars, now, wheel, stop, endVars>>

NotifyWorkers ==
    /\ th[Host].pc = "notifyworkers"
    /\ th' = [Notified(Worker) EXCEPT ![Host].pc = IF scene.last = "finish" THEN "joining" ELSE "dropped"]
    /\ UNCHANGED <<flowVars, queueVars, timeVars, stop, endVars>>

ThreadsExited == timer.pc = "exited" /\ \A w \in Worker : th[w].pc = "exited"

\* finalize_stranded begins once the workers and the timer are joined: the
\* sleepers first.  Sources: 1 the injector, then the deques, then the mailboxes
BeginStranded ==
    /\ th[Host].pc = "joining" /\ ThreadsExited
    /\ th' = [th EXCEPT ![Host] = [Idle("sweep") EXCEPT !.batch = drain_sleepers(wheel), !.pass = 1]]
    /\ wheel' = EmptyWheel
    /\ UNCHANGED <<flowVars, queueVars, now, timer, stop, endVars>>

\* finalize_shutdown_flow of the next flow that was taken
SweepNext ==
    LET h == th[Host]
    IN  /\ h.pc = "sweep" /\ h.batch # <<>>
        /\ th' = [th EXCEPT ![Host] = [h EXCEPT !.pc = "end", !.flow = Head(h.batch), !.batch = Tail(@)]]
        /\ outcome' = [outcome EXCEPT ![Head(h.batch)] = "shutdown"]
        /\ UNCHANGED <<flowVars, queueVars, timeVars, stop, slot, join>>

\* the live tasks of a deque, oldest first
Live(w) == [i \in 1..(bottom[w] - top[w]) |-> ring[w][(top[w] + i - 1) % LocalCap]]

Boxes == Workers + 1        \* the last source: the mailboxes

\* the next source is drained, counted in t
SweepSource ==
    LET h == th[Host]  v == h.v + 1
        taken == IF v = 1 THEN injector ELSE Live(v - 1)
    IN  /\ h.pc = "sweep" /\ h.batch = <<>> /\ v <= Boxes
        /\ th' = [th EXCEPT ![Host] = [h EXCEPT !.batch = taken, !.t = @ + Len(taken), !.v = v]]
        /\ injector' = IF v = 1 THEN <<>> ELSE injector
        /\ top' = IF v = 1 THEN top ELSE [top EXCEPT ![v - 1] = bottom[v - 1]]
        /\ UNCHANGED <<flowVars, bottom, ring, timeVars, stop, endVars>>

\* take_parked of the next mailbox of the snapshot
SweepBox ==
    LET h == th[Host]  f == h.v + 1 - Boxes
    IN  /\ h.pc = "sweep" /\ h.batch = <<>> /\ f \in Flow
        /\ parked' = parked \ {f}
        /\ th' = [th EXCEPT ![Host] = [h EXCEPT !.v = @ + 1, !.batch = IF f \in parked THEN <<f>> ELSE <<>>,
                                                !.t = IF f \in parked THEN @ + 1 ELSE @]]
        /\ UNCHANGED <<scene, born, step, inbox, queueVars, timeVars, stop, endVars>>

\* mutant of SweepAgain: one pass is thought to be enough
SweepOnce ==
    LET h == th[Host]
    IN  /\ h.pc = "sweep" /\ h.batch = <<>> /\ h.v = Boxes + Flows
        /\ th' = [th EXCEPT ![Host] = Idle("done")]
        /\ UNCHANGED <<flowVars, queueVars, timeVars, stop, endVars>>

\* the end of a pass: another one if it took a flow
SweepAgain ==
    LET h == th[Host]
    IN  /\ h.pc = "sweep" /\ h.batch = <<>> /\ h.v = Boxes + Flows
        /\ th' = [th EXCEPT ![Host] = IF h.t = 0 \/ h.pass = MaxPasses THEN Idle("done")
                                      ELSE [Idle("sweep") EXCEPT !.pass = h.pass + 1]]
        /\ UNCHANGED <<flowVars, queueVars, timeVars, stop, endVars>>

\* the last thread has dropped Shared: the queues and the wheel drop their flows, and
\* Sender::drop declares their slots Abandoned.  A flow inside its mailbox holds
\* the mailbox, which holds the flow: neither is dropped
DropShared ==
    LET gone == {f \in born \ parked : slot[f] = "Pending"}
    IN  /\ th[Host].pc = "dropped" /\ ThreadsExited
        /\ slot' = [f \in Flow |-> IF f \in gone THEN "Abandoned" ELSE slot[f]]
        /\ join' = JoinerWoken(gone)
        /\ injector' = <<>> /\ wheel' = EmptyWheel
        /\ top' = bottom
        /\ th' = [th EXCEPT ![Host] = Idle("done")]
        /\ UNCHANGED <<flowVars, bottom, ring, now, timer, stop, outcome>>

-----------------------------------------------------------------------------
WorkerStep(w) ==
    \/ Find(w) \/ PopTop(w) \/ PopCas(w) \/ Inject(w) \/ Spread(w) \/ Spill(w)
    \/ Steal(w) \/ StealRead(w) \/ StealCas(w) \/ WaitForWork(w) \/ WaitTimeout(w)
    \/ Finish(w) \/ Yield(w) \/ Sleep(w) \/ Receive(w) \/ Park(w) \/ Send(w) \/ Spawn(w)
EndStep(w) == Wake(w) \/ HandOff(w) \/ Complete(w) \/ Notify(w)
TimerStep == TimerTop \/ TimerCollect \/ TimerWait \/ TimerFire \/ TimerNotify
HostStep ==
    \/ HostSpawn \/ RequestShutdown \/ NotifyTimer \/ NotifyWorkers \/ BeginStranded
    \/ SweepNext \/ SweepSource \/ SweepBox \/ SweepAgain \/ DropShared
JoinStep == Join \/ JoinDeadline \/ TryJoin

Next ==
    \/ \E w \in Worker : WorkerStep(w)
    \/ \E w \in Thread : EndStep(w)
    \/ TimerStep \/ HostStep \/ JoinStep \/ JoinTimeout \/ Tick

\* every thread keeps running, a bounded wait ends, and time passes
Fairness ==
    /\ \A w \in Worker : WF_vars(WorkerStep(w) \/ EndStep(w))
    /\ WF_vars(HostStep \/ EndStep(Host))
    /\ WF_vars(TimerStep) /\ WF_vars(JoinStep) /\ WF_vars(Tick)

Spec == Init /\ [][Next]_vars /\ Fairness

-----------------------------------------------------------------------------
(* Properties.                                                              *)

\* The state keeps its types; a deque never holds more than its ring, also while its
\* owner and a stealer race for the last task.
TypeOK ==
    /\ born \subseteq Flow /\ parked \subseteq born
    /\ injector \in Seq(Flow) /\ timer.due \in Seq([deadline : 0..MaxInstant, flow : Flow])
    /\ \A w \in Worker : bottom[w] - top[w] \in -1..LocalCap /\ top[w] >= 0
    /\ \A w \in Thread : th[w].flow \in 0..Flows /\ th[w].batch \in Seq(Flow)
    /\ \A f \in Flow : /\ inbox[f] \in Nat /\ step[f] \in 0..Len(scene.prog[f])
                       /\ slot[f] \in {"Pending", "ok", "shutdown", "Abandoned", "Taken"}
    /\ join.pc \in {"idle", "waiting", "late"} /\ now \in 0..MaxInstant

\* the indices of a deque that hold a task: while the owner pops, bottom is already
\* below the one it wants
LiveIndex(w) == top[w]..(IF th[w].pc \in {"pop", "popcas"} THEN bottom[w] ELSE bottom[w] - 1)

\* everywhere flow f is held, a stealer's copy not counted until its exchange succeeds
Places(f) ==
    {<<"injector", i>> : i \in {j \in DOMAIN injector : injector[j] = f}}
    \cup UNION {{<<"deque", w, i>> : i \in {j \in LiveIndex(w) : ring[w][j % LocalCap] = f}} : w \in Worker}
    \cup {<<"flow", w>> : w \in {x \in Thread : th[x].flow = f}}
    \cup {<<"item", w>> : w \in {x \in Thread : th[x].pc = "spill" /\ th[x].item = f}}
    \cup UNION {{<<"batch", w, i>> : i \in {j \in DOMAIN th[w].batch : th[w].batch[j] = f}} : w \in Thread}
    \cup {<<"wheel", e.deadline>> : e \in {x \in Entries(wheel) : x.flow = f}}
    \cup {<<"due", i>> : i \in {j \in DOMAIN timer.due : timer.due[j].flow = f}}
    \cup (IF f \in parked THEN {<<"mailbox">>} ELSE {})

\* A flow that is alive is held in exactly one place and one that is over in none, however
\* the owner of a deque, its stealers, the timer and the senders interleave: no flow is
\* lost between two queues and none can run on two workers (the `Safety` arguments of
\* chase_lev.rs, and the moves of Box<Flow> between them).
OneOwner ==
    \A f \in Flow : Cardinality(Places(f)) =
        IF f \in born /\ slot[f] = "Pending" THEN 1 ELSE 0

\* At every instant from now on the wheel gives exactly the entries that are due,
\* earliest first, keeps the rest, and says when the next one is: what the grid of
\* buckets and their cached deadlines stand for, wherever the cursor was when each entry
\* was inserted (Wheel::insert, collect_due, next_deadline).
WheelIsExact ==
    \A at \in now..MaxInstant :
        LET c == collect_due(wheel, at)
            due == {e \in Entries(wheel) : e.deadline <= at}
        IN  /\ ToSet(c.due) = due /\ Len(c.due) = Cardinality(due)
            /\ \A i, j \in DOMAIN c.due : i < j => c.due[i].deadline <= c.due[j].deadline
            /\ Entries(c.w) = Entries(wheel) \ due
            /\ next_deadline(c.w) = Min({NoTime} \cup {e.deadline : e \in Entries(c.w)})

\* The joiner is told the outcome the flow ended with, once, and "already collected"
\* afterwards; Abandoned only when the runtime was dropped without finalizing the flow
\* (oneshot.rs: collect, Sender::send, Sender::drop).
JoinIsExact ==
    \A i \in DOMAIN join.answers :
        CASE join.answers[i] = "Abandoned" -> scene.last = "signal" /\ outcome[scene.join] = "none"
          [] join.answers[i] = "AlreadyCollected" -> i > 1
          [] OTHER -> i = 1 /\ join.answers[i] = outcome[scene.join]

\* When finish returns, every flow that was ever spawned has an outcome: what slept, was
\* queued, was held by a worker or waited in a mailbox when the flag was set, and the
\* flows their exits woke during the sweep (finalize_stranded).
ShutdownLeavesNoFlow ==
    th[Host].pc = "done" /\ scene.last = "finish" => \A f \in born : slot[f] # "Pending"

\* While the runtime runs, every flow that was spawned comes to its end: a runnable flow
\* is found by a worker even when its notification was lost, a sleeper wakes, a handed-off
\* receiver runs (programs here yield finitely often).
EveryFlowEnds ==
    scene.last = "none" ~> \A f \in born \cup ToSet(scene.roots) : slot[f] # "Pending"

\* A joiner of a flow that is over gets its answer (Sender::send, Sender::drop and the
\* loop of wait_forever).
JoinReturns == slot[scene.join] # "Pending" ~> join.answers # <<>>

\* finish returns: the workers and the timer see the flag, whatever they were waiting for
\* (request_shutdown, wait_for_work, TimerWheel::drive; the timer may first wait for its
\* next deadline).
ShutdownEnds == stop.workers ~> th[Host].pc = "done"

\* Every flow has one owner while it lives, and the queues keep their shape.
FlowsOwned == TypeOK /\ OneOwner

\* Every flow that was spawned gets an outcome, and its joiner gets that one, once.
OutcomesExact == JoinIsExact /\ ShutdownLeavesNoFlow

\* No host call waits for ever: join of a flow that is over, and finish.
HostReturns == JoinReturns /\ ShutdownEnds
=============================================================================
