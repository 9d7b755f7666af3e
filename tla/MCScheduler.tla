---------------------------- MODULE MCScheduler ----------------------------
EXTENDS Scheduler

Op0(op) == [op |-> op, arg |-> 0]
Do(op, arg) == [op |-> op, arg |-> arg]

Scene(workers, prog, traps, roots, last, joined, mode) ==
    [workers |-> workers, prog |-> prog, traps |-> traps, roots |-> roots, last |-> last,
     join |-> joined, mode |-> mode]

Nothing == <<>>
NoTraps == <<0, 0, 0, 0>>

\* a batch, a thief, and flows that come back behind their siblings; nobody joins
Siblings == Scene(2, <<<<Op0("yield")>>, Nothing, Nothing, Nothing>>, NoTraps, <<1, 2, 3>>, "none", 4, "join")

\* a yielding flow, its worker and a thief at a shutdown
Pair == Scene(2, <<<<Op0("yield")>>, Nothing, Nothing, Nothing>>, NoTraps, <<1>>, "finish", 4, "join")

\* a receiver its parent hands a hop to, or finds on its way to the mailbox
Handoff == Scene(2, <<<<Do("spawn", 2), Do("send", 2)>>, <<Op0("receive")>>, Nothing, Nothing>>,
                 NoTraps, <<1>>, "none", 2, "deadline")

\* the same with a full deque: batches and hand-offs spill
Crowded == Scene(1, <<<<Do("send", 2)>>, <<Op0("receive")>>, Nothing, Nothing>>,
                 NoTraps, <<2, 1, 3, 4>>, "none", 2, "poll")

\* sleepers of different levels of the wheel
Sleepers == Scene(1, <<<<Do("sleep", 1), Do("sleep", 4)>>, <<Do("sleep", 3)>>, Nothing, Nothing>>,
                  NoTraps, <<1, 2>>, "none", 4, "join")

\* shutdown with a sleeper and two parked flows, each of whose exits wakes the next
Stranded == Scene(1, <<<<Op0("receive")>>, <<Op0("receive")>>, <<Do("sleep", 3)>>, Nothing>>,
                  <<2, 0, 1, 0>>, <<1, 2, 3>>, "finish", 2, "join")

\* the runtime is dropped on a worker
Dropped == Scene(1, <<<<Do("sleep", 8)>>, Nothing, Nothing, Nothing>>,
                 NoTraps, <<1, 2>>, "signal", 1, "join")

MCScenes == {Siblings, Pair, Handoff, Crowded, Sleepers, Stranded, Dropped}

=============================================================================
