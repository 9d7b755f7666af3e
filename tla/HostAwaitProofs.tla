-------------------------- MODULE HostAwaitProofs --------------------------
(***************************************************************************)
(* Proofs about HostAwait, for any flows, workers, killers, tickets, inbox *)
(* capacity and policy.  The inductive invariant has five layers: Types;   *)
(* Own, which thread has which flow; Heard, what a recorded failure leaves *)
(* behind; Clean, when a flow has lost its tickets; and Removed, what the  *)
(* one removal of a ticket decides.                                        *)
(***************************************************************************)
EXTENDS HostAwait, Integers, TLAPS

\* a leaf is left to Zenon unless it names SMT
USE ZenonT(40)

-----------------------------------------------------------------------------
(* Types *)

\* the worker drives the flow; a thread ends a flow; its outcome is chosen
Driving == {"start", "startkill", "loop", "ran", "dispatch", "submit", "dropped", "submitted",
            "awaitkill", "park"}
Ending == {"message", "seal", "endkill", "endtickets", "endbox", "unregister", "tell"}
Sealing == Ending \ {"message"}

\* the positions at which a thread's f is a flow
OnFlow == Driving \cup Ending \cup {"clear", "look", "retake", "restore", "deliver", "push",
            "lookup", "request", "extract", "signal", "takeparked", "canceltickets", "close"}
Pcs == OnFlow \cup {"idle", "work", "take", "end", "flagged", "join", "sweep", "drain", "ending",
            "visit", "down"}

Outcomes == {"none", "completed", "host", "killed", "fault", "shutdown"}
Kinds == {"none", "complete", "trap", "yield", "await", "receive", "value", "badcap", "error",
          "queue", "box"}

ThreadRec == [pc : Pcs, f : Flow \cup {NoFlow}, tk : Nat, kind : Kinds, out : Outcomes,
              work : SUBSET Flow, took : {0, 1}]

Threads ==
  /\ th \in [Thread -> ThreadRec]
  /\ \A t \in Thread : th[t].pc \in OnFlow => th[t].f \in Flow

Tables ==
  /\ inbox \in [Flow -> [q : Seq(Ticket), closed : BOOLEAN]]
  /\ outcome \in [Flow -> Outcomes] /\ told \subseteq Flow
  /\ hops \in [Ticket -> Nat]

Types == TypeOK /\ Tables /\ Threads

-----------------------------------------------------------------------------
(* Which thread has which flow *)

\* a flow's own thread drives or ends it exactly while the flow is running
FlowThread(f) ==
  /\ th[f].f = f
  /\ th[f].pc \in {"idle", "clear"} \cup Driving \cup Ending
  /\ box[f] = "running" <=> th[f].pc \in Driving \cup Ending

\* any other thread ends only a flow it has taken out of its inbox or its queue, and puts
\* back only a signal it has taken; finalize_stranded ends what it drained before it visits
OtherThread(t) ==
  /\ th[t].pc \notin Driving
  /\ th[t].pc \in Ending => box[th[t].f] = "held"
  /\ th[t].pc \in {"retake", "restore"} => th[t].out \in {"killed", "fault"}
  /\ th[t].pc = "ending" => th[t].kind = "queue"
  /\ th[t].pc \in {"visit", "close"} => th[t].kind # "queue"

\* the flows a pass of finalize_stranded has taken and not begun to end
Drained == IF th[Main].kind = "queue" THEN th[Main].work ELSE {}

Own ==
  /\ \A f \in Flow : FlowThread(f)
  /\ \A t \in Thread \ Flow : OtherThread(t)
  /\ \A t, u \in Thread \ Flow :
       th[t].pc \in Ending /\ th[u].pc \in Ending /\ th[t].f = th[u].f => t = u
  /\ \A f \in Drained :
       box[f] = "held" /\ \A t \in Thread : th[t].pc \in Ending => th[t].f # f
  /\ \A t \in Thread : th[t].pc = "clear" => box[th[t].f] = "done"
  /\ \A f \in Flow : box[f] = "done" <=> outcome[f] # "none"

\* a thread that ends a flow completes it only when no failure was recorded, and a
\* recorded failure is in its slot until somebody ends the flow
Heard ==
  /\ \A t \in Thread : th[t].pc \in Sealing =>
       /\ th[t].out # "none"
       /\ th[t].out = "completed" => slot[th[t].f].settled /\ th[t].f \notin told
  /\ \A f \in told :
       /\ outcome[f] # "completed"
       /\ outcome[f] = "none" =>
            slot[f].failed \/ \E t \in Thread : th[t].pc \in Sealing /\ th[t].f = f

\* tickets are cancelled before the inbox is closed, and none is registered after
Clean ==
  /\ \A f \in Flow : outcome[f] # "none" => aw.byFlow[f] = {}
  /\ \A t \in Thread : th[t].pc \in {"endbox", "unregister", "tell"} => aw.byFlow[th[t].f] = {}

\* a ticket is in the index, cancelled, or its completer's, which then delivers at most once
Removed ==
  /\ \A t \in Ticket : aw.byTicket[t] # NoFlow => t < aw.next /\ t \notin cancelled
  /\ \A t \in cancelled : t < aw.next
  /\ \A t \in Ticket :
       /\ th[t].pc # "idle" => t < aw.next
       /\ th[t].pc \in {"deliver", "push"} => aw.byTicket[t] = NoFlow /\ t \notin cancelled
       /\ th[t].pc \in {"idle", "work", "take", "deliver", "push"} => hops[t] = 0
  /\ \A f \in Flow : th[f].pc = "submit" =>
       th[f].tk \in Ticket /\ th[f].tk < aw.next /\ th[th[f].tk].pc = "idle"
  /\ \A f, g \in Flow : th[f].pc = "submit" /\ th[g].pc = "submit" /\ th[f].tk = th[g].tk => f = g

IInv == Types /\ Own /\ Heard /\ Clean /\ Removed

-----------------------------------------------------------------------------
(* The shapes of a step *)

\* A thread's record is replaced.
LEMMA GotoFacts ==
  ASSUME Threads, NEW t \in Thread, NEW r \in ThreadRec, r.pc \in OnFlow => r.f \in Flow,
         Goto(t, r)
  PROVE  Threads' /\ th'[t] = r /\ \A u \in Thread : u # t => th'[u] = th[u]
BY DEF Goto, Threads

LEMMA PcFacts ==
  ASSUME NEW r \in ThreadRec, NEW p \in Pcs
  PROVE  /\ [r EXCEPT !.pc = p] \in ThreadRec
         /\ [r EXCEPT !.pc = p].pc = p /\ [r EXCEPT !.pc = p].f = r.f
         /\ [r EXCEPT !.pc = p].tk = r.tk /\ [r EXCEPT !.pc = p].kind = r.kind
         /\ [r EXCEPT !.pc = p].out = r.out /\ [r EXCEPT !.pc = p].work = r.work
BY DEF ThreadRec

\* A thread goes to another position and keeps its locals.
LEMMA StepFacts ==
  ASSUME Threads, NEW t \in Thread, NEW p \in Pcs, p \in OnFlow => th[t].f \in Flow, Step(t, p)
  PROVE  /\ Threads' /\ \A u \in Thread : u # t => th'[u] = th[u]
         /\ th'[t].pc = p /\ th'[t].f = th[t].f /\ th'[t].tk = th[t].tk
         /\ th'[t].kind = th[t].kind /\ th'[t].out = th[t].out /\ th'[t].work = th[t].work
<1> DEFINE r == [th[t] EXCEPT !.pc = p]
<1>1. th[t] \in ThreadRec
  BY DEF Threads
<1>2. /\ r \in ThreadRec /\ r.pc = p /\ r.f = th[t].f /\ r.tk = th[t].tk
      /\ r.kind = th[t].kind /\ r.out = th[t].out /\ r.work = th[t].work
  BY <1>1, PcFacts
<1>3. Goto(t, r)
  BY DEF Step
<1> HIDE DEF r
<1> QED
  BY <1>2, <1>3, GotoFacts

\* the record of a thread with nothing but a position and a flow
At(p, f) ==
  [pc |-> p, f |-> f, tk |-> 0, kind |-> "none", out |-> "none", work |-> {}, took |-> 0]

LEMMA AtFacts ==
  ASSUME NEW p \in Pcs, NEW f \in Flow \cup {NoFlow}
  PROVE  /\ At(p, f) \in ThreadRec /\ At(p, f).pc = p /\ At(p, f).f = f /\ At(p, f).tk = 0
         /\ At(p, f).kind = "none" /\ At(p, f).out = "none" /\ At(p, f).work = {}
BY DEF At, ThreadRec, Kinds, Outcomes

\* The thread goes to a position with nothing but a flow.
LEMMA GoAt ==
  ASSUME Threads, NEW t \in Thread, NEW p \in Pcs, NEW f \in Flow \cup {NoFlow},
         p \in OnFlow => f \in Flow, Goto(t, At(p, f))
  PROVE  Threads' /\ th'[t].pc = p /\ th'[t].f = f /\ \A u \in Thread : u # t => th'[u] = th[u]
<1>1. At(p, f) \in ThreadRec
  BY AtFacts
<1>2. At(p, f).pc = p /\ At(p, f).f = f
  BY DEF At
<1>3. Threads' /\ th'[t] = At(p, f) /\ \A u \in Thread : u # t => th'[u] = th[u]
  BY <1>1, <1>2, GotoFacts
<1> QED
  BY <1>2, <1>3

LEMMA ReadyAt ==
  ASSUME NEW p, NEW f
  PROVE  [Ready EXCEPT !.pc = p, !.f = f] = At(p, f)
<1> DEFINE r == [Ready EXCEPT !.pc = p]
<1>1. r = At(p, NoFlow)
  BY SMTT(30) DEF Ready, At
<1>2. [Ready EXCEPT !.pc = p, !.f = f] = [r EXCEPT !.f = f]
  OBVIOUS
<1> HIDE DEF r
<1>3. [r EXCEPT !.f = f] = At(p, f)
  BY <1>1, SMTT(30) DEF At
<1> QED
  BY <1>2, <1>3

\* The thread begins to end a flow with the outcome it has chosen.
LEMMA FinalizeFacts ==
  ASSUME Threads, NEW t \in Thread, NEW f \in Flow, NEW out \in Outcomes, Finalize(t, f, out)
  PROVE  /\ Threads' /\ \A u \in Thread : u # t => th'[u] = th[u]
         /\ th'[t].pc = "seal" /\ th'[t].f = f /\ th'[t].out = out
         /\ th'[t].kind = th[t].kind /\ th'[t].work = th[t].work /\ th'[t].tk = th[t].tk
<1> DEFINE r == [th[t] EXCEPT !.pc = "seal", !.f = f, !.out = out]
<1>1. /\ r \in ThreadRec /\ r.pc = "seal" /\ r.f = f /\ r.out = out
      /\ r.kind = th[t].kind /\ r.work = th[t].work /\ r.tk = th[t].tk
  <2>1. th[t] \in ThreadRec /\ "seal" \in Pcs
    BY DEF Threads, Pcs, OnFlow, Ending
  <2> QED
    BY <2>1 DEF ThreadRec
<1>2. Goto(t, r)
  BY DEF Finalize
<1> HIDE DEF r
<1> QED
  BY <1>1, <1>2, GotoFacts

\* The thread has nothing left to do.
LEMMA LeaveFacts ==
  ASSUME Threads, NEW t \in Thread, Leave(t), t = Main => th[Main].f \in Flow
  PROVE  /\ Threads' /\ \A u \in Thread : u # t => th'[u] = th[u]
         /\ t \in Flow => th'[t].pc = "idle" /\ th'[t].f = t
         /\ t \in Parker => th'[t].pc = "idle"
         /\ t \in Killer \cup Ticket => th'[t].pc = "end"
         /\ t = Main => /\ th'[t].pc = IF th[t].kind = "queue" THEN "ending" ELSE "close"
                        /\ th'[t].kind = th[t].kind /\ th'[t].work = th[t].work
                        /\ th'[t].f = th[t].f
<1>1. CASE t \in Flow
  <2>1. Goto(t, At("idle", t))
    BY <1>1, SMTT(30) DEF Leave, Ready, At
  <2> QED
    BY <1>1, <2>1, AtFacts, GotoFacts, Names, SMTT(30) DEF Pcs, OnFlow, Driving, Ending
<1>2. CASE t \in Parker
  <2>1. Goto(t, At("idle", NoFlow))
    BY <1>2, Names DEF Leave, Ready, At
  <2> QED
    BY <1>2, <2>1, AtFacts, GotoFacts, Names, SMTT(30) DEF Pcs, OnFlow, Driving, Ending
<1>3. CASE t \in Killer \cup Ticket
  <2>1. Goto(t, At("end", NoFlow))
    BY <1>3, Names, SMTT(30) DEF Leave, Ready, At
  <2> QED
    BY <1>3, <2>1, AtFacts, GotoFacts, Names, SMTT(30) DEF Pcs, OnFlow, Driving, Ending
<1>4. CASE t = Main
  <2>1. Step(t, IF th[t].kind = "queue" THEN "ending" ELSE "close")
    BY <1>4, Names DEF Leave, Step
  <2>2. "ending" \in Pcs /\ "close" \in Pcs
    BY DEF Pcs, OnFlow
  <2> QED
    BY <1>4, <2>1, <2>2, StepFacts, Names
<1> QED
  BY <1>1, <1>2, <1>3, <1>4 DEF Thread

-----------------------------------------------------------------------------
(* What a step leaves alone.  One thread moves; each lemma says which moves *)
(* cannot disturb a layer of the invariant.                                *)

Moves(t) == Threads' /\ \A u \in Thread : u # t => th'[u] = th[u]

\* the thread has the flow it had, and begins or finishes no end
KeepsFlow(t) ==
  /\ t \in Flow => /\ th'[t].f = t
                   /\ th'[t].pc \in {"idle", "clear"} \cup Driving \cup Ending
                   /\ th'[t].pc \in Driving \cup Ending <=> th[t].pc \in Driving \cup Ending
  /\ t \notin Flow => /\ th'[t].pc \notin Driving
                      /\ th'[t].pc \in Ending => th[t].pc \in Ending /\ th'[t].f = th[t].f
                      /\ th'[t].pc \in {"retake", "restore"} => th'[t].out \in {"killed", "fault"}
                      /\ th'[t].pc = "ending" => th'[t].kind = "queue"
                      /\ th'[t].pc \in {"visit", "close"} => th'[t].kind # "queue"
  /\ th'[t].pc # "clear"
  /\ t = Main => th'[t].kind # "queue" \/ (th'[t].kind = th[t].kind /\ th'[t].work = th[t].work)

LEMMA KeepsOwn ==
  ASSUME Types, Own, NEW t \in Thread, Moves(t), KeepsFlow(t), UNCHANGED <<box, outcome>>
  PROVE  Own'
<1>1. \A f \in Flow : FlowThread(f)'
  BY SMTT(30) DEF Own, FlowThread, Moves, KeepsFlow, Thread
<1>2. \A u \in Thread \ Flow : OtherThread(u)'
  BY SMTT(30) DEF Own, OtherThread, Moves, KeepsFlow
<1>3. \A u, v \in Thread \ Flow :
        th'[u].pc \in Ending /\ th'[v].pc \in Ending /\ th'[u].f = th'[v].f => u = v
  BY SMTT(30) DEF Own, Moves, KeepsFlow
<1>4. Drained' \subseteq Drained
  BY DEF Drained, Moves, KeepsFlow, Thread
<1>5. ASSUME NEW f \in Drained'
      PROVE  box'[f] = "held" /\ \A u \in Thread : th'[u].pc \in Ending => th'[u].f # f
  <2>1. box[f] = "held" /\ \A u \in Thread : th[u].pc \in Ending => th[u].f # f
    BY <1>4, <1>5 DEF Own
  <2>2. f \in Flow
    BY <1>4, <1>5 DEF Drained, Types, Threads, ThreadRec, Thread
  <2>3. ASSUME NEW u \in Thread, th'[u].pc \in Ending, th'[u].f = f
        PROVE  FALSE
    <3>1. u = t
      BY <2>1, <2>3 DEF Moves
    <3>2. t \in Flow /\ t = f
      BY <2>1, <2>3, <3>1 DEF KeepsFlow
    <3>3. th[t].pc \in Driving \cup Ending
      BY <2>3, <3>1, <3>2 DEF KeepsFlow
    <3>4. box[f] = "running"
      BY <3>2, <3>3 DEF Own, FlowThread
    <3> QED
      BY <2>1, <3>4
  <2> QED
    BY <2>1, <2>3
<1>6. \A u \in Thread : th'[u].pc = "clear" => box'[th'[u].f] = "done"
  BY SMTT(30) DEF Own, Moves, KeepsFlow
<1> QED
  BY <1>1, <1>2, <1>3, <1>5, <1>6 DEF Own

\* the thread keeps the outcome it has chosen, or chooses one that is no success
KeepsOutcome(t) ==
  /\ th'[t].pc \in Sealing =>
       /\ th'[t].out # "none"
       /\ th'[t].out = "completed" => th[t].pc \in Sealing /\ th'[t].f = th[t].f /\ th[t].out = "completed"
  /\ th[t].pc \in Sealing => th'[t].pc \in Sealing /\ th'[t].f = th[t].f

LEMMA KeepsHeard ==
  ASSUME Types, Heard, NEW t \in Thread, Moves(t), KeepsOutcome(t), UNCHANGED <<slot, told, outcome>>
  PROVE  Heard'
<1>1. \A u \in Thread : th'[u].pc \in Sealing =>
        /\ th'[u].out # "none"
        /\ th'[u].out = "completed" => slot'[th'[u].f].settled /\ th'[u].f \notin told'
  BY DEF Heard, Moves, KeepsOutcome
<1>2. \A f \in Flow : (\E u \in Thread : th[u].pc \in Sealing /\ th[u].f = f)
                       => \E u \in Thread : th'[u].pc \in Sealing /\ th'[u].f = f
  BY DEF Moves, KeepsOutcome
<1> QED
  BY <1>1, <1>2 DEF Heard, Types, Tables

\* The thread that ends a flow is alone with it, and the driver of a flow is.
LEMMA OneEnder ==
  ASSUME Types, Own, NEW t \in Thread, NEW f \in Flow, th[t].f = f,
         th[t].pc \in Ending \/ (t \in Flow /\ th[t].pc \in Driving)
  PROVE  \A u \in Thread : u # t /\ th[u].pc \in Ending => th[u].f # f
<1> SUFFICES ASSUME NEW u \in Thread, u # t, th[u].pc \in Ending, th[u].f = f
             PROVE  FALSE
  OBVIOUS
<1>1. \A v \in Flow : th[v].f = v /\ (th[v].pc \in Driving \cup Ending => box[v] = "running")
  BY DEF Own, FlowThread
<1>2. \A v \in Thread \ Flow : th[v].pc \in Ending => box[th[v].f] = "held"
  BY DEF Own, OtherThread
<1> QED
  BY <1>1, <1>2, SMTT(30) DEF Own

\* The thread that ends a flow empties the flow's slot.
LEMMA SlotHeard ==
  ASSUME Types, Own, Heard, NEW t \in Thread, Moves(t), NEW f \in Flow, th[t].f = f,
         th[t].pc \in Ending \/ (t \in Flow /\ th[t].pc \in Driving),
         \A g \in Flow : g # f => slot'[g] = slot[g],
         th'[t].pc \in Sealing, th'[t].f = f, th'[t].out # "none",
         th'[t].out = "completed" => slot'[f].settled /\ f \notin told,
         UNCHANGED <<told, outcome>>
  PROVE  Heard'
<1>1. \A u \in Thread : u # t /\ th[u].pc \in Ending => th[u].f # f
  BY OneEnder
<1>2. \A u \in Thread : u # t /\ th[u].pc \in Sealing => th[u].f \in Flow /\ th[u].f # f
  BY <1>1 DEF Types, Threads, Sealing, OnFlow
<1>3. \A u \in Thread : th'[u].pc \in Sealing =>
        /\ th'[u].out # "none"
        /\ th'[u].out = "completed" => slot'[th'[u].f].settled /\ th'[u].f \notin told
  BY <1>2, SMTT(30) DEF Heard, Moves
<1>4. \A g \in Flow : g # f /\ (\E u \in Thread : th[u].pc \in Sealing /\ th[u].f = g)
         => \E u \in Thread : th'[u].pc \in Sealing /\ th'[u].f = g
  BY DEF Moves
<1>5. \A g \in told : outcome[g] = "none" =>
        slot'[g].failed \/ \E u \in Thread : th'[u].pc \in Sealing /\ th'[u].f = g
  BY <1>4 DEF Heard, Types, Tables
<1> QED
  BY <1>3, <1>5 DEF Heard

Closing == {"endbox", "unregister", "tell"}

LEMMA KeepsClean ==
  ASSUME Types, Clean, NEW t \in Thread, Moves(t), UNCHANGED outcome,
         \A f \in Flow : aw'.byFlow[f] \subseteq aw.byFlow[f],
         th'[t].pc \in Closing => th[t].pc \in Closing /\ th'[t].f = th[t].f
  PROVE  Clean'
<1>1. \A f \in Flow : outcome'[f] # "none" => aw'.byFlow[f] = {}
  BY DEF Clean
<1>2. \A u \in Thread : th'[u].pc \in Closing => th[u].pc \in Closing /\ th'[u].f = th[u].f
  BY DEF Moves
<1>3. \A u \in Thread : th[u].pc \in Closing => th[u].f \in Flow
  BY DEF Types, Threads, Closing, OnFlow, Ending
<1>4. \A u \in Thread : th'[u].pc \in Closing => aw'.byFlow[th'[u].f] = {}
  BY <1>2, <1>3 DEF Clean, Closing
<1> QED
  BY <1>1, <1>4 DEF Clean, Closing

\* the thread of a ticket goes on towards its delivery, or away from it
KeepsTicket(t) ==
  /\ t \in Ticket =>
       /\ th[t].pc # "idle"
       /\ th'[t].pc \in {"deliver", "push"} => th[t].pc \in {"deliver", "push"}
       /\ th'[t].pc \in {"idle", "work", "take", "deliver", "push"} =>
            th[t].pc \in {"idle", "work", "take", "deliver", "push"}
  /\ t \in Flow => th'[t].pc # "submit"

LEMMA KeepsRemoved ==
  ASSUME Types, Removed, NEW t \in Thread, Moves(t), KeepsTicket(t), UNCHANGED <<tickets, hops>>
  PROVE  Removed'
<1>1. UNCHANGED <<aw, cancelled, hops>>
  BY DEF tickets
<1>2. \A u \in Ticket : u \in Thread /\ (u = t \/ th'[u] = th[u])
  BY DEF Thread, Moves
<1>3. \A u \in Flow : u \in Thread /\ (u = t \/ th'[u] = th[u])
  BY DEF Thread, Moves
<1>4. \A u \in Ticket :
        /\ th'[u].pc # "idle" => u < aw.next
        /\ th'[u].pc \in {"deliver", "push"} => aw.byTicket[u] = NoFlow /\ u \notin cancelled
        /\ th'[u].pc \in {"idle", "work", "take", "deliver", "push"} => hops[u] = 0
  BY <1>2 DEF Removed, KeepsTicket
<1>5. \A f \in Flow : th'[f].pc = "submit" => f # t /\ th[f].pc = "submit" /\ th'[f].tk = th[f].tk
  BY <1>3 DEF KeepsTicket
<1>6. \A f \in Flow : th'[f].pc = "submit" =>
        th'[f].tk \in Ticket /\ th'[f].tk < aw.next /\ th'[th'[f].tk].pc = "idle"
  <2> TAKE f \in Flow
  <2> HAVE th'[f].pc = "submit"
  <2>1. th[f].pc = "submit" /\ th'[f].tk = th[f].tk
    BY <1>5
  <2>2. th[f].tk \in Ticket /\ th[f].tk < aw.next /\ th[th[f].tk].pc = "idle"
    BY <2>1 DEF Removed
  <2>3. th[f].tk # t
    BY <2>2 DEF KeepsTicket
  <2> QED
    BY <1>2, <2>1, <2>2, <2>3
<1>7. \A f, g \in Flow :
        th'[f].pc = "submit" /\ th'[g].pc = "submit" /\ th'[f].tk = th'[g].tk => f = g
  BY <1>5, SMTT(30) DEF Removed
<1> QED
  BY <1>1, <1>4, <1>6, <1>7 DEF Removed

\* A flow that is queued, parked or running changes hands: its own thread lets go of it or
\* picks it up, or another thread puts it back in a queue or takes it to end it.
LEMMA BoxOwn ==
  ASSUME Types, Own, NEW t \in Thread, Moves(t), NEW f \in Flow, NEW b,
         box' = [box EXCEPT ![f] = b], UNCHANGED outcome,
         box[f] \notin {"held", "done"}, b # "done", t \in Flow => t = f,
         t = f => /\ th'[f].f = f /\ th'[f].pc \in Driving \cup {"idle"}
                  /\ b # "held" /\ (b = "running" <=> th'[f].pc \in Driving),
         t # f => /\ box[f] # "running" /\ b # "running"
                  /\ th[t].pc \notin Ending
                  /\ th'[t].pc \notin Driving \cup {"clear", "retake", "restore"}
                  /\ th'[t].pc \notin {"ending", "visit", "close"}
                  /\ th'[t].pc \in Ending => th'[t].f = f /\ b = "held",
         t = Main => th'[t].kind # "queue" \/ (th'[t].kind = th[t].kind /\ th'[t].work = th[t].work)
  PROVE  Own'
<1>0. \A g \in Flow : box'[g] = IF g = f THEN b ELSE box[g]
  BY DEF Types, TypeOK
<1>a. \A u \in Thread : th[u].pc \in Ending \cup {"clear"} => th[u].f \in Flow
  BY DEF Types, Threads, OnFlow
<1>b. \A u \in Thread \ Flow : th[u].pc \in Ending => th[u].f # f
  BY SMTT(30) DEF Own, OtherThread
<1>c. \A u \in Thread : th[u].pc = "clear" => th[u].f # f
  BY DEF Own
<1>1. \A g \in Flow : FlowThread(g)'
  <2> TAKE g \in Flow
  <2>1. g \in Thread /\ FlowThread(g)
    BY DEF Own, Thread
  <2>2. CASE g = t
    BY <1>0, <2>1, <2>2 DEF FlowThread, Driving, Ending
  <2>3. CASE g # t
    BY <1>0, <2>1, <2>3 DEF FlowThread, Moves
  <2> QED
    BY <2>2, <2>3
<1>2. \A u \in Thread \ Flow : OtherThread(u)'
  BY <1>0, <1>a, <1>b, SMTT(30) DEF Own, OtherThread, Moves
<1>3. \A u, v \in Thread \ Flow :
        th'[u].pc \in Ending /\ th'[v].pc \in Ending /\ th'[u].f = th'[v].f => u = v
  BY <1>b, SMTT(30) DEF Own, Moves
<1>4. Drained' \subseteq Drained
  BY DEF Drained, Moves, Thread
<1>5. ASSUME NEW g \in Drained'
      PROVE  box'[g] = "held" /\ \A u \in Thread : th'[u].pc \in Ending => th'[u].f # g
  <2>1. box[g] = "held" /\ \A u \in Thread : th[u].pc \in Ending => th[u].f # g
    BY <1>4, <1>5 DEF Own
  <2>2. g \in Flow /\ g # f
    BY <1>4, <1>5, <2>1 DEF Drained, Types, Threads, ThreadRec, Thread
  <2>3. \A u \in Thread : th'[u].pc \in Ending => th'[u].f # g
    BY <2>1, <2>2 DEF Moves, Driving, Ending
  <2> QED
    BY <1>0, <2>1, <2>2, <2>3
<1>6. \A u \in Thread : th'[u].pc = "clear" => box'[th'[u].f] = "done"
  <2> TAKE u \in Thread
  <2>1. u = t => th'[u].pc # "clear"
    BY DEF Driving
  <2> QED
    BY <1>0, <1>a, <1>c, <2>1, SMTT(30) DEF Own, Moves
<1>7. \A g \in Flow : box'[g] = "done" <=> outcome'[g] # "none"
  BY <1>0, SMTT(30) DEF Own
<1> QED
  BY <1>1, <1>2, <1>3, <1>5, <1>6, <1>7 DEF Own

\* A step of one thread that changes no table but the kill signals and the directory.
Quiet(t) ==
  /\ Moves(t) /\ KeepsFlow(t) /\ KeepsOutcome(t) /\ KeepsTicket(t)
  /\ th'[t].pc \in Closing => th[t].pc \in Closing /\ th'[t].f = th[t].f

LEMMA QuietStep ==
  ASSUME IInv, NEW t \in Thread, Quiet(t), UNCHANGED <<tickets, slot, inbox, box, ends, hops>>,
         kill' \in [Flow -> {"none", "killed", "fault"}], live' \subseteq Flow
  PROVE  IInv'
<1>1. UNCHANGED <<aw, cancelled, slot, inbox, box, outcome, told, hops>>
  BY DEF tickets, ends
<1>2. Types'
  BY <1>1 DEF IInv, Types, TypeOK, Tables, Quiet, Moves
<1>3. Own' /\ Heard' /\ Clean' /\ Removed'
  BY <1>1, KeepsOwn, KeepsHeard, KeepsClean, KeepsRemoved DEF IInv, Quiet
<1> QED
  BY <1>2, <1>3 DEF IInv

\* A flow's thread goes from one position of its drive to another, or begins to end the
\* flow without success.
LEMMA DriveMove ==
  ASSUME IInv, NEW f \in Flow, Moves(f), th[f].pc \in Driving, th'[f].f = f,
         \/ th'[f].pc \in (Driving \cup {"message"}) \ {"submit"}
         \/ th'[f].pc = "seal" /\ th'[f].out \in Outcomes \ {"none", "completed"}
  PROVE  Quiet(f)
<1>1. f # Main /\ f \notin Ticket
  BY Names
<1> QED
  BY <1>1 DEF Quiet, KeepsFlow, KeepsOutcome, KeepsTicket, Driving, Ending, Sealing, Closing

\* Any other thread goes to a position that ends no flow.
LEMMA OtherMove ==
  ASSUME IInv, NEW t \in Thread \ Flow, Moves(t),
         th[t].pc \notin Sealing, th'[t].pc \notin Driving \cup Ending \cup {"clear"},
         th'[t].pc \in {"retake", "restore"} => th'[t].out \in {"killed", "fault"},
         th'[t].pc = "ending" => th'[t].kind = "queue",
         th'[t].pc \in {"visit", "close"} => th'[t].kind # "queue",
         t = Main => th'[t].kind # "queue" \/ (th'[t].kind = th[t].kind /\ th'[t].work = th[t].work),
         t \in Ticket => /\ th[t].pc # "idle"
                         /\ th'[t].pc \in {"deliver", "push"} => th[t].pc \in {"deliver", "push"}
                         /\ th'[t].pc \in {"idle", "work", "take", "deliver", "push"} =>
                              th[t].pc \in {"idle", "work", "take", "deliver", "push"}
  PROVE  Quiet(t)
BY DEF Quiet, KeepsFlow, KeepsOutcome, KeepsTicket, Driving, Ending, Sealing, Closing

-----------------------------------------------------------------------------
(* The worker that drives a flow *)

LEMMA FlowFacts ==
  ASSUME IInv, NEW f \in Flow
  PROVE  /\ f \in Thread /\ f # Main /\ f \notin Ticket
         /\ Threads /\ th[f] \in ThreadRec /\ th[f].f = f
         /\ th[f].pc \in Driving \cup Ending <=> box[f] = "running"
BY Names DEF IInv, Types, Threads, Own, FlowThread, Thread

LEMMA LoopFacts ==
  ASSUME Threads, NEW f \in Flow, Loop(f)
  PROVE  Moves(f) /\ th'[f].pc = "loop" /\ th'[f].f = f
<1>1. Goto(f, At("loop", f))
  BY ReadyAt DEF Loop
<1>2. "loop" \in Pcs /\ f \in Thread
  BY DEF Pcs, OnFlow, Driving, Thread
<1> QED
  BY <1>1, <1>2, AtFacts, GotoFacts, SMTT(30) DEF Moves

LEMMA PickStep ==
  ASSUME IInv, NEW f \in Flow, Pick(f)
  PROVE  IInv'
<1>1. /\ f \in Thread /\ f # Main /\ f \notin Ticket /\ Threads /\ th[f].f = f
      /\ box[f] = "queued" /\ th[f].pc = "idle"
  BY FlowFacts DEF Pick
<1>2. Moves(f) /\ th'[f].pc = "start" /\ th'[f].f = f
  BY <1>1, StepFacts DEF Pick, Moves, Pcs, OnFlow, Driving
<1>3. /\ box' = [box EXCEPT ![f] = "running"]
      /\ UNCHANGED <<aw, cancelled, slot, kill, live, inbox, outcome, told, hops>>
  BY DEF Pick, tickets, ends
<1>5. Types'
  BY <1>2, <1>3 DEF IInv, Types, TypeOK, Tables, Moves
<1>6. Own'
  BY <1>1, <1>2, <1>3, BoxOwn DEF IInv, Driving
<1>7. Heard'
  BY <1>1, <1>2, <1>3, KeepsHeard DEF IInv, KeepsOutcome, Sealing, Ending
<1>8. Clean' /\ Removed'
  BY <1>1, <1>2, <1>3, KeepsClean, KeepsRemoved DEF IInv, KeepsTicket, Closing, tickets
<1> QED
  BY <1>5, <1>6, <1>7, <1>8 DEF IInv

\* The four checks: a failure that is found ends the flow with it, before the slot is empty.
LEMMA ParkIfFailedStep ==
  ASSUME IInv, NEW f \in Flow, park_flow_if_host_failed(f)
  PROVE  IInv'
<1>1. /\ f \in Thread /\ f # Main /\ f \notin Ticket /\ Threads /\ th[f] \in ThreadRec /\ th[f].f = f
      /\ th[f].pc \in {"start", "loop", "ran", "submitted"}
  BY FlowFacts DEF park_flow_if_host_failed
<1>2. /\ slot' = [slot EXCEPT ![f].failed = FALSE]
      /\ UNCHANGED <<aw, cancelled, live, inbox, box, outcome, told, hops>>
  BY DEF park_flow_if_host_failed, take, tickets, flows, ends
<1>3. th[f].pc \in Driving
  BY <1>1 DEF Driving
<1>4. CASE slot[f].failed
  <2>1. kill' = [kill EXCEPT ![f] = "none"] /\ Finalize(f, f, "host")
    BY <1>4 DEF park_flow_if_host_failed
  <2>2. Moves(f) /\ th'[f].pc = "seal" /\ th'[f].f = f /\ th'[f].out = "host"
    BY <1>1, <2>1, FinalizeFacts DEF Moves, Outcomes
  <2>3. Quiet(f)
    BY <1>3, <2>2, DriveMove DEF Outcomes
  <2>4. Types'
    BY <1>2, <2>1, <2>2 DEF IInv, Types, TypeOK, Tables, Moves
  <2>5. Own' /\ Clean' /\ Removed'
    BY <1>1, <1>2, <2>3, KeepsOwn, KeepsClean, KeepsRemoved DEF IInv, Quiet, tickets
  <2>6. Heard'
    <3>1. \A g \in Flow : g # f => slot'[g] = slot[g]
      BY <1>2 DEF IInv, Types, TypeOK
    <3> QED
      BY <1>1, <1>2, <1>3, <2>2, <3>1, SlotHeard DEF IInv, Sealing, Ending
  <2> QED
    BY <2>4, <2>5, <2>6 DEF IInv
<1>5. CASE ~slot[f].failed
  <2>1. GoOn(f) /\ UNCHANGED kill
    BY <1>5 DEF park_flow_if_host_failed
  <2>2. slot' = slot
    BY <1>2, <1>5, SMTT(30) DEF IInv, Types, TypeOK
  <2>3. /\ Moves(f) /\ th'[f].f = f
        /\ \/ th'[f].pc \in (Driving \cup {"message"}) \ {"submit"}
           \/ th'[f].pc = "seal" /\ th'[f].out \in Outcomes \ {"none", "completed"}
    <3>1. CASE th[f].pc = "start"
      <4>1. Step(f, "startkill")
        BY <2>1, <3>1 DEF GoOn
      <4> QED
        BY <1>1, <4>1, StepFacts, SMTT(30) DEF Moves, Pcs, OnFlow, Driving
    <3>2. CASE th[f].pc = "ran"
      <4>1. Step(f, "dispatch")
        BY <2>1, <3>2 DEF GoOn
      <4> QED
        BY <1>1, <4>1, StepFacts, SMTT(30) DEF Moves, Pcs, OnFlow, Driving
    <3>3. CASE th[f].pc = "submitted"
      <4>1. Step(f, "awaitkill")
        BY <2>1, <3>3 DEF GoOn
      <4> QED
        BY <1>1, <4>1, StepFacts, SMTT(30) DEF Moves, Pcs, OnFlow, Driving
    <3>4. CASE th[f].pc = "loop"
      <4>1. RunSlice(f)
        BY <2>1, <3>4 DEF GoOn
      <4>2. CASE th[Main].pc # "idle"
        <5>1. Finalize(f, f, "shutdown")
          BY <4>1, <4>2 DEF RunSlice
        <5> QED
          BY <1>1, <5>1, FinalizeFacts DEF Moves, Outcomes
      <4>3. CASE th[Main].pc = "idle"
        <5>1. PICK r \in {"complete", "trap", "yield", "await", "receive"} :
                 Goto(f, [th[f] EXCEPT !.pc = "ran", !.kind = r])
          BY <4>1, <4>3 DEF RunSlice
        <5> DEFINE q == [th[f] EXCEPT !.pc = "ran", !.kind = r]
        <5>2. q \in ThreadRec /\ q.pc = "ran" /\ q.f = f
          BY <1>1 DEF ThreadRec, Pcs, OnFlow, Driving, Kinds
        <5>3. Goto(f, q)
          BY <5>1
        <5> HIDE DEF q
        <5> QED
          BY <1>1, <5>2, <5>3, GotoFacts DEF Moves, Driving
      <4> QED
        BY <4>2, <4>3
    <3> QED
      BY <1>1, <3>1, <3>2, <3>3, <3>4
  <2>4. Quiet(f)
    BY <1>3, <2>3, DriveMove
  <2> QED
    BY <1>1, <1>2, <2>1, <2>2, <2>4, QuietStep DEF IInv, Types, TypeOK, tickets, ends
<1> QED
  BY <1>4, <1>5

LEMMA TakeKillStep ==
  ASSUME IInv, NEW f \in Flow, TakeKill(f)
  PROVE  IInv'
<1>1. /\ f \in Thread /\ Threads /\ th[f].f = f /\ th[f].pc \in {"startkill", "awaitkill"}
      /\ th[f].pc \in Driving
  BY FlowFacts DEF TakeKill, Driving
<1>2. Moves(f) /\ th'[f].f = f /\ th'[f].pc \in {"message", "loop"}
  BY <1>1, StepFacts, LoopFacts, SMTT(30) DEF TakeKill, Moves, Pcs, OnFlow, Ending
<1>3. Quiet(f)
  BY <1>1, <1>2, DriveMove DEF Driving
<1>4. kill' \in [Flow -> {"none", "killed", "fault"}] /\ live' \subseteq Flow
  BY DEF TakeKill, flows, IInv, Types, TypeOK
<1> QED
  BY <1>1, <1>3, <1>4, QuietStep DEF TakeKill, flows

LEMMA FinishOkStep ==
  ASSUME IInv, NEW f \in Flow, finish_ok(f)
  PROVE  IInv'
<1>1. /\ f \in Thread /\ f # Main /\ f \notin Ticket /\ Threads /\ th[f].f = f
      /\ th[f].pc = "dispatch" /\ th[f].pc \in Driving
  BY FlowFacts DEF finish_ok, Dispatch, Driving
<1>2. PICK out \in {"completed", "host"} :
         /\ commit_success(f, out)
         /\ kill' = [kill EXCEPT ![f] = IF out = "host" THEN "none" ELSE @]
         /\ Finalize(f, f, out)
  BY DEF finish_ok
<1>3. /\ slot' = [slot EXCEPT ![f] = [failed |-> FALSE, settled |-> TRUE]]
      /\ out = IF slot[f].failed THEN "host" ELSE "completed"
      /\ UNCHANGED <<aw, cancelled, live, inbox, box, outcome, told, hops>>
  BY <1>2 DEF finish_ok, commit_success, tickets, flows, ends
<1>4. Moves(f) /\ th'[f].pc = "seal" /\ th'[f].f = f /\ th'[f].out = out
  BY <1>1, <1>2, FinalizeFacts DEF Moves, Outcomes
<1>5. Types'
  BY <1>2, <1>3, <1>4 DEF IInv, Types, TypeOK, Tables, Moves
<1>6. Own' /\ Clean' /\ Removed'
  <2>1. KeepsFlow(f) /\ KeepsTicket(f) /\ th'[f].pc \notin Closing
    BY <1>1, <1>4 DEF KeepsFlow, KeepsTicket, Closing, Driving, Ending
  <2> QED
    BY <1>1, <1>3, <1>4, <2>1, KeepsOwn, KeepsClean, KeepsRemoved DEF IInv, tickets
<1>7. Heard'
  <2>1. \A t \in Thread : t # f /\ th[t].pc \in Ending => th[t].f # f
    BY <1>1, OneEnder DEF IInv
  <2>2. \A t \in Thread : th[t].pc \in Sealing => th[t].f # f
    BY <1>1, <2>1 DEF Sealing, Ending
  <2>3. outcome[f] = "none"
    BY <1>1, FlowFacts DEF IInv, Own
  <2>4. out = "completed" => f \notin told
    BY <1>3, <2>2, <2>3 DEF IInv, Heard
  <2>5. slot'[f].settled /\ \A g \in Flow : g # f => slot'[g] = slot[g]
    BY <1>3 DEF IInv, Types, TypeOK
  <2> QED
    BY <1>1, <1>2, <1>3, <1>4, <2>4, <2>5, SlotHeard DEF IInv, Sealing, Ending
<1> QED
  BY <1>5, <1>6, <1>7 DEF IInv

LEMMA FinishFailedStep ==
  ASSUME IInv, NEW f \in Flow, finish_failed(f)
  PROVE  IInv'
<1>1. f \in Thread /\ Threads /\ th[f].pc \in Driving /\ Finalize(f, f, "fault")
  BY FlowFacts DEF finish_failed, Dispatch, Driving
<1>2. Quiet(f)
  BY <1>1, FinalizeFacts, DriveMove DEF Moves, Outcomes
<1> QED
  BY <1>1, <1>2, QuietStep DEF finish_failed, flows, IInv, Types, TypeOK

LEMMA YieldStep ==
  ASSUME IInv, NEW f \in Flow, Yield(f)
  PROVE  IInv'
<1>1. /\ f \in Thread /\ f # Main /\ f \notin Ticket /\ Threads
      /\ box[f] = "running" /\ th[f].pc = "dispatch"
  BY FlowFacts DEF Yield, Dispatch, Driving
<1>2. Goto(f, At("idle", f))
  BY SMTT(30) DEF Yield, Ready, At
<1>3. Moves(f) /\ th'[f].pc = "idle" /\ th'[f].f = f
  BY <1>1, <1>2, AtFacts, GotoFacts, SMTT(30) DEF Moves, Pcs, OnFlow, Driving, Ending
<1>4. /\ box' = [box EXCEPT ![f] = "queued"]
      /\ UNCHANGED <<aw, cancelled, slot, kill, live, inbox, outcome, told, hops>>
  BY DEF Yield, tickets, ends
<1>5. Types'
  BY <1>3, <1>4 DEF IInv, Types, TypeOK, Tables, Moves
<1>6. Own'
  BY <1>1, <1>3, <1>4, BoxOwn DEF IInv, Driving
<1>7. Heard'
  BY <1>1, <1>3, <1>4, KeepsHeard DEF IInv, KeepsOutcome, Sealing, Ending
<1>8. Clean' /\ Removed'
  BY <1>1, <1>3, <1>4, KeepsClean, KeepsRemoved DEF IInv, KeepsTicket, Closing, tickets
<1> QED
  BY <1>5, <1>6, <1>7, <1>8 DEF IInv

-----------------------------------------------------------------------------
(* The ticket index *)

Index == [byTicket : [Ticket -> Flow \cup {NoFlow}], byFlow : [Flow -> SUBSET Ticket],
          next : 1 .. MaxTickets + 1]

\* the index's two maps agree
Agree(a) == \A f \in Flow : a.byFlow[f] = {t \in Ticket : a.byTicket[t] = f}

LEMMA RegisterFacts ==
  ASSUME NEW a \in Index, Agree(a), NEW f \in Flow, ~RegisterFails(a),
         \A t \in Ticket : a.byTicket[t] # NoFlow => t < a.next
  PROVE  /\ a.next \in Ticket /\ register(a, f) \in Index /\ Agree(register(a, f))
         /\ register(a, f).next = a.next + 1
         /\ \A t \in Ticket : register(a, f).byTicket[t] = IF t = a.next THEN f ELSE a.byTicket[t]
         /\ \A g \in Flow : g # f => register(a, f).byFlow[g] = a.byFlow[g]
<1>1. a.next \in Ticket
  BY Bounds, SMTT(30) DEF RegisterFails, Index, Ticket
<1> DEFINE bt == [a.byTicket EXCEPT ![a.next] = f]
           bf == [a.byFlow EXCEPT ![f] = @ \cup {a.next}]
<1>3. bt \in [Ticket -> Flow \cup {NoFlow}] /\ bf \in [Flow -> SUBSET Ticket]
  BY <1>1 DEF Index
<1>4. a.next + 1 \in 1 .. MaxTickets + 1
  BY <1>1, Bounds, SMTT(30) DEF Ticket
<1>5. \A t \in Ticket : bt[t] = IF t = a.next THEN f ELSE a.byTicket[t]
  BY <1>1 DEF Index
<1>6. \A g \in Flow : bf[g] = IF g = f THEN a.byFlow[g] \cup {a.next} ELSE a.byFlow[g]
  BY DEF Index
<1>7. /\ register(a, f).byTicket = bt /\ register(a, f).byFlow = bf
      /\ register(a, f).next = a.next + 1 /\ register(a, f) \in Index
  BY <1>3, <1>4 DEF register, Index
<1> HIDE DEF bt, bf
<1> QED
  <2>1. a.byTicket[a.next] = NoFlow
    BY <1>1, SMTT(30) DEF Index, Ticket
  <2>2. ASSUME NEW g \in Flow
        PROVE  bf[g] = {t \in Ticket : bt[t] = g}
    <3>1. a.byFlow[g] = {t \in Ticket : a.byTicket[t] = g}
      BY DEF Agree
    <3> QED
      BY <1>1, <1>5, <1>6, <2>1, <3>1, Names
  <2>3. Agree(register(a, f))
    BY <1>7, <2>2 DEF Agree
  <2> QED
    BY <1>1, <1>5, <1>6, <1>7, <2>3

LEMMA TakeTicketFacts ==
  ASSUME NEW a \in Index, Agree(a), NEW t \in Ticket, a.byTicket[t] # NoFlow
  PROVE  /\ take_ticket(a, t) \in Index /\ Agree(take_ticket(a, t)) /\ take_ticket(a, t).next = a.next
         /\ \A u \in Ticket : take_ticket(a, t).byTicket[u] = IF u = t THEN NoFlow ELSE a.byTicket[u]
         /\ \A g \in Flow : take_ticket(a, t).byFlow[g] \subseteq a.byFlow[g]
<1> DEFINE f == a.byTicket[t]
           bt == [a.byTicket EXCEPT ![t] = NoFlow]
           bf == [a.byFlow EXCEPT ![f] = @ \ {t}]
<1>1. f \in Flow /\ f # NoFlow /\ a.byTicket[t] = f
  BY Names DEF Index
<1>2. bt \in [Ticket -> Flow \cup {NoFlow}] /\ bf \in [Flow -> SUBSET Ticket]
  BY <1>1 DEF Index
<1>3. \A u \in Ticket : bt[u] = IF u = t THEN NoFlow ELSE a.byTicket[u]
  BY DEF Index
<1>4. \A g \in Flow : bf[g] = IF g = f THEN a.byFlow[g] \ {t} ELSE a.byFlow[g]
  BY DEF Index
<1>5. /\ take_ticket(a, t).byTicket = bt /\ take_ticket(a, t).byFlow = bf
      /\ take_ticket(a, t).next = a.next /\ take_ticket(a, t) \in Index
  BY <1>2 DEF take_ticket, unlink, Index
<1>6. ASSUME NEW g \in Flow
      PROVE  bf[g] = {u \in Ticket : bt[u] = g}
  <2>1. a.byFlow[g] = {u \in Ticket : a.byTicket[u] = g}
    BY DEF Agree
  <2>2. g # NoFlow
    BY Names
  <2> HIDE DEF bf, bt, f
  <2>3. CASE g = f
    <3>1. bf[g] = a.byFlow[g] \ {t}
      BY <1>4, <2>3
    <3> QED
      BY <1>3, <2>1, <2>2, <3>1
  <2>4. CASE g # f
    <3>1. bf[g] = a.byFlow[g]
      BY <1>4, <2>4
    <3> QED
      BY <1>1, <1>3, <2>1, <2>2, <2>4, <3>1
  <2> QED
    BY <2>3, <2>4
<1> HIDE DEF bt, bf, f
<1>7. Agree(take_ticket(a, t))
  BY <1>5, <1>6 DEF Agree
<1> QED
  BY <1>3, <1>4, <1>5, <1>7

LEMMA TakeFlowFacts ==
  ASSUME NEW a \in Index, Agree(a), NEW f \in Flow
  PROVE  /\ take_flow_ids(a, f) \in Index /\ Agree(take_flow_ids(a, f))
         /\ take_flow_ids(a, f).next = a.next /\ take_flow_ids(a, f).byFlow[f] = {}
         /\ \A u \in Ticket : take_flow_ids(a, f).byTicket[u]
                                = IF a.byTicket[u] = f THEN NoFlow ELSE a.byTicket[u]
         /\ \A g \in Flow : take_flow_ids(a, f).byFlow[g] \subseteq a.byFlow[g]
<1> DEFINE bt == [t \in Ticket |-> IF t \in a.byFlow[f] THEN NoFlow ELSE a.byTicket[t]]
           bf == [a.byFlow EXCEPT ![f] = {}]
<1>2. bt \in [Ticket -> Flow \cup {NoFlow}] /\ bf \in [Flow -> SUBSET Ticket]
  BY DEF Index
<1>3. \A u \in Ticket : bt[u] = IF a.byTicket[u] = f THEN NoFlow ELSE a.byTicket[u]
  BY DEF Index, Agree
<1>4. \A g \in Flow : bf[g] = IF g = f THEN {} ELSE a.byFlow[g]
  BY DEF Index
<1>5. /\ take_flow_ids(a, f).byTicket = bt /\ take_flow_ids(a, f).byFlow = bf
      /\ take_flow_ids(a, f).next = a.next /\ take_flow_ids(a, f) \in Index
  BY <1>2 DEF take_flow_ids, Index
<1>6. ASSUME NEW g \in Flow
      PROVE  bf[g] = {u \in Ticket : bt[u] = g}
  <2>1. a.byFlow[g] = {u \in Ticket : a.byTicket[u] = g}
    BY DEF Agree
  <2> HIDE DEF bf, bt
  <2> QED
    BY <1>3, <1>4, <2>1, Names
<1> HIDE DEF bt, bf
<1>7. Agree(take_flow_ids(a, f))
  BY <1>5, <1>6 DEF Agree
<1> QED
  BY <1>3, <1>4, <1>5, <1>7

LEMMA CancelAllFacts ==
  ASSUME aw \in Index, cancel_all
  PROVE  /\ aw' \in Index /\ Agree(aw') /\ aw'.next = aw.next
         /\ \A u \in Ticket : aw'.byTicket[u] = NoFlow
         /\ \A g \in Flow : aw'.byFlow[g] = {}
<1> DEFINE bt == [t \in Ticket |-> NoFlow]
           bf == [f \in Flow |-> {}]
<1>1. aw'.byTicket = bt /\ aw'.byFlow = bf /\ aw'.next = aw.next /\ aw' \in Index
  BY DEF cancel_all, Index
<1>2. \A g \in Flow : bf[g] = {u \in Ticket : bt[u] = g}
  BY Names
<1>3. (\A u \in Ticket : bt[u] = NoFlow) /\ (\A g \in Flow : bf[g] = {})
  OBVIOUS
<1> HIDE DEF bt, bf
<1>4. Agree(aw')
  BY <1>1, <1>2 DEF Agree
<1> QED
  BY <1>1, <1>3, <1>4

LEMMA IndexFacts ==
  ASSUME IInv
  PROVE  aw \in Index /\ Agree(aw)
BY DEF IInv, Types, TypeOK, Index, Agree

LEMMA NextFacts ==
  ASSUME IInv
  PROVE  aw.next \in Nat
<1>1. aw.next \in 1..(MaxTickets + 1)
  BY IndexFacts DEF Index
<1> QED
  BY <1>1, SMTT(30)

\* A cancellation: the tickets that leave the index are flagged.
Cancels ==
  /\ aw' \in Index /\ Agree(aw') /\ aw'.next = aw.next
  /\ \A u \in Ticket : \/ aw'.byTicket[u] = aw.byTicket[u] /\ (u \in cancelled' => u \in cancelled)
                       \/ aw.byTicket[u] # NoFlow /\ aw'.byTicket[u] = NoFlow /\ u \in cancelled'
  /\ cancelled \subseteq cancelled' /\ cancelled' \subseteq Ticket
  /\ \A g \in Flow : aw'.byFlow[g] \subseteq aw.byFlow[g]

LEMMA CancelFlowCancels ==
  ASSUME IInv, NEW f \in Flow, cancel_flow(f)
  PROVE  Cancels /\ aw'.byFlow[f] = {}
<1>1. aw \in Index /\ Agree(aw) /\ cancelled \subseteq Ticket
  BY IndexFacts DEF IInv, Types, TypeOK
<1>2. aw' = take_flow_ids(aw, f) /\ cancelled' = cancelled \cup aw.byFlow[f]
  BY DEF cancel_flow
<1>3. aw.byFlow[f] = {u \in Ticket : aw.byTicket[u] = f} /\ f # NoFlow
  BY <1>1, Names DEF Agree
<1> QED
  BY <1>1, <1>2, <1>3, TakeFlowFacts, SMTT(30) DEF Cancels

LEMMA CancelAllCancels ==
  ASSUME IInv, cancel_all
  PROVE  Cancels
<1>1. aw \in Index /\ Agree(aw) /\ cancelled \subseteq Ticket
  BY IndexFacts DEF IInv, Types, TypeOK
<1>2. cancelled' = cancelled \cup Outstanding(aw)
  BY DEF cancel_all
<1> QED
  BY <1>1, <1>2, CancelAllFacts DEF Cancels, Outstanding

LEMMA CancelsRemoved ==
  ASSUME Types, Removed, NEW t \in Thread, Moves(t), KeepsTicket(t), Cancels, UNCHANGED hops
  PROVE  Removed'
<1>1. \A u \in Ticket : u \in Thread /\ (u = t \/ th'[u] = th[u])
  BY DEF Thread, Moves
<1>2. \A u \in Flow : u \in Thread /\ (u = t \/ th'[u] = th[u])
  BY DEF Thread, Moves
<1>3. \A u \in Ticket : aw'.byTicket[u] # NoFlow => u < aw'.next /\ u \notin cancelled'
  BY DEF Cancels, Removed
<1>4. \A u \in cancelled' : u < aw'.next
  BY DEF Cancels, Removed
<1>5. \A u \in Ticket :
        /\ th'[u].pc # "idle" => u < aw'.next
        /\ th'[u].pc \in {"deliver", "push"} => aw'.byTicket[u] = NoFlow /\ u \notin cancelled'
        /\ th'[u].pc \in {"idle", "work", "take", "deliver", "push"} => hops'[u] = 0
  BY <1>1 DEF Removed, KeepsTicket, Cancels
<1>6. \A f \in Flow : th'[f].pc = "submit" => f # t /\ th[f].pc = "submit" /\ th'[f].tk = th[f].tk
  BY <1>2 DEF KeepsTicket
<1>7. \A f \in Flow : th'[f].pc = "submit" =>
        th'[f].tk \in Ticket /\ th'[f].tk < aw'.next /\ th'[th'[f].tk].pc = "idle"
  <2> TAKE f \in Flow
  <2> HAVE th'[f].pc = "submit"
  <2>1. th[f].pc = "submit" /\ th'[f].tk = th[f].tk
    BY <1>6
  <2>2. th[f].tk \in Ticket /\ th[f].tk < aw.next /\ th[th[f].tk].pc = "idle"
    BY <2>1 DEF Removed
  <2>3. th[f].tk # t
    BY <2>2 DEF KeepsTicket
  <2> QED
    BY <1>1, <2>1, <2>2, <2>3 DEF Cancels
<1>8. \A f, g \in Flow :
        th'[f].pc = "submit" /\ th'[g].pc = "submit" /\ th'[f].tk = th'[g].tk => f = g
  BY <1>6, SMTT(30) DEF Removed
<1> QED
  BY <1>3, <1>4, <1>5, <1>7, <1>8 DEF Removed

LEMMA AwaitStep ==
  ASSUME IInv, NEW f \in Flow, Await(f)
  PROVE  IInv'
<1>1. /\ f \in Thread /\ f # Main /\ f \notin Ticket /\ Threads /\ th[f] \in ThreadRec
      /\ th[f].f = f /\ box[f] = "running" /\ th[f].pc = "dispatch" /\ th[f].pc \in Driving
  BY FlowFacts DEF Await, Dispatch, Driving
<1>2. CASE RegisterFails(aw)
  <2>1. Finalize(f, f, "fault") /\ UNCHANGED aw
    BY <1>2 DEF Await
  <2>2. Quiet(f)
    BY <1>1, <2>1, FinalizeFacts, DriveMove DEF Moves, Outcomes
  <2> QED
    BY <1>1, <2>1, <2>2, QuietStep DEF Await, flows, tickets, IInv, Types, TypeOK
<1>3. CASE ~RegisterFails(aw)
  <2> DEFINE k == aw.next
             r == [th[f] EXCEPT !.pc = "submit", !.tk = k]
  <2>1. aw' = register(aw, f) /\ Goto(f, r)
    BY <1>3 DEF Await
  <2>2. UNCHANGED <<cancelled, slot, kill, live, inbox, box, outcome, told, hops>>
    BY DEF Await, flows, ends
  <2>3. /\ k \in Ticket /\ aw' \in Index /\ Agree(aw') /\ aw'.next = k + 1
        /\ \A t \in Ticket : aw'.byTicket[t] = IF t = k THEN f ELSE aw.byTicket[t]
        /\ \A g \in Flow : g # f => aw'.byFlow[g] = aw.byFlow[g]
    BY <1>3, <2>1, IndexFacts, RegisterFacts DEF IInv, Removed
  <2>4. r \in ThreadRec /\ r.pc = "submit" /\ r.f = f /\ r.tk = k
    <3>1. k \in Nat /\ "submit" \in Pcs
      BY <2>3, Bounds, SMTT(30) DEF Ticket, Pcs, OnFlow, Driving
    <3> HIDE DEF k
    <3> QED
      BY <1>1, <3>1 DEF ThreadRec
  <2> HIDE DEF r
  <2>5. Moves(f) /\ th'[f].pc = "submit" /\ th'[f].f = f /\ th'[f].tk = k
    BY <1>1, <2>1, <2>4, GotoFacts DEF Moves
  <2>6. Types'
    BY <2>2, <2>3, <2>5 DEF IInv, Types, TypeOK, Tables, Moves, Index, Agree
  <2>7. Own'
    BY <1>1, <2>2, <2>5, KeepsOwn DEF IInv, KeepsFlow, Driving, Ending
  <2>8. Heard'
    BY <1>1, <2>2, <2>5, KeepsHeard DEF IInv, KeepsOutcome, Sealing, Ending
  <2>9. Clean'
    <3>1. outcome[f] = "none"
      BY <1>1 DEF IInv, Own
    <3>2. \A t \in Thread : t # f /\ th[t].pc \in Ending => th[t].f # f /\ th[t].f \in Flow
      BY <1>1, OneEnder DEF IInv, Types, Threads, OnFlow
    <3>3. \A t \in Thread : th'[t].pc \in Closing => t # f /\ th'[t] = th[t] /\ th[t].pc \in Ending
      BY <2>5 DEF Moves, Closing, Ending
    <3>4. \A t \in Thread : th'[t].pc \in Closing => aw'.byFlow[th'[t].f] = {}
      BY <2>3, <3>2, <3>3, SMTT(30) DEF IInv, Clean, Closing
    <3> QED
      BY <2>2, <2>3, <3>1, <3>4 DEF IInv, Clean, Closing
  <2>10. Removed'
    <3>1. k < aw'.next /\ k \in Nat /\ \A t \in Ticket : t < k => t < aw'.next
      BY <2>3, Bounds, SMTT(30) DEF Ticket
    <3>2. \A t \in Ticket : aw'.byTicket[t] # NoFlow => t < aw'.next /\ t \notin cancelled
      <4>1. k \notin cancelled
        BY <3>1, SMTT(30) DEF IInv, Removed
      <4> QED
        BY <2>3, <3>1, <4>1 DEF IInv, Removed
    <3>3. \A t \in cancelled : t < aw'.next
      BY <3>1 DEF IInv, Removed, Types, TypeOK
    <3>4. \A t \in Ticket : t \in Thread /\ th'[t] = th[t]
      BY <1>1, <2>5 DEF Moves, Thread
    <3>5. th[k].pc = "idle"
      BY <2>3, <3>1, SMTT(30) DEF IInv, Removed
    <3>6. \A t \in Ticket :
            /\ th'[t].pc # "idle" => t < aw'.next
            /\ th'[t].pc \in {"deliver", "push"} => aw'.byTicket[t] = NoFlow /\ t \notin cancelled
            /\ th'[t].pc \in {"idle", "work", "take", "deliver", "push"} => hops[t] = 0
      BY <2>3, <3>1, <3>4, <3>5 DEF IInv, Removed
    <3>7. \A g \in Flow : th'[g].pc = "submit" =>
            \/ g = f /\ th'[g].tk = k
            \/ /\ g # f /\ th[g].pc = "submit" /\ th'[g].tk = th[g].tk
               /\ th[g].tk \in Ticket /\ th[g].tk < k /\ th[th[g].tk].pc = "idle"
      BY <2>5 DEF Moves, Thread, IInv, Removed
    <3>8. \A g \in Flow : th'[g].pc = "submit" =>
            th'[g].tk \in Ticket /\ th'[g].tk < aw'.next /\ th'[th'[g].tk].pc = "idle"
      BY <2>3, <3>1, <3>4, <3>5, <3>7, SMTT(30)
    <3>9. \A g, h \in Flow :
            th'[g].pc = "submit" /\ th'[h].pc = "submit" /\ th'[g].tk = th'[h].tk => g = h
      <4> TAKE g, h \in Flow
      <4> HAVE th'[g].pc = "submit" /\ th'[h].pc = "submit" /\ th'[g].tk = th'[h].tk
      <4>1. CASE g = f \/ h = f
        BY <3>1, <3>7, <4>1, SMTT(30)
      <4>2. CASE g # f /\ h # f
        BY <3>7, <4>2, SMTT(30) DEF IInv, Removed
      <4> QED
        BY <4>1, <4>2
    <3> QED
      BY <2>2, <3>2, <3>3, <3>6, <3>8, <3>9 DEF Removed
  <2> QED
    BY <2>6, <2>7, <2>8, <2>9, <2>10 DEF IInv
<1> QED
  BY <1>2, <1>3

\* No thread begins or finishes an end, and the recorded failures and the index stay.
LEMMA EndsKept ==
  ASSUME Heard, Clean, UNCHANGED <<aw, slot, outcome, told>>,
         \A u \in Thread :
           th[u].pc \in Ending \cup {"clear"} <=> th'[u].pc \in Ending \cup {"clear"},
         \A u \in Thread : th'[u].pc \in Ending \cup {"clear"} => th'[u] = th[u]
  PROVE  Heard' /\ Clean'
<1>1. \A u \in Thread : th'[u].pc \in Ending \/ th[u].pc \in Ending => th'[u] = th[u]
  OBVIOUS
<1>2. Sealing \subseteq Ending /\ {"endbox", "unregister", "tell"} \subseteq Ending
  BY DEF Sealing, Ending
<1>3. \A u \in Thread : th'[u].pc \in Sealing =>
        /\ th'[u].out # "none"
        /\ th'[u].out = "completed" => slot[th'[u].f].settled /\ th'[u].f \notin told
  BY <1>1, <1>2 DEF Heard
<1>4. ASSUME NEW f \in told, outcome[f] = "none"
      PROVE  slot[f].failed \/ \E u \in Thread : th'[u].pc \in Sealing /\ th'[u].f = f
  <2>1. CASE slot[f].failed
    BY <2>1
  <2>2. CASE \E u \in Thread : th[u].pc \in Sealing /\ th[u].f = f
    BY <1>1, <1>2, <2>2
  <2> QED
    BY <1>4, <2>1, <2>2 DEF Heard
<1>5. \A f \in told : outcome[f] # "completed"
  BY DEF Heard
<1>6. Heard'
  BY <1>3, <1>4, <1>5 DEF Heard
<1>7. Clean'
  BY <1>1, <1>2 DEF Clean
<1> QED
  BY <1>6, <1>7

\* The bridge starts the ticket's thread, which nothing else has started.
LEMMA SubmitStep ==
  ASSUME IInv, NEW f \in Flow, Submit(f)
  PROVE  IInv'
<1> DEFINE k == th[f].tk
<1>1. /\ f \in Thread /\ f # Main /\ f \notin Ticket /\ Threads /\ th[f] \in ThreadRec
      /\ th[f].f = f /\ th[f].pc = "submit" /\ th[f].pc \in Driving
  BY FlowFacts DEF Submit, Driving
<1>2. UNCHANGED <<aw, cancelled, slot, kill, live, inbox, box, outcome, told, hops>>
  BY DEF Submit, tickets, flows, ends
<1>3. /\ k \in Ticket /\ k < aw.next /\ th[k].pc = "idle" /\ hops[k] = 0
      /\ k \in Thread /\ k # f /\ k \notin Flow /\ k # Main /\ th[k] \in ThreadRec
  BY <1>1, Names DEF IInv, Removed, Thread, Threads
<1>4. /\ Threads' /\ \A u \in Thread : u \notin {f, k} => th'[u] = th[u]
      /\ th'[f].pc \in {"submitted", "dropped"} /\ th'[f].f = f
      /\ th'[k].pc \in {"work", "take"}
  <2> HIDE DEF k
  <2>0. k = th[f].tk
    BY DEF k
  <2>1. CASE th' = [th EXCEPT ![f].pc = "submitted", ![k].pc = "work"]
    <3> DEFINE a == [th[f] EXCEPT !.pc = "submitted"]
               b == [th[k] EXCEPT !.pc = "work"]
    <3>1. /\ a \in ThreadRec /\ a.pc = "submitted" /\ a.f = f
          /\ b \in ThreadRec /\ b.pc = "work"
      <4>1. {"submitted", "work"} \subseteq Pcs
        BY DEF Pcs, OnFlow, Driving
      <4>2. a \in ThreadRec /\ a.pc = "submitted" /\ a.f = f
        BY <1>1, <4>1 DEF ThreadRec
      <4>3. b \in ThreadRec /\ b.pc = "work"
        BY <1>3, <4>1 DEF ThreadRec
      <4> QED
        BY <4>2, <4>3
    <3>2. th' = [[th EXCEPT ![f] = a] EXCEPT ![k] = b]
      BY <1>1, <1>3, <2>1 DEF Threads
    <3> HIDE DEF a, b
    <3> QED
      BY <1>1, <1>3, <3>1, <3>2 DEF Threads, OnFlow, Driving, Ending
  <2>2. CASE th' = [th EXCEPT ![f].pc = "dropped",
                              ![k] = [@ EXCEPT !.pc = "take", !.kind = "error"]]
    <3> DEFINE a == [th[f] EXCEPT !.pc = "dropped"]
               b == [th[k] EXCEPT !.pc = "take", !.kind = "error"]
    <3>1. /\ a \in ThreadRec /\ a.pc = "dropped" /\ a.f = f
          /\ b \in ThreadRec /\ b.pc = "take"
      <4>1. {"dropped", "take"} \subseteq Pcs /\ "error" \in Kinds
        BY DEF Pcs, OnFlow, Driving, Kinds
      <4>2. a \in ThreadRec /\ a.pc = "dropped" /\ a.f = f
        BY <1>1, <4>1 DEF ThreadRec
      <4>3. b \in ThreadRec /\ b.pc = "take"
        BY <1>3, <4>1 DEF ThreadRec
      <4> QED
        BY <4>2, <4>3
    <3>2. th' = [[th EXCEPT ![f] = a] EXCEPT ![k] = b]
      BY <1>1, <1>3, <2>2 DEF Threads
    <3> HIDE DEF a, b
    <3> QED
      BY <1>1, <1>3, <3>1, <3>2 DEF Threads, OnFlow, Driving, Ending
  <2> QED
    BY <2>0, <2>1, <2>2 DEF Submit
<1> HIDE DEF k
<1>5. Types'
  BY <1>2, <1>4 DEF IInv, Types, TypeOK, Tables
<1>6. \A u \in Thread : th[u].pc \in Ending \cup {"clear"} <=> th'[u].pc \in Ending \cup {"clear"}
  BY <1>1, <1>3, <1>4 DEF Ending
<1>7. \A u \in Thread : th'[u].pc \in Ending \cup {"clear"} => th'[u] = th[u]
  BY <1>4 DEF Ending
<1>8. Own'
  <2>1. \A g \in Flow : FlowThread(g)'
    <3> TAKE g \in Flow
    <3>1. FlowThread(g) /\ box' = box
      BY <1>2 DEF IInv, Own
    <3>2. CASE g = f
      BY <1>1, <1>4, <3>1, <3>2 DEF FlowThread, Driving
    <3>3. CASE g # f
      <4>1. th'[g] = th[g]
        BY <1>3, <1>4, <3>3 DEF Thread
      <4> QED
        BY <3>1, <4>1 DEF FlowThread
    <3> QED
      BY <3>2, <3>3
  <2>2. \A u \in Thread \ Flow : OtherThread(u)'
    <3> TAKE u \in Thread \ Flow
    <3>1. CASE u = k
      BY <1>4, <3>1 DEF OtherThread, Driving, Ending
    <3>2. CASE u # k
      <4>1. th'[u] = th[u] /\ OtherThread(u)
        BY <1>4, <3>2 DEF IInv, Own
      <4> QED
        BY <1>2, <4>1 DEF OtherThread
    <3> QED
      BY <3>1, <3>2
  <2>3. Drained' = Drained
    BY <1>1, <1>3, <1>4 DEF Drained, Thread
  <2> QED
    BY <1>2, <1>7, <2>1, <2>2, <2>3, SMTT(30) DEF IInv, Own
<1>9. Heard' /\ Clean'
  BY <1>2, <1>6, <1>7, EndsKept DEF IInv
<1>10. Removed'
  <2>1. \A u \in Ticket : u \in Thread /\ u # f /\ (u # k => th'[u] = th[u])
    BY <1>1, <1>4 DEF Thread
  <2>2. \A u \in Ticket :
          /\ th'[u].pc # "idle" => u < aw.next
          /\ th'[u].pc \in {"deliver", "push"} => aw.byTicket[u] = NoFlow /\ u \notin cancelled
          /\ th'[u].pc \in {"idle", "work", "take", "deliver", "push"} => hops[u] = 0
    BY <1>3, <1>4, <2>1 DEF IInv, Removed
  <2>3. \A g \in Flow : th'[g].pc = "submit" => g # f /\ th'[g] = th[g]
    BY <1>3, <1>4 DEF Thread
  <2>4. \A g \in Flow : th'[g].pc = "submit" => th[g].tk # k
    BY <1>1, <2>3 DEF IInv, Removed, k
  <2>5. \A g \in Flow : th'[g].pc = "submit" =>
          th'[g].tk \in Ticket /\ th'[g].tk < aw.next /\ th'[th'[g].tk].pc = "idle"
    BY <2>1, <2>3, <2>4 DEF IInv, Removed
  <2> QED
    <3>1. /\ aw' = aw /\ cancelled' = cancelled /\ hops' = hops
          /\ \A u \in Ticket : aw.byTicket[u] # NoFlow => u < aw.next /\ u \notin cancelled
          /\ \A u \in cancelled : u < aw.next
      BY <1>2 DEF IInv, Removed
    <3>2. ASSUME NEW g \in Flow, NEW h \in Flow,
                 th'[g].pc = "submit", th'[h].pc = "submit", th'[g].tk = th'[h].tk
          PROVE  g = h
      <4>1. th[g].pc = "submit" /\ th[h].pc = "submit" /\ th[g].tk = th[h].tk
        BY <2>3, <3>2
      <4> QED
        BY <4>1 DEF IInv, Removed
    <3> QED
      BY <2>2, <2>5, <3>1, <3>2 DEF Removed
<1> QED
  BY <1>5, <1>8, <1>9, <1>10 DEF IInv

LEMMA SubmittedStep ==
  ASSUME IInv, NEW f \in Flow, Submitted(f)
  PROVE  IInv'
<1>1. f \in Thread /\ Threads /\ th[f].f = f /\ th[f].pc \in Driving /\ Step(f, "submitted")
  BY FlowFacts DEF Submitted, Driving
<1>2. Moves(f) /\ th'[f].pc = "submitted" /\ th'[f].f = f
  BY <1>1, StepFacts DEF Moves, Pcs, OnFlow, Driving
<1>3. Quiet(f)
  BY <1>1, <1>2, DriveMove DEF Driving
<1> QED
  BY <1>1, <1>3, QuietStep DEF Submitted, flows, IInv, Types, TypeOK

\* What the inboxes may do in a step.
LEMMA TailFits ==
  ASSUME NEW q \in Seq(Ticket), q # << >>, Len(q) <= Capacity
  PROVE  Tail(q) \in Seq(Ticket) /\ Len(Tail(q)) <= Capacity
BY Bounds, SMTT(30)

LEMMA ReceiveStep ==
  ASSUME IInv, NEW f \in Flow, Receive(f)
  PROVE  IInv'
<1>1. /\ f \in Thread /\ f # Main /\ f \notin Ticket /\ Threads /\ th[f].f = f
      /\ th[f].pc = "dispatch" /\ th[f].pc \in Driving
  BY FlowFacts DEF Receive, Dispatch, Driving
<1>2. UNCHANGED <<aw, cancelled, slot, kill, live, box, outcome, told, hops>>
  BY DEF Receive, tickets, ends
<1>3. Moves(f) /\ th'[f].f = f /\ th'[f].pc \in {"loop", "park"}
  BY <1>1, LoopFacts, StepFacts, SMTT(30) DEF Receive, Moves, Pcs, OnFlow, Driving
<1>4. /\ inbox' \in [Flow -> [q : Seq(Ticket), closed : BOOLEAN]]
      /\ \A g \in Flow : Len(inbox'[g].q) <= Capacity /\ (inbox'[g].closed => inbox'[g].q = << >>)
  <2>0. /\ inbox \in [Flow -> [q : Seq(Ticket), closed : BOOLEAN]]
        /\ \A g \in Flow : Len(inbox[g].q) <= Capacity /\ (inbox[g].closed => inbox[g].q = << >>)
    BY DEF IInv, Types, TypeOK, Tables
  <2>1. CASE inbox[f].q # << >>
    <3>1. inbox' = [inbox EXCEPT ![f].q = Tail(@)]
      BY <2>1 DEF Receive
    <3>2. Tail(inbox[f].q) \in Seq(Ticket) /\ Len(Tail(inbox[f].q)) <= Capacity
      BY <2>0, <2>1, TailFits
    <3> QED
      BY <2>0, <2>1, <3>1, <3>2
  <2>2. CASE inbox[f].q = << >>
    BY <2>0, <2>2 DEF Receive
  <2> QED
    BY <2>1, <2>2
<1>5. Types'
  BY <1>2, <1>3, <1>4 DEF IInv, Types, TypeOK, Tables, Moves
<1>6. Quiet(f)
  BY <1>1, <1>3, DriveMove DEF Driving
<1>7. Own' /\ Heard' /\ Clean' /\ Removed'
  BY <1>1, <1>2, <1>6, KeepsOwn, KeepsHeard, KeepsClean, KeepsRemoved DEF IInv, Quiet, tickets
<1> QED
  BY <1>5, <1>7 DEF IInv

LEMMA ParkStep ==
  ASSUME IInv, NEW f \in Flow, Park(f)
  PROVE  IInv'
<1>1. /\ f \in Thread /\ f # Main /\ f \notin Ticket /\ Threads /\ th[f].f = f
      /\ box[f] = "running" /\ th[f].pc = "park" /\ th[f].pc \in Driving
  BY FlowFacts DEF Park, Driving
<1>2. UNCHANGED <<aw, cancelled, slot, kill, live, outcome, told, hops>>
  BY DEF Park, tickets, ends
<1>3. /\ inbox \in [Flow -> [q : Seq(Ticket), closed : BOOLEAN]]
      /\ \A g \in Flow : Len(inbox[g].q) <= Capacity /\ (inbox[g].closed => inbox[g].q = << >>)
  BY DEF IInv, Types, TypeOK, Tables
<1>4. CASE inbox[f].q # << >> \/ inbox[f].closed
  <2>1. /\ inbox' = [inbox EXCEPT ![f].q = IF @ = << >> THEN @ ELSE Tail(@)]
        /\ box' = [box EXCEPT ![f] = "queued"]
    BY <1>4 DEF Park
  <2>2. Goto(f, At("idle", f))
    <3>1. [Ready EXCEPT !.f = f] = At("idle", f)
      BY SMTT(30) DEF Ready, At
    <3> QED
      BY <1>4, <3>1 DEF Park
  <2>3. Moves(f) /\ th'[f].pc = "idle" /\ th'[f].f = f
    BY <1>1, <2>2, AtFacts, GotoFacts, SMTT(30) DEF Moves, Pcs, OnFlow, Driving, Ending
  <2>4. /\ inbox' \in [Flow -> [q : Seq(Ticket), closed : BOOLEAN]]
        /\ \A g \in Flow : Len(inbox'[g].q) <= Capacity /\ (inbox'[g].closed => inbox'[g].q = << >>)
    <3> DEFINE q == IF inbox[f].q = << >> THEN inbox[f].q ELSE Tail(inbox[f].q)
    <3>1. q \in Seq(Ticket) /\ Len(q) <= Capacity /\ (inbox[f].closed => q = << >>)
      BY <1>3, TailFits
    <3>2. inbox' = [inbox EXCEPT ![f].q = q]
      BY <2>1
    <3> HIDE DEF q
    <3> QED
      BY <1>3, <3>1, <3>2
  <2>5. Types'
    BY <1>2, <2>1, <2>3, <2>4 DEF IInv, Types, TypeOK, Tables, Moves
  <2>6. Own'
    BY <1>1, <1>2, <2>1, <2>3, BoxOwn DEF IInv, Driving
  <2>7. Heard' /\ Clean' /\ Removed'
    BY <1>1, <1>2, <2>3, KeepsHeard, KeepsClean, KeepsRemoved
       DEF IInv, KeepsOutcome, KeepsTicket, Sealing, Ending, Closing, tickets
  <2> QED
    BY <2>5, <2>6, <2>7 DEF IInv
<1>5. CASE ~(inbox[f].q # << >> \/ inbox[f].closed)
  <2> DEFINE free == {v \in Parker : th[v].pc = "idle"}
             w == CHOOSE v \in free : TRUE
  <2>1. /\ free # {} /\ box' = [box EXCEPT ![f] = "parked"] /\ UNCHANGED inbox
        /\ th' = [th EXCEPT ![f] = [Ready EXCEPT !.f = f],
                            ![w] = [Ready EXCEPT !.pc = "look", !.f = f]]
    BY <1>5 DEF Park
  <2>2. w \in Parker /\ th[w].pc = "idle"
    BY <2>1
  <2> HIDE DEF w
  <2>3. w \in Thread /\ w # f /\ w \notin Flow /\ w # Main /\ w \notin Ticket
    BY <2>2, Names DEF Thread
  <2>4. th' = [[th EXCEPT ![f] = At("idle", f)] EXCEPT ![w] = At("look", f)]
    <3>1. [Ready EXCEPT !.f = f] = At("idle", f)
      BY SMTT(30) DEF Ready, At
    <3> QED
      BY <2>1, <3>1, ReadyAt
  <2>5. /\ At("idle", f) \in ThreadRec /\ At("idle", f).pc = "idle" /\ At("idle", f).f = f
        /\ At("look", f) \in ThreadRec /\ At("look", f).pc = "look" /\ At("look", f).f = f
    <3>1. "idle" \in Pcs /\ "look" \in Pcs /\ f \in Flow \cup {NoFlow}
      BY DEF Pcs, OnFlow
    <3> QED
      <4>1. At("idle", f) \in ThreadRec /\ At("look", f) \in ThreadRec
        BY <3>1, AtFacts
      <4>2. /\ At("idle", f).pc = "idle" /\ At("idle", f).f = f
            /\ At("look", f).pc = "look" /\ At("look", f).f = f
        BY DEF At
      <4> QED
        BY <4>1, <4>2
  <2>6. /\ Threads' /\ \A u \in Thread : u \notin {f, w} => th'[u] = th[u]
        /\ th'[f].pc = "idle" /\ th'[f].f = f /\ th'[w].pc = "look"
    BY <1>1, <2>3, <2>4, <2>5 DEF Threads
  <2>7. Types'
    BY <1>2, <2>1, <2>6 DEF IInv, Types, TypeOK, Tables
  <2>8. \A u \in Thread : th[u].pc \in Ending \cup {"clear"} <=> th'[u].pc \in Ending \cup {"clear"}
    BY <1>1, <2>2, <2>6 DEF Ending
  <2>9. \A u \in Thread : th'[u].pc \in Ending \cup {"clear"} => th'[u] = th[u]
    BY <2>6 DEF Ending
  <2>10. Own'
    <3>1. \A g \in Flow : box'[g] = IF g = f THEN "parked" ELSE box[g]
      BY <2>1 DEF IInv, Types, TypeOK
    <3>2. \A g \in Flow : FlowThread(g)'
      <4> TAKE g \in Flow
      <4>1. CASE g = f
        BY <2>6, <3>1, <4>1 DEF FlowThread, Driving, Ending
      <4>2. CASE g # f
        <5>1. th'[g] = th[g] /\ FlowThread(g) /\ box'[g] = box[g]
          BY <2>3, <2>6, <3>1, <4>2 DEF IInv, Own, Thread
        <5> QED
          BY <5>1 DEF FlowThread
      <4> QED
        BY <4>1, <4>2
    <3>3. \A u \in Thread : th[u].pc \in Ending => th[u].f # f
      BY <1>1, OneEnder DEF IInv, Ending
    <3>4. \A u \in Thread : th[u].pc = "clear" => th[u].f # f
      BY <1>1 DEF IInv, Own
    <3>5. \A u \in Thread : th[u].pc \in Ending \cup {"clear"} => th[u].f \in Flow
      BY DEF IInv, Types, Threads, OnFlow
    <3>6. \A u \in Thread \ Flow : OtherThread(u)'
      <4> TAKE u \in Thread \ Flow
      <4>1. CASE u = w
        BY <2>6, <4>1 DEF OtherThread, Driving, Ending
      <4>2. CASE u # w
        <5>1. th'[u] = th[u] /\ OtherThread(u)
          BY <2>6, <4>2 DEF IInv, Own
        <5>2. th[u].pc \in Ending => box'[th[u].f] = "held"
          BY <3>1, <3>3, <3>5, <5>1 DEF OtherThread
        <5> QED
          BY <5>1, <5>2 DEF OtherThread
      <4> QED
        BY <4>1, <4>2
    <3>7. Drained' = Drained /\ \A g \in Drained : g \in Flow /\ g # f
      <4>1. Main \in Thread /\ th'[Main] = th[Main] /\ th[Main] \in ThreadRec
        BY <1>1, <2>3, <2>6 DEF Threads, Thread
      <4>2. th[Main].work \in SUBSET Flow
        BY <4>1 DEF ThreadRec
      <4>3. Drained' = Drained /\ Drained \subseteq Flow
        BY <4>1, <4>2 DEF Drained
      <4>4. \A g \in Drained : box[g] = "held"
        BY DEF IInv, Own
      <4>5. box[f] = "running"
        BY <1>1 DEF IInv, Own, FlowThread
      <4> QED
        BY <4>3, <4>4, <4>5
    <3>8. \A u, v \in Thread \ Flow :
            th'[u].pc \in Ending /\ th'[v].pc \in Ending /\ th'[u].f = th'[v].f => u = v
      BY <2>9 DEF IInv, Own
    <3>9. \A g \in Drained' :
            box'[g] = "held" /\ \A u \in Thread : th'[u].pc \in Ending => th'[u].f # g
      BY <2>9, <3>1, <3>7, SMTT(30) DEF IInv, Own
    <3>10. \A u \in Thread : th'[u].pc = "clear" => box'[th'[u].f] = "done"
      BY <2>9, <3>1, <3>4, <3>5, SMTT(30) DEF IInv, Own
    <3>11. \A g \in Flow : box'[g] = "done" <=> outcome'[g] # "none"
      BY <1>1, <1>2, <3>1 DEF IInv, Own
    <3> QED
      BY <3>2, <3>6, <3>8, <3>9, <3>10, <3>11 DEF Own
  <2>11. Heard' /\ Clean'
    BY <1>2, <2>8, <2>9, EndsKept DEF IInv
  <2>12. Removed'
    <3>1. \A u \in Ticket : u \in Thread /\ th'[u] = th[u]
      BY <1>1, <2>3, <2>6 DEF Thread
    <3>2. \A g \in Flow : th'[g].pc = "submit" => th'[g] = th[g]
      BY <2>6 DEF Thread
    <3> QED
      <4>1. /\ aw' = aw /\ cancelled' = cancelled /\ hops' = hops /\ Removed
        BY <1>2 DEF IInv
      <4>2. \A u \in Ticket :
              /\ th'[u].pc # "idle" => u < aw.next
              /\ th'[u].pc \in {"deliver", "push"} => aw.byTicket[u] = NoFlow /\ u \notin cancelled
              /\ th'[u].pc \in {"idle", "work", "take", "deliver", "push"} => hops[u] = 0
        BY <3>1, <4>1 DEF Removed
      <4>3. ASSUME NEW g \in Flow, th'[g].pc = "submit"
            PROVE  th'[g].tk \in Ticket /\ th'[g].tk < aw.next /\ th'[th'[g].tk].pc = "idle"
        <5>1. th'[g] = th[g] /\ th[g].pc = "submit"
          BY <3>2, <4>3
        <5>2. th[g].tk \in Ticket /\ th[g].tk < aw.next /\ th[th[g].tk].pc = "idle"
          BY <4>1, <5>1 DEF Removed
        <5> QED
          BY <3>1, <5>1, <5>2
      <4>4. ASSUME NEW g \in Flow, NEW h \in Flow,
                   th'[g].pc = "submit", th'[h].pc = "submit", th'[g].tk = th'[h].tk
            PROVE  g = h
        <5>1. th[g].pc = "submit" /\ th[h].pc = "submit" /\ th[g].tk = th[h].tk
          BY <3>2, <4>4
        <5> QED
          BY <4>1, <5>1 DEF Removed
      <4>5. /\ \A u \in Ticket : aw.byTicket[u] # NoFlow => u < aw.next /\ u \notin cancelled
            /\ \A u \in cancelled : u < aw.next
        BY <4>1 DEF Removed
      <4> QED
        BY <4>1, <4>2, <4>3, <4>4, <4>5 DEF Removed
  <2> QED
    BY <2>7, <2>10, <2>11, <2>12 DEF IInv
<1> QED
  BY <1>4, <1>5

-----------------------------------------------------------------------------
(* The worker behind a parked flow *)

LEMMA OtherFacts ==
  ASSUME IInv, NEW t \in Thread \ Flow
  PROVE  /\ Threads /\ th[t] \in ThreadRec /\ th[t].pc \notin Driving
         /\ th[t].pc \in OnFlow => th[t].f \in Flow
BY DEF IInv, Types, Threads, Own, OtherThread

LEMMA ParkerFacts ==
  ASSUME NEW w \in Parker
  PROVE  w \in Thread \ Flow /\ w \notin Ticket /\ w # Main
BY Names DEF Thread

LEMMA LookForKillStep ==
  ASSUME IInv, NEW w \in Parker, LookForKill(w)
  PROVE  IInv'
<1> DEFINE f == th[w].f
           r == [th[w] EXCEPT !.pc = "retake", !.out = kill[f]]
<1>1. /\ w \in Thread \ Flow /\ w \notin Ticket /\ w # Main /\ Threads /\ th[w] \in ThreadRec
      /\ th[w].pc = "look" /\ f \in Flow
  BY ParkerFacts, OtherFacts DEF LookForKill, OnFlow
<1>2. kill' = [kill EXCEPT ![f] = "none"] /\ UNCHANGED <<aw, cancelled, slot, live, inbox, box, outcome, told, hops>>
  BY DEF LookForKill, tickets, flows, ends
<1>3. /\ Moves(w) /\ th'[w].pc \in {"idle", "retake"}
      /\ th'[w].pc = "retake" => th'[w].out \in {"killed", "fault"}
  <2>1. CASE kill[f] = "none"
    <3>1. Goto(w, At("idle", NoFlow))
      BY <2>1 DEF LookForKill, Ready, At
    <3> QED
      <4>1. "idle" \in Pcs /\ "idle" \notin OnFlow
        BY DEF Pcs, OnFlow, Driving, Ending
      <4> QED
        BY <1>1, <3>1, <4>1, GoAt DEF Moves
  <2>2. CASE kill[f] # "none"
    <3>1. Goto(w, r)
      BY <2>2 DEF LookForKill
    <3>2. kill[f] \in Outcomes /\ kill[f] \in {"killed", "fault"} /\ "retake" \in Pcs
      BY <1>1, <2>2 DEF IInv, Types, TypeOK, Outcomes, Pcs, OnFlow
    <3>3. r \in ThreadRec /\ r.pc = "retake" /\ r.f \in Flow /\ r.out \in {"killed", "fault"}
      BY <1>1, <3>2 DEF ThreadRec
    <3> HIDE DEF r, f
    <3> QED
      BY <1>1, <3>1, <3>3, GotoFacts DEF Moves
  <2> QED
    BY <2>1, <2>2
<1>4. Quiet(w)
  BY <1>1, <1>3, OtherMove DEF Sealing, Ending, Driving
<1>5. kill' \in [Flow -> {"none", "killed", "fault"}] /\ live' \subseteq Flow
  BY <1>2 DEF IInv, Types, TypeOK
<1> QED
  BY <1>1, <1>4, <1>5, QuietStep DEF LookForKill, flows

LEMMA RetakeStep ==
  ASSUME IInv, NEW w \in Parker, Retake(w)
  PROVE  IInv'
<1> DEFINE f == th[w].f
<1>1. /\ w \in Thread \ Flow /\ w \notin Ticket /\ w # Main /\ Threads
      /\ th[w].pc = "retake" /\ f \in Flow
  BY ParkerFacts, OtherFacts DEF Retake, OnFlow
<1>2. UNCHANGED <<aw, cancelled, slot, kill, live, inbox, outcome, told, hops>>
  BY DEF Retake, tickets, ends
<1>3. CASE box[f] = "parked"
  <2>1. box' = [box EXCEPT ![f] = "held"] /\ Step(w, "message")
    BY <1>3 DEF Retake
  <2>2. Moves(w) /\ th'[w].pc = "message" /\ th'[w].f = f
    BY <1>1, <2>1, StepFacts DEF Moves, Pcs, OnFlow, Ending
  <2> HIDE DEF f
  <2>3. Types'
    BY <1>2, <2>1, <2>2 DEF IInv, Types, TypeOK, Tables, Moves
  <2>4. Own'
    BY <1>1, <1>2, <1>3, <2>1, <2>2, BoxOwn DEF IInv, Driving, Ending
  <2>5. Heard' /\ Clean' /\ Removed'
    BY <1>1, <1>2, <2>2, KeepsHeard, KeepsClean, KeepsRemoved
       DEF IInv, KeepsOutcome, KeepsTicket, Sealing, Ending, Closing, tickets
  <2> QED
    BY <2>3, <2>4, <2>5 DEF IInv
<1>4. CASE box[f] # "parked"
  <2>1. UNCHANGED box /\ Step(w, "restore")
    BY <1>4 DEF Retake
  <2>2. Moves(w) /\ th'[w].pc = "restore" /\ th'[w].out = th[w].out
    BY <1>1, <2>1, StepFacts DEF Moves, Pcs, OnFlow
  <2>4. th[w].out \in {"killed", "fault"}
    BY <1>1 DEF IInv, Own, OtherThread
  <2>3. Quiet(w)
    BY <1>1, <2>2, <2>4, OtherMove DEF Sealing, Ending, Driving
  <2> QED
    BY <1>1, <1>2, <2>1, <2>3, QuietStep DEF tickets, ends, IInv, Types, TypeOK
<1> QED
  BY <1>3, <1>4


LEMMA RestoreStep ==
  ASSUME IInv, NEW w \in Parker, restore_kill_reason(w)
  PROVE  IInv'
<1>1. /\ w \in Thread \ Flow /\ w \notin Ticket /\ w # Main /\ Threads
      /\ th[w].pc = "restore" /\ th[w].out \in {"killed", "fault"}
  BY ParkerFacts, OtherFacts DEF restore_kill_reason, IInv, Own, OtherThread
<1>2. Goto(w, At("idle", NoFlow))
  BY DEF restore_kill_reason, Ready, At
<1>3. Moves(w) /\ th'[w].pc = "idle"
  BY <1>1, <1>2, AtFacts, GotoFacts, SMTT(30) DEF Moves, Pcs, OnFlow, Driving, Ending
<1>4. Quiet(w)
  BY <1>1, <1>3, OtherMove DEF Sealing, Ending, Driving
<1>5. kill' \in [Flow -> {"none", "killed", "fault"}] /\ live' \subseteq Flow
  BY <1>1 DEF restore_kill_reason, flows, IInv, Types, TypeOK
<1> QED
  BY <1>1, <1>4, <1>5, QuietStep DEF restore_kill_reason, flows

-----------------------------------------------------------------------------
(* The completer of a ticket *)

LEMMA TicketFacts ==
  ASSUME IInv, NEW t \in Ticket
  PROVE  /\ t \in Thread \ Flow /\ t # Main /\ t \notin Parker /\ Threads /\ th[t] \in ThreadRec
         /\ th[t].pc \in OnFlow => th[t].f \in Flow
BY OtherFacts, Names DEF Thread

LEMMA AnswerFacts ==
  ASSUME Threads, NEW t \in Thread, Answer(t)
  PROVE  Moves(t) /\ th'[t].pc = "end"
<1>1. Goto(t, At("end", NoFlow))
  BY SMTT(30) DEF Answer, Ready, At
<1> QED
  BY <1>1, AtFacts, GotoFacts, SMTT(30) DEF Moves, Pcs, OnFlow, Driving, Ending

LEMMA FailLiveFacts ==
  ASSUME Threads, NEW t \in Thread, NEW f \in Flow, FailLive(t, f)
  PROVE  Moves(t) /\ th'[t].pc = "lookup" /\ th'[t].f = f
<1> DEFINE r == [th[t] EXCEPT !.pc = "lookup", !.f = f, !.kind = "error"]
<1>1. r \in ThreadRec /\ r.pc = "lookup" /\ r.f = f
  <2>1. th[t] \in ThreadRec /\ "lookup" \in Pcs /\ "error" \in Kinds
    BY DEF Threads, Pcs, OnFlow, Kinds
  <2> QED
    BY <2>1 DEF ThreadRec
<1>2. Goto(t, r)
  BY DEF FailLive
<1> HIDE DEF r
<1> QED
  BY <1>1, <1>2, GotoFacts DEF Moves

LEMMA FinishHostAwaitStep ==
  ASSUME IInv, NEW t \in Ticket, FinishHostAwait(t)
  PROVE  IInv'
<1>1. /\ t \in Thread \ Flow /\ t # Main /\ Threads /\ th[t] \in ThreadRec /\ th[t].pc = "work"
  BY TicketFacts DEF FinishHostAwait
<1>2. PICK k \in {"value", "badcap", "error"} : Goto(t, [th[t] EXCEPT !.pc = "take", !.kind = k])
  BY DEF FinishHostAwait
<1>3. Moves(t) /\ th'[t].pc = "take"
  <2> DEFINE r == [th[t] EXCEPT !.pc = "take", !.kind = k]
  <2>1. r \in ThreadRec /\ r.pc = "take"
    BY <1>1 DEF ThreadRec, Pcs, Kinds
  <2>2. Goto(t, r)
    BY <1>2
  <2> HIDE DEF r
  <2> QED
    BY <1>1, <2>1, <2>2, GotoFacts DEF Moves, OnFlow, Driving, Ending
<1>4. Quiet(t)
  BY <1>1, <1>3, OtherMove DEF Sealing, Ending, Driving
<1> QED
  BY <1>1, <1>4, QuietStep DEF FinishHostAwait, flows, IInv, Types, TypeOK

\* The completer takes its ticket out of the index: it alone may deliver now.
LEMMA SettleStep ==
  ASSUME IInv, NEW t \in Ticket, settle(t)
  PROVE  IInv'
<1> DEFINE f == aw.byTicket[t]
<1>1. /\ t \in Thread \ Flow /\ t # Main /\ Threads /\ th[t] \in ThreadRec /\ th[t].pc = "take"
  BY TicketFacts DEF settle
<1>2. UNCHANGED <<cancelled, slot, kill, live, inbox, box, outcome, told, hops>>
  BY DEF settle, flows, ends
<1>3. CASE f = NoFlow
  <2>1. Moves(t) /\ th'[t].pc = "end" /\ UNCHANGED aw
    BY <1>1, <1>3, AnswerFacts DEF settle
  <2>2. Quiet(t)
    BY <1>1, <2>1, OtherMove DEF Sealing, Ending, Driving
  <2> QED
    BY <1>1, <1>2, <2>1, <2>2, QuietStep DEF tickets, ends, IInv, Types, TypeOK
<1>4. CASE f # NoFlow
  <2>1. aw' = take_ticket(aw, t)
    BY <1>4 DEF settle
  <2>2. /\ aw' \in Index /\ Agree(aw') /\ aw'.next = aw.next
        /\ \A u \in Ticket : aw'.byTicket[u] = IF u = t THEN NoFlow ELSE aw.byTicket[u]
        /\ \A g \in Flow : aw'.byFlow[g] \subseteq aw.byFlow[g]
    BY <1>4, <2>1, IndexFacts, TakeTicketFacts
  <2>3. f \in Flow
    BY <1>4, IndexFacts DEF Index
  <2>4. Moves(t) /\ th'[t].pc \in {"deliver", "lookup"}
    <3>1. CASE th[t].kind = "value"
      <4> DEFINE r == [th[t] EXCEPT !.pc = "deliver", !.f = f]
      <4>1. Goto(t, r)
        BY <1>4, <3>1 DEF settle
      <4> HIDE DEF f
      <4>2. r \in ThreadRec /\ r.pc = "deliver" /\ r.f \in Flow
        BY <1>1, <2>3 DEF ThreadRec, Pcs, OnFlow
      <4> HIDE DEF r
      <4> QED
        BY <1>1, <4>1, <4>2, GotoFacts DEF Moves
    <3>2. CASE th[t].kind # "value"
      BY <1>1, <1>4, <2>3, <3>2, FailLiveFacts DEF settle
    <3> QED
      BY <3>1, <3>2
  <2> HIDE DEF f
  <2>5. Types'
    BY <1>2, <2>2, <2>4 DEF IInv, Types, TypeOK, Tables, Moves, Index, Agree
  <2>6. Own' /\ Heard'
    BY <1>1, <1>2, <2>4, KeepsOwn, KeepsHeard
       DEF IInv, KeepsFlow, KeepsOutcome, Driving, Sealing, Ending
  <2>7. Clean'
    BY <1>1, <1>2, <2>2, <2>4, KeepsClean DEF IInv, Closing
  <2>8. Removed'
    <3>1. \A u \in Ticket : u \in Thread /\ (u # t => th'[u] = th[u])
      BY <2>4 DEF Moves, Thread
    <3>2. t < aw.next /\ t \notin cancelled /\ hops[t] = 0
      BY <1>1, <1>4 DEF IInv, Removed, f
    <3>3. \A u \in Ticket :
            /\ th'[u].pc # "idle" => u < aw'.next
            /\ th'[u].pc \in {"deliver", "push"} => aw'.byTicket[u] = NoFlow /\ u \notin cancelled
            /\ th'[u].pc \in {"idle", "work", "take", "deliver", "push"} => hops[u] = 0
      BY <2>2, <2>4, <3>1, <3>2 DEF IInv, Removed
    <3>4. \A g \in Flow : g \in Thread /\ th'[g] = th[g]
      BY <1>1, <2>4 DEF Moves, Thread
    <3>5. \A g \in Flow : th[g].pc = "submit" => th[g].tk \in Ticket /\ th[g].tk # t
      BY <1>1 DEF IInv, Removed
    <3>6. \A g \in Flow : th'[g].pc = "submit" =>
            th'[g].tk \in Ticket /\ th'[g].tk < aw'.next /\ th'[th'[g].tk].pc = "idle"
      <4> TAKE g \in Flow
      <4> HAVE th'[g].pc = "submit"
      <4>1. th'[g] = th[g] /\ th[g].pc = "submit"
        BY <3>4
      <4>2. th[g].tk \in Ticket /\ th[g].tk < aw.next /\ th[th[g].tk].pc = "idle"
        BY <4>1 DEF IInv, Removed
      <4>3. th'[th[g].tk] = th[th[g].tk]
        BY <3>1, <3>5, <4>1, <4>2
      <4> QED
        BY <2>2, <4>1, <4>2, <4>3
    <3>7. \A u \in Ticket : aw'.byTicket[u] # NoFlow => u < aw'.next /\ u \notin cancelled
      BY <2>2 DEF IInv, Removed
    <3> QED
      <4>1. /\ cancelled' = cancelled /\ hops' = hops
            /\ \A u \in cancelled : u < aw'.next
        BY <1>2, <2>2 DEF IInv, Removed
      <4>2. ASSUME NEW g \in Flow, NEW h \in Flow,
                   th'[g].pc = "submit", th'[h].pc = "submit", th'[g].tk = th'[h].tk
            PROVE  g = h
        <5>1. th[g].pc = "submit" /\ th[h].pc = "submit" /\ th[g].tk = th[h].tk
          BY <3>4, <4>2
        <5> QED
          BY <5>1 DEF IInv, Removed
      <4> QED
        BY <3>3, <3>6, <3>7, <4>1, <4>2 DEF Removed
  <2> QED
    BY <2>5, <2>6, <2>7, <2>8 DEF IInv
<1> QED
  BY <1>3, <1>4

LEMMA DeliverReadyStep ==
  ASSUME IInv, NEW t \in Ticket, deliver_ready(t)
  PROVE  IInv'
<1>1. t \in Thread \ Flow /\ t # Main /\ Threads /\ th[t].pc = "deliver" /\ th[t].f \in Flow
  BY TicketFacts DEF deliver_ready, OnFlow
<1>2. Moves(t) /\ th'[t].pc \in {"push", "end"}
  BY <1>1, StepFacts, AnswerFacts DEF deliver_ready, Moves, Pcs, OnFlow
<1>3. Quiet(t)
  BY <1>1, <1>2, OtherMove DEF Sealing, Ending, Driving
<1> QED
  BY <1>1, <1>3, QuietStep DEF deliver_ready, flows, IInv, Types, TypeOK

LEMMA FailLiveStep ==
  ASSUME IInv, NEW t \in Ticket, fail_live(t)
  PROVE  IInv'
<1>1. t \in Thread \ Flow /\ t # Main /\ Threads /\ th[t].pc = "lookup" /\ th[t].f \in Flow
  BY TicketFacts DEF fail_live, OnFlow
<1>2. Moves(t) /\ th'[t].pc \in {"request", "end"}
  BY <1>1, StepFacts, AnswerFacts DEF fail_live, Moves, Pcs, OnFlow
<1>3. Quiet(t)
  BY <1>1, <1>2, OtherMove DEF Sealing, Ending, Driving
<1> QED
  BY <1>1, <1>3, QuietStep DEF fail_live, flows, IInv, Types, TypeOK

\* A hop is delivered by the completer that took the ticket, which is then done.
LEMMA DeliverRemoved ==
  ASSUME Types, Removed, NEW t \in Ticket, Moves(t), th[t].pc = "push", th'[t].pc = "end",
         UNCHANGED tickets, hops' = [hops EXCEPT ![t] = @ + 1], t \in Thread \ Flow
  PROVE  Removed' /\ hops' \in [Ticket -> Nat]
<1>1. UNCHANGED <<aw, cancelled>> /\ hops \in [Ticket -> Nat]
  BY DEF tickets, Types, Tables
<1>2. hops' \in [Ticket -> Nat] /\ \A u \in Ticket : u # t => hops'[u] = hops[u]
  BY <1>1, SMTT(30)
<1>3. \A u \in Ticket : u \in Thread /\ (u # t => th'[u] = th[u])
  BY DEF Thread, Moves
<1>4. \A g \in Flow : g \in Thread /\ th'[g] = th[g]
  BY DEF Thread, Moves
<1>5. \A u \in Ticket :
        /\ th'[u].pc # "idle" => u < aw.next
        /\ th'[u].pc \in {"deliver", "push"} => aw.byTicket[u] = NoFlow /\ u \notin cancelled
        /\ th'[u].pc \in {"idle", "work", "take", "deliver", "push"} => hops'[u] = 0
  BY <1>2, <1>3 DEF Removed
<1>6. \A g \in Flow : th[g].pc = "submit" => th[g].tk \in Ticket /\ th[g].tk # t
  BY DEF Removed
<1>7. \A g \in Flow : th'[g].pc = "submit" =>
        th'[g].tk \in Ticket /\ th'[g].tk < aw.next /\ th'[th'[g].tk].pc = "idle"
  BY <1>3, <1>4, <1>6 DEF Removed
<1> QED
  BY <1>1, <1>2, <1>4, <1>5, <1>7, SMTT(30) DEF Removed

LEMMA AppendFits ==
  ASSUME NEW q \in Seq(Ticket), NEW t \in Ticket, Len(q) <= Capacity
  PROVE  LET r == Append(IF Len(q) >= Capacity THEN Tail(q) ELSE q, t)
         IN  r \in Seq(Ticket) /\ Len(r) <= Capacity
<1>1. CASE Len(q) >= Capacity
  <2>1. q # << >>
    BY <1>1, Bounds, SMTT(30)
  <2>2. Tail(q) \in Seq(Ticket) /\ Len(Tail(q)) = Len(q) - 1
    BY <2>1, SMTT(30)
  <2> HIDE DEF Ticket
  <2> QED
    BY <1>1, <2>2, Bounds, SMTT(30)
<1>2. CASE ~(Len(q) >= Capacity)
  BY <1>2, Bounds, SMTT(30)
<1> QED
  BY <1>1, <1>2

LEMMA DeliverStagedStep ==
  ASSUME IInv, NEW t \in Ticket, deliver_staged(t)
  PROVE  IInv'
<1> DEFINE f == th[t].f
           full == Len(inbox[f].q) >= Capacity
<1>1. t \in Thread \ Flow /\ t # Main /\ Threads /\ th[t].pc = "push" /\ f \in Flow
  BY TicketFacts DEF deliver_staged, OnFlow
<1>2. UNCHANGED <<aw, cancelled, slot, kill, live, outcome, told, tickets, ends>>
  BY DEF deliver_staged, tickets, ends, flows
<1>3. CASE UNCHANGED <<flows, hops>> /\ (Answer(t) \/ FailLive(t, f))
  <2>1. Moves(t) /\ th'[t].pc \in {"end", "lookup"}
    BY <1>1, <1>3, AnswerFacts, FailLiveFacts
  <2>2. Quiet(t)
    BY <1>1, <2>1, OtherMove DEF Sealing, Ending, Driving
  <2> QED
    BY <1>1, <1>2, <1>3, <2>2, QuietStep DEF flows, IInv, Types, TypeOK
<1>4. CASE /\ ~inbox[f].closed /\ box[f] = "parked"
           /\ box' = [box EXCEPT ![f] = "queued"]
           /\ hops' = [hops EXCEPT ![t] = @ + 1] /\ Answer(t) /\ UNCHANGED inbox
  <2>1. Moves(t) /\ th'[t].pc = "end"
    BY <1>1, <1>4, AnswerFacts
  <2> HIDE DEF f
  <2>2. Removed' /\ hops' \in [Ticket -> Nat]
    BY <1>1, <1>2, <1>4, <2>1, DeliverRemoved DEF IInv
  <2>3. Types'
    BY <1>1, <1>2, <1>4, <2>1, <2>2 DEF IInv, Types, TypeOK, Tables, Moves
  <2>4. Own'
    BY <1>1, <1>2, <1>4, <2>1, BoxOwn DEF IInv, Driving, Ending
  <2>5. Heard' /\ Clean'
    BY <1>1, <1>2, <2>1, KeepsHeard, KeepsClean DEF IInv, KeepsOutcome, Sealing, Ending, Closing
  <2> QED
    BY <2>2, <2>3, <2>4, <2>5 DEF IInv
<1>5. CASE /\ ~inbox[f].closed /\ UNCHANGED box
           /\ inbox' = [inbox EXCEPT ![f].q = Append(IF full THEN Tail(@) ELSE @, t)]
           /\ hops' = [hops EXCEPT ![t] = @ + 1] /\ Answer(t)
  <2>1. Moves(t) /\ th'[t].pc = "end"
    BY <1>1, <1>5, AnswerFacts
  <2>2. Removed' /\ hops' \in [Ticket -> Nat]
    BY <1>1, <1>2, <1>5, <2>1, DeliverRemoved DEF IInv
  <2>3. /\ inbox' \in [Flow -> [q : Seq(Ticket), closed : BOOLEAN]]
        /\ \A g \in Flow : Len(inbox'[g].q) <= Capacity /\ (inbox'[g].closed => inbox'[g].q = << >>)
    <3> DEFINE r == Append(IF full THEN Tail(inbox[f].q) ELSE inbox[f].q, t)
    <3>1. /\ inbox \in [Flow -> [q : Seq(Ticket), closed : BOOLEAN]]
          /\ \A g \in Flow : Len(inbox[g].q) <= Capacity /\ (inbox[g].closed => inbox[g].q = << >>)
      BY DEF IInv, Types, TypeOK, Tables
    <3>2. r \in Seq(Ticket) /\ Len(r) <= Capacity
      BY <1>1, <3>1, AppendFits
    <3>3. inbox' = [inbox EXCEPT ![f].q = r]
      BY <1>5
    <3>4. f \in Flow /\ ~inbox[f].closed
      BY <1>1, <1>5
    <3> HIDE DEF r, f
    <3>5. inbox' \in [Flow -> [q : Seq(Ticket), closed : BOOLEAN]]
      BY <3>1, <3>2, <3>3, <3>4
    <3>6. inbox[f] \in [q : Seq(Ticket), closed : BOOLEAN]
      BY <3>1, <3>4
    <3>7. inbox'[f] = [inbox[f] EXCEPT !.q = r] /\ \A g \in Flow : g # f => inbox'[g] = inbox[g]
      BY <3>1, <3>3, <3>4
    <3>8. inbox'[f].q = r /\ inbox'[f].closed = inbox[f].closed
      BY <3>6, <3>7
    <3>9. ASSUME NEW g \in Flow
          PROVE  Len(inbox'[g].q) <= Capacity /\ (inbox'[g].closed => inbox'[g].q = << >>)
      <4>1. CASE g = f
        BY <3>2, <3>4, <3>8, <4>1
      <4>2. CASE g # f
        BY <3>1, <3>7, <4>2
      <4> QED
        BY <4>1, <4>2
    <3> QED
      BY <3>5, <3>9
  <2> HIDE DEF f
  <2>4. Types'
    BY <1>1, <1>2, <1>5, <2>1, <2>2, <2>3 DEF IInv, Types, TypeOK, Tables, Moves
  <2>5. Own'
    BY <1>1, <1>2, <1>5, <2>1, KeepsOwn DEF IInv, KeepsFlow, Driving, Ending
  <2>6. Heard' /\ Clean'
    BY <1>1, <1>2, <2>1, KeepsHeard, KeepsClean DEF IInv, KeepsOutcome, Sealing, Ending, Closing
  <2> QED
    BY <2>2, <2>4, <2>5, <2>6 DEF IInv
<1> QED
  BY <1>3, <1>4, <1>5 DEF deliver_staged

\* A failure is recorded only while nobody has committed the flow to a success.
LEMMA FailRequestStep ==
  ASSUME IInv, NEW t \in Ticket, FailRequest(t)
  PROVE  IInv'
<1> DEFINE f == th[t].f
<1>1. t \in Thread \ Flow /\ t # Main /\ Threads /\ th[t].pc = "request" /\ f \in Flow
  BY TicketFacts DEF FailRequest, OnFlow
<1>2. UNCHANGED <<aw, cancelled, kill, live, inbox, box, outcome, hops, tickets>>
  BY DEF FailRequest, tickets, flows
<1>3. CASE Answer(t) /\ UNCHANGED <<slot, told>>
  <2>1. Moves(t) /\ th'[t].pc = "end"
    BY <1>1, <1>3, AnswerFacts
  <2>2. Quiet(t)
    BY <1>1, <2>1, OtherMove DEF Sealing, Ending, Driving
  <2> QED
    BY <1>1, <1>2, <1>3, <2>2, QuietStep DEF ends, IInv, Types, TypeOK
<1>4. CASE request(f) /\ Step(t, "extract")
  <2>1. Moves(t) /\ th'[t].pc = "extract"
    BY <1>1, <1>4, StepFacts DEF Moves, Pcs, OnFlow
  <2>2. /\ ~slot[f].settled /\ slot' = [slot EXCEPT ![f].failed = TRUE]
        /\ told' = IF outcome[f] = "none" THEN told \cup {f} ELSE told
    BY <1>4 DEF request
  <2> HIDE DEF f
  <2>3. Types'
    BY <1>1, <1>2, <2>1, <2>2 DEF IInv, Types, TypeOK, Tables, Moves
  <2>4. Own' /\ Clean' /\ Removed'
    BY <1>1, <1>2, <2>1, KeepsOwn, KeepsClean, KeepsRemoved
       DEF IInv, KeepsFlow, KeepsTicket, Driving, Ending, Closing
  <2>5. Heard'
    <3>1. /\ \A g \in Flow : slot'[g].settled = slot[g].settled /\ (slot[g].failed => slot'[g].failed)
          /\ slot'[f].failed
      BY <1>1, <2>2 DEF IInv, Types, TypeOK
    <3>2. \A u \in Thread : th'[u].pc \in Sealing <=> th[u].pc \in Sealing
      BY <1>1, <2>1 DEF Moves, Sealing, Ending
    <3>3. \A u \in Thread : th[u].pc \in Sealing => th'[u] = th[u] /\ th[u].f \in Flow
      BY <1>1, <2>1 DEF Moves, Sealing, Ending, Threads, OnFlow
    <3>4. \A u \in Thread : th'[u].pc \in Sealing =>
            /\ th'[u].out # "none"
            /\ th'[u].out = "completed" => slot'[th'[u].f].settled /\ th'[u].f \notin told'
      BY <2>2, <3>1, <3>2, <3>3, SMTT(30) DEF IInv, Heard
    <3>5. \A g \in told : outcome[g] = "none" =>
            slot'[g].failed \/ \E u \in Thread : th'[u].pc \in Sealing /\ th'[u].f = g
      BY <3>1, <3>2, <3>3, SMTT(30) DEF IInv, Heard, Types, Tables
    <3> QED
      BY <1>2, <2>2, <3>1, <3>4, <3>5 DEF IInv, Heard
  <2> QED
    BY <2>3, <2>4, <2>5 DEF IInv
<1> QED
  BY <1>3, <1>4 DEF FailRequest

-----------------------------------------------------------------------------
(* extract_for_kill *)

\* what is known of a thread that looks for a flow to kill
LEMMA ExtractorFacts ==
  ASSUME IInv, NEW t \in Ticket \cup Killer
  PROVE  /\ t \in Thread \ Flow /\ t # Main /\ t \notin Parker /\ Threads
         /\ th[t].pc \in OnFlow => th[t].f \in Flow
BY OtherFacts, Names DEF Thread

LEMMA RequestKillStep ==
  ASSUME IInv, NEW k \in Killer, NEW f \in Flow, request_kill(k, f)
  PROVE  IInv'
<1>1. k \in Thread \ Flow /\ k # Main /\ k \notin Ticket /\ Threads /\ th[k].pc = "idle"
  BY ExtractorFacts, Names DEF request_kill
<1>2. Moves(k) /\ th'[k].pc = "extract"
  <2> DEFINE r == [th[k] EXCEPT !.pc = "extract", !.f = f]
  <2>1. th[k] \in ThreadRec /\ "extract" \in Pcs
    BY <1>1 DEF Threads, Pcs, OnFlow
  <2>2. r \in ThreadRec /\ r.pc = "extract" /\ r.f = f
    BY <2>1 DEF ThreadRec
  <2>3. Goto(k, r)
    BY DEF request_kill
  <2> HIDE DEF r
  <2> QED
    BY <1>1, <2>2, <2>3, GotoFacts DEF Moves
<1>3. Quiet(k)
  BY <1>1, <1>2, OtherMove DEF Sealing, Ending, Driving
<1> QED
  BY <1>1, <1>3, QuietStep DEF request_kill, flows, IInv, Types, TypeOK

LEMMA ExtractStep ==
  ASSUME IInv, NEW t \in Ticket \cup Killer, extract_for_kill(t)
  PROVE  IInv'
<1>1. t \in Thread \ Flow /\ t # Main /\ Threads /\ th[t].pc = "extract" /\ th[t].f \in Flow
  BY ExtractorFacts DEF extract_for_kill, OnFlow
<1>2. Moves(t) /\ th'[t].pc \in {"signal", "end"}
  BY <1>1, StepFacts, LeaveFacts, SMTT(30) DEF extract_for_kill, Moves, Pcs, OnFlow
<1>3. Quiet(t)
  BY <1>1, <1>2, OtherMove DEF Sealing, Ending, Driving
<1> QED
  BY <1>1, <1>3, QuietStep DEF extract_for_kill, flows, IInv, Types, TypeOK

LEMMA SetKillStep ==
  ASSUME IInv, NEW t \in Ticket \cup Killer, SetKill(t)
  PROVE  IInv'
<1>1. t \in Thread \ Flow /\ t # Main /\ Threads /\ th[t].pc = "signal" /\ th[t].f \in Flow
  BY ExtractorFacts DEF SetKill, OnFlow
<1>2. Moves(t) /\ th'[t].pc = "takeparked"
  BY <1>1, StepFacts DEF SetKill, Moves, Pcs, OnFlow
<1>3. Quiet(t)
  BY <1>1, <1>2, OtherMove DEF Sealing, Ending, Driving
<1>4. kill' \in [Flow -> {"none", "killed", "fault"}] /\ live' \subseteq Flow
  BY <1>1 DEF SetKill, flows, IInv, Types, TypeOK
<1> QED
  BY <1>1, <1>3, <1>4, QuietStep DEF SetKill, flows

LEMMA TakeParkedStep ==
  ASSUME IInv, NEW t \in Ticket \cup Killer, TakeParked(t)
  PROVE  IInv'
<1> DEFINE f == th[t].f
<1>1. /\ t \in Thread \ Flow /\ t # Main /\ Threads /\ th[t].pc = "takeparked" /\ f \in Flow
  BY ExtractorFacts DEF TakeParked, OnFlow
<1>2. UNCHANGED <<aw, cancelled, slot, kill, live, inbox, outcome, told, hops>>
  BY DEF TakeParked, tickets, ends
<1>3. CASE box[f] = "parked"
  <2>1. box' = [box EXCEPT ![f] = "held"] /\ Step(t, "message")
    BY <1>3 DEF TakeParked
  <2>2. Moves(t) /\ th'[t].pc = "message" /\ th'[t].f = f
    BY <1>1, <2>1, StepFacts DEF Moves, Pcs, OnFlow, Ending
  <2> HIDE DEF f
  <2>3. Types'
    BY <1>2, <2>1, <2>2 DEF IInv, Types, TypeOK, Tables, Moves
  <2>4. Own'
    BY <1>1, <1>2, <1>3, <2>1, <2>2, BoxOwn DEF IInv, Driving, Ending
  <2>5. Heard' /\ Clean' /\ Removed'
    BY <1>1, <1>2, <2>2, KeepsHeard, KeepsClean, KeepsRemoved
       DEF IInv, KeepsOutcome, KeepsTicket, Sealing, Ending, Closing, tickets
  <2> QED
    BY <2>3, <2>4, <2>5 DEF IInv
<1>4. CASE box[f] # "parked"
  <2>1. UNCHANGED box /\ Step(t, "canceltickets")
    BY <1>4 DEF TakeParked
  <2>2. Moves(t) /\ th'[t].pc = "canceltickets"
    BY <1>1, <2>1, StepFacts DEF Moves, Pcs, OnFlow
  <2>3. Quiet(t)
    BY <1>1, <2>2, OtherMove DEF Sealing, Ending, Driving
  <2> QED
    BY <1>1, <1>2, <2>1, <2>3, QuietStep DEF tickets, ends, IInv, Types, TypeOK
<1> QED
  BY <1>3, <1>4

\* A step of one thread that cancels tickets and changes no other table.
LEMMA CancelStep ==
  ASSUME IInv, NEW t \in Thread, Moves(t), KeepsFlow(t), KeepsOutcome(t), KeepsTicket(t), Cancels,
         th'[t].pc \in Closing =>
           \/ th[t].pc \in Closing /\ th'[t].f = th[t].f
           \/ th'[t].f \in Flow /\ aw'.byFlow[th'[t].f] = {},
         UNCHANGED <<slot, kill, flows, ends, hops>>
  PROVE  IInv'
<1>1. UNCHANGED <<slot, kill, live, inbox, box, outcome, told, hops>>
  BY DEF flows, ends
<1>2. Types'
  BY <1>1 DEF IInv, Types, TypeOK, Tables, Moves, Cancels, Index, Agree
<1>3. Own' /\ Heard' /\ Removed'
  BY <1>1, KeepsOwn, KeepsHeard, CancelsRemoved DEF IInv
<1>4. Clean'
  <2>1. \A u \in Thread : th[u].pc \in Closing => th[u].f \in Flow
    BY DEF IInv, Types, Threads, Closing, OnFlow, Ending
  <2>2. \A u \in Thread : th'[u].pc \in Closing => aw'.byFlow[th'[u].f] = {}
    BY <2>1 DEF IInv, Clean, Closing, Moves, Cancels
  <2>3. \A g \in Flow : outcome'[g] # "none" => aw'.byFlow[g] = {}
    BY <1>1 DEF IInv, Clean, Cancels
  <2> QED
    BY <2>2, <2>3 DEF Clean, Closing
<1> QED
  BY <1>2, <1>3, <1>4 DEF IInv

LEMMA TryTakeStep ==
  ASSUME IInv, NEW t \in Ticket \cup Killer, try_take_host_await(t)
  PROVE  IInv'
<1>1. t \in Thread \ Flow /\ t # Main /\ Threads /\ th[t].pc = "canceltickets" /\ th[t].f \in Flow
  BY ExtractorFacts DEF try_take_host_await, OnFlow
<1>2. Moves(t) /\ th'[t].pc = "end"
  BY <1>1, LeaveFacts DEF try_take_host_await, Moves
<1>3. Quiet(t)
  BY <1>1, <1>2, OtherMove DEF Sealing, Ending, Driving
<1>4. Cancels
  BY <1>1, CancelFlowCancels DEF try_take_host_await
<1> QED
  BY <1>1, <1>3, <1>4, CancelStep DEF try_take_host_await, Quiet

-----------------------------------------------------------------------------
(* finalize_one *)

LEMMA EnderFacts ==
  ASSUME IInv, NEW t \in Thread, th[t].pc \in Ending \cup {"clear"}
  PROVE  /\ Threads /\ th[t] \in ThreadRec /\ th[t].f \in Flow
         /\ t \in Flow => th[t].f = t
BY DEF IInv, Types, Threads, Own, FlowThread, OnFlow

\* A thread goes from one position of an end to the next.
LEMMA EndMove ==
  ASSUME IInv, NEW t \in Thread, th[t].pc \in Sealing, NEW p \in Sealing, Step(t, p)
  PROVE  /\ Moves(t) /\ KeepsFlow(t) /\ KeepsOutcome(t) /\ KeepsTicket(t)
         /\ th'[t].pc = p /\ th'[t].f = th[t].f /\ th'[t].out = th[t].out
<1>1. /\ Threads /\ th[t].f \in Flow /\ (t \in Flow => th[t].f = t)
  BY EnderFacts DEF Sealing
<1>2. p \in Pcs
  BY DEF Sealing, Pcs, OnFlow
<1>3. /\ Moves(t) /\ th'[t].pc = p /\ th'[t].f = th[t].f /\ th'[t].out = th[t].out
      /\ th'[t].kind = th[t].kind /\ th'[t].work = th[t].work
  BY <1>1, <1>2, StepFacts DEF Moves
<1>4. th[t].out # "none"
  BY DEF IInv, Heard
<1>5. t \in Ticket => t \notin Flow
  BY Names
<1> QED
  BY <1>1, <1>3, <1>4, <1>5
     DEF KeepsFlow, KeepsOutcome, KeepsTicket, Driving, Sealing, Ending

\* A host failure that is found names the end of a killed flow.
LEMMA MessageStep ==
  ASSUME IInv, NEW t \in Thread, message_or_kill(t)
  PROVE  IInv'
<1> DEFINE f == th[t].f
           o == IF slot[f].failed \/ th[t].kind = "error" THEN "host" ELSE "killed"
<1>1. th[t].pc = "message" /\ Threads /\ f \in Flow /\ (t \in Flow => f = t)
  BY EnderFacts DEF message_or_kill, Ending
<1>2. /\ slot' = [slot EXCEPT ![f].failed = FALSE]
      /\ UNCHANGED <<aw, cancelled, kill, live, inbox, box, outcome, told, hops>>
  BY DEF message_or_kill, take, tickets, flows, ends
<1>3. Finalize(t, f, o)
  BY DEF message_or_kill
<1>4. o \in {"host", "killed"}
  OBVIOUS
<1> HIDE DEF f, o
<1>5. /\ Moves(t) /\ th'[t].pc = "seal" /\ th'[t].f = f /\ th'[t].out = o
      /\ th'[t].kind = th[t].kind /\ th'[t].work = th[t].work
  BY <1>1, <1>3, <1>4, FinalizeFacts DEF Moves, Outcomes
<1>6. Types'
  <2>1. TypeOK /\ Tables
    BY DEF IInv, Types
  <2>2. slot' \in [Flow -> [failed : BOOLEAN, settled : BOOLEAN]]
    BY <1>1, <1>2, <2>1 DEF TypeOK
  <2>3. TypeOK'
    BY <1>2, <2>1, <2>2 DEF TypeOK
  <2>4. Tables'
    BY <1>2, <2>1 DEF Tables
  <2> QED
    BY <1>5, <2>3, <2>4 DEF Types, Moves
<1>7. KeepsFlow(t) /\ KeepsTicket(t)
  BY <1>1, <1>5, Names DEF KeepsFlow, KeepsTicket, Ending, Driving, f
<1>8. Own' /\ Clean' /\ Removed'
  BY <1>1, <1>2, <1>5, <1>7, KeepsOwn, KeepsClean, KeepsRemoved DEF IInv, Closing, tickets
<1>9. Heard'
  <2>1. \A g \in Flow : g # f => slot'[g] = slot[g]
    BY <1>1, <1>2 DEF IInv, Types, TypeOK
  <2>2. th[t].f = f
    BY DEF f
  <2> QED
    BY <1>1, <1>2, <1>4, <1>5, <2>1, <2>2, SlotHeard DEF IInv, Ending, Sealing
<1> QED
  BY <1>6, <1>8, <1>9 DEF IInv

LEMMA SealStep ==
  ASSUME IInv, NEW t \in Thread, FinalizeSeal(t)
  PROVE  IInv'
<1> DEFINE f == th[t].f
<1>1. th[t].pc = "seal" /\ th[t].pc \in Sealing /\ Threads /\ f \in Flow
  BY EnderFacts DEF FinalizeSeal, Ending, Sealing
<1>2. /\ slot' = [slot EXCEPT ![f] = [failed |-> FALSE, settled |-> TRUE]]
      /\ UNCHANGED <<aw, cancelled, kill, live, inbox, box, outcome, told, hops>>
  BY DEF FinalizeSeal, seal, tickets, flows, ends
<1>3. /\ Moves(t) /\ KeepsFlow(t) /\ KeepsOutcome(t) /\ KeepsTicket(t)
      /\ th'[t].pc = "endkill" /\ th'[t].f = f /\ th'[t].out = th[t].out
  BY <1>1, EndMove DEF FinalizeSeal, Sealing, Ending
<1> HIDE DEF f
<1>4. Types'
  BY <1>1, <1>2, <1>3 DEF IInv, Types, TypeOK, Tables, Moves
<1>5. Own' /\ Clean' /\ Removed'
  BY <1>2, <1>3, KeepsOwn, KeepsClean, KeepsRemoved DEF IInv, Closing, tickets
<1>6. Heard'
  <2>1. (\A g \in Flow : g # f => slot'[g] = slot[g]) /\ slot'[f].settled
    BY <1>1, <1>2 DEF IInv, Types, TypeOK
  <2>2. th[t].f = f /\ th[t].out # "none" /\ (th[t].out = "completed" => f \notin told)
    BY <1>1 DEF f, IInv, Heard
  <2> QED
    BY <1>1, <1>2, <1>3, <2>1, <2>2, SlotHeard DEF IInv, Ending, Sealing
<1> QED
  BY <1>4, <1>5, <1>6 DEF IInv

LEMMA EndKillStep ==
  ASSUME IInv, NEW t \in Thread, FinalizeKill(t)
  PROVE  IInv'
<1>1. th[t].pc = "endkill" /\ th[t].pc \in Sealing /\ th[t].f \in Flow
  BY EnderFacts DEF FinalizeKill, Ending, Sealing
<1>2. Quiet(t)
  BY <1>1, EndMove DEF FinalizeKill, Sealing, Ending, Quiet, Closing
<1>3. kill' \in [Flow -> {"none", "killed", "fault"}] /\ live' \subseteq Flow
  BY <1>1 DEF FinalizeKill, flows, IInv, Types, TypeOK
<1> QED
  BY <1>2, <1>3, QuietStep DEF FinalizeKill, flows

LEMMA EndTicketsStep ==
  ASSUME IInv, NEW t \in Thread, FinalizeTickets(t)
  PROVE  IInv'
<1>1. th[t].pc = "endtickets" /\ th[t].pc \in Sealing /\ th[t].f \in Flow
  BY EnderFacts DEF FinalizeTickets, Ending, Sealing
<1>2. /\ Moves(t) /\ KeepsFlow(t) /\ KeepsOutcome(t) /\ KeepsTicket(t) /\ th'[t].f = th[t].f
  BY <1>1, EndMove DEF FinalizeTickets, Sealing, Ending
<1>3. Cancels /\ aw'.byFlow[th[t].f] = {}
  BY <1>1, CancelFlowCancels DEF FinalizeTickets
<1> QED
  BY <1>1, <1>2, <1>3, CancelStep DEF FinalizeTickets

\* A step of one thread that closes and drains an inbox and changes no other table.
LEMMA InboxStep ==
  ASSUME IInv, NEW t \in Thread, Quiet(t), NEW f \in Flow,
         inbox' = [inbox EXCEPT ![f] = [q |-> << >>, closed |-> TRUE]],
         UNCHANGED <<tickets, slot, kill, live, box, ends, hops>>
  PROVE  IInv'
<1>1. UNCHANGED <<aw, cancelled, slot, kill, live, box, outcome, told, hops>>
  BY DEF tickets, ends
<1>2. /\ inbox' \in [Flow -> [q : Seq(Ticket), closed : BOOLEAN]]
      /\ \A g \in Flow : Len(inbox'[g].q) <= Capacity /\ (inbox'[g].closed => inbox'[g].q = << >>)
  <2>1. /\ inbox \in [Flow -> [q : Seq(Ticket), closed : BOOLEAN]]
        /\ \A g \in Flow : Len(inbox[g].q) <= Capacity /\ (inbox[g].closed => inbox[g].q = << >>)
    BY DEF IInv, Types, TypeOK, Tables
  <2> DEFINE r == [q |-> << >>, closed |-> TRUE]
  <2>2. r \in [q : Seq(Ticket), closed : BOOLEAN] /\ r.q = << >> /\ Len(r.q) <= Capacity
    BY Bounds, SMTT(30)
  <2>3. inbox' = [inbox EXCEPT ![f] = r]
    OBVIOUS
  <2> HIDE DEF r
  <2> QED
    BY <2>1, <2>2, <2>3
<1>3. Types'
  BY <1>1, <1>2 DEF IInv, Types, TypeOK, Tables, Quiet, Moves
<1>4. Own' /\ Heard' /\ Clean' /\ Removed'
  BY <1>1, KeepsOwn, KeepsHeard, KeepsClean, KeepsRemoved DEF IInv, Quiet, tickets
<1> QED
  BY <1>3, <1>4 DEF IInv

LEMMA EndBoxStep ==
  ASSUME IInv, NEW t \in Thread, FinalizeClose(t)
  PROVE  IInv'
<1>1. th[t].pc = "endbox" /\ th[t].pc \in Sealing /\ th[t].f \in Flow
  BY EnderFacts DEF FinalizeClose, Ending, Sealing
<1>2. Quiet(t)
  BY <1>1, EndMove DEF FinalizeClose, Sealing, Ending, Quiet, Closing
<1> QED
  BY <1>1, <1>2, InboxStep DEF FinalizeClose

LEMMA UnregisterStep ==
  ASSUME IInv, NEW t \in Thread, FinalizeUnregister(t)
  PROVE  IInv'
<1>1. th[t].pc = "unregister" /\ th[t].pc \in Sealing /\ th[t].f \in Flow
  BY EnderFacts DEF FinalizeUnregister, Ending, Sealing
<1>2. Quiet(t)
  BY <1>1, EndMove DEF FinalizeUnregister, Sealing, Ending, Quiet, Closing
<1> QED
  BY <1>1, <1>2, QuietStep DEF FinalizeUnregister, IInv, Types, TypeOK

\* The join handle is told: the flow's tickets are gone and its failure was heard.
LEMMA TellStep ==
  ASSUME IInv, NEW t \in Thread, FinalizeComplete(t)
  PROVE  IInv'
<1> DEFINE f == th[t].f
           o == th[t].out
<1>1. /\ th[t].pc = "tell" /\ th[t].pc \in Sealing /\ th[t].pc \in Ending
      /\ Threads /\ th[t] \in ThreadRec /\ f \in Flow /\ (t \in Flow => f = t)
  BY EnderFacts DEF FinalizeComplete, Ending, Sealing
<1>2. /\ outcome' = [outcome EXCEPT ![f] = o] /\ box' = [box EXCEPT ![f] = "done"]
      /\ UNCHANGED <<aw, cancelled, slot, kill, live, inbox, told, hops, tickets>>
  BY DEF FinalizeComplete, tickets
<1>3. /\ Moves(t) /\ th'[t].pc = "clear" /\ th'[t].f = f
      /\ th'[t].kind = th[t].kind /\ th'[t].work = th[t].work
  BY <1>1, StepFacts DEF FinalizeComplete, Moves, Pcs, OnFlow
<1>4. o \in Outcomes /\ o # "none" /\ (o = "completed" => f \notin told) /\ aw.byFlow[f] = {}
  BY <1>1 DEF ThreadRec, IInv, Heard, Clean
<1>5. \A u \in Thread : u # t /\ th[u].pc \in Ending => th[u].f # f
  BY <1>1, OneEnder DEF IInv
<1>6. th[t].f = f
  OBVIOUS
<1> HIDE DEF f, o
<1>7. /\ \A g \in Flow : box'[g] = IF g = f THEN "done" ELSE box[g]
      /\ \A g \in Flow : outcome'[g] = IF g = f THEN o ELSE outcome[g]
  BY <1>1, <1>2 DEF IInv, Types, TypeOK, Tables
<1>8. Types'
  BY <1>1, <1>2, <1>3, <1>4 DEF IInv, Types, TypeOK, Tables, Moves
<1>9. \A u \in Thread : th'[u].pc \in Ending => u # t /\ th'[u] = th[u] /\ th[u].f \in Flow /\ th[u].f # f
  <2>1. \A u \in Thread : th[u].pc \in Ending => th[u].f \in Flow
    BY <1>1 DEF Threads, OnFlow
  <2> QED
    BY <1>3, <1>5, <2>1 DEF Moves, Ending
<1>10. Own'
  <2>1. \A g \in Flow : FlowThread(g)'
    <3> TAKE g \in Flow
    <3>1. g \in Thread /\ FlowThread(g)
      BY DEF IInv, Own, Thread
    <3>2. CASE g = t
      BY <1>1, <1>3, <1>7, <3>2 DEF FlowThread, Driving, Ending
    <3>3. CASE g # t /\ g = f
      <4>1. t \notin Flow /\ box[g] = "held"
        BY <1>1, <1>6, <3>3 DEF IInv, Own, OtherThread
      <4> QED
        BY <1>3, <1>7, <3>1, <3>3, <4>1 DEF FlowThread, Moves
    <3>4. CASE g # t /\ g # f
      BY <1>3, <1>7, <3>1, <3>4 DEF FlowThread, Moves
    <3> QED
      BY <3>2, <3>3, <3>4
  <2>2. \A u \in Thread \ Flow : OtherThread(u)'
    <3> TAKE u \in Thread \ Flow
    <3>1. CASE u = t
      BY <1>3, <3>1 DEF OtherThread, Driving, Ending
    <3>2. CASE u # t
      <4>1. th'[u] = th[u] /\ OtherThread(u)
        BY <1>3, <3>2 DEF IInv, Own, Moves
      <4>2. th[u].pc \in Ending => box'[th[u].f] = "held"
        BY <1>7, <1>9, <4>1 DEF OtherThread
      <4> QED
        BY <4>1, <4>2 DEF OtherThread
    <3> QED
      BY <3>1, <3>2
  <2>3. \A u, v \in Thread \ Flow :
          th'[u].pc \in Ending /\ th'[v].pc \in Ending /\ th'[u].f = th'[v].f => u = v
    BY <1>9 DEF IInv, Own
  <2>4. Drained' = Drained
    BY <1>3 DEF Drained, Moves, Thread
  <2>5. \A g \in Drained : g \in Flow /\ g # f
    <3>1. th[Main] \in ThreadRec
      BY <1>1 DEF Threads, Thread
    <3>2. th[Main].work \in SUBSET Flow
      BY <3>1 DEF ThreadRec
    <3>3. Drained \subseteq Flow
      BY <3>2 DEF Drained
    <3>4. \A g \in Drained : th[t].f # g
      BY <1>1 DEF IInv, Own
    <3> QED
      BY <1>6, <3>3, <3>4
  <2>6. \A g \in Drained' :
          box'[g] = "held" /\ \A u \in Thread : th'[u].pc \in Ending => th'[u].f # g
    <3> TAKE g \in Drained'
    <3>1. g \in Drained /\ g \in Flow /\ g # f
      BY <2>4, <2>5
    <3>2. box[g] = "held" /\ \A u \in Thread : th[u].pc \in Ending => th[u].f # g
      BY <3>1 DEF IInv, Own
    <3> QED
      BY <1>7, <1>9, <3>1, <3>2
  <2>7. \A u \in Thread : th'[u].pc = "clear" => box'[th'[u].f] = "done"
    <3>1. \A u \in Thread : th[u].pc = "clear" => th[u].f \in Flow
      BY <1>1 DEF Threads, OnFlow
    <3> QED
      <4> TAKE u \in Thread
      <4> HAVE th'[u].pc = "clear"
      <4>1. CASE u = t
        BY <1>1, <1>3, <1>7, <4>1
      <4>2. CASE u # t
        <5>1. th'[u] = th[u]
          BY <1>3, <4>2 DEF Moves
        <5>2. th[u].pc = "clear"
          BY <5>1
        <5>3. th[u].f \in Flow /\ box[th[u].f] = "done"
          BY <3>1, <5>2 DEF IInv, Own
        <5> QED
          BY <1>7, <5>1, <5>3
      <4> QED
        BY <4>1, <4>2
  <2>8. \A g \in Flow : box'[g] = "done" <=> outcome'[g] # "none"
    BY <1>4, <1>7 DEF IInv, Own
  <2> QED
    BY <2>1, <2>2, <2>3, <2>6, <2>7, <2>8 DEF Own
<1>11. Heard'
  <2>1. \A u \in Thread : th'[u].pc \in Sealing =>
          /\ th'[u].out # "none"
          /\ th'[u].out = "completed" => slot'[th'[u].f].settled /\ th'[u].f \notin told'
    BY <1>2, <1>9 DEF IInv, Heard, Sealing
  <2>2. \A g \in Flow : g # f /\ (\E u \in Thread : th[u].pc \in Sealing /\ th[u].f = g)
          => \E u \in Thread : th'[u].pc \in Sealing /\ th'[u].f = g
    BY <1>3, <1>6 DEF Moves
  <2>3. \A g \in told : outcome'[g] # "completed"
    BY <1>4, <1>7 DEF IInv, Heard, Types, Tables
  <2>4. \A g \in told : outcome'[g] = "none" =>
          slot[g].failed \/ \E u \in Thread : th'[u].pc \in Sealing /\ th'[u].f = g
    BY <1>4, <1>7, <2>2 DEF IInv, Heard, Types, Tables
  <2> QED
    BY <1>2, <2>1, <2>3, <2>4 DEF Heard
<1>12. Clean'
  <2>1. \A u \in Thread : th'[u].pc \in Closing => aw'.byFlow[th'[u].f] = {}
    BY <1>2, <1>9 DEF IInv, Clean, Closing, Ending
  <2> QED
    BY <1>2, <1>4, <1>7, <2>1 DEF IInv, Clean, Closing
<1>13. Removed'
  BY <1>1, <1>2, <1>3, Names, KeepsRemoved DEF IInv, KeepsTicket
<1> QED
  BY <1>8, <1>10, <1>11, <1>12, <1>13 DEF IInv

LEMMA ClearStep ==
  ASSUME IInv, NEW t \in Thread, FinalizeClear(t)
  PROVE  IInv'
<1> DEFINE f == th[t].f
<1>1. /\ th[t].pc = "clear" /\ Threads /\ f \in Flow
  BY EnderFacts DEF FinalizeClear
<1>2. /\ slot' = [slot EXCEPT ![f] = [failed |-> FALSE, settled |-> FALSE]]
      /\ UNCHANGED <<aw, cancelled, kill, live, inbox, box, outcome, told, hops, tickets>>
  BY DEF FinalizeClear, clear, tickets, flows, ends
<1>3. Leave(t)
  BY DEF FinalizeClear
<1>4. /\ Moves(t) /\ th'[t].pc \in {"idle", "end", "ending", "close"}
      /\ t \in Flow => th'[t].pc = "idle" /\ th'[t].f = t
      /\ t \in Ticket => th'[t].pc = "end"
      /\ t = Main => th'[t].kind = th[t].kind /\ th'[t].work = th[t].work
      /\ th'[t].pc = "ending" => th'[t].kind = "queue"
      /\ th'[t].pc = "close" => th'[t].kind # "queue"
  BY <1>1, <1>3, LeaveFacts, Names DEF Moves, Thread
<1>5. box[f] = "done" /\ outcome[f] # "none"
  BY <1>1 DEF IInv, Own
<1>6. KeepsFlow(t) /\ KeepsTicket(t)
  BY <1>1, <1>4, Names DEF KeepsFlow, KeepsTicket, Driving, Ending
<1> HIDE DEF f
<1>7. Types'
  BY <1>1, <1>2, <1>4 DEF IInv, Types, TypeOK, Tables, Moves
<1>8. Own' /\ Clean' /\ Removed'
  BY <1>2, <1>4, <1>6, KeepsOwn, KeepsClean, KeepsRemoved DEF IInv, Closing
<1>9. Heard'
  <2>1. \A g \in Flow : g # f => slot'[g] = slot[g]
    BY <1>2 DEF IInv, Types, TypeOK
  <2>2. \A u \in Thread : th'[u].pc \in Sealing <=> th[u].pc \in Sealing
    BY <1>1, <1>4 DEF Moves, Sealing, Ending
  <2>3. \A u \in Thread : th[u].pc \in Sealing => th'[u] = th[u]
    BY <1>1, <1>4 DEF Moves, Sealing, Ending
  <2>4. \A u \in Thread : th[u].pc \in Sealing => th[u].f \in Flow /\ th[u].f # f
    <3> TAKE u \in Thread
    <3> HAVE th[u].pc \in Sealing
    <3>1. th[u].f \in Flow /\ (u \in Flow => th[u].f = u)
      BY EnderFacts DEF Sealing
    <3>2. box[th[u].f] \in {"running", "held"}
      BY <3>1 DEF IInv, Own, FlowThread, OtherThread, Sealing
    <3> QED
      BY <1>5, <3>1, <3>2
  <2>5. \A g \in told : outcome[g] = "none" => g # f /\ g \in Flow
    BY <1>5 DEF IInv, Types, Tables
  <2>6. \A g \in told : outcome[g] = "none" =>
          slot'[g].failed \/ \E u \in Thread : th'[u].pc \in Sealing /\ th'[u].f = g
    <3> TAKE g \in told
    <3> HAVE outcome[g] = "none"
    <3>1. g \in Flow /\ slot'[g] = slot[g]
      BY <2>1, <2>5
    <3>2. slot[g].failed \/ \E u \in Thread : th[u].pc \in Sealing /\ th[u].f = g
      BY DEF IInv, Heard
    <3> QED
      BY <2>2, <2>3, <3>1, <3>2
  <2> QED
    <3>1. told' = told /\ outcome' = outcome /\ \A g \in told : outcome[g] # "completed"
      BY <1>2 DEF IInv, Heard
    <3>2. ASSUME NEW u \in Thread, th'[u].pc \in Sealing
          PROVE  /\ th'[u].out # "none"
                 /\ th'[u].out = "completed" => slot'[th'[u].f].settled /\ th'[u].f \notin told
      <4>1. th'[u] = th[u] /\ th[u].pc \in Sealing /\ slot'[th[u].f] = slot[th[u].f]
        BY <2>1, <2>2, <2>3, <2>4, <3>2
      <4> QED
        BY <4>1 DEF IInv, Heard
    <3> QED
      BY <2>6, <3>1, <3>2 DEF Heard
<1> QED
  BY <1>7, <1>8, <1>9 DEF IInv

-----------------------------------------------------------------------------
(* Runtime::shutdown *)

LEMMA MainFacts ==
  ASSUME IInv
  PROVE  /\ Main \in Thread \ Flow /\ Main \notin Ticket /\ Threads /\ th[Main] \in ThreadRec
         /\ th[Main].pc \in OnFlow => th[Main].f \in Flow
         /\ th[Main].pc = "ending" => th[Main].kind = "queue"
         /\ th[Main].pc \in {"visit", "close"} => th[Main].kind # "queue"
<1>1. Main \in Thread \ Flow /\ Main \notin Ticket
  BY Names DEF Thread
<1> QED
  BY <1>1 DEF IInv, Types, Threads, Own, OtherThread

LEMMA RequestShutdownStep ==
  ASSUME IInv, request_shutdown
  PROVE  IInv'
<1>1. Main \in Thread \ Flow /\ Main \notin Ticket /\ Threads /\ th[Main].pc = "idle"
  BY MainFacts DEF request_shutdown
<1>2. /\ Moves(Main) /\ th'[Main].pc = "flagged"
      /\ th'[Main].kind = th[Main].kind /\ th'[Main].work = th[Main].work
  BY <1>1, StepFacts DEF request_shutdown, Moves, Pcs, OnFlow, Driving, Ending
<1>3. Quiet(Main)
  BY <1>1, <1>2, OtherMove DEF Sealing, Ending, Driving
<1> QED
  BY <1>1, <1>3, QuietStep DEF request_shutdown, flows, IInv, Types, TypeOK

LEMMA FinalizeAwaitsStep ==
  ASSUME IInv, finalize_host_awaits
  PROVE  IInv'
<1>1. Main \in Thread \ Flow /\ Main \notin Ticket /\ Threads /\ th[Main].pc \in {"flagged", "sweep"}
  BY MainFacts DEF finalize_host_awaits
<1>2. /\ Moves(Main) /\ th'[Main].pc \in {"join", "drain"}
      /\ th'[Main].kind = th[Main].kind /\ th'[Main].work = th[Main].work
  BY <1>1, StepFacts DEF finalize_host_awaits, Moves, Pcs, OnFlow, Driving, Ending
<1>3. Quiet(Main)
  BY <1>1, <1>2, OtherMove DEF Sealing, Ending, Driving
<1>4. Cancels
  BY CancelAllCancels DEF finalize_host_awaits
<1> QED
  BY <1>1, <1>3, <1>4, CancelStep DEF finalize_host_awaits, Quiet

LEMMA JoinStep ==
  ASSUME IInv, finish
  PROVE  IInv'
<1>1. Main \in Thread \ Flow /\ Main \notin Ticket /\ Threads /\ th[Main].pc = "join"
  BY MainFacts DEF finish
<1>2. /\ Moves(Main) /\ th'[Main].pc = "sweep"
      /\ th'[Main].kind = th[Main].kind /\ th'[Main].work = th[Main].work
  BY <1>1, StepFacts DEF finish, Moves, Pcs, OnFlow, Driving, Ending
<1>3. Quiet(Main)
  BY <1>1, <1>2, OtherMove DEF Sealing, Ending, Driving
<1> QED
  BY <1>1, <1>3, QuietStep DEF finish, flows, IInv, Types, TypeOK

LEMMA CloseInboxStep ==
  ASSUME IInv, CloseInbox
  PROVE  IInv'
<1>1. /\ Main \in Thread \ Flow /\ Main \notin Ticket /\ Threads /\ th[Main].pc = "close"
      /\ th[Main].f \in Flow /\ th[Main].kind # "queue"
  BY MainFacts DEF CloseInbox, OnFlow
<1>2. /\ Moves(Main) /\ th'[Main].pc = "visit"
      /\ th'[Main].kind = th[Main].kind /\ th'[Main].work = th[Main].work
  BY <1>1, StepFacts DEF CloseInbox, Moves, Pcs, OnFlow, Driving, Ending
<1>3. Quiet(Main)
  BY <1>1, <1>2, OtherMove DEF Sealing, Ending, Driving
<1> QED
  BY <1>1, <1>3, InboxStep DEF CloseInbox

LEMMA DrainStep ==
  ASSUME IInv, DrainQueues
  PROVE  IInv'
<1> DEFINE queued == {f \in Flow : box[f] = "queued"}
           r == [th[Main] EXCEPT !.pc = "ending", !.kind = "queue",
                                 !.work = queued, !.took = IF queued = {} THEN 0 ELSE 1]
<1>1. /\ Main \in Thread \ Flow /\ Main \notin Ticket /\ Threads /\ th[Main] \in ThreadRec
      /\ th[Main].pc = "drain"
  BY MainFacts DEF DrainQueues
<1>2. /\ box' = [f \in Flow |-> IF f \in queued THEN "held" ELSE box[f]]
      /\ Goto(Main, r)
      /\ UNCHANGED <<aw, cancelled, slot, kill, live, inbox, outcome, told, hops, tickets>>
  BY DEF DrainQueues, tickets, ends
<1>3. queued \subseteq Flow /\ (IF queued = {} THEN 0 ELSE 1) \in {0, 1}
  OBVIOUS
<1>4. \A f \in Flow : f \in queued <=> box[f] = "queued"
  OBVIOUS
<1> HIDE DEF queued
<1>5. r \in ThreadRec /\ r.pc = "ending" /\ r.kind = "queue" /\ r.work = queued
  <2>1. "ending" \in Pcs /\ "queue" \in Kinds
    BY DEF Pcs, Kinds
  <2> QED
    BY <1>1, <1>3, <2>1 DEF ThreadRec
<1> HIDE DEF r
<1>6. /\ Moves(Main) /\ th'[Main].pc = "ending" /\ th'[Main].kind = "queue"
      /\ th'[Main].work = queued
  BY <1>1, <1>2, <1>5, GotoFacts DEF Moves, OnFlow, Driving, Ending
<1>7. \A f \in Flow : box'[f] = IF box[f] = "queued" THEN "held" ELSE box[f]
  BY <1>2, <1>4
<1>8. Types'
  <2>1. box' \in [Flow -> {"queued", "running", "parked", "held", "done"}]
    BY <1>2 DEF IInv, Types, TypeOK
  <2> QED
    BY <1>2, <1>6, <2>1 DEF IInv, Types, TypeOK, Tables, Moves
<1>9. \A u \in Thread : th[u].pc \in Ending \cup {"clear"} => th[u].f \in Flow
  BY <1>1 DEF Threads, OnFlow
<1>10. \A u \in Thread : th'[u].pc \in Ending \cup {"clear"} => u # Main /\ th'[u] = th[u]
  BY <1>6 DEF Moves, Ending
<1>11. Own'
  <2>1. \A g \in Flow : FlowThread(g)'
    <3> TAKE g \in Flow
    <3>1. th'[g] = th[g] /\ FlowThread(g)
      BY <1>1, <1>6 DEF IInv, Own, Moves, Thread
    <3>2. box'[g] = "running" <=> box[g] = "running"
      BY <1>7
    <3> QED
      BY <3>1, <3>2 DEF FlowThread
  <2>2. \A u \in Thread \ Flow : OtherThread(u)'
    <3> TAKE u \in Thread \ Flow
    <3>1. CASE u = Main
      BY <1>6, <3>1 DEF OtherThread, Driving, Ending
    <3>2. CASE u # Main
      <4>1. th'[u] = th[u] /\ OtherThread(u)
        BY <1>6, <3>2 DEF IInv, Own, Moves
      <4>2. th[u].pc \in Ending => box'[th[u].f] = "held"
        BY <1>7, <1>9, <4>1 DEF OtherThread
      <4> QED
        BY <4>1, <4>2 DEF OtherThread
    <3> QED
      BY <3>1, <3>2
  <2>3. \A u, v \in Thread \ Flow :
          th'[u].pc \in Ending /\ th'[v].pc \in Ending /\ th'[u].f = th'[v].f => u = v
    BY <1>10 DEF IInv, Own
  <2>4. Drained' = queued
    BY <1>6 DEF Drained
  <2>5. \A u \in Thread : th[u].pc \in Ending => box[th[u].f] \in {"running", "held"}
    <3> TAKE u \in Thread
    <3> HAVE th[u].pc \in Ending
    <3>1. CASE u \in Flow
      <4>1. FlowThread(u)
        BY <3>1 DEF IInv, Own
      <4> QED
        BY <4>1 DEF FlowThread
    <3>2. CASE u \notin Flow
      <4>1. OtherThread(u)
        BY <3>2 DEF IInv, Own
      <4> QED
        BY <4>1 DEF OtherThread
    <3> QED
      BY <3>1, <3>2
  <2>6. \A g \in Drained' :
          box'[g] = "held" /\ \A u \in Thread : th'[u].pc \in Ending => th'[u].f # g
    BY <1>3, <1>4, <1>7, <1>10, <2>4, <2>5
  <2>7. \A u \in Thread : th'[u].pc = "clear" => box'[th'[u].f] = "done"
    <3> TAKE u \in Thread
    <3> HAVE th'[u].pc = "clear"
    <3>1. th'[u] = th[u] /\ th[u].pc = "clear" /\ th[u].f \in Flow
      BY <1>9, <1>10
    <3>2. box[th[u].f] = "done"
      BY <3>1 DEF IInv, Own
    <3> QED
      BY <1>7, <3>1, <3>2
  <2>8. \A g \in Flow : box'[g] = "done" <=> outcome'[g] # "none"
    BY <1>2, <1>7 DEF IInv, Own
  <2> QED
    BY <2>1, <2>2, <2>3, <2>6, <2>7, <2>8 DEF Own
<1>12. Heard' /\ Clean' /\ Removed'
  BY <1>1, <1>2, <1>6, KeepsHeard, KeepsClean, KeepsRemoved
     DEF IInv, KeepsOutcome, KeepsTicket, Sealing, Ending, Closing
<1> QED
  BY <1>8, <1>11, <1>12 DEF IInv

\* finalize_stranded begins to end one of the flows that it drained.
LEMMA EndDrainedStep ==
  ASSUME IInv, EndDrained
  PROVE  IInv'
<1>1. /\ Main \in Thread \ Flow /\ Main \notin Ticket /\ Threads /\ th[Main] \in ThreadRec
      /\ th[Main].pc = "ending" /\ th[Main].kind = "queue"
  BY MainFacts DEF EndDrained
<1>2. UNCHANGED <<aw, cancelled, slot, kill, live, inbox, box, outcome, told, hops, tickets, ends>>
  BY DEF EndDrained, tickets, flows, ends
<1>3. CASE th[Main].work = {}
  <2> DEFINE r == [th[Main] EXCEPT !.pc = "visit", !.kind = "box", !.work = live]
  <2>1. Goto(Main, r)
    BY <1>3 DEF EndDrained
  <2>2. r \in ThreadRec /\ r.pc = "visit" /\ r.kind = "box"
    <3>1. "visit" \in Pcs /\ "box" \in Kinds /\ live \subseteq Flow
      BY DEF Pcs, Kinds, IInv, Types, TypeOK
    <3> QED
      BY <1>1, <3>1 DEF ThreadRec
  <2> HIDE DEF r
  <2>3. Moves(Main) /\ th'[Main].pc = "visit" /\ th'[Main].kind = "box"
    BY <1>1, <2>1, <2>2, GotoFacts DEF Moves, OnFlow, Driving, Ending
  <2>4. Quiet(Main)
    BY <1>1, <2>3, OtherMove DEF Sealing, Ending, Driving
  <2> QED
    BY <1>1, <1>2, <2>4, QuietStep DEF IInv, Types, TypeOK
<1>4. CASE th[Main].work # {}
  <2>1. PICK f \in th[Main].work :
          Goto(Main, [th[Main] EXCEPT !.pc = "seal", !.f = f, !.out = "shutdown", !.work = @ \ {f}])
    BY <1>4 DEF EndDrained
  <2> DEFINE r == [th[Main] EXCEPT !.pc = "seal", !.f = f, !.out = "shutdown", !.work = @ \ {f}]
  <2>2. f \in Flow
    BY <1>1 DEF ThreadRec
  <2>3. /\ r \in ThreadRec /\ r.pc = "seal" /\ r.f = f /\ r.out = "shutdown"
        /\ r.kind = "queue" /\ r.work = th[Main].work \ {f}
    <3>1. "seal" \in Pcs /\ "shutdown" \in Outcomes
      BY DEF Pcs, OnFlow, Ending, Outcomes
    <3> QED
      BY <1>1, <2>2, <3>1 DEF ThreadRec
  <2>4. Goto(Main, r)
    BY <2>1
  <2> HIDE DEF r
  <2>5. /\ Moves(Main) /\ th'[Main].pc = "seal" /\ th'[Main].f = f /\ th'[Main].out = "shutdown"
        /\ th'[Main].kind = "queue" /\ th'[Main].work = th[Main].work \ {f}
    BY <1>1, <2>2, <2>3, <2>4, GotoFacts DEF Moves
  <2>6. Types'
    BY <1>2, <2>5 DEF IInv, Types, TypeOK, Tables, Moves
  <2>7. Own'
    <3>1. Drained = th[Main].work /\ Drained' = th[Main].work \ {f}
      BY <1>1, <2>5 DEF Drained
    <3>2. box[f] = "held" /\ \A u \in Thread : th[u].pc \in Ending => th[u].f # f
      BY <3>1 DEF IInv, Own
    <3>3. \A g \in Flow : FlowThread(g)'
      <4> TAKE g \in Flow
      <4>1. th'[g] = th[g] /\ FlowThread(g)
        BY <1>1, <2>5 DEF IInv, Own, Moves, Thread
      <4> QED
        BY <1>2, <4>1 DEF FlowThread
    <3>4. \A u \in Thread \ Flow : OtherThread(u)'
      <4> TAKE u \in Thread \ Flow
      <4>1. CASE u = Main
        BY <1>2, <2>5, <3>2, <4>1 DEF OtherThread, Driving
      <4>2. CASE u # Main
        <5>1. th'[u] = th[u] /\ OtherThread(u)
          BY <2>5, <4>2 DEF IInv, Own, Moves
        <5> QED
          BY <1>2, <5>1 DEF OtherThread
      <4> QED
        BY <4>1, <4>2
    <3>5. \A u, v \in Thread \ Flow :
            th'[u].pc \in Ending /\ th'[v].pc \in Ending /\ th'[u].f = th'[v].f => u = v
      <4> TAKE u, v \in Thread \ Flow
      <4> HAVE th'[u].pc \in Ending /\ th'[v].pc \in Ending /\ th'[u].f = th'[v].f
      <4>1. \A x \in Thread : x # Main => th'[x] = th[x]
        BY <2>5 DEF Moves
      <4>2. CASE u # Main /\ v # Main
        <5>1. th[u].pc \in Ending /\ th[v].pc \in Ending /\ th[u].f = th[v].f
          BY <4>1, <4>2
        <5> QED
          BY <5>1 DEF IInv, Own
      <4>3. CASE u # Main /\ v = Main
        BY <2>5, <3>2, <4>1, <4>3
      <4>4. CASE u = Main /\ v # Main
        BY <2>5, <3>2, <4>1, <4>4
      <4> QED
        BY <4>2, <4>3, <4>4
    <3>6. \A g \in Drained' :
            box'[g] = "held" /\ \A u \in Thread : th'[u].pc \in Ending => th'[u].f # g
      <4> TAKE g \in Drained'
      <4>1. g \in Drained /\ g # f
        BY <3>1
      <4>2. box[g] = "held" /\ \A u \in Thread : th[u].pc \in Ending => th[u].f # g
        BY <4>1 DEF IInv, Own
      <4>3. \A u \in Thread : u # Main => th'[u] = th[u]
        BY <2>5 DEF Moves
      <4> QED
        BY <1>2, <2>5, <4>1, <4>2, <4>3
    <3>7. \A u \in Thread : th'[u].pc = "clear" => box'[th'[u].f] = "done"
      <4> TAKE u \in Thread
      <4> HAVE th'[u].pc = "clear"
      <4>1. th'[u] = th[u]
        BY <2>5 DEF Moves
      <4>2. th[u].pc = "clear"
        BY <4>1
      <4>3. box[th[u].f] = "done"
        BY <4>2 DEF IInv, Own
      <4> QED
        BY <1>2, <4>1, <4>3
    <3> QED
      BY <1>2, <3>3, <3>4, <3>5, <3>6, <3>7 DEF IInv, Own
  <2>8. Heard' /\ Clean' /\ Removed'
    BY <1>1, <1>2, <2>5, KeepsHeard, KeepsClean, KeepsRemoved
       DEF IInv, KeepsOutcome, KeepsTicket, Sealing, Ending, Closing
  <2> QED
    BY <2>6, <2>7, <2>8 DEF IInv
<1> QED
  BY <1>3, <1>4

\* It takes a parked flow out of its inbox to end it; any other inbox it closes.
LEMMA VisitStep ==
  ASSUME IInv, VisitInboxes
  PROVE  IInv'
<1>1. /\ Main \in Thread \ Flow /\ Main \notin Ticket /\ Threads /\ th[Main] \in ThreadRec
      /\ th[Main].pc = "visit" /\ th[Main].kind # "queue"
  BY MainFacts DEF VisitInboxes, ThreadRec
<1>2. UNCHANGED <<aw, cancelled, slot, kill, live, inbox, outcome, told, hops, tickets, ends>>
  BY DEF VisitInboxes, tickets, ends
<1>3. CASE th[Main].work = {}
  <2>1. UNCHANGED box /\ Step(Main, IF th[Main].took = 0 THEN "down" ELSE "drain")
    BY <1>3 DEF VisitInboxes
  <2>2. Moves(Main) /\ th'[Main].pc \in {"down", "drain"} /\ th'[Main].kind # "queue"
    BY <1>1, <2>1, StepFacts DEF Moves, Pcs, OnFlow, Driving, Ending
  <2>3. Quiet(Main)
    BY <1>1, <2>2, OtherMove DEF Sealing, Ending, Driving
  <2> QED
    BY <1>1, <1>2, <2>1, <2>3, QuietStep DEF IInv, Types, TypeOK
<1>4. CASE th[Main].work # {}
  <2>1. PICK f \in th[Main].work :
          IF box[f] = "parked"
          THEN /\ box' = [box EXCEPT ![f] = "held"]
               /\ Goto(Main, [th[Main] EXCEPT !.pc = "seal", !.f = f, !.out = "shutdown",
                                              !.work = @ \ {f}, !.took = 1])
          ELSE /\ Goto(Main, [th[Main] EXCEPT !.pc = "close", !.f = f, !.work = @ \ {f}])
               /\ UNCHANGED box
    BY <1>4 DEF VisitInboxes
  <2>2. f \in Flow
    BY <1>1 DEF ThreadRec
  <2>3. CASE box[f] = "parked"
    <3> DEFINE r == [th[Main] EXCEPT !.pc = "seal", !.f = f, !.out = "shutdown",
                                     !.work = @ \ {f}, !.took = 1]
    <3>1. Goto(Main, r) /\ box' = [box EXCEPT ![f] = "held"]
      BY <2>1, <2>3
    <3>2. r \in ThreadRec /\ r.pc = "seal" /\ r.f = f /\ r.out = "shutdown" /\ r.kind # "queue"
      <4> DEFINE left == th[Main].work \ {f}
      <4>1. "seal" \in Pcs /\ "shutdown" \in Outcomes
        BY DEF Pcs, OnFlow, Ending, Outcomes
      <4>2. left \subseteq Flow
        BY <1>1 DEF ThreadRec
      <4>3. r = [th[Main] EXCEPT !.pc = "seal", !.f = f, !.out = "shutdown",
                                 !.work = left, !.took = 1]
        BY <1>1 DEF ThreadRec
      <4> HIDE DEF left, r
      <4> QED
        BY <1>1, <2>2, <4>1, <4>2, <4>3 DEF ThreadRec
    <3> HIDE DEF r
    <3>3. /\ Moves(Main) /\ th'[Main].pc = "seal" /\ th'[Main].f = f
          /\ th'[Main].out = "shutdown" /\ th'[Main].kind # "queue"
      BY <1>1, <2>2, <3>1, <3>2, GotoFacts DEF Moves
    <3>4. Types'
      BY <1>2, <3>1, <3>3 DEF IInv, Types, TypeOK, Tables, Moves
    <3>5. Own'
      BY <1>1, <1>2, <2>2, <2>3, <3>1, <3>3, BoxOwn DEF IInv, Driving, Ending
    <3>6. Heard' /\ Clean' /\ Removed'
      BY <1>1, <1>2, <3>3, KeepsHeard, KeepsClean, KeepsRemoved
         DEF IInv, KeepsOutcome, KeepsTicket, Sealing, Ending, Closing
    <3> QED
      BY <3>4, <3>5, <3>6 DEF IInv
  <2>4. CASE box[f] # "parked"
    <3> DEFINE r == [th[Main] EXCEPT !.pc = "close", !.f = f, !.work = @ \ {f}]
    <3>1. Goto(Main, r) /\ UNCHANGED box
      BY <2>1, <2>4
    <3>2. r \in ThreadRec /\ r.pc = "close" /\ r.f = f /\ r.kind # "queue"
      <4>1. "close" \in Pcs
        BY DEF Pcs, OnFlow
      <4> QED
        BY <1>1, <2>2, <4>1 DEF ThreadRec
    <3> HIDE DEF r
    <3>3. Moves(Main) /\ th'[Main].pc = "close" /\ th'[Main].kind # "queue"
      BY <1>1, <2>2, <3>1, <3>2, GotoFacts DEF Moves
    <3>4. Quiet(Main)
      BY <1>1, <3>3, OtherMove DEF Sealing, Ending, Driving
    <3> QED
      BY <1>1, <1>2, <3>1, <3>4, QuietStep DEF IInv, Types, TypeOK
  <2> QED
    BY <2>3, <2>4
<1> QED
  BY <1>3, <1>4

-----------------------------------------------------------------------------
(* The invariant *)

LEMMA InitInv ==
  ASSUME Init
  PROVE  IInv
<1>1. \A t \in Thread : th[t] = IF t \in Flow THEN At("idle", t) ELSE At("idle", NoFlow)
  <2>1. \A f \in Flow : [Ready EXCEPT !.f = f] = At("idle", f)
    BY SMTT(30) DEF Ready, At
  <2>2. Ready = At("idle", NoFlow)
    BY DEF Ready, At
  <2>3. th = [t \in Thread |-> IF t \in Flow THEN [Ready EXCEPT !.f = t] ELSE Ready]
    BY DEF Init
  <2> QED
    BY <2>1, <2>2, <2>3
<1>2. "idle" \in Pcs /\ "idle" \notin OnFlow
  BY DEF Pcs, OnFlow, Driving, Ending
<1>3. \A t \in Thread : /\ th[t] \in ThreadRec /\ th[t].pc = "idle" /\ th[t].kind = "none"
                        /\ t \in Flow => th[t].f = t
  BY <1>1, <1>2, AtFacts, SMTT(30)
<1>4. Threads
  <2>1. th = [t \in Thread |-> th[t]]
    BY DEF Init
  <2> QED
    BY <1>2, <1>3, <2>1 DEF Threads
<1>5. TypeOK
  <2>1. aw \in Index /\ Agree(aw) /\ aw.next = 1 /\ (\A t \in Ticket : aw.byTicket[t] = NoFlow)
    <3> DEFINE bt == [t \in Ticket |-> NoFlow]
               bf == [f \in Flow |-> {}]
    <3>1. aw = [byTicket |-> bt, byFlow |-> bf, next |-> 1]
      BY DEF Init
    <3>2. bt \in [Ticket -> Flow \cup {NoFlow}] /\ bf \in [Flow -> SUBSET Ticket]
      OBVIOUS
    <3>3. \A f \in Flow : bf[f] = {t \in Ticket : bt[t] = f}
      BY Names
    <3>4. \A t \in Ticket : bt[t] = NoFlow
      OBVIOUS
    <3>5. 1 \in 1 .. MaxTickets + 1
      BY Bounds, SMTT(30)
    <3> HIDE DEF bt, bf
    <3>6. /\ aw.byTicket = bt /\ aw.byFlow = bf /\ aw.next = 1 /\ aw \in Index
      BY <3>1, <3>2, <3>5 DEF Index
    <3>7. Agree(aw)
      BY <3>3, <3>6 DEF Agree
    <3> QED
      BY <3>4, <3>6, <3>7
  <2>2. \A f \in Flow : inbox[f] = [q |-> << >>, closed |-> FALSE]
    BY DEF Init
  <2>3. \A f \in Flow : Len(inbox[f].q) <= Capacity /\ (inbox[f].closed => inbox[f].q = << >>)
    BY <2>2, Bounds, SMTT(30)
  <2> QED
    BY <2>1, <2>3 DEF TypeOK, Init, Index, Agree
<1>6. Tables
  BY SMTT(30) DEF Tables, Init, Outcomes
<1>7. Own
  <2>1. \A f \in Flow : FlowThread(f)
    BY <1>3 DEF FlowThread, Init, Thread, Driving, Ending
  <2>2. \A t \in Thread \ Flow : OtherThread(t)
    BY <1>3 DEF OtherThread, Driving, Ending
  <2>3. Drained = {}
    BY <1>3 DEF Drained, Thread
  <2> QED
    BY <1>3, <2>1, <2>2, <2>3 DEF Own, Init, Ending
<1>8. Heard /\ Clean
  BY <1>3 DEF Heard, Clean, Init, Sealing, Ending
<1>9. Removed
  <2>1. \A t \in Ticket : t \in Thread /\ aw.byTicket[t] = NoFlow /\ hops[t] = 0
    BY DEF Init, Thread
  <2>2. \A f \in Flow : f \in Thread
    BY DEF Thread
  <2>3. cancelled = {}
    BY DEF Init
  <2> QED
    BY <1>3, <2>1, <2>2, <2>3 DEF Removed
<1> QED
  BY <1>4, <1>5, <1>6, <1>7, <1>8, <1>9 DEF IInv, Types

LEMMA StepInv ==
  ASSUME IInv, [Next]_vars
  PROVE  IInv'
<1>1. ASSUME NEW f \in Flow, Drive(f)
      PROVE  IInv'
  BY <1>1, PickStep, ParkIfFailedStep, TakeKillStep, FinishOkStep, FinishFailedStep, YieldStep,
     AwaitStep, SubmitStep, SubmittedStep, ReceiveStep, ParkStep DEF Drive
<1>2. ASSUME NEW w \in Parker, ParkTail(w)
      PROVE  IInv'
  BY <1>2, LookForKillStep, RetakeStep, RestoreStep DEF ParkTail
<1>3. ASSUME NEW t \in Ticket, Complete(t)
      PROVE  IInv'
  BY <1>3, FinishHostAwaitStep, SettleStep, DeliverReadyStep, DeliverStagedStep, FailLiveStep,
     FailRequestStep DEF Complete
<1>4. ASSUME NEW t \in Ticket \cup Killer, Extract(t)
      PROVE  IInv'
  BY <1>4, ExtractStep, SetKillStep, TakeParkedStep, TryTakeStep DEF Extract
<1>5. ASSUME NEW t \in Thread, End(t)
      PROVE  IInv'
  BY <1>5, MessageStep, SealStep, EndKillStep, EndTicketsStep, EndBoxStep, UnregisterStep,
     TellStep, ClearStep DEF End
<1>6. ASSUME ShutDown
      PROVE  IInv'
  BY <1>6, FinalizeAwaitsStep, JoinStep, DrainStep, EndDrainedStep, VisitStep, CloseInboxStep
     DEF ShutDown
<1>7. CASE UNCHANGED vars
  <2>1. Types'
    BY <1>7 DEF vars, IInv, Types, TypeOK, Tables, Threads
  <2>2. Own'
    <3>1. th' = th /\ box' = box /\ outcome' = outcome /\ Own
      BY <1>7 DEF vars, IInv, tickets, ends
    <3>2. \A f \in Flow : FlowThread(f)'
      BY <3>1 DEF Own, FlowThread
    <3>3. \A t \in Thread \ Flow : OtherThread(t)'
      BY <3>1 DEF Own, OtherThread
    <3>4. Drained' = Drained
      BY <3>1 DEF Drained
    <3> QED
      BY <3>1, <3>2, <3>3, <3>4 DEF Own
  <2>3. Heard' /\ Clean' /\ Removed'
    BY <1>7 DEF vars, IInv, Heard, Clean, Removed
  <2> QED
    BY <2>1, <2>2, <2>3 DEF IInv
<1> QED
  BY <1>1, <1>2, <1>3, <1>4, <1>5, <1>6, <1>7, RequestKillStep, RequestShutdownStep DEF Next

\* The inductive invariant holds: who has a flow, what a recorded failure leaves behind, when a
\* flow has lost its tickets and what the removal of a ticket decides (host_await.rs,
\* workers.rs, finalize.rs).
THEOREM Invariant == Spec => []IInv
<1>1. Init => IInv
  BY InitInv
<1>2. IInv /\ [Next]_vars => IInv'
  BY StepInv
<1> QED
  BY <1>1, <1>2, PTL DEF Spec

\* A host that was told its failure was recorded never sees the flow complete, for any number
\* of flows, tickets and threads (HostAwaitFailures: request, take, commit_success, seal).
THEOREM FailuresAreHeard == Spec => []FailureIsHeard
<1>1. IInv => FailureIsHeard
  BY DEF IInv, Heard, FailureIsHeard
<1> QED
  BY <1>1, Invariant, PTL

\* A flow ends once, in one thread, and with its outcome none of its tickets is left: the
\* driver, a killer, a completer that fails the flow, the worker behind a parked flow and the
\* shutdown compete for it (take_parked, finalize_if_killed, finalize_one, finalize_stranded).
THEOREM EndsAreClean == Spec => []EndedClean
<1>1. IInv => EndedClean
  <2> SUFFICES ASSUME IInv
               PROVE  EndedClean
    OBVIOUS
  <2>1. \A f \in Flow : \A t, u \in {x \in Thread : th[x].f = f /\ th[x].pc \in Ending} : t = u
    BY OneEnder DEF IInv
  <2>2. \A f \in Flow : outcome[f] # "none" <=> box[f] = "done"
    BY DEF IInv, Own
  <2>3. EndedOnce
    BY <2>1, <2>2 DEF EndedOnce, Ending
  <2> QED
    BY <2>3 DEF EndedClean, IInv, Types, Clean, NoTicketOutlivesFlow
<1> QED
  BY <1>1, Invariant, PTL

-----------------------------------------------------------------------------
(* The ticket table implements AwaitTickets *)

LEMMA StateOf ==
  ASSUME NEW t \in Ticket
  PROVE  TicketState[t] = IF t >= aw.next THEN "unused"
                          ELSE IF aw.byTicket[t] # NoFlow THEN "open"
                          ELSE IF t \in cancelled THEN "cancelled" ELSE "taken"
BY DEF TicketState

LEMMA InitMaps ==
  ASSUME Init
  PROVE  Abstract!Init
<1>1. aw.next = 1 /\ \A t \in Ticket : t >= 1
  BY SMTT(30) DEF Init, Ticket
<1> QED
  BY <1>1 DEF Init, Abstract!Init, TicketState

\* A step that leaves the index, the flags and the deliveries alone is no step of the table.
LEMMA OtherStepsStutter ==
  ASSUME UNCHANGED <<aw, cancelled, hops>>
  PROVE  UNCHANGED <<TicketState, hops>>
BY DEF TicketState

LEMMA CancelMaps ==
  ASSUME IInv, Cancels, UNCHANGED hops
  PROVE  [Abstract!Next]_<<TicketState, hops>>
<1> DEFINE S == {t \in Ticket : aw.byTicket[t] # NoFlow /\ aw'.byTicket[t] = NoFlow}
<1>1. \A t \in Ticket : aw.byTicket[t] # NoFlow => t < aw.next /\ t \notin cancelled
  BY DEF IInv, Removed
<1>2. aw'.next = aw.next /\ aw.next \in Nat
  BY SMTT(30) DEF Cancels, IInv, Types, TypeOK
<1>3. \A t \in S : TicketState[t] = "open"
  BY <1>1, <1>2, StateOf, SMTT(30) DEF Ticket
<1>4. TicketState' = [t \in Ticket |-> IF t \in S THEN "cancelled" ELSE TicketState[t]]
  <2>1. \A t \in Ticket :
          (IF t >= aw'.next THEN "unused"
           ELSE IF aw'.byTicket[t] # NoFlow THEN "open"
           ELSE IF t \in cancelled' THEN "cancelled" ELSE "taken")
          = IF t \in S THEN "cancelled" ELSE TicketState[t]
    <3> TAKE t \in Ticket
    <3>1. CASE t \in S
      BY <1>1, <1>2, <3>1, SMTT(30) DEF Cancels, Ticket
    <3>2. CASE t \notin S
      BY <1>2, <3>2, StateOf DEF Cancels
    <3> QED
      BY <3>1, <3>2
  <2> QED
    BY <2>1 DEF TicketState
<1>5. S \in SUBSET Ticket
  OBVIOUS
<1> HIDE DEF S
<1> QED
  BY <1>3, <1>4, <1>5 DEF Abstract!Next, Abstract!Cancel

LEMMA IssueMaps ==
  ASSUME IInv, NEW f \in Flow, Await(f)
  PROVE  [Abstract!Next]_<<TicketState, hops>>
<1>1. UNCHANGED <<cancelled, hops>>
  BY DEF Await
<1>2. CASE RegisterFails(aw)
  BY <1>1, <1>2, OtherStepsStutter DEF Await
<1>3. CASE ~RegisterFails(aw)
  <2> DEFINE n == aw.next
  <2>1. aw' = register(aw, f)
    BY <1>3 DEF Await
  <2>2. \A t \in Ticket : aw.byTicket[t] # NoFlow => t < aw.next
    BY DEF IInv, Removed
  <2>3. /\ n \in Ticket /\ aw'.next = n + 1
        /\ \A t \in Ticket : aw'.byTicket[t] = IF t = n THEN f ELSE aw.byTicket[t]
    BY <1>3, <2>1, <2>2, IndexFacts, RegisterFacts
  <2> HIDE DEF n
  <2>4. aw.next = n
    BY DEF n
  <2>5. TicketState[n] = "unused"
    BY <2>3, <2>4, StateOf, SMTT(30) DEF Ticket
  <2>6. TicketState' = [TicketState EXCEPT ![n] = "open"]
    <3>1. \A t \in Ticket :
            (IF t >= aw'.next THEN "unused"
             ELSE IF aw'.byTicket[t] # NoFlow THEN "open"
             ELSE IF t \in cancelled' THEN "cancelled" ELSE "taken")
            = IF t = n THEN "open" ELSE TicketState[t]
      <4> TAKE t \in Ticket
      <4>1. f # NoFlow
        BY Names
      <4>2. t \in Int /\ n \in Int
        BY <2>3, SMTT(30) DEF Ticket
      <4> QED
        BY <1>1, <2>3, <2>4, <4>1, <4>2, StateOf, SMTT(30)
    <3>2. TicketState' = [t \in Ticket |-> IF t = n THEN "open" ELSE TicketState[t]]
      BY <3>1 DEF TicketState
    <3>3. TicketState = [t \in Ticket |-> TicketState[t]]
      BY DEF TicketState
    <3> QED
      BY <3>2, <3>3
  <2> QED
    BY <1>1, <2>3, <2>5, <2>6 DEF Abstract!Next, Abstract!Issue
<1> QED
  BY <1>2, <1>3

LEMMA TakeMaps ==
  ASSUME IInv, NEW t \in Ticket, settle(t)
  PROVE  [Abstract!Next]_<<TicketState, hops>>
<1>1. UNCHANGED <<cancelled, hops>>
  BY DEF settle
<1>2. CASE aw.byTicket[t] = NoFlow
  BY <1>1, <1>2, OtherStepsStutter DEF settle
<1>3. CASE aw.byTicket[t] # NoFlow
  <2>1. aw' = take_ticket(aw, t)
    BY <1>3 DEF settle
  <2>2. /\ aw'.next = aw.next
        /\ \A u \in Ticket : aw'.byTicket[u] = IF u = t THEN NoFlow ELSE aw.byTicket[u]
    BY <1>3, <2>1, IndexFacts, TakeTicketFacts
  <2>3. t < aw.next /\ t \notin cancelled /\ ~(t >= aw.next)
    <3>1. t < aw.next /\ t \notin cancelled /\ aw.next \in Int /\ t \in Int
      <4>1. t < aw.next /\ t \notin cancelled
        BY <1>3 DEF IInv, Removed
      <4>2. aw.next \in Nat
        BY NextFacts
      <4> QED
        BY <4>1, <4>2, SMTT(30) DEF Ticket
    <3> QED
      BY <3>1, SMTT(30)
  <2>4. TicketState[t] = "open"
    BY <1>3, <2>3, StateOf
  <2>5. TicketState' = [TicketState EXCEPT ![t] = "taken"]
    <3>1. \A u \in Ticket :
            (IF u >= aw'.next THEN "unused"
             ELSE IF aw'.byTicket[u] # NoFlow THEN "open"
             ELSE IF u \in cancelled' THEN "cancelled" ELSE "taken")
            = IF u = t THEN "taken" ELSE TicketState[u]
      BY <1>1, <2>2, <2>3, StateOf
    <3>2. TicketState' = [u \in Ticket |-> IF u = t THEN "taken" ELSE TicketState[u]]
      BY <3>1 DEF TicketState
    <3>3. TicketState = [u \in Ticket |-> TicketState[u]]
      BY DEF TicketState
    <3> QED
      BY <3>2, <3>3
  <2> QED
    BY <1>1, <2>4, <2>5 DEF Abstract!Next, Abstract!Take
<1> QED
  BY <1>2, <1>3

LEMMA DeliverMaps ==
  ASSUME IInv, NEW t \in Ticket, deliver_staged(t)
  PROVE  [Abstract!Next]_<<TicketState, hops>>
<1>1. UNCHANGED <<aw, cancelled>>
  BY DEF deliver_staged, tickets
<1>2. UNCHANGED TicketState
  BY <1>1 DEF TicketState
<1>3. CASE UNCHANGED hops
  BY <1>2, <1>3
<1>4. CASE hops' = [hops EXCEPT ![t] = @ + 1]
  <2>1. th[t].pc = "push"
    BY DEF deliver_staged
  <2>2. /\ aw.byTicket[t] = NoFlow /\ t \notin cancelled /\ hops[t] = 0 /\ t < aw.next
        /\ t \in Int /\ aw.next \in Int
    <3>1. aw.byTicket[t] = NoFlow /\ t \notin cancelled /\ hops[t] = 0 /\ t < aw.next
      BY <2>1 DEF IInv, Removed
    <3>2. aw.next \in Nat
      BY NextFacts
    <3>3. t \in Int /\ aw.next \in Int
      BY <3>2, SMTT(30) DEF Ticket
    <3> QED
      BY <3>1, <3>3
  <2>3. TicketState[t] = "taken"
    BY <2>2, StateOf, SMTT(30)
  <2>4. hops' = [hops EXCEPT ![t] = 1]
    BY <1>4, <2>2, SMTT(30)
  <2> QED
    BY <1>2, <2>2, <2>3, <2>4 DEF Abstract!Next, Abstract!Deliver
<1> QED
  BY <1>3, <1>4 DEF deliver_staged

LEMMA StepMaps ==
  ASSUME IInv, [Next]_vars
  PROVE  [Abstract!Next]_<<TicketState, hops>>
<1>1. ASSUME NEW f \in Flow, Drive(f)
      PROVE  [Abstract!Next]_<<TicketState, hops>>
  <2>1. CASE Await(f)
    BY <2>1, IssueMaps
  <2>2. CASE ~Await(f)
    <3>1. UNCHANGED <<aw, cancelled, hops>>
      BY <1>1, <2>2 DEF Drive, Pick, park_flow_if_host_failed, TakeKill, finish_ok, finish_failed,
                        Yield, Submit, Submitted, Receive, Park, tickets
    <3> QED
      BY <3>1, OtherStepsStutter
  <2> QED
    BY <2>1, <2>2
<1>2. ASSUME NEW w \in Parker, ParkTail(w)
      PROVE  [Abstract!Next]_<<TicketState, hops>>
  <2>1. UNCHANGED <<aw, cancelled, hops>>
    BY <1>2 DEF ParkTail, LookForKill, Retake, restore_kill_reason, tickets
  <2> QED
    BY <2>1, OtherStepsStutter
<1>3. ASSUME NEW t \in Ticket, Complete(t)
      PROVE  [Abstract!Next]_<<TicketState, hops>>
  <2>1. CASE settle(t)
    BY <2>1, TakeMaps
  <2>2. CASE deliver_staged(t)
    BY <2>2, DeliverMaps
  <2>3. CASE FinishHostAwait(t) \/ deliver_ready(t) \/ fail_live(t) \/ FailRequest(t)
    <3>1. UNCHANGED <<aw, cancelled, hops>>
      BY <2>3 DEF FinishHostAwait, deliver_ready, fail_live, FailRequest, tickets
    <3> QED
      BY <3>1, OtherStepsStutter
  <2> QED
    BY <1>3, <2>1, <2>2, <2>3 DEF Complete
<1>4. ASSUME NEW t \in Ticket \cup Killer, Extract(t)
      PROVE  [Abstract!Next]_<<TicketState, hops>>
  <2>1. CASE try_take_host_await(t)
    <3>1. th[t].f \in Flow
      BY <2>1, ExtractorFacts DEF try_take_host_await, OnFlow
    <3>2. Cancels /\ UNCHANGED hops
      BY <2>1, <3>1, CancelFlowCancels DEF try_take_host_await
    <3> QED
      BY <3>2, CancelMaps
  <2>2. CASE extract_for_kill(t) \/ SetKill(t) \/ TakeParked(t)
    <3>1. UNCHANGED <<aw, cancelled, hops>>
      BY <2>2 DEF extract_for_kill, SetKill, TakeParked, tickets
    <3> QED
      BY <3>1, OtherStepsStutter
  <2> QED
    BY <1>4, <2>1, <2>2 DEF Extract
<1>5. ASSUME NEW t \in Thread, End(t)
      PROVE  [Abstract!Next]_<<TicketState, hops>>
  <2>1. CASE FinalizeTickets(t)
    <3>1. th[t].f \in Flow
      BY <2>1, EnderFacts DEF FinalizeTickets, Ending
    <3>2. Cancels /\ UNCHANGED hops
      BY <2>1, <3>1, CancelFlowCancels DEF FinalizeTickets
    <3> QED
      BY <3>2, CancelMaps
  <2>2. CASE \/ message_or_kill(t) \/ FinalizeSeal(t) \/ FinalizeKill(t) \/ FinalizeClose(t)
             \/ FinalizeUnregister(t) \/ FinalizeComplete(t) \/ FinalizeClear(t)
    <3>1. UNCHANGED <<aw, cancelled, hops>>
      BY <2>2 DEF message_or_kill, FinalizeSeal, FinalizeKill, FinalizeClose, FinalizeUnregister,
                  FinalizeComplete, FinalizeClear, tickets
    <3> QED
      BY <3>1, OtherStepsStutter
  <2> QED
    BY <1>5, <2>1, <2>2 DEF End
<1>6. ASSUME ShutDown
      PROVE  [Abstract!Next]_<<TicketState, hops>>
  <2>1. CASE finalize_host_awaits
    <3>1. Cancels /\ UNCHANGED hops
      BY <2>1, CancelAllCancels DEF finalize_host_awaits
    <3> QED
      BY <3>1, CancelMaps
  <2>2. CASE finish \/ DrainQueues \/ EndDrained \/ VisitInboxes \/ CloseInbox
    <3>1. UNCHANGED <<aw, cancelled, hops>>
      BY <2>2 DEF finish, DrainQueues, EndDrained, VisitInboxes, CloseInbox, tickets
    <3> QED
      BY <3>1, OtherStepsStutter
  <2> QED
    BY <1>6, <2>1, <2>2 DEF ShutDown
<1>7. CASE \/ UNCHANGED vars \/ request_shutdown
           \/ \E k \in Killer, f \in Flow : request_kill(k, f)
  <2>1. UNCHANGED <<aw, cancelled, hops>>
    BY <1>7 DEF vars, request_shutdown, request_kill, tickets
  <2> QED
    BY <2>1, OtherStepsStutter
<1> QED
  BY <1>1, <1>2, <1>3, <1>4, <1>5, <1>6, <1>7 DEF Next

\* The index, the cancellation flags and the completions implement AwaitTickets: completion,
\* kill, exit and shutdown compete for one removal of a ticket, and only the completion that
\* won it delivers a hop, once (host_await.rs).
THEOREM TicketsRefine == Spec => SettledOnce
<1>1. Init => Abstract!Init
  BY InitMaps
<1>2. IInv /\ [Next]_vars => [Abstract!Next]_<<TicketState, hops>>
  BY StepMaps
<1> QED
  BY <1>1, <1>2, Invariant, PTL DEF Spec, SettledOnce, Abstract!Spec
=============================================================================
