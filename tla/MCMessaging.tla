---------------------------- MODULE MCMessaging ----------------------------
(***************************************************************************)
(* Programs for TLC: two or three flows, each with the operations that     *)
(* make one part of the protocol contend.                                  *)
(***************************************************************************)
EXTENDS Messaging, TLC

CONSTANTS a, b, c

WorkerSymmetry == Permutations(Worker)

SendTo(g) == [op |-> "send", to |-> g]
Recv(timed) == [op |-> "receive", filter |-> AnyHop, timed |-> timed]
AskOf(g, timed) == [op |-> "ask", to |-> g, timed |-> timed]
Answer == [op |-> "reply"]

Tagged(t) == [op |-> "receive", filter |-> [kind |-> "Tag", tag |-> t], timed |-> FALSE]
YieldOp == [op |-> "yield"]
SleepOp == [op |-> "sleep"]

\* b asks a, which also yields, sleeps and waits selectively
MCAskBusy ==
  [g \in Flow |-> IF g = a THEN {Recv(TRUE), Answer, Tagged("rep"), YieldOp, SleepOp}
                  ELSE {AskOf(a, FALSE), AskOf(a, TRUE), Recv(FALSE)}]

\* b and c send to a, which receives: a full inbox parks a sender
MCBackpressure ==
  [g \in Flow |-> IF g = a THEN {Recv(FALSE)} ELSE {SendTo(a)}]

\* b and c ask and send through a's one slot, so an Ask is admitted from WAITING_SEND
MCContended ==
  [g \in Flow |-> CASE g = a -> {Recv(FALSE), Answer}
                    [] g = b -> {SendTo(a), AskOf(a, FALSE)}
                    [] g = c -> {AskOf(a, TRUE)}]
=============================================================================
