---------------------------- MODULE AwaitTickets ----------------------------
(***************************************************************************)
(* What the HostAwait ticket table promises, without flows, locks or       *)
(* threads: a ticket is issued once, "completion and cancellation compete  *)
(* for one removal" (host_await.rs), and only the completion that won the  *)
(* removal may put the ticket's hop in an inbox, once.                     *)
(***************************************************************************)
EXTENDS Naturals

CONSTANT Ticket

VARIABLES
  state,   \* "unused", "open", "taken" or "cancelled"
  hops     \* completion hops delivered for the ticket

Init ==
  /\ state = [t \in Ticket |-> "unused"]
  /\ hops = [t \in Ticket |-> 0]

Issue(t) ==
  /\ state[t] = "unused"
  /\ state' = [state EXCEPT ![t] = "open"]
  /\ UNCHANGED hops

\* the completion takes the ticket out of the table
Take(t) ==
  /\ state[t] = "open"
  /\ state' = [state EXCEPT ![t] = "taken"]
  /\ UNCHANGED hops

\* a finalize, a kill or the shutdown takes several at once
Cancel(S) ==
  /\ \A t \in S : state[t] = "open"
  /\ state' = [t \in Ticket |-> IF t \in S THEN "cancelled" ELSE state[t]]
  /\ UNCHANGED hops

\* only the completion that took the ticket, and only once
Deliver(t) ==
  /\ state[t] = "taken"
  /\ hops[t] = 0
  /\ hops' = [hops EXCEPT ![t] = 1]
  /\ UNCHANGED state

Next ==
  \/ \E t \in Ticket : Issue(t) \/ Take(t) \/ Deliver(t)
  \/ \E S \in SUBSET Ticket : Cancel(S)

Spec == Init /\ [][Next]_<<state, hops>>

=============================================================================
