---------------------------- MODULE MCHostAwait ----------------------------
(* One flow, two tickets, two workers behind a park, one killer and the    *)
(* shutdown: every pair of them races.                                     *)
EXTENDS HostAwait, TLC

=============================================================================
