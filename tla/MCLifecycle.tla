---------------------------- MODULE MCLifecycle ----------------------------
(***************************************************************************)
(* Small sets of flows for TLC.  Flows and host threads are model values,  *)
(* and no definition prefers one of them.                                  *)
(***************************************************************************)
EXTENDS Lifecycle, TLC

FlowSymmetry == Permutations(Flow)
=============================================================================
