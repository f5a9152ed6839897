---------------------------- MODULE MC_BusClient ----------------------------
(* Three call handles: one whose handler runs inside a tick, a second it  *)
(* can drop while the tick holds it, and a third it can start meanwhile. *)
EXTENDS BusClient, TLC

CONSTANTS h1, h2, h3

MCHandles == {h1, h2, h3}

\* The handles are chosen at random by the program; none is special.
MCSymmetry == Permutations(MCHandles)
=============================================================================
