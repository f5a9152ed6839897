------------------------------ MODULE MC_Chain ------------------------------
(* Chain on three tasks: two are needed to race two shutdowns, a third to  *)
(* keep the read side busy while a writer waits.                           *)
EXTENDS Chain, TLC

CONSTANTS t1, t2, t3

MCTasks == {t1, t2, t3}

\* The tasks run the same code; no property names one of them.
MCSymmetry == Permutations(MCTasks)
=============================================================================
