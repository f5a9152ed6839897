---------------------------- MODULE MC_BusServer ----------------------------
(* Two calls on two topics: one the program may listen on before the call  *)
(* arrives and one it may not, each of which its caller may give up.      *)
EXTENDS BusServer, TLC

CONSTANTS c1, c2, t1, t2

MCHandles == {c1, c2}
MCTopics == {t1, t2}

\* Callers' handles are random and topics are names; none is special.
MCSymmetry == Permutations(MCHandles) \cup Permutations(MCTopics)
=============================================================================
