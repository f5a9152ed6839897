------------------------------- MODULE MC_Dio -------------------------------
(* Small instances of the DIO model for TLC.                               *)
EXTENDS Dio, TLC

CONSTANTS k1, k2, v1, v2, d1, d2, d3, h1, h2, h3

MCKeys == {k1, k2}
MCValues == {v1, v2}
MCDios2 == {d1, d2}
MCDios3 == {d1, d2, d3}
MCHandles3 == {h1, h2, h3}

MCHandles2 == {h1, h2}

\* Keys, values, DIOs and handles are interchangeable model values.
MCSymmetry == Permutations(MCKeys) \cup Permutations(MCValues)
              \cup Permutations(MCDios2) \cup Permutations(MCHandles3)
=============================================================================
