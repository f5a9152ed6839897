----------------------------- MODULE MC_DaoMap -----------------------------
(* The map with two keys and four primary keys for its children: enough  *)
(* to replace a key's value twice, or both keys once, with a delete.     *)
EXTENDS DaoMap, TLC

CONSTANTS x1, x2, a, b, i1, i2, i3, i4

\* One task opening transaction after transaction on the parent.
MCTxnsSequential == {x1}

\* Two tasks whose transactions on the parent may overlap.
MCTxnsConcurrent == {x1, x2}

MCKeys == {a, b}

MCIds == {i1, i2, i3, i4}

\* Keys are interchangeable, and so are the primary keys store() picks.
MCSymmetry == Permutations(MCKeys) \cup Permutations(MCIds)
=============================================================================
