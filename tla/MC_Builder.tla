----------------------------- MODULE MC_Builder -----------------------------
(* The builder with one root key and two add_* calls per builder: enough  *)
(* to add a stage after a reset, or a key before one.                     *)
EXTENDS Builder, TLC

CONSTANTS k1

MCRootKeys == {k1}
=============================================================================
