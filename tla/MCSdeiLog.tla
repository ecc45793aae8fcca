---------------------------- MODULE MCSdeiLog -----------------------------
(* The message log on small instances: a first buffer of one or two slots, *)
(* so that it is doubled twice, and two open files.                        *)
EXTENDS SdeiLog, TLC

CONSTANTS f1, f2

Files == {f1, f2}
Symmetry == Permutations(Files)
=============================================================================
