---------------------------- MODULE MCAcsDriver ----------------------------
(* Instances of AcsDriver for TLC. *)
EXTENDS AcsDriver

TestStatuses == {"PASS", "FAIL"}
Failing == {"pcie"}
=============================================================================
