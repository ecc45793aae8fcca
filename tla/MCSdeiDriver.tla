--------------------------- MODULE MCSdeiDriver ---------------------------
(* The SDEI driver with one open file of its log and two runs.             *)
EXTENDS SdeiDriver

CONSTANT f1

Files == {f1}
=============================================================================
