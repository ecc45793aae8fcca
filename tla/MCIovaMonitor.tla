--------------------------- MODULE MCIovaMonitor ---------------------------
(* Instances of IovaMonitor for TLC. *)
EXTENDS IovaMonitor

\* A SATA port, a port of another controller, and one that is not behind an SMMU.
TwoDomains == {"d1", "d2"}
ThreePorts == [sata |-> "d1", other |-> "d2", bare |-> NoDomain]
OneSata == <<"sata">>
BareAndSata == <<"bare", "sata">>
TwoPorts == [sata |-> "d1", bare |-> NoDomain]
=============================================================================
