------------------------------- MODULE Services -------------------------------
(***************************************************************************)
(* The parts of the system that share no state with one another.  Each is  *)
(* looked at from its first state with the others standing still, so that  *)
(* the states to explore are those of the parts, not their product.        *)
(***************************************************************************)
EXTENDS Pcie, DriverModules, Interrupts, FfaTransfer, Buffers, Processors, PlatformTables

CONSTANT Domains   \* the interrupt domains a kernel may have

ASSUME ServicesAssumption == Systems # {} /\ Domains \subseteq {"none", "flat", "hierarchy"}

VARIABLE part      \* the part looked at

Parts == {"pcie", "modules", "interrupts", "transfer", "buffers", "firmware", "tables"}
servicesVars == <<pcieVars, modulesVars, interruptsVars, transferVars, buffersVars,
                  firmwareVars, tablesVars, part>>

Init ==
  /\ part \in Parts
  /\ PcieInit(IF part = "pcie" THEN Systems ELSE {CHOOSE s \in Systems : TRUE})
  /\ InterruptsInit(IF part = "interrupts" THEN Domains ELSE {"none"})
  /\ ModulesInit /\ TransferInit /\ BuffersInit /\ ProcessorsInit /\ TablesInit

\* The part p takes a step; the others stand still.
Rest(p, q, vars) == IF p = q THEN TRUE ELSE UNCHANGED vars
At(p) ==
  /\ part = p /\ UNCHANGED part
  /\ Rest(p, "pcie", pcieVars) /\ Rest(p, "modules", modulesVars) /\ Rest(p, "interrupts", interruptsVars)
  /\ Rest(p, "transfer", transferVars) /\ Rest(p, "buffers", buffersVars)
  /\ Rest(p, "firmware", firmwareVars) /\ Rest(p, "tables", tablesVars)

Next ==
  \/ At("pcie") /\ PcieNext
  \/ At("modules") /\ ModulesNext
  \/ At("interrupts") /\ InterruptsNext
  \/ At("transfer") /\ TransferNext
  \/ At("buffers") /\ BuffersNext
  \/ At("firmware") /\ FirmwareNext
  \/ At("tables") /\ TablesNext

\* The test of the FF-A module is kernel code that is scheduled until it returns.
Spec == Init /\ [][Next]_servicesVars /\ WF_servicesVars(At("transfer") /\ TestSteps)
=============================================================================
