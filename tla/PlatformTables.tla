---------------------------- MODULE PlatformTables ----------------------------
(***************************************************************************)
(* The tables of processors, of PCIe regions and of device-tree SMMUs that *)
(* the BSA, SBSA and SDEI platform layers fill from the MADT, the MCFG and *)
(* the device tree (pal_pe.c, pal_pcie.c, pal_dt.c, pal_acpi.c).           *)
(*                                                                         *)
(* A loop over firmware entries is a recursion over their number; a table  *)
(* is its entries and its count, which is a field of its own in the code.  *)
(* The loops over ACPI tables run once at least, so that of an empty table *)
(* they take what stands behind it in memory for its only entry.           *)
(***************************************************************************)
EXTENDS Integers, Sequences, FiniteSets

CONSTANTS
  Firmwares,    \* [madt, mcfg: entries or MISSING; behind: what stands behind them;
                \*  cpus, ecams, smmus: nodes of the device tree]
  CELL          \* one more than a 32-bit cell of the device tree holds

MISSING == <<[type |-> "no table"]>>
NO_TABLE == <<[type |-> "NULL"]>>    \* pointers: to no table, or to anything
WILD == <<[type |-> "wild"]>>

MadtEntry == [type : {"GICC", "GICD", "MSI", "GICR", "ITS"}, mpidr : Nat, pmu : Nat]
McfgEntry == [type : {"ECAM"}, base : Nat]
\* A node of the device tree: its "reg" property, <<>> for none, and the number of
\* address cells.  A processor's holds an address if it is there.
Reg == Seq(0 .. CELL - 1)
CpuNodes == {n \in [reg : Reg, cells : {1, 2}] : n.reg # <<>> => n.cells <= Len(n.reg)}
EcamNodes == [reg : Reg, cells : {1, 2}, buses : BOOLEAN, first : Nat, last : Nat]
SmmuNodes == [reg : Reg, cells : {1, 2}, version : 1 .. 3]
FirmwareTables ==
  [madt : {MISSING} \cup Seq(MadtEntry), mcfg : {MISSING} \cup Seq(McfgEntry),
   behind : [madt : MadtEntry, mcfg : McfgEntry],
   cpus : Seq(CpuNodes), ecams : Seq(EcamNodes), smmus : Seq(SmmuNodes)]
ASSUME FirmwaresAssumption == CELL \in Nat \ {0} /\ Firmwares \subseteq FirmwareTables

VARIABLE
  made        \* what the layers made of a firmware, when they have

tablesVars == <<made>>

Empty == [count |-> 0, entries |-> <<>>, stop |-> FALSE]
Untouched == [count |-> -1, entries |-> <<>>, stop |-> FALSE]
OOPS == [count |-> -2, entries |-> <<>>, stop |-> TRUE]
Added(t, e) == [t EXCEPT !.count = @ + 1, !.entries = Append(@, e)]

\* What the loop makes of t, one entry after the other.
Loop(Turn(_, _), t, entries) ==
  LET after[k \in 0 .. Len(entries)] == IF k = 0 THEN t ELSE Turn(after[k - 1], entries[k])
  IN  after[Len(entries)]

\* acpi_get_table() clears the pointer first, from Linux 4.10 on.
AcpiGetTable(pointer, table, clears) ==
  IF table # MISSING THEN table ELSE IF clears THEN NO_TABLE ELSE pointer
BsaTable(table, clears) == AcpiGetTable(NO_TABLE, table, clears)
SbsaTable(table, clears) == AcpiGetTable(WILD, table, clears)
SdeiTable(table, clears) == AcpiGetTable(WILD, table, clears)
AtLeastOne(entries, behind) == IF entries = <<>> THEN <<behind>> ELSE entries

\* of_read_number: a node's address, of as many cells as addresses have.
ReadNumber(node) == IF node.cells = 1 THEN node.reg[1] ELSE node.reg[1] * CELL + node.reg[2]

-----------------------------------------------------------------------------
(* Processors: of the MADT, the entries that are GIC CPU interfaces. *)
Gicc(t, e) ==
  IF e.type # "GICC" THEN t
  ELSE Added(t, [mpidr |-> e.mpidr, pe_num |-> t.count, pmu_gsiv |-> e.pmu])
Processors(fw, madt) == Loop(Gicc, Empty, AtLeastOne(madt, fw.behind.madt))

\* of_get_cpu_mpidr: no "reg", or one with bits that are no affinity.
INVALID_HWID == -1
Affinities == 0 .. 255
GetCpuMpidr(node) ==
  IF node.reg = <<>> THEN INVALID_HWID
  ELSE IF ReadNumber(node) \notin Affinities THEN INVALID_HWID ELSE ReadNumber(node)
CpuNode(t, node) ==
  IF t.stop \/ GetCpuMpidr(node) = INVALID_HWID THEN [t EXCEPT !.stop = TRUE]
  ELSE Added(t, [mpidr |-> GetCpuMpidr(node), pe_num |-> t.count, pmu_gsiv |-> 0])
\* of_get_cpu_mpidr() is __init: unless the compiler inlined it, it is gone.
PeTableDt(fw, inlined) ==
  IF fw.cpus # <<>> /\ ~inlined THEN OOPS ELSE Loop(CpuNode, Empty, fw.cpus)

BsaPeTable(fw, madt, inlined) == IF madt = NO_TABLE THEN PeTableDt(fw, inlined) ELSE Processors(fw, madt)
\* Without a MADT the table stays as it was allocated.
SbsaPeTable(fw, madt) ==
  IF madt = NO_TABLE THEN Untouched ELSE IF madt = WILD THEN OOPS ELSE Processors(fw, madt)
SdeiPeTable(fw, madt) ==
  IF madt = NO_TABLE THEN Empty   \* its memory came cleared
  ELSE IF madt = WILD THEN OOPS ELSE Processors(fw, madt)

-----------------------------------------------------------------------------
(* PCIe configuration space: the allocations of the MCFG, or nodes of the device tree. *)
Ecam(t, e) == Added(t, e)
Ecams(fw, mcfg) == Loop(Ecam, Empty, AtLeastOne(mcfg, fw.behind.mcfg))

\* An address and a size of two cells each, and the range of buses.
Complete(node) == Len(node.reg) >= 4 /\ node.buses
EcamOf(node) == [base |-> ReadNumber(node), first |-> node.first, last |-> node.last, segment |-> 0]
\* Mutant: a node that is not complete is passed over.
EcamNodeSkipped(t, node) == IF ~Complete(node) THEN t ELSE Added(t, EcamOf(node))
\* The first node that is not complete ends the walk; all are in segment 0.
EcamNode(t, node) ==
  IF t.stop \/ ~Complete(node) THEN [t EXCEPT !.stop = TRUE] ELSE Added(t, EcamOf(node))
PcieTableDt(fw) == Loop(EcamNode, Empty, fw.ecams)

BsaPcieTable(fw, mcfg) == IF mcfg = NO_TABLE THEN PcieTableDt(fw) ELSE Ecams(fw, mcfg)
SbsaPcieTable(fw, mcfg) == IF mcfg = NO_TABLE THEN Empty ELSE IF mcfg = WILD THEN OOPS ELSE Ecams(fw, mcfg)
McfgEcam(fw, mcfg) == IF mcfg = NO_TABLE THEN 0 ELSE AtLeastOne(mcfg, fw.behind.mcfg)[1]

-----------------------------------------------------------------------------
(* SMMUs of the device tree, one version after the other; num_smmus is their count,
   num_blocks stays 0.  A node with fewer than two cells ends the walk of all versions;
   of the others the first cell is the base, whatever the number of address cells. *)
FirstCell(node) == node.reg[1]
SmmuNode(t, node, version) ==
  IF t.stop \/ node.version # version THEN t
  ELSE IF Len(node.reg) < 2 THEN [t EXCEPT !.stop = TRUE]
  ELSE Added(t, [type |-> IF version = 3 THEN "SMMU_V3" ELSE "SMMU", rev |-> version, base |-> FirstCell(node)])
SmmusOf(version, t, nodes) ==
  LET after[k \in 0 .. Len(nodes)] == IF k = 0 THEN t ELSE SmmuNode(after[k - 1], nodes[k], version)
  IN  after[Len(nodes)]
IovirtTableDt(fw) == SmmusOf(3, SmmusOf(2, SmmusOf(1, Empty, fw.smmus), fw.smmus), fw.smmus)

-----------------------------------------------------------------------------
Tables(fw, clears, inlined) ==
  [bsa_pe |-> BsaPeTable(fw, BsaTable(fw.madt, clears), inlined),
   sbsa_pe |-> SbsaPeTable(fw, SbsaTable(fw.madt, clears)),
   sdei_pe |-> SdeiPeTable(fw, SdeiTable(fw.madt, clears)),
   bsa_pcie |-> BsaPcieTable(fw, BsaTable(fw.mcfg, clears)),
   sbsa_pcie |-> SbsaPcieTable(fw, SbsaTable(fw.mcfg, clears)),
   bsa_iovirt |-> IovirtTableDt(fw),
   bsa_ecam |-> McfgEcam(fw, BsaTable(fw.mcfg, clears))]

TablesInit == made = {}
TablesNext ==
  /\ made = {}
  /\ \E fw \in Firmwares, clears, inlined \in BOOLEAN :
       made' = {[fw |-> fw, clears |-> clears, inlined |-> inlined, tables |-> Tables(fw, clears, inlined)]}
TablesSpec == TablesInit /\ [][TablesNext]_tablesVars

Whole(t) == t.count = Len(t.entries)
\* The first n nodes are good, and they are all or the next is not.
StopsAt(n, nodes, good) ==
  n \in 0 .. Len(nodes) /\ 1 .. n \subseteq good /\ (n < Len(nodes) => n + 1 \notin good)
\* The table of the processors that have their interface in the MADT.
IsPeTable(pe, madt) ==
  LET giccs == {i \in DOMAIN madt : madt[i].type = "GICC"} IN
  /\ pe.count = Cardinality(giccs) /\ Whole(pe)
  /\ \A i \in giccs :
       LET n == Cardinality({j \in giccs : j < i})
       IN  pe.entries[n + 1] = [mpidr |-> madt[i].mpidr, pe_num |-> n, pmu_gsiv |-> madt[i].pmu]
\* The place of node i when the SMMUs are ordered by version.
Place(smmus, i) ==
  Cardinality({j \in DOMAIN smmus : \/ smmus[j].version < smmus[i].version
                                    \/ smmus[j].version = smmus[i].version /\ j <= i})

\* The entry has the SMMU's address, or the part of it above the last 32 bits.
IsEntryOf(e, smmu) ==
  /\ e.rev = smmu.version
  /\ smmu.cells = 1 => e.base = ReadNumber(smmu)
  /\ smmu.cells = 2 => e.base * CELL <= ReadNumber(smmu) /\ ReadNumber(smmu) < (e.base + 1) * CELL

Faithful(m) ==
  LET fw == m.fw  t == m.tables
      madt == AtLeastOne(fw.madt, fw.behind.madt)
      mcfg == AtLeastOne(fw.mcfg, fw.behind.mcfg)
      numbered == {i \in DOMAIN fw.cpus : fw.cpus[i].reg # <<>> /\ ReadNumber(fw.cpus[i]) \in Affinities}
      complete == {i \in DOMAIN fw.ecams : Complete(fw.ecams[i])}
  IN /\ fw.madt # MISSING =>
          IsPeTable(t.bsa_pe, madt) /\ IsPeTable(t.sbsa_pe, madt) /\ IsPeTable(t.sdei_pe, madt)
     /\ fw.madt = MISSING =>
          /\ IF t.bsa_pe = OOPS THEN ~m.inlined
             ELSE /\ Whole(t.bsa_pe) /\ StopsAt(t.bsa_pe.count, fw.cpus, numbered)
                  /\ \A i \in 1 .. t.bsa_pe.count : t.bsa_pe.entries[i].mpidr = ReadNumber(fw.cpus[i])
          /\ t.sbsa_pe # OOPS => m.clears /\ t.sbsa_pe = Untouched
          /\ t.sdei_pe # OOPS => m.clears /\ t.sdei_pe = Empty
     /\ fw.mcfg # MISSING =>
          t.bsa_pcie.entries = mcfg /\ Whole(t.bsa_pcie) /\ t.sbsa_pcie = t.bsa_pcie /\ t.bsa_ecam = mcfg[1]
     /\ fw.mcfg = MISSING =>
          /\ Whole(t.bsa_pcie) /\ StopsAt(t.bsa_pcie.count, fw.ecams, complete)
          /\ \A i \in 1 .. t.bsa_pcie.count : t.bsa_pcie.entries[i].base = ReadNumber(fw.ecams[i])
     /\ Whole(t.bsa_iovirt)
     /\ (\A i \in DOMAIN fw.smmus : Len(fw.smmus[i].reg) >= 2) =>
          /\ t.bsa_iovirt.count = Len(fw.smmus)
          /\ \A i \in DOMAIN fw.smmus :
               IsEntryOf(t.bsa_iovirt.entries[Place(fw.smmus, i)], fw.smmus[i])

\* Each table counts and holds, in order, what the firmware lists: all of the ACPI
\* table, of which an empty one counts as the entry that stands behind it in memory, or
\* the nodes of the device tree before the first that is not complete.  An SMMU's base
\* is its address with one address cell, and only the high half of it with two.  Only
\* the SBSA layer leaves a count nobody wrote, and only without a MADT; the kernel
\* oopses only where a pointer that was never set is followed, or an __init function is
\* gone (pal_pe.c:38-75, pal_pcie.c:190-221, pal_dt.c:27-178).
TablesMatchFirmware == \A m \in made : Faithful(m)
=============================================================================
