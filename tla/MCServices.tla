------------------------------ MODULE MCServices ------------------------------
(* Small firmwares, SCSI hosts and page-table walks for TLC. *)
EXTENDS Services, MCPcie

Entry(mpidr) == [type |-> "GICC", mpidr |-> mpidr, pmu |-> 23]
Other == [type |-> "GICD", mpidr |-> 0, pmu |-> 0]
Region(base) == [type |-> "ECAM", base |-> base]
Madts == {MISSING, <<>>, <<Entry(1)>>, <<Entry(1), Other, Entry(2)>>, <<Other, Entry(3)>>}
Mcfgs == {MISSING, <<>>, <<Region(1)>>, <<Region(1), Region(2)>>}
Cpu(reg, cells) == [reg |-> reg, cells |-> cells]
CpuTrees == {<<Cpu(<<1>>, 1), n>> : n \in {Cpu(<<>>, 1), Cpu(<<2>>, 1), Cpu(<<0, 3>>, 2), Cpu(<<1, 0>>, 2)}} \cup {<<>>}
Ecam4(reg, cells, buses) == [reg |-> reg, cells |-> cells, buses |-> buses, first |-> 0, last |-> 3]
EcamTrees ==
  {<<>>} \cup {<<Ecam4(<<1, 0, 0, 4>>, c, b), Ecam4(reg, 2, TRUE)>>
                : c \in {1, 2}, b \in BOOLEAN, reg \in {<<0, 2, 0, 4>>, <<2, 4>>}}
SmmuTrees ==
  {<<>>} \cup {<<[reg |-> <<1, 0, 0, 2>>, cells |-> c, version |-> v], [reg |-> reg, cells |-> 1, version |-> w]>>
                : c \in {1, 2}, v, w \in 1 .. 3, reg \in {<<>>, <<3>>, <<3, 2>>}}
Behind == {[madt |-> e, mcfg |-> Region(7)] : e \in {Entry(8), Other}}
MCFirmwares ==
  {[madt |-> m, mcfg |-> <<Region(1)>>, behind |-> b, cpus |-> c, ecams |-> <<>>, smmus |-> <<>>]
     : m \in Madts, b \in Behind, c \in CpuTrees}
  \cup {[madt |-> MISSING, mcfg |-> m, behind |-> b, cpus |-> <<>>, ecams |-> e, smmus |-> s]
          : m \in Mcfgs, b \in Behind, e \in EcamTrees, s \in SmmuTrees}

Host(kind, devices, attr, fdt, iommu) ==
  [kind |-> kind, dmaAttr |-> attr, fdtCoherent |-> fdt, iommu |-> iommu,
   devices |-> [i \in 1 .. devices |-> [name |-> i, type |-> 0]]]
MCHostLists ==
  [0 .. 2 -> {Host("ata", 1, 2, 1, TRUE), Host("ata", 2, 0, 1, FALSE), Host("ata", 0, 0, 0, FALSE),
              Host("ata", 1, 1, 0, TRUE), Host("other", 1, 0, 0, FALSE),
              Host("mistaken", 1, 0, 0, FALSE), Host("wild", 1, 0, 0, FALSE), Host("none", 0, 0, 0, FALSE)}]

Table == [bits |-> 3, attr |-> 0]
MCWalks ==
  {<<[bits |-> 1, attr |-> 255], [bits |-> 3, attr |-> 1], [bits |-> 3, attr |-> 2]>>,
   <<Table, [bits |-> 1, attr |-> 255], [bits |-> 3, attr |-> 2]>>,
   <<Table, Table, [bits |-> 3, attr |-> 4]>>}
=============================================================================
