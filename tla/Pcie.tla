--------------------------------- MODULE Pcie ---------------------------------
(***************************************************************************)
(* PCIe services of the platform layer: the enumeration of devices         *)
(* (pal_pcie_enumeration.c), the peripheral table (pal_peripherals.c), the *)
(* queries, MSI vector lists and legacy interrupt maps of pal_pcie.c, and  *)
(* memory allocated for a device (pal_misc.c).                             *)
(*                                                                         *)
(* A device is its place in the kernel's list, from which it may be        *)
(* unplugged at any time.  The PAL finds a device by its slot, each time   *)
(* taking a reference that it never gives back; only a walk passes its     *)
(* reference on.  The VAL calls one service after the other.               *)
(***************************************************************************)
EXTENDS Integers, Sequences, FiniteSets, SequencesExt

CONSTANTS
  Systems,       \* hierarchies: [dev |-> devices in list order, prt |-> routing entries]
  MAX_IRQ_CNT,
  Segments,      \* how many segments a BDF tells apart: 256
  MaxCalls,      \* a bound: services called
  MaxUnplugs     \* a bound: devices unplugged

NULL == 0
Oops == -1       \* the kernel kills the caller: a NULL pointer was followed
ROOT_PORT == 4   \* PCI_EXP_TYPE_ROOT_PORT

ASSUME PcieAssumption ==
  /\ {MAX_IRQ_CNT, Segments, MaxCalls, MaxUnplugs} \subseteq Nat
  /\ \A s \in Systems : s.prt \in Seq([pin : Nat, source : Nat, source_index : Nat])
  /\ \A s \in Systems : \A d \in DOMAIN s.dev :
       /\ d \in Nat \ {NULL} /\ s.dev[d].up \in {NULL} \cup DOMAIN s.dev /\ s.dev[d].up < d
       /\ s.dev[d].slot \in [1 .. 4 -> Nat] /\ s.dev[d].port \in Nat
       /\ s.dev[d].vectors \in Seq([hwirq : Nat, msix : BOOLEAN, is_64 : BOOLEAN,
                                   lower : Nat, upper : Nat, control : Nat])

\* What PCI gives: one device in a slot, and root ports on a root bus.
ASSUME PciAssumption ==
  \A s \in Systems : \A d \in DOMAIN s.dev :
    /\ s.dev[d].port = ROOT_PORT => s.dev[d].up = NULL
    /\ \A e \in DOMAIN s.dev : s.dev[d].slot = s.dev[e].slot => d = e

VARIABLES
  sys,       \* the hierarchy
  present,   \* the devices not unplugged
  refs,      \* references the PAL holds on each device
  kept,      \* devices the VAL keeps pointers to
  mem,       \* devices the VAL has coherent memory of
  call,      \* the service that goes on
  table,     \* the peripheral table
  vec,       \* the last MSI vector list: its nodes, in the order of allocation
  irq,       \* the legacy interrupt map, and how the last call ended
  walk,      \* a walk through the devices of a class
  answer,    \* the last query's
  calls

hierarchy == <<sys, present>>
results == <<table, vec, irq, walk, answer>>
pointers == <<kept, mem>>
pcieVars == <<hierarchy, refs, pointers, call, results, calls>>

Devices == DOMAIN sys.dev
Has(d, what) == what \in sys.dev[d].has

\* Mutant: the segment is left out.
CreateNoSegment(slot) == [slot EXCEPT ![1] = 0]
\* A BDF: the segment is cut to its low 8 bits.
Create(slot) == [slot EXCEPT ![1] = @ % Segments]
Bdf(d) == Create(sys.dev[d].slot)
ZeroBdf == <<0, 0, 0, 0>>
Bdfs == {Bdf(d) : d \in Devices}

\* pci_get_domain_bus_and_slot, pci_get_device and pci_get_class.
Lookup(b) ==
  IF \E d \in present : sys.dev[d].slot = b
  THEN CHOOSE d \in present : sys.dev[d].slot = b ELSE NULL
First(S) == IF S = {} THEN NULL ELSE CHOOSE d \in S : \A e \in S : d <= e
\* The search begins again when the device it is to go on from was unplugged.
After(S, from) == First({d \in S \cap present : from \in present => d > from})
Take(r, d) == IF d = NULL THEN r ELSE [r EXCEPT ![d] = @ + 1]
\* Mutant: a look-up gives its reference back.
FoundAndPut(r, d) == r
Found(r, d) == Take(r, d)
Drop(r, d) == IF d = NULL THEN r ELSE [r EXCEPT ![d] = @ - 1]
\* The structure is freed with the last reference.
Freed(d) == d \notin present /\ refs[d] = 0

Called == call.op = "none" /\ calls < MaxCalls /\ calls' = calls + 1
Idle == [op |-> "none"]
Killed == [op |-> "killed"]   \* the VAL, by the kernel: no other service is called

-----------------------------------------------------------------------------
(***************************************************************************)
(* pal_peripheral_create_info_table: one device per turn of the loop.      *)
(***************************************************************************)
TableCalled ==
  /\ Called
  /\ call' = [op |-> "table", pdev |-> NULL, unplugged |-> FALSE]
  /\ table' = [num_usb |-> 0, num_sata |-> 0, num_all |-> 0, info |-> <<>>, end |-> FALSE,
               undisturbed |-> TRUE]
  /\ UNCHANGED <<hierarchy, refs, pointers, vec, irq, walk, answer>>

Block(d) ==
  [bdf   |-> Bdf(d),
   type  |-> IF sys.dev[d].class \in {"USB", "SATA"} THEN sys.dev[d].class ELSE "OTHER",
   msi   |-> Has(d, "msi"), msix |-> Has(d, "msix"),
   flags |-> Has(d, "msi") \/ Has(d, "msix"),
   max_pasids |-> IF sys.dev[d].pasids < 0 THEN 0 ELSE sys.dev[d].pasids]

GetDevNext(from) == After(Devices, from)

TableTurn ==
  /\ call.op = "table"
  /\ LET d == GetDevNext(call.pdev) IN
     /\ refs' = Take(Drop(refs, call.pdev), d)
     /\ \/ /\ d # NULL
           /\ call' = [call EXCEPT !.pdev = d]
           /\ table' = [table EXCEPT
                !.info = Append(@, Block(d)), !.num_all = @ + 1,
                !.num_usb = IF Block(d).type = "USB" THEN @ + 1 ELSE @,
                !.num_sata = IF Block(d).type = "SATA" THEN @ + 1 ELSE @]
        \/ /\ d = NULL
           /\ call' = Idle
           /\ table' = [table EXCEPT !.end = TRUE, !.undisturbed = ~call.unplugged]
  /\ UNCHANGED <<hierarchy, pointers, vec, irq, walk, answer, calls>>

-----------------------------------------------------------------------------
(***************************************************************************)
(* pal_get_msi_vectors.  A descriptor's message is an address and data;    *)
(* the upper half of the address is there for MSI-X and 64-bit MSI.        *)
(***************************************************************************)
ReadMsiVector(e) ==
  [irq_base |-> e.hwirq, lower |-> e.lower,
   upper    |-> IF e.msix \/ e.is_64 THEN e.upper ELSE 0,
   control  |-> IF e.msix THEN e.control ELSE 0]

VectorsCalled ==
  /\ Called
  /\ \E b \in Bdfs : LET d == Lookup(b) IN
       /\ refs' = Found(refs, d)
       /\ call' = [op |-> "msi", left |-> IF d = NULL THEN <<>> ELSE sys.dev[d].vectors]
       /\ vec' = [first |-> NULL, node |-> <<>>, vcount |-> 0, of |-> d]
  /\ UNCHANGED <<hierarchy, pointers, table, irq, walk, answer>>

\* Mutant: the new node is not linked to the last one.
LinkedNot(n) == vec.node
\* The nodes, the n-th one pointing to the next to come.
Linked(n) == IF n = 0 THEN <<>> ELSE [vec.node EXCEPT ![n].next = n + 1]

\* The next node, when kmalloc() gives one; the loop ends when it does not.
VectorTurn ==
  /\ call.op = "msi" /\ call.left # <<>>
  /\ \/ /\ vec' = [vec EXCEPT
              !.first = IF vec.node = <<>> THEN 1 ELSE @, !.vcount = @ + 1,
              !.node = Append(Linked(Len(vec.node)),
                              [next |-> NULL, vector |-> ReadMsiVector(call.left[1])])]
        /\ call' = [call EXCEPT !.left = Tail(@)]
     \/ call' = Idle /\ UNCHANGED vec
  /\ UNCHANGED <<hierarchy, refs, pointers, table, irq, walk, answer, calls>>

VectorsReturn ==
  /\ call.op = "msi" /\ call.left = <<>>
  /\ call' = Idle
  /\ UNCHANGED <<hierarchy, refs, pointers, results, calls>>

-----------------------------------------------------------------------------
(***************************************************************************)
(* pal_pcie_get_legacy_irq_map: the entries of the _PRT, whatever device   *)
(* they are for, up to the first one that does not fit.  The caller clears *)
(* the map before the call, or passes it as the last call left it.         *)
(***************************************************************************)
Pins == 0 .. 3
NoMap == [p \in Pins |-> <<>>]

\* Mutant: the bound is off by one.
StatusLate(map, e) ==
  IF e.source # 0 THEN 4 ELSE IF e.pin > 3 THEN 5
  ELSE IF Len(map[e.pin]) > MAX_IRQ_CNT THEN 6 ELSE 0
Status(map, e) ==
  IF e.source # 0 THEN 4 ELSE IF e.pin > 3 THEN 5
  ELSE IF Len(map[e.pin]) >= MAX_IRQ_CNT THEN 6 ELSE 0

\* One turn of the loop: the map and the status so far, the next entry.
Route(m, e) ==
  IF m.status # 0 THEN m
  ELSE IF Status(m.map, e) # 0 THEN [m EXCEPT !.status = Status(m.map, e)]
  ELSE [m EXCEPT !.map[e.pin] = Append(@, e.source_index)]

\* The loop, from the map the caller passes.
Routed(map) ==
  LET after[k \in 0 .. Len(sys.prt)] ==
        IF k = 0 THEN [map |-> map, status |-> 0] ELSE Route(after[k - 1], sys.prt[k])
  IN  after[Len(sys.prt)]

GetLegacyIrqMap ==
  /\ Called
  /\ \E b \in Bdfs, cleared \in BOOLEAN : LET d == Lookup(b)
                                             map == IF cleared THEN NoMap ELSE irq.map IN
       /\ refs' = Found(refs, d)
       /\ \/ /\ d = NULL
             /\ irq' = [map |-> map, status |-> 1, cleared |-> cleared]
          \/ /\ d # NULL   \* no handle, or no routing table
             /\ \E s \in {2, 3} : irq' = [map |-> map, status |-> s, cleared |-> cleared]
          \/ /\ d # NULL
             /\ LET m == Routed(map) IN irq' = [map |-> m.map, status |-> m.status, cleared |-> cleared]
  /\ UNCHANGED <<hierarchy, pointers, call, table, vec, walk, answer>>

-----------------------------------------------------------------------------
(***************************************************************************)
(* The queries: what they answer for the device found, or for none.        *)
(***************************************************************************)
Bit(c) == IF c THEN 1 ELSE 0
IsDeviceBehindSmmu(d) == IF d = NULL THEN Oops ELSE Bit(Has(d, "iommu_group"))
IsDevicedma64bit(d) == IF d = NULL THEN 0 ELSE Bit(Has(d, "mask64"))
DeviceDriverPresent(d) == IF d = NULL THEN 0 ELSE Bit(Has(d, "driver"))
GetPcieType(d) == IF d = NULL THEN 0 ELSE sys.dev[d].port
GetSnoopBit(d) == IF d = NULL THEN 2 ELSE Bit(Has(d, "no_snoop"))
GetDmaSupport(d) == IF d = NULL THEN 2 ELSE Bit(Has(d, "dma"))
GetDmaCoherent(d) == IF d = NULL THEN 2 ELSE Bit(Has(d, "coherent"))
ReadExtCapWord(d) == IF d = NULL THEN 0 ELSE Bit(Has(d, "ext_cap"))
MultifunctionSupport(d) == IF d = NULL THEN 1 ELSE Bit(~Has(d, "multifunction"))
PeripheralIsPcie(d) == IF d = NULL THEN 0 ELSE Bit(Has(d, "pcie"))
CheckDeviceValid(d) == Bit(d = NULL)
ReadConfigByte(d) == IF d = NULL THEN Oops ELSE 0
WriteConfigByte(d) == IF d = NULL THEN Oops ELSE 0
GetDeviceType(d) ==
  IF d = NULL THEN 0 ELSE IF sys.dev[d].class = "HOST" THEN 2
  ELSE IF ~Has(d, "bridge") THEN 1 ELSE 3

\* BAR 0 of the devices behind a bridge: bits 1 and 2 of the low half, whatever bit 0
\* says.  A bridge may be without a bus, and none is unplugged while the list is read.
MemType(bar0) == bar0 % 8 \div 2
CheckMemtype(d) ==
  IF d = NULL THEN Oops ELSE IF ~Has(d, "bus") THEN Oops
  ELSE Bit(\E c \in present : sys.dev[c].up = d /\ MemType(sys.dev[c].bar0) # 0)

\* pcie_find_root_port: the device itself, or the first one above it.
FindRootPort[d \in Devices \cup {NULL}] ==
  IF d = NULL THEN NULL ELSE IF sys.dev[d].port = ROOT_PORT THEN d ELSE FindRootPort[sys.dev[d].up]

\* Mutant: a device on a root bus is not told apart.
GetRootPortBdfAlways(d) ==
  IF d = NULL THEN Oops ELSE IF FindRootPort[d] = NULL THEN 2 ELSE 0
GetRootPortBdf(d) ==
  IF d = NULL THEN Oops ELSE IF sys.dev[d].up = NULL THEN 1
  ELSE IF FindRootPort[d] = NULL THEN 2 ELSE 0

Answers(d) ==
  [is_device_behind_smmu |-> IsDeviceBehindSmmu(d), is_devicedma_64bit |-> IsDevicedma64bit(d),
   device_driver_present |-> DeviceDriverPresent(d), get_pcie_type |-> GetPcieType(d),
   get_snoop_bit |-> GetSnoopBit(d), get_dma_support |-> GetDmaSupport(d),
   get_dma_coherent |-> GetDmaCoherent(d), read_ext_cap_word |-> ReadExtCapWord(d),
   multifunction_support |-> MultifunctionSupport(d), is_pcie |-> PeripheralIsPcie(d),
   check_device_valid |-> CheckDeviceValid(d), read_config_byte |-> ReadConfigByte(d),
   write_config_byte |-> WriteConfigByte(d), get_device_type |-> GetDeviceType(d),
   check_memtype |-> CheckMemtype(d), get_root_port_bdf |-> GetRootPortBdf(d)]

Query ==
  /\ Called
  /\ \E b \in Bdfs : LET d == Lookup(b) IN
       /\ refs' = Found(refs, d)
       /\ answer' = [of |-> b, dev |-> d, value |-> Answers(d),
                     root |-> IF d = NULL THEN NULL ELSE FindRootPort[d]]
  /\ UNCHANGED <<hierarchy, pointers, call, table, vec, irq, walk>>

-----------------------------------------------------------------------------
(***************************************************************************)
(* Pointers to devices.                                                    *)
(***************************************************************************)
\* The VAL keeps the pointer, or has memory allocated for the device.
BdfToDev ==
  /\ Called
  /\ \E b \in Bdfs : LET d == Lookup(b) IN
       /\ refs' = Found(refs, d)
       /\ kept' = kept \cup ({d} \ {NULL})
  /\ UNCHANGED <<hierarchy, mem, call, results>>

\* pal_mem_alloc_cacheable and pal_mem_free_cacheable look the device up each, and give
\* the kernel what they found; it follows the pointer even if it is NULL.
Followed(d) == call' = IF d = NULL THEN Killed ELSE call

AllocCacheable ==
  /\ Called
  /\ \E b \in Bdfs : LET d == Lookup(b) IN
       /\ refs' = Found(refs, d) /\ Followed(d)
       /\ mem' \in {mem, mem \cup ({d} \ {NULL})}
  /\ UNCHANGED <<hierarchy, kept, results>>

FreeCacheable ==
  /\ Called
  /\ \E m \in mem : LET d == Lookup(Bdf(m)) IN
       /\ refs' = Found(refs, d) /\ Followed(d)
       /\ mem' = mem \ {d}
  /\ UNCHANGED <<hierarchy, kept, results>>

\* Mutant: the search always begins at the first device.
StartOver(b) == NULL
\* Where pal_pcie_get_bdf_wrapper() starts from: BDF 0 is no device.
StartAt(b) == IF b = ZeroBdf THEN NULL ELSE Lookup(b)

\* The VAL goes from one device of a class to the next, starting at BDF 0 or where it
\* has come to.  After the last one, the BDF is read through a NULL pointer.
Classes == {sys.dev[d].class : d \in Devices} \cup {"ISA"}
GetBdfWrapper(c) ==
  /\ Called
  /\ \E again \in BOOLEAN :
       LET goesOn == ~again /\ walk.class = c /\ walk.seen # <<>>
           from == IF goesOn THEN StartAt(walk.at) ELSE NULL
           d == After({e \in Devices : sys.dev[e].class = c}, from)
       IN /\ refs' = Take(refs, d) /\ Followed(d)   \* the look-up's reference is passed on
          /\ walk' = [class |-> c, killed |-> d = NULL,
                      at |-> IF d = NULL THEN ZeroBdf ELSE Bdf(d),
                      seen |-> (IF goesOn THEN walk.seen ELSE <<>>) \o (IF d = NULL THEN <<>> ELSE <<d>>),
                      undisturbed |-> (goesOn => walk.undisturbed)]
  /\ UNCHANGED <<hierarchy, pointers, table, vec, irq, answer>>

-----------------------------------------------------------------------------
\* The kernel: a device without others behind it goes.
Unplug(d) ==
  /\ Cardinality(Devices \ present) < MaxUnplugs
  /\ \A e \in present : sys.dev[e].up # d
  /\ present' = present \ {d}
  /\ call' = IF call.op = "table" THEN [call EXCEPT !.unplugged = TRUE] ELSE call
  /\ walk' = [walk EXCEPT !.undisturbed = FALSE]
  /\ UNCHANGED <<sys, refs, pointers, table, vec, irq, answer, calls>>

PcieInit(systems) ==
  /\ sys \in systems
  /\ present = Devices /\ refs = [d \in Devices |-> 0]
  /\ kept = {} /\ mem = {} /\ call = Idle /\ calls = 0
  /\ table = [num_usb |-> 0, num_sata |-> 0, num_all |-> 0, info |-> <<>>, end |-> FALSE,
              undisturbed |-> FALSE]
  /\ vec = [first |-> NULL, node |-> <<>>, vcount |-> 0, of |-> NULL]
  /\ irq = [map |-> NoMap, status |-> 0, cleared |-> FALSE]
  /\ walk = [class |-> "", killed |-> FALSE, at |-> ZeroBdf, seen |-> <<>>, undisturbed |-> TRUE]
  /\ answer = [of |-> ZeroBdf, dev |-> NULL, value |-> Answers(NULL), root |-> NULL]

PcieServices ==
  \/ TableCalled \/ TableTurn \/ VectorsCalled \/ VectorTurn \/ VectorsReturn
  \/ GetLegacyIrqMap \/ Query \/ BdfToDev \/ AllocCacheable \/ FreeCacheable
  \/ \E c \in Classes : GetBdfWrapper(c)

PcieNext == PcieServices \/ \E d \in present : Unplug(d)

PcieSpec == PcieInit(Systems) /\ [][PcieNext]_pcieVars

-----------------------------------------------------------------------------
(***************************************************************************)
(* Properties.                                                             *)
(***************************************************************************)
\* Its segment fits into a BDF, so that no other device goes by the same one.
Addressable(d) == sys.dev[d].slot[1] < Segments

\* A device the VAL keeps a pointer to, has memory of, or the table is being made
\* from is not freed when it is unplugged: the look-ups (pal_pcie_enumeration.c:117)
\* keep their references, and the walk passes on just its own (:58).
KeptLive ==
  /\ \A d \in kept \cup mem : ~Freed(d)
  /\ call.op = "table" => call.pdev = NULL \/ ~Freed(call.pdev)

\* The peripheral table, unless a device was unplugged meanwhile, has one block per
\* device, a BDF that leads back to that device if its segment fits, and counters
\* that agree with the types (pal_peripherals.c:59-97).
TableNamesDevices ==
  table.end /\ table.undisturbed =>
    LET n == Len(table.info)
        OfType(t) == Cardinality({i \in 1 .. n : table.info[i].type = t})
    IN /\ table.num_all = n /\ table.num_usb = OfType("USB") /\ table.num_sata = OfType("SATA")
       /\ \A d \in present : Addressable(d) =>
            \E i \in 1 .. n : Lookup(table.info[i].bdf) = d /\ table.info[i] = Block(d)
       /\ \A i, j \in 1 .. n : table.info[i].bdf = table.info[j].bdf /\ i # j =>
            \E d \in Devices : ~Addressable(d)

\* The node that the list leads to, going on from its first one.
Reached[i \in 1 .. vec.vcount] ==
  IF i = 1 THEN vec.first ELSE vec.node[Reached[i - 1]].next

\* The list of vectors reached from its first node ends after as many nodes as are
\* counted, in the order of the descriptors, whether or not an allocation failed
\* (pal_pcie.c:141-157).
VectorListWhole ==
  \A i \in 1 .. vec.vcount :
    /\ Reached[i] \in DOMAIN vec.node
    /\ i = vec.vcount => vec.node[Reached[i]].next = NULL
    /\ vec.node[Reached[i]].vector.irq_base = sys.dev[vec.of].vectors[i].hwirq

\* The entries for pin p among the first n, and what a map is that holds just these.
Entries(p, n) == {i \in 1 .. n : sys.prt[i].pin = p}
InRoutingOrder(map, n) ==
  /\ \A i \in 1 .. n : sys.prt[i].pin \in Pins
  /\ \A p \in Pins :
       /\ Len(map[p]) = Cardinality(Entries(p, n))
       /\ \A i \in Entries(p, n) : map[p][Cardinality(Entries(p, i))] = sys.prt[i].source_index

\* From a cleared map, each pin gets the interrupts of the entries before the first
\* that does not fit, in their order, of all if there is none; no pin has more than
\* it has room for, however often the map is passed again (pal_pcie.c:266-296).
IrqMapExact ==
  /\ \A p \in Pins : Len(irq.map[p]) <= MAX_IRQ_CNT
  /\ irq.cleared /\ irq.status \in {0, 4, 5, 6} => \E n \in 0 .. Len(sys.prt) :
       InRoutingOrder(irq.map, n) /\ (irq.status = 0 <=> n = Len(sys.prt))

\* Going through a class from BDF 0 on meets its devices in order, each once, and the
\* call that follows a NULL pointer is the one after all of them, unless the first is at
\* BDF 0 or a segment does not fit (pal_pcie_enumeration.c:91-101).
WalkOnward ==
  LET mine == {d \in Devices : sys.dev[d].class = walk.class}
  IN walk.undisturbed /\ (\A d \in mine : Addressable(d) /\ Bdf(d) # ZeroBdf) =>
       /\ \A i, j \in DOMAIN walk.seen : i < j => walk.seen[i] < walk.seen[j]
       /\ walk.killed /\ mine \subseteq present => ToSet(walk.seen) = mine

\* A root port is given for devices below one only, and never the device itself
\* (pal_pcie.c:428-438); a NULL pointer is followed just for a function the kernel
\* does not know, or for one without a bus behind it (:315, 397).
RootPortAbove ==
  /\ answer.value.get_root_port_bdf = 0 => answer.root \in 1 .. answer.dev - 1
  /\ answer.value.check_device_valid = 0 =>
       \A q \in DOMAIN answer.value : answer.value[q] = Oops => q = "check_memtype"
==============================================================================
