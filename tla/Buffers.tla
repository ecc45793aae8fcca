------------------------------- MODULE Buffers -------------------------------
(***************************************************************************)
(* Memory and registers the BSA platform layer gives access to             *)
(* (pal_misc.c), and the buffers, transfers and table of the DMA tests     *)
(* (pal_dma.c).                                                            *)
(*                                                                         *)
(* Kernel memory is a set of numbered allocations, never used twice.  VAL  *)
(* frees what it was given, once; what it is given when a call fails it    *)
(* does not use.  CREATE may be called again before the shared memory was  *)
(* freed.                                                                  *)
(***************************************************************************)
EXTENDS Integers, Sequences, FiniteSets, SequencesExt

CONSTANTS
  MaxAllocs,   \* a bound: allocations
  HostLists,   \* SCSI hosts: functions from their numbers to what they are
  Walks        \* page-table walks: the descriptors of the levels, [bits, attr] each

ASSUME BuffersAssumption == MaxAllocs \in Nat

\* What the kernel gives: hosts by number, the devices of each under different names.
ASSUME HostsAssumption ==
  \A list \in HostLists : \A n \in DOMAIN list : LET h == list[n] IN
    /\ n \in Nat /\ h.kind \in {"ata", "other", "mistaken", "wild", "none"}
    /\ h.dmaAttr \in 0 .. 2 /\ h.fdtCoherent \in 0 .. 1 /\ h.iommu \in BOOLEAN
    /\ h.devices \in Seq([name : Nat, type : Nat])
    /\ \A i, j \in DOMAIN h.devices : h.devices[i].name = h.devices[j].name => i = j

\* The descriptor of the level a walk ends at is a block or a page; the ones before are tables.
Ends(walk, level) ==
  /\ walk[level].bits = (IF level = 3 THEN 3 ELSE 1)
  /\ \A k \in 1 .. level - 1 : walk[k].bits = 3
\* A buffer is mapped.
ASSUME WalksAssumption == \A walk \in Walks : \E level \in 1 .. 3 : Ends(walk, level)

VARIABLES
  allocs,     \* "live" or "freed", by number
  held,       \* allocations VAL has and will free
  inner,      \* history: those it has a pointer into, not to the first byte
  gShared,    \* gSharedMemory: an allocation, or 0
  inUse,      \* is VAL between allocating and freeing the shared memory?
  orphans,    \* history: shared memory whose only pointer was overwritten
  buffers,    \* buffers of the DMA tests: coherent or not, and mapped for the device or not
  badFrees,   \* history: frees of what is not live, or by a pointer into it
  killed,     \* did the VAL follow a NULL pointer?
  hosts, scan, \* the SCSI hosts; the walk that makes dma_info_table
  result       \* of pal_aligned_alloc or pal_dma_mem_get_attrs, with its input

memoryVars == <<allocs, held, inner, gShared, inUse, orphans, buffers, badFrees, killed>>
scanVars == <<hosts, scan>>
others == <<scanVars, result>>
buffersVars == <<memoryVars, others>>

NoMemory == 0
Fresh == Len(allocs) + 1
Kmalloc == Fresh <= MaxAllocs /\ allocs' = Append(allocs, "live")
Kfree(as, a) == IF a = NoMemory THEN as ELSE [as EXCEPT ![a] = "freed"]
Bad(a) ==
  IF a # NoMemory /\ (allocs[a] # "live" \/ a \in inner) THEN badFrees \cup {a} ELSE badFrees

\* pal_mem_alloc, pal_mem_calloc: VAL gets the memory, or NULL.
MemAlloc ==
  /\ Kmalloc /\ held' = held \cup {Fresh}
  /\ UNCHANGED <<inner, gShared, inUse, orphans, buffers, badFrees, killed, others>>
\* pal_aligned_alloc: the address given for memory that begins at mem, in units of the
\* alignment the kernel's memory has.
Aligned(mem, alignment) == mem + alignment - 1 - ((mem + alignment - 1) % alignment)
Alignments == {1, 2, 4}
AlignedAlloc ==
  /\ Kmalloc /\ held' = held \cup {Fresh}
  /\ \E mem \in 0 .. 4, size \in {1, 3}, alignment \in Alignments :
       /\ inner' = IF Aligned(mem, alignment) = mem THEN inner ELSE inner \cup {Fresh}
       /\ result' = [op |-> "aligned", mem |-> mem, length |-> size + alignment, size |-> size,
                     alignment |-> alignment, at |-> Aligned(mem, alignment)]
  /\ UNCHANGED <<gShared, inUse, orphans, buffers, badFrees, killed, scanVars>>
MemFree ==
  \E a \in held :
    /\ allocs' = Kfree(allocs, a) /\ badFrees' = Bad(a) /\ held' = held \ {a}
    /\ UNCHANGED <<inner, gShared, inUse, orphans, buffers, killed, others>>

\* pal_print copies its format to memory of its own.
PalPrint ==
  /\ Fresh <= MaxAllocs /\ allocs' = Kfree(Append(allocs, "live"), Fresh)
  /\ UNCHANGED <<held, inner, gShared, inUse, orphans, buffers, badFrees, killed, others>>

\* At every CREATE.  The pointer is cleared before the call of kmalloc().
AllocateShared ==
  /\ inUse' = TRUE
  /\ \/ Kmalloc /\ gShared' = Fresh
     \/ gShared' = NoMemory /\ UNCHANGED allocs
  /\ orphans' = IF gShared # NoMemory /\ allocs[gShared] = "live" THEN orphans \cup {gShared} ELSE orphans
  /\ UNCHANGED <<held, inner, buffers, badFrees, killed, others>>
\* The pointer is left as it is.
FreeShared ==
  /\ inUse /\ inUse' = FALSE
  /\ allocs' = Kfree(allocs, gShared) /\ badFrees' = Bad(gShared)
  /\ UNCHANGED <<held, inner, gShared, orphans, buffers, killed, others>>

\* A coherent buffer, or one mapped for the device; when the mapping fails the buffer is
\* freed, and the caller's pointer still points to it.
DmaAllocCoherent ==
  /\ Kmalloc /\ buffers' = buffers \cup {[at |-> Fresh, coherent |-> TRUE, mapped |-> TRUE]}
  /\ UNCHANGED <<held, inner, gShared, inUse, orphans, badFrees, killed, others>>
DmaAllocMapped ==
  /\ Kmalloc /\ buffers' = buffers \cup {[at |-> Fresh, coherent |-> FALSE, mapped |-> TRUE]}
  /\ UNCHANGED <<held, inner, gShared, inUse, orphans, badFrees, killed, others>>
DmaMapFails ==
  /\ Fresh <= MaxAllocs /\ allocs' = Kfree(Append(allocs, "live"), Fresh)
  /\ UNCHANGED <<held, inner, gShared, inUse, orphans, buffers, badFrees, killed, others>>
\* kmalloc() gives NULL, which is mapped, and if that succeeds cleared.
DmaMapsNull ==
  /\ killed' = TRUE
  /\ buffers' = buffers \cup {[at |-> NoMemory, coherent |-> FALSE, mapped |-> TRUE]}
  /\ UNCHANGED <<allocs, held, inner, gShared, inUse, orphans, badFrees, others>>

\* Mutant: the memory is freed while the device may still write to it.
UnmapsLast(b) == ~b.mapped
UnmapsFirst(b) == b.mapped /\ ~b.coherent
DmaUnmap ==
  \E b \in buffers :
    /\ UnmapsFirst(b)
    /\ buffers' = (buffers \ {b}) \cup {[b EXCEPT !.mapped = FALSE]}
    /\ UNCHANGED <<allocs, held, inner, gShared, inUse, orphans, badFrees, killed, others>>
DmaFree ==
  \E b \in buffers :
    /\ ~UnmapsFirst(b)
    /\ allocs' = Kfree(allocs, b.at) /\ badFrees' = Bad(b.at)
    /\ buffers' = IF b.coherent \/ ~b.mapped THEN buffers \ {b} ELSE buffers
    /\ UNCHANGED <<held, inner, gShared, inUse, orphans, killed, others>>

-----------------------------------------------------------------------------
(* pal_dma_create_info_table: a turn of the outer loop per host number. *)
NoScan == [n |-> -1, info |-> <<>>, held |-> {}, end |-> FALSE, killed |-> FALSE]
ScanCalled ==
  /\ scan = NoScan
  /\ hosts' \in HostLists /\ scan' = [NoScan EXCEPT !.n = 0]
  /\ UNCHANGED <<memoryVars, result>>

HostAt(n) == IF n \in DOMAIN hosts THEN hosts[n] ELSE [kind |-> "none", devices |-> <<>>]
\* Every host's private data is taken to begin with a pointer to an ATA port.  Of other
\* hosts, it is NULL or points to a NULL device ("other"), to something ("mistaken"), or
\* it cannot be followed ("wild").
AsPort(h) == h.kind \in {"ata", "mistaken"}
IOMMU_ATTACHED == 16
\* The attribute is the kernel's number, from the device tree 0 or 1.
DmaEntry(h, d) ==
  [host |-> h, target |-> d.name, type |-> d.type,
   flags |-> (IF hosts[h].dmaAttr # 0 THEN hosts[h].dmaAttr ELSE hosts[h].fdtCoherent)
             + (IF hosts[h].iommu THEN IOMMU_ATTACHED ELSE 0)]

\* Mutant: the walk ends at the first host that is not ATA.
GoesOnAta(h) == AsPort(h)
\* A number without a host ends the walk; one that is not ATA only keeps its reference.
GoesOn(h) == h.kind # "none"

ScanHost ==
  /\ scan.n >= 0 /\ ~scan.end /\ ~scan.killed
  /\ LET h == HostAt(scan.n) IN
       scan' = [n |-> scan.n + 1, end |-> ~GoesOn(h), killed |-> h.kind = "wild",
                held |-> IF h.kind \in {"other", "wild"} THEN scan.held \cup {scan.n} ELSE scan.held,
                info |-> IF AsPort(h)
                         THEN scan.info \o [i \in DOMAIN h.devices |-> DmaEntry(scan.n, h.devices[i])]
                         ELSE scan.info]
  /\ UNCHANGED <<memoryVars, hosts, result>>

-----------------------------------------------------------------------------
(* pal_dma_mem_get_attrs: the low bits of a descriptor are 0 for none, 1 for a block, 3
   for a table or, in the last level, a page. *)
IsTable(descriptor) == descriptor.bits \div 2 = 1
GetAttrs(walk) ==
  IF ~IsTable(walk[1]) THEN <<walk[1].attr>>
  ELSE IF ~IsTable(walk[2]) THEN <<walk[2].attr>>
  ELSE IF IsTable(walk[3]) THEN <<walk[3].attr>> ELSE <<>>
ReadAttrs ==
  /\ \E w \in Walks : result' = [op |-> "attrs", walk |-> w, attr |-> GetAttrs(w)]
  /\ UNCHANGED <<memoryVars, scanVars>>

-----------------------------------------------------------------------------
(* pal_dma_start_from_device and pal_dma_start_to_device: a SCSI command of one block,
   whatever the length; what became of a write is not returned. *)
Ok == 0
StartFromDevice(outcome) == outcome
StartToDevice(outcome) == Ok
DmaTransfer ==
  /\ \E outcome \in {Ok, 2, -110} :
       result' = [op |-> "transfer", outcome |-> outcome,
                  from |-> StartFromDevice(outcome), to |-> StartToDevice(outcome)]
  /\ UNCHANGED <<memoryVars, scanVars>>

\* The bytes that pal_mmio_read* and pal_mmio_write* reach; each maps the registers for
\* itself and only a 32-bit read rounds its address down.
Span(addr, bytes) == addr .. addr + bytes - 1
MmioReads(addr, bytes) == Span(IF bytes = 4 THEN addr - (addr % 4) ELSE addr, bytes)
MmioWrites(addr, bytes) == Span(addr, bytes)
\* A write and a read of the same register; ioremap() may fail, and is not asked.
WriteAndRead ==
  /\ \E addr \in 0 .. 8, bytes \in {1, 2, 4, 8}, remapped \in BOOLEAN :
       result' = [op |-> "mmio", addr |-> addr, bytes |-> bytes,
                  written |-> IF remapped THEN MmioWrites(addr, bytes) ELSE {},
                  read |-> IF remapped THEN MmioReads(addr, bytes) ELSE {}, oops |-> ~remapped]
  /\ UNCHANGED <<memoryVars, scanVars>>

BuffersInit ==
  /\ allocs = <<>> /\ held = {} /\ inner = {} /\ killed = FALSE /\ gShared = NoMemory /\ inUse = FALSE /\ orphans = {}
  /\ buffers = {} /\ badFrees = {} /\ hosts = <<>> /\ scan = NoScan /\ result = [op |-> "none"]
MemoryNext ==
  \/ MemAlloc \/ AlignedAlloc \/ MemFree \/ PalPrint \/ AllocateShared \/ FreeShared
  \/ DmaAllocCoherent \/ DmaAllocMapped \/ DmaMapFails \/ DmaMapsNull \/ DmaUnmap \/ DmaFree
\* The others do not depend on the memory: each is looked at from the first state.
MemoryUnused == allocs = <<>> /\ ~inUse /\ ~killed /\ result.op = "none"
BuffersNext ==
  \/ ~killed /\ result.op \in {"none", "aligned"} /\ scan = NoScan /\ MemoryNext
  \/ MemoryUnused /\ (ScanCalled \/ ScanHost)
  \/ MemoryUnused /\ scan = NoScan /\ (ReadAttrs \/ DmaTransfer \/ WriteAndRead)

BuffersSpec == BuffersInit /\ [][BuffersNext]_buffersVars

\* Whatever is allocated and freed between them, nothing is freed twice, and nothing by
\* a pointer into it but aligned memory; memory the device may reach is live, unless the
\* VAL was killed; live memory can still be freed by somebody, but for shared memory that
\* was allocated anew before it was freed; aligned memory is inside what was allocated;
\* a register read after it was written is the one that was written, unless it is 32 bits
\* wide and not aligned (pal_misc.c:43-206, 245-284, 349-374, 456-475, pal_dma.c:51-94).
BuffersSound ==
  /\ badFrees \subseteq inner
  /\ \A b \in buffers : b.mapped => IF b.at = NoMemory THEN killed ELSE allocs[b.at] = "live"
  /\ \A a \in DOMAIN allocs : allocs[a] = "live" =>
       a \in held \/ a = gShared \/ a \in orphans \/ \E b \in buffers : b.at = a
  /\ result.op = "aligned" =>
       /\ result.at % result.alignment = 0 /\ result.at >= result.mem
       /\ result.at + result.size <= result.mem + result.length
  /\ result.op = "mmio" => result.read = result.written \/ (result.bytes = 4 /\ result.addr % 4 # 0)

\* What the kernel says of a device and what the table says of it, each by its own numbers.
DEV_DMA_COHERENT == 2
DMA_COHERENT == 1
Coherent(h) == IF h.dmaAttr # 0 THEN h.dmaAttr = DEV_DMA_COHERENT ELSE h.fdtCoherent = 1
ListedCoherent(entry) == entry.flags % IOMMU_ATTACHED = DMA_COHERENT

\* The table of the DMA tests lists every device of every ATA host whose number comes
\* before the first that is not in use, once, and of other hosts only those mistaken for
\* one.  Whether a device is coherent is right if the kernel gave no attribute for it,
\* and else the wrong way round.  Exactly the references to hosts that were not taken for
\* ATA are not given back (pal_dma.c:117-149, pal_linux.h:42-44).
DmaTableComplete ==
  scan.end =>
    LET before == {n \in DOMAIN hosts : \A m \in 0 .. n : m \in DOMAIN hosts /\ hosts[m].kind # "none"}
        taken == {n \in before : AsPort(hosts[n])}
        Listed(n, d) == {i \in DOMAIN scan.info : scan.info[i].host = n /\ scan.info[i].target = d.name}
    IN /\ \A n \in taken : \A k \in DOMAIN hosts[n].devices :
            \E i \in DOMAIN scan.info :
              /\ Listed(n, hosts[n].devices[k]) = {i}
              /\ scan.info[i].flags >= IOMMU_ATTACHED <=> hosts[n].iommu
              /\ hosts[n].dmaAttr = 0 <=> (ListedCoherent(scan.info[i]) <=> Coherent(hosts[n]))
       /\ \A i \in DOMAIN scan.info : scan.info[i].host \in taken
       /\ scan.held = before \ taken

\* The table is right, the attributes read for a buffer are those of the descriptor that
\* maps it, and a transfer from the device tells whether it failed (pal_dma.c:117-180,
\* 221-264).
DmaServicesRight ==
  /\ DmaTableComplete
  /\ result.op = "attrs" =>
       \A level \in 1 .. 3 : Ends(result.walk, level) => result.attr = <<result.walk[level].attr>>
  /\ result.op = "transfer" => (result.from = Ok <=> result.outcome = Ok)
=============================================================================
