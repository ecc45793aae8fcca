# linux-acs: models and proofs

linux-acs holds the Linux side of Arm's architecture compliance suites: kernel
modules (BSA, SBSA, SDEI, FF-A) that carry a platform abstraction layer (PAL),
and patches that let the tests see inside the kernel.  An application writes a
command to a `/proc` file, the module builds tables of the platform through the
PAL, calls the validation layer (VAL, not in this repository) to run tests, and
the application reads status and messages back.

This directory keeps TLA+ models of the parts of that code that keep state,
the TLC configurations that check them, and proofs checked by TLAPS.

## 1. Inventory

### 1.1 Components and their state

| Component | State | Operations |
|---|---|---|
| SDEI message log (`sdei_acs_drv.c`, SDEI `pal_misc.c`) | `g_msg_buf`, `g_tail_msg`, `g_num_msg`; the position of every open file | `pal_print`, `sdei_msg_proc_read`, open |
| SDEI driver (`sdei_acs_drv.c`) | completion flag, the five tables' allocations, the shared memory | write (a run), write to the log file (clean-up), read (the flag) |
| IO virtualisation table (`pal_iovirt.c`) | blocks, counters, overlap flags | create, `find_block`, overlap check, queries by the tests |
| SMMU / DMA address monitoring (`pal_smmu.c`, kernel patch) | the monitored domain, a ring of recent mappings, the IOVA tree | hook of `__iommu_map`, start/stop monitoring, check an address |
| BSA and SBSA command drivers (`bsa_acs_drv.c`, `sbsa_acs_drv.c`) | `params`, the global `len`, tables, message buffer | write a command, read the status, read messages |
| SDEI timers and watchdogs (`pal_wd_timer.c`) | table of GTDT timers and watchdogs | build, get information, second interrupt, set ws0 |
| SDEI GIC (`pal_gic.c`), BSA GIC, FF-A `pal_irq.c` | GIC table, handlers by virq | build, install, request, free |
| SDEI interface (`pal_sdei_interface.c`) | event table, the pointer to the conduit | build, call the firmware on all processors, mark broken |
| Memory and registers (`pal_misc.c`) | allocations, the shared memory | allocate, align, free; read and write a register |
| DMA tests (`pal_dma.c`) | buffers and their mappings, table of ports | allocate, map, transfer, free, build, read attributes |
| PCIe services, peripherals (`pal_pcie.c`, `pal_pcie_enumeration.c`, `pal_peripherals.c`) | references to devices, peripheral table, MSI vector list, legacy interrupt map | walk, look up, build, list, free, query |
| Processors (`pal_pe.c`, `pal_acpi.c`), device tree (`pal_dt.c`) | tables of processors, ECAM regions and SMMUs | build, start a payload's thread |
| Kernel modules (the four drivers) | module, its `/proc` files | load, unload, open and call a file |
| FF-A driver (`ffa-acs-drv`) | page allocations, the SMMU test engine's registers | allocate by order, program, poll, compare, free |
| Exerciser, vcpu setup | none: stubs | |

### 1.2 How they interact

* The **command drivers** and the **SDEI driver** call the PAL for tables, hand
  the pointers to VAL, and VAL calls back into the PAL for every service.  A
  command is carried out inside `write()`, in the caller's context.
* The **log** is written in that context and read by other files at the same
  time.  No lock protects the buffer, its size or its tail.
* `__iommu_map()` runs on any CPU for any device; the hook in it shares the ring,
  its index and the monitored domain with the **PAL's check**, without a lock.
* The **PCI core** unplugs devices while the PAL walks its list or holds pointers;
  the **interrupt domain** is shared by three layers that map and free in it.
* The **payload's thread** and the function that started it share that function's
  stack frame; the **SMMU engine** shares memory with a driver that may give up.
* The **IOVA tree** walked by the check is changed by the IOVA allocator.
* `iovirt_add_block()` recurses; all activations share the block array and the
  counters, and each holds an address into the array across the calls it makes.

### 1.3 What is hard here

* a buffer reallocated by a writer while readers hold positions in it, with no
  lock, a size that is stored before the pointer and a tail that may wrap;
* an operation that gives up in the middle of five allocations;
* a recursion in which blocks are laid out before their children and counted
  after them, with a look-up by counted position;
* a ring entry written in two stores and read in two loads on another CPU;
* a global transfer length shared by three file operations;
* a tree walked by re-entering it from the last node returned;
* a device list walked while devices leave it, with references taken by every
  look-up and given back by none;
* an interrupt that is mapped anew at every install, with three layers freeing it;
* a thread whose argument is on the stack of a function that returns;
* a transfer whose driver stops waiting while the engine goes on;
* allocations whose failure nobody looks at: what is made of the NULL pointer
  decides whether a table is refused, a thread is killed, or a walk goes on;
* copies from and to the application whose result nobody looks at;
* modules that fail between registering their two files.

The list of hazards, each at its line, is in `PROJECT.json`; those no property
covers have a note there that says why.

### 1.4 What makes each part correct

* **Log**: printing never leaves live memory; a read never leaves the buffer; files
  get messages in order and never an unwritten slot; nothing is lost before a
  file has got it; every message reaches a file.
* **SDEI driver**: a run that has a log ends with the flag up; nothing allocated is
  lost; the result lines can be read.
* **IOVIRT**: one block for every node; references resolved; counters add up;
  requester IDs lead to the SMMU the firmware table gives; overlaps flagged.
* **Monitoring**: only wanted domains are recorded; the ring is written inside
  its array; what is accepted was to be mapped; what is mapped or recent is accepted.
* **Command drivers**: a write carries out its own command, a faulting one at most
  that; a status read after tests is theirs; tables held and freed once.
* **Modules**: no file leads to code that is not loaded.
* **PCIe**: no device the VAL uses is freed; every device is in the table; a walk
  through a class meets each of its devices once; lists and maps are whole.
* **Interrupts**: the handler installed last is the one called.
* **Memory, DMA**: freed once, live while mapped, found by its owner; the table of
  ports is complete.
* **Firmware calls**: every processor gets its answer.
* **FF-A transfer**: inside the buffer, right when it says so, and it ends.
* **Tables**: what the firmware lists is in them, in order and counted.

## 2. Modules

| Module | What it is |
|---|---|
| `MessageLog` | abstract: an unbounded log with cursors, deliveries and blanking |
| `SdeiLog` | `pal_print()` and `sdei_msg_proc_read()`, one action for each access to a shared variable |
| `SdeiDriver` | extends `SdeiLog`: runs, tables, shared memory, results, clean-up |
| `Iovirt` | `pal_iovirt.c`: builder with an explicit stack, overlap check, queries |
| `IovaMonitor` | the `__iommu_map()` hook, the ring, `pal_smmu.c`'s check, the tree walk |
| `AcsDriver` | the command interface of the BSA and SBSA drivers |
| `SdeiTables` | the SDEI layer's walks of the MADT, the HEST and the GTDT, and the timer chosen from the result |
| `Pcie` | enumeration, peripheral table, vector lists, interrupt maps, queries; devices unplugged at any time |
| `DriverModules` | loading and unloading of the four modules, calls to their files |
| `Interrupts` | handlers of the BSA, SDEI and FF-A layers in one interrupt domain |
| `FfaTransfer` | the FF-A DMA test: MMIO, the test engine, pages by order |
| `Buffers` | plain, shared and aligned memory, registers, DMA buffers, the table of ports, page-table walk |
| `Processors` | firmware calls on all processors |
| `PlatformTables` | tables made of the MADT, the MCFG and the device tree, by each layer |
| `Services` | the seven above side by side: each part explored with the others standing still |
| `SdeiProofs` | theorems and proofs about `SdeiLog`, its refinement of `MessageLog`, and `SdeiDriver` |
| `ServicesProofs` | the same for `DriverModules`, `Interrupts`, `FfaTransfer`, `Buffers`, `Processors`, and for the composition |
| other `...Proofs` | the same for the module of that name |
| `MC...` | instances for TLC |

Operators written `...NoCopy`, `...Short`, `...Twice` and the like under a comment
"Mutant:" are plausible bugs.  No specification uses them; each shows that a
property would notice the bug.

### 2.1 `SdeiLog`

`pal_print()` is a sequence of actions: `CallPrint`, the test for room (`Room`),
`Grow` (the new buffer filled with the old slots), `DoubleNum` (`g_num_msg`
doubled), `FreeOld` (`kfree`), `Swap` (the pointer), or `Wrap` when `kmalloc()`
fails; then `Store` and `Advance`.  Between any two of them a reader may take
any of its steps: `StartRead` (the comparison of the position with the tail),
`CopyOut`/`CopyFault`/`ReadNothing` (`simple_read_from_buffer`) and `Clear` (the
`memset`).  Between `FreeOld` and `Swap` a reader gets `Stray`, whatever that
memory holds.

A message is its serial number; formatting and the print level are left out.  A
position is in slots, which is what all reads use: the application reads one
slot at a time.

The first buffer comes from a `kmalloc()` nobody looks at: `g_msg_buf` may be
`NULL`.  A print then faults at its first `memcpy()` (`PrintFaults`) and the kernel
kills the thread.  A read may fault at its copy (`ReadFaults`), but only in
`SdeiDriver`: a log that comes after another keeps its tail and so has something to
copy.  After a copy that failed (`faulted`) the `memset` is done all the same; with
the file at its start it hits the memory before the buffer, which `underrun` records.

`wrapped` and `overlapped` are history variables: has the log gone on from its
first slot, has a read run while a print was in progress?  The code gives its
guarantees up to these points, and the properties say which one needs which:

| Property | holds |
|---|---|
| `PrintInBounds` | always: inside live memory, or killed where there never was a buffer |
| `ReadInBounds` (what is copied and what is blanked), `InOrder` (with: never an unwritten slot) | unless both have happened; `underrun` only after a failed copy |
| `Kept`, `RefinesMessageLog` | until either has happened |

### 2.2 `SdeiDriver`

The system call `write()` on `/proc/sdei` is a control point (`drv`) that goes
through the five tables, SDEI itself, the shared memory, the tests, the result
lines and the flag.  Lines to print are a count (`todo`) that `PrintLine` works
off through `SdeiLog`'s actions; the driver's next statement runs when they are
in the log.  An allocation is `none`, `live` or `freed`; `lost` collects the live
ones whose last pointer was overwritten.  VAL's functions are external: creating
a table may fail and keeps the pointer all the same (`FillTableFails`), tests
print any number of lines up to `TestPrints`.  A run whose log could not be
allocated is killed at its first print (`RunKilled`): its flag stays down and what it
had allocated is lost, which `RunTold` and `NothingLost` except by `killed`.

### 2.3 `Iovirt`

A position stands for a block's address.  Each activation of
`iovirt_add_block()` is a frame: the node it adds, where its block stands, its
caller-visible `next`, the mapping in progress.  `Fill`, `NotFound`/`Found`,
`AddMapped` (the recursion), `Mapped` (the code after it) and `Added` follow the
function's text; `FillPmcg`/`PmcgAdded` are its other recursion.
A table may end before its count of nodes is reached (a node `PastEnd`): the loop is
left (`BadTable`) and the overlaps are not checked.  The look-up adds IDs in 32 bits
(`% IdSpace`), so a range may end where it wraps; `LookupAgrees` is about the tables
whose input ranges end before that (`InputsFit`).
`CheckMappingOverlap` runs once, after the last node; the entries it compares
behind the end of a block may contain anything (`spill`).  Identifiers, names
and bases are one number per node, which is what `memcmp()` distinguishes.

### 2.4 `IovaMonitor`

Each load and store of the ring, its index and the monitored domain is a step of a
CPU's `__iommu_map()` (`map[c].pc`) or of the check (`chk.pc`).  The index may be
stored once or twice per increment (`Advance`), as a compiler may do.  The IOMMU core
(external) maps free ranges or cached ones, unmaps, and drops cached nodes.  A mapping
may fail after the hook has saved its address (`MapFails`).  The walk does not take
the tree's lock: while a node is being linked in or taken out (`joining`, `leaving`,
until `Rebalanced`), or from a node that was freed, `rb_last()` and `rb_prev()` may
lead to any node or to none (`NextNodes`).  `chk.amid` is history: has a mapping run,
has the address been unmapped, has the domain's tree been reshaped, while the check
ran?  `asked` is what the IOMMU was asked to map, in vain or not.  `raced` is history
too: have two CPUs been in `bsa_iommu_iova_save_addr()` at once?  The hook takes no
lock, so they can be; then an entry may be of two mappings, and the index beyond the
array when it is used.  The properties about the ring are therefore about what happens
before, and `NothingOverlooked` also excepts lengths that were cut to 32 bits
(`SavedWhole`); what it says of the IOVA tree has neither exception, but that of a
tree reshaped under the walk.  Each is needed: of two CPUs at `index + 1 ==
BSA_IOVA_DMA_ARRAY_LEN` one stores the increment while the other is about to write, or
one writes its length after the other's address; and a length of 0 hides the entries
behind it.

### 2.5 `AcsDriver`

`params` and `len` are shared by `write()`, status reads and message reads; every
access is a step.  `driver` says which of the two modules is loaded and with it
which commands it knows.  `overlap` is history: has a call begun during another
one?  The application is external: it asks for tests only when it has written a CREATE
and no FREE after it (`tables`).

A write may be of any size (`Sizes`): empty, the first field, all of `params`, or more.
`copy_from_user()` copies all of it, or clears what it could not copy after a fault, or
leaves `params` as it was (an empty write, and one the kernel refuses as larger than
`params`): then the command of an earlier write is carried out again.  `write.copied`
says which, and `missed` whether a write has not brought its command.  Each
allocation of a CREATE in `MayFail` may fail; VAL either refuses the NULL table and CREATE
goes on (`CreateInfoTables`), or it faults and the task is killed (`CreateKilled`) with
the later pointers still those of before.  Every CREATE allocates shared memory and
FREE does not free it: `OneSetOfTables` says that nothing else stays behind.

### 2.6 `SdeiTables`

One step for each iteration of the walks `sdei_init()` has done: the MADT four times,
once for each type, the HEST, the GTDT for watchdogs and again for timers.
`EntryIndex` is the block and the index in it that the loop of
`pal_platform_timer_get_entry_index()` stops at; `SecondInterrupt`,
`GenerateSecondInterrupt` and `DisableSecondInterrupt` use it as the tests do.  Where
there is no HEST and the kernel does not clear the pointer to it (`clears`),
`hest_table` was never set: its walk takes what is in `Stray` for events, or is killed
(`WildHest`).  A slot no timer was written to is `Zeroed`, for the table comes from
`kzalloc()`. The walks of the HEST take every source for a generic one, as the code
does, and the tables of the runs have no others.  A table with two watchdogs lists
only the second, and a HEST with event 0 has events behind the number counted:
`TablesComplete` is stated without these.

### 2.7 `Services` and its parts

The parts share no state, so `Services` does not interleave them: its variable
`part` says which one moves, and the run explores the sum of their states.

* **`Pcie`**.  A device is its place in the kernel's list.  `Found` is a look-up
  by BDF, which takes a reference; `Freed` means unplugged with no reference left.
  The peripheral table is made one device per step (`call.pdev`), so that `Unplug`
  falls between any two; `pci_get_device()` starts over when the device it is to
  go on from has left the list.  The vector list is a linked list with `next`
  fields, cut off where an allocation failed.  Following a NULL pointer is the
  outcome `Oops` of a query; the walk through a class does it after the last device, and
  cacheable memory for a BDF nobody has: the VAL is killed (`Followed`, `Killed`) and
  no other service is called.  A BDF's segment is cut to `Segments`, 256 in the code.
* **`DriverModules`**.  Files are created and removed one by one; a call may begin
  as soon as its file exists; `remove_proc_entry()` waits for the calls inside.
* **`Interrupts`**.  `mapped` is the domain's map, `virq` the kernel's descriptors.
  A hierarchical domain allocates a new virq at each install, as
  `irq_domain_alloc_irqs()` does, and maps the interrupt to it.  Freeing goes by
  the interrupt's number and makes a mapping if there is none, as
  `irq_create_mapping()` does.  `shared` is history: did a layer install where
  another one was?
* **`FfaTransfer`**.  Registers are bytes; every access of the driver is a step,
  and 32-bit reads mask their address.  The engine works off a frame at any time
  after its CMD register was written, or reports an error, or never does.  Sizes
  are in half pages; `UINT32` is where a 32-bit size wraps.
* **`Buffers`**.  Allocations are numbers that are never used again.  `badFrees`
  and `orphans` are history: frees of what was not live, or by a pointer into it as
  `pal_aligned_alloc()` gives it (`inner`); memory whose only pointer was overwritten,
  as that of the shared memory is at a second CREATE.  A mapping of the NULL a failed
  `kmalloc()` gave kills the VAL (`DmaMapsNull`, `killed`).  The scan of SCSI hosts is
  one host per step; it takes the first word of any host's private data for a pointer
  to an ATA port (`AsPort`): another host may be told apart, be mistaken for one, or
  have a word that cannot be followed.  The kernel's attribute (2 is coherent) is
  stored where the table's constants say 1 is: `DmaTableComplete` says for which
  devices the coherence in the table is right, and for which it is the wrong way round.
* **`Processors`**.  The conduit is read for the test and again for the call, on every
  processor.
* **`PlatformTables`**.  A loop over firmware entries (`Loop`) is a recursion over
  their number, a table its entries and its count; a count nobody wrote is that of
  `Untouched`, and a pointer that was never set is `WILD` or was cleared by
  `acpi_get_table()` (`clears`), as newer kernels do.  The loops over ACPI tables are
  `do`-`while`: of an empty table they take what is `behind` it for its entry
  (`AtLeastOne`).  A device tree's addresses are cells of 32 bits (`CELL`):
  `of_read_number()` puts them together, an SMMU's base is the first alone
  (`FirstCell`).

## 3. Runs

| Run | Instance | Shows |
|---|---|---|
| `sdei_log` | two files, first buffer of 1 slot, 5 prints (doubled to 8), everything may fail, the first buffer too, and overlap; files symmetric | the table in 2.1 |
| `sdei_log_live` | two files, 3 prints | every message reaches some file |
| `sdei_driver` | one file, first buffer of 3, two runs, with or without clean-up, up to 10 lines | no leak, results readable, flag up if there is a log |
| `iovirt` | 3290 firmware tables: all sequences of 4 nodes with up to two backward references each, tables with forward references, tables with neighbouring and overlapping ranges, tables that end before their nodes do; IDs below 8, one range reaching the end of them | one block per node, all references resolved, counters, base, look-up against the firmware table for every ID, overlap flags, termination |
| `iovirt_rc_first` | tables that list a root complex before the nodes it uses | **violated**: duplicate block |
| `iovirt_stream` | tables with neighbouring ranges | **violated**: shared stream ID reported unique |
| `iova` | one CPU mapping, two domains, ring of 2, 3 mappings of one address | ring safety, no overlooked mapping, no invented one, the check ends |
| `iova_other_device` | two monitored devices, ring of 4 | **violated**: an address mapped for one device is accepted for another, monitored since, with nothing being mapped |
| `sdei_tables` | 1556 platforms: every GTDT of up to three entries (blocks of one or two timers, watchdogs), every such MADT and HEST, a missing HEST or GTDT on kernels that clear the pointer and on others | tables complete, numbers lead to their timers, the second interrupt is not secure |
| `sdei_secure_timer` | the same | **violated**: the test is given a secure timer |
| `acs` | both drivers, three commands of four sizes, whole or faulting, one allocation that may fail, one reader of each kind | a write carries out its command, a poll gives its status, one set of tables |
| `services` | PCIe: four hierarchies of three devices, three calls, one unplugged; modules: three loads; interrupts: two interrupts, five virqs, four installs, all domains; transfer: up to 9 pages; memory: four allocations, every list of three SCSI hosts; two processors; 4008 sets of firmware tables | the properties of the seven modules, and that the transfer ends |

**Why these bounds are enough.**  Log: one slot at first and five prints give three
doublings, or a wrap at each of sizes 1, 2 and 4, with files at every position; two
files are needed for one to blank what the other has not read. Driver: two runs are
what it takes to meet stale pointers, a kept tail and a kept size.  IOVIRT: four nodes
hold a chain of three (root complex, SMMU, ITS group) plus a second user of any of
them; every interaction of `find_block()` with the recursion is between a block, its
ancestor and a block already there. Monitoring: three mappings overwrite an entry of a
ring of two.  One CPU maps and no length is cut: with two CPUs the run does not end in
minutes, and what the properties say of several CPUs and of cut lengths is proved
(section 4); so it is of mappings of more than one address.  Commands: three are what
it takes to create, free and then have the command left behind carried out again, to
be killed in a second CREATE with some pointers new and some old, and to poll for a
test's status; longer sequences are covered by the proofs. The allocation that fails
is the third of six, with some before and some behind it. Tables: three entries make a
block that is first, in the middle and last, with a watchdog between; the loop sees
only the counts of blocks before it. Services: a hierarchy needs two devices below a
port for one to be unplugged while the walk is at it and another to come after, and
the four differ in what the code branches on (type, BAR, segment, routing entry); with
four installs each of three layers can install and one again after a free; sizes are
chosen so that the order is right, too small (3 and 5 pages) and wraps; three hosts
make one before and one behind a host of another kind or an unused number.

**Violations.**  These four runs each check one promise a comment makes and the
code does not keep; `PROJECT.json` quotes the comment.

* `iovirt_rc_first`: a block is placed before the children it is waiting for and
  counted after them, and `find_block()` looks at the first `num_blocks` places:
  while the parent waits, the last counted block is out of its sight.
* `iovirt_stream`: `check_mapping_overlap()` ends a range at
  `base + id_count - 1`, the look-up at `base + id_count`.
* `iova_other_device`: ring entries carry no domain, and starting to monitor
  another device does not clear them: a mapping of the first device that is over
  and done with answers for the second.
* `sdei_secure_timer`: the loop compares with `>` where the last index of a block
  is its count less one, so the first timer of a later block is looked up behind
  the end of the one before.

The SDEI tables are built once and the test ends with an error where there is no
timer, so that `sdei_tables` stops too and switches the check off.  Otherwise deadlock
is checked in `sdei_log`, `sdei_log_live`, `iova`, `iova_other_device` and `acs`.  The
parts of `services` end at their bounds, and a caller the kernel killed takes no
further step.  The IOVIRT builder stops when the table is finished, the SDEI driver
when the bound on runs is reached, so these switch it off.

**Fairness.**  `sdei_log_live`: weak fairness of the printing steps and of each file's
read steps (a system call that was entered runs on; the application reads in a loop
until it has drained the log), with reads that do not overlap prints and a buffer that
can grow.  `sdei_driver`: weak fairness of the steps of the running system call only;
the reader owes nothing.  `iovirt`: the module's initialisation runs on.  `iova`: the
steps of the check, which never wait; the mappings owe nothing, but what the IOMMU
core has begun to do to the tree it ends, for it holds the tree's spinlock.  With
`MaxMaps` mappings the tree changes finitely often; a stream of frees that never ends
could keep sending the walk astray.  `services`: the steps of the FF-A test, which is
kernel code that is scheduled until it returns; the engine owes nothing.

## 4. Proofs

The theorems hold for every value of the constants under the assumptions named
in the modules: `LogAssumption` and `DriverAssumption` (SDEI log and driver),
`IovirtAssumption`, `IovaAssumption`, `AcsAssumption`, `FirmwareAssumption`
(`SdeiTables`), `PcieAssumption` and `PciAssumption`, `ModulesAssumption`,
`InterruptsAssumption`, `TransferAssumption`, `BuffersAssumption`,
`HostsAssumption` and `WalksAssumption` (`Buffers`), `ProcessorsAssumption`,
`FirmwaresAssumption` (`PlatformTables`) and `ServicesAssumption`.  They give types
to the constants, and say of firmware what its specification guarantees; TLC
evaluates all of them in the runs.  Four theorems about `Iovirt` have further
hypotheses, named below with the reason.

Every invariant a passing run checks is a theorem, and so is the refinement.

**`SdeiProofs`, the log** (any number of files, any first size, any number of
prints).

* `TypeCorrect`, `PrintSafe`.  `PrintInBounds` alone is not inductive: it says
  nothing of the moments when the size has been doubled and the pointer has not,
  nor that the larger buffer is large enough.  `PrintInv` says how buffer, size,
  tail and `tmp` go together at each point of `pal_print()`.
  Without a first buffer no print gets past its first `memcpy()`.
* `ReadSafe`.  `OrderInv` adds: until the log wraps no file is past the tail
  (`ReadInv`); until a read overlaps a print, reads and prints exclude each other
  (`Exclusive`).  Either is enough to keep a read, and what it blanks, inside the
  buffer, but for the read that failed at the start of its file.
* `NothingDropped`.  `KeptInv`: every slot before the tail holds its message or a
  blank whose message was received; the larger buffer has the same slots; a file
  has gone over received messages only.
* `Refines`: with these, each step is a step of `MessageLog` or leaves it
  unchanged: `Advance` appends, `CopyOut` delivers, `Clear` erases, `OpenFile`
  rewinds.  The refinement maps the slots before the tail to the log and the file
  positions to the cursors.
* `ReceivedInOrder`.  `KeptInv` stops at the first wrap, and the property does
  not.  `SequenceInv` has a part for each of its conditions.  As long as the log
  has not wrapped, a message is in the slot of its number (`PlacedInv`).  As long
  as no read overlaps a print, wrapped or not, the slots before the tail hold newer
  messages and those behind it older ones, each in order, and what a file has still
  to go over is newer than what it received (`SortedInv`, `Ahead`).

**`SdeiProofs`, the driver** (any number of runs, lines and readers): `LogInv`
carries the log's invariants over to the driver, whose runs start and free the
log.

* `NoMemoryLost`: `MemoryInv`: unless a run was killed, outside a run no table is
  live, and when a run comes to a table only those before it are, so none is allocated
  over one that is live.
* `ResultsStayReadable`: `ResultsInv`: a line of the last results that has been
  printed is in its slot, also of the buffer that is to replace this one, unless it
  was received.

**`IovirtProofs`**.

* `CountersAddUp`, every set of firmware tables: `num_blocks` is the sum of the
  counters at every step of the recursion.  Every frame's node must be a node of
  the table and its type one that is counted when `Added` runs; the frames' types
  are the strengthening.
* `OneBlockForEachNode`, `ReferencesResolved`.  Hypothesis `Ordered`, of every
  table: the nodes referred to come first, no two nodes of a type have the same
  identity, a root complex is behind SMMUs with all of its mappings or with none.
  The first is how firmware lists them; where it does not hold the properties may
  fail (run `iovirt_rc_first`).  `OrderInv` says which nodes have blocks at each
  point of the recursion, in which order, and that each is the node's, is reached
  by the block pointers and has references that are resolved or about to be.
* `OverlapsAreFlagged` adds `InSpace`: the output IDs of a mapping do not wrap
  around.
* `LookupIsRight` adds `InputsApart`: a root complex maps each requester ID in one
  way at most; with two ways the firmware table itself names two SMMUs.

  The property is of tables whose input ranges do not wrap (`InputsFit`), for which
  the 32-bit sums of the look-up are those of the specification.

  `BadOrder`: the nodes of a table that ends early (`BadTable`) are all before its
  end, so they have their blocks too.

  TLC checks that the run's tables meet the hypotheses (`OrderedAssumption`); the
  run has further ones with forward references, for which the properties are
  model-checked only.

**`IovaMonitorProofs`** (any number of CPUs, mappings of any size).

* `OnlyChosen`: a mapping between the comparison and the ring has been compared with
  a monitored domain, and that one was chosen or is a SATA device's, even if the
  monitored domain has changed since.
* `RingSafe`: as long as `raced` is false, one CPU at most is in
  `bsa_iommu_iova_save_addr()` (`Alone`, kept by `AloneNext`: the CPU that would join
  another sets `raced` in the same step).  `RingInv` says, until then, that the index
  equals the array's length only between the two stores of an increment.
* `AcceptedWasAsked`: `NodeInv`, `EntryInv` and `AddrInv` say where the addresses
  in the tree and in the ring come from: each mapping under way has a node of its
  own, no two the same; an entry covers addresses that were to be mapped, except the
  one whose length is not yet stored.  `QuietInv`: if no mapping has begun since the
  check did, none is under way and the check accepts what was asked for.  That it was
  mapped cannot be said: a mapping may fail after its address was saved.
* `CheckOverlooksNothing`: `HistoryInv`: while nobody raced, the mappings saved last
  are in consecutive entries, so that one keeps its entry until the mapping that
  replaces it has stored its length.  `PassedInv`: of the mappings saved before the
  check whose entries are not being replaced, those the search has passed do not
  cover the address; a mapping of a multiple of 4 GiB would be saved with length 0,
  which ends the search before the entries behind it (hazard at line 361 of the 6.0
  patch), hence `SavedWhole`.  `WalkInv`, without these conditions: while the node
  of the address stays in the tree, and no node of the tree was linked in or taken out,
  the walk has not gone past it.

**`AcsDriverProofs`** (any commands, any number of readers): `CommandsExecuted`,
`TestsAnswered`, `OneSet`.  `AcsInv`: types hold always; as long as no two calls
overlapped, one call at most is running (`OneCall`), nobody changes length or
parameters under a write (`WriteInv`) or under a read (`ReadInv`), and, while every
write brought its command, the pointers of the driver are those of the last creation
and the heap holds what they are of, all or none of it, and shared memory (`HeapInv`).

**`SdeiTablesProofs`** (firmware tables of any length): `GicInv`, `EventInv`,
`DogInv` and `TimerInv` describe the tables after every entry of the walks: what
the entries passed ask for is there, each at the place that is the number of those
taken before it.

* `TablesHoldAll`: at the end of the walks these are all entries.  Of the event table
  nothing can be said where there is no HEST and its pointer is wild.
* `TimersAreRight`: the look-up by number subtracts the sizes of blocks, and comes
  to the block and place of the timer with that many before it, but for the first
  timer of a later block (hazard at line 131 of `pal_wd_timer.c`).  `Stored` says
  which timers the blocks hold at every step of the walk.

**`PcieProofs`** (any hierarchy of devices, any number of calls).

* `KeptAreLive`: `LiveInv` counts the references that must be there on each
  device: one if the VAL has a pointer to it or memory of it, one if the table is
  being made from it.  A device with a reference is not freed; every service adds
  at least as many as it hands out, and the walk gives back its own.
* `VectorsLinked`: `VectorInv`: the nodes allocated so far are linked each to the
  next, and the descriptors they were not made from are still to come.
* `WalkMeetsAll`: `WalkInv`: what has been seen is ascending, and is all there is
  of the class up to where the walk has come; the call that is killed is the one
  after the last.
* `RootPortsRight`: the search upwards ends (`SearchEnds`), and what it finds is no
  further down than the device (`RootAbove`).
* `TableRight`: `TableInv`: each entry is the block of some device, these are in
  order and are all up to the one the table is being made from, and the counters
  count the entries by type.
* `InterruptsMapped`: `IrqInv` holds of the map however it is passed again; what
  the loop over the routing entries makes of it (`Turned`) is shown for the least
  number of entries for which it might fail.  `Recursion` shows in the same way
  that the recursive function has a value at all.

**`PlatformTablesProofs`** (firmware of any size): `TablesAreFaithful`.  Each of
the loops is a walk that takes an entry over, passes it over or ends
(`GiccWalk`, `CpuNodeWalk`, `EcamWalk`, `EcamNodeWalk`, `SmmuWalk`); what a table
holds after `k` entries of any walk (`Reached`) is shown once (`WalkReaches`).  The
SMMUs are three walks, one after the other.  An SMMU's entry has its address, or with
two cells the high half of it (`IsEntryOf`).

**`ServicesProofs`**.  Each part of `Services` has a specification of its own
(`PcieSpec`, `ModulesSpec`, `InterruptsSpec`, `TransferSpec`, `BuffersSpec`,
`FirmwareSpec`, `TablesSpec`), and the theorems are about these.
`PartsRunAsAlone` shows that the composition implements all of them, so what is
proved of a part holds in it.

* `FilesLeadToModule`: `FilesInv` says which files are registered at each point of
  loading and unloading (`Registered`) and that calls are inside registered files
  only.
* `LastHandlerCalled`: `HandlerCalled` says nothing of the virqs an interrupt is
  not mapped to, which the next mapping may lead to.  `HandlerInv`: a mapping leads
  to a virq in use for that interrupt (`MapsRight`), and of an interrupt with one
  user at a time no virq but the mapped one has a handler, which is that user's
  (`Owned`).  The virq a layer is given is its own or free, so what belongs to
  other interrupts stays (`OthersOwned`).
* `TransferIsSound`: `TransferInv`: until the driver gives up, the engine finds a
  command only in the frame the driver waits for, whose other registers are all
  written; the frames before it are copied.
* `BuffersAreSound`: `OwnerInv`: every live allocation has exactly one owner, the
  VAL, the shared memory in use, or one DMA buffer, and so is freed once; what has none
  is shared memory that was allocated anew before it was freed.
  `AlignedBounds` is the arithmetic of `pal_aligned_alloc()`.
* `DmaServicesAreRight`: `ScanInv` says what the table of ports holds when the scan
  has passed a host (`Listing`); `Returned` that the attributes of a buffer are
  those of the level its walk ends at (`LevelRead`).
* `AnswersAreRight`: an answer names the error it was made
  from, whose codes differ (`ErrorsDiffer`), and the conduit a processor found is
  gone only if it was disturbed (`CallInv`).

Induction over lists and numbers is by least counterexample (`LeastMember`): the
library's induction theorems take an operator as a parameter, which the provers
cannot instantiate.

**Only model-checked**: liveness (`EventuallySeen`, `RunTold`, `Terminates`,
`CheckEnds`, `TransferEnds`), which needs fairness and is out of the prover's
reach; the properties of `Iovirt` other than the counters for tables with forward
references.

## 5. Not modelled

* VAL and the tests are not in the repository; they appear as external choices.
* The firmware behind an SDEI call, configuration space accesses and the writes
  to watchdog registers (`pal_wd_set_ws0`, FF-A's `pal_ns_wdog_...`) are I/O
  without state here.
* Calls of one kernel function that keep no state: `memcmp`, `memset`, `memcpy`,
  delays, address translation, `pal_memory_ioremap`.
* Formatting of messages, the printout of tables.
* Stubs: the exerciser, the vcpu setup, MSI and ITS functions, and the many
  functions of the PAL that return a constant.
* The SBSA copies of PAL files.  They differ in printing straight through
  `printk()`, have no multifunction query, no payload, no fallback to the device
  tree; where that matters (processor and ECAM tables) both are modelled.
* Other kernels' versions of the patch.
* `pal_pe_execute_payload()`: it starts a thread with the address of a variable of its
  own frame and returns; nothing orders the two, so nothing can be promised.
* The size of the tables: the drivers allocate those of processors, PCIe regions, DMA
  ports and peripherals in sizes that VAL defines, and the PAL fills them without
  comparing.  In the models they have no bound (hazard of kind `resource_bound`).

## 6. Plan

Done, in this order, for these are where state is shared without a lock or built
by recursion: log, SDEI driver, IOVIRT, monitoring, command drivers, SDEI tables;
then the services the platform layers give the tests, part by part.

What would come next, were the project to go on:

1. A composition of `AcsDriver` and `DriverModules`: commands carried out while a
   second module of the same suite is loaded.
2. Proofs: of `Iovirt`, which forward references do no harm, so that the theorems
   cover all tables of the run; of `IovaMonitor`, what two CPUs that raced can at
   worst leave in the ring.
