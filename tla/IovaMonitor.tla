----------------------------- MODULE IovaMonitor -----------------------------
(***************************************************************************)
(* Watching the addresses a device is given.  The kernel patch hooks       *)
(* __iommu_map() so that mappings of the monitored domain are saved in a   *)
(* small ring; pal_smmu.c (BSA and SBSA) starts and stops the monitoring   *)
(* and checks whether an address a SATA port used is one of them, or in    *)
(* the domain's active IOVA table.                                         *)
(*                                                                         *)
(* Nothing is locked.  A mapping runs on a CPU of Cpus, the check in the   *)
(* test; each access to the ring, the index, the monitored domain or the   *)
(* IOVA tree is a step.  What the IOMMU core does to the tree is external. *)
(***************************************************************************)
EXTENDS Integers, Sequences, FiniteSets

CONSTANTS
  Cpus,            \* where __iommu_map() may be running at a time
  Domains,         \* IOMMU domains
  DomainOf,        \* the domain of each port's device, or NoDomain
  Sata,            \* the ports with a device, as scsi_host_lookup() finds them
  Iovas,           \* a bound: the I/O addresses 0, 1, ...
  Sizes,           \* sizes of mappings
  LenSpace,        \* 2^32: a mapping's size is saved as unsigned int
  DMA_ARRAY_LEN,   \* BSA_IOVA_DMA_ARRAY_LEN
  MaxMaps          \* a bound: mappings

NoDomain == "none"
Ports == DOMAIN DomainOf
NoNode == -1

ASSUME IovaAssumption ==
  /\ Iovas \in Nat \ {0} /\ DMA_ARRAY_LEN \in Nat \ {0} /\ LenSpace \in Nat \ {0}
  /\ Sizes \subseteq Nat \ {0} /\ MaxMaps \in Nat
  /\ DomainOf \in [Ports -> Domains \cup {NoDomain}] /\ NoDomain \notin Domains
  /\ Sata \in Seq(Ports)

VARIABLES
  monitored,  \* g_bsa_iommu_domain
  ring,       \* g_bsa_iova_array
  index,      \* of bsa_iommu_iova_save_addr()
  map,        \* what each CPU is doing in __iommu_map()
  tree,       \* the IOVA tree of each domain: base -> [size, state]
  chk,        \* pal_smmu_check_device_iova()
  saved,      \* history: the mappings saved so far
  asked,      \* history: the pairs <<domain, address>> mapped, or tried in vain
  chosen,     \* history: the domains start_monitor was called for
  raced,      \* history: two CPUs have been in bsa_iommu_iova_save_addr() at once
  maps        \* the number of mappings made

vars == <<monitored, ring, index, map, tree, chk, saved, asked, chosen, raced, maps>>

Slots == 0 .. DMA_ARRAY_LEN - 1
Span(base, size) == base .. base + size - 1
IdleMap == [pc |-> "idle"]
At(c, pc) == map[c].pc = pc
InSave(c) == map[c].pc \in {"addr", "len", "advance", "wrap"}
Checking == chk.pc # "idle"

\* The tree's nodes with a translation: those the walk reports.
Live(d) == {b \in DOMAIN tree[d] : tree[d][b].state = "live"}
LiveAt(d, a) == \E b \in Live(d) : a \in Span(b, tree[d][b].size)

\* No node is being linked into the domain's tree, or taken out of it.
Settled(d) == \A b \in DOMAIN tree[d] : tree[d][b].state \notin {"joining", "leaving"}

\* History of the check in progress: what happened while it ran, in its own domain.
Disturbed(by) == IF Checking THEN [chk EXCEPT !.amid = @ \cup by] ELSE chk
Own(d, by) == IF Checking /\ d = DomainOf[chk.port] THEN by ELSE {}

-----------------------------------------------------------------------------
(***************************************************************************)
(* __iommu_map and its hook.                                               *)
(***************************************************************************)
\* The IOMMU core has a range for the mapping: a cached node, or a new one, which it
\* begins to link into the tree, under the tree's lock.
MapCalled(c, d, b, n) ==
  /\ At(c, "idle") /\ maps < MaxMaps
  /\ Span(b, n) \subseteq 0 .. Iovas - 1
  /\ \/ /\ b \in DOMAIN tree[d] /\ tree[d][b] = [size |-> n, state |-> "cached"]
        /\ tree' = [tree EXCEPT ![d][b].state = "new"]
        /\ chk' = Disturbed({"mapped"})
     \/ /\ Settled(d)
        /\ \A o \in DOMAIN tree[d] : Span(o, tree[d][o].size) \cap Span(b, n) = {}
        /\ tree' = [tree EXCEPT ![d] = [o \in DOMAIN @ \cup {b} |->
             IF o = b THEN [size |-> n, state |-> "joining"] ELSE @[o]]]
        /\ chk' = Disturbed({"mapped"} \cup Own(d, {"reshaped"}))
  /\ map' = [map EXCEPT ![c] = [pc |-> "test", dom |-> d, base |-> b, size |-> n]]
  /\ maps' = maps + 1
  /\ UNCHANGED <<monitored, ring, index, saved, asked, chosen, raced>>

\* bsa_is_domain_monitored: without a monitored domain, look for a SATA device.
TestMonitored(c) ==
  /\ At(c, "test") /\ tree[map[c].dom][map[c].base].state # "joining"
  /\ map' = [map EXCEPT ![c] =
       IF monitored # NoDomain
       THEN [@ EXCEPT !.pc = "compare"]
       ELSE [pc |-> "scan", port |-> 1, dom |-> @.dom, base |-> @.base, size |-> @.size]]
  /\ UNCHANGED <<monitored, ring, index, tree, chk, saved, asked, chosen, raced, maps>>

\* bsa_get_sata_dev: one device after another becomes the monitored one.
ScanSata(c) ==
  /\ At(c, "scan") /\ map[c].port <= Len(Sata)
  /\ monitored' = DomainOf[Sata[map[c].port]]
  /\ map' = [map EXCEPT ![c].port = @ + 1]
  /\ UNCHANGED <<ring, index, tree, chk, saved, asked, chosen, raced, maps>>

Scanned(c) ==
  /\ At(c, "scan") /\ map[c].port > Len(Sata)
  /\ map' = [map EXCEPT ![c].pc = "compare"]
  /\ UNCHANGED <<monitored, ring, index, tree, chk, saved, asked, chosen, raced, maps>>

\* Mutant: every domain's mappings are saved.
CompareNothing(c) ==
  /\ At(c, "compare")
  /\ map' = [map EXCEPT ![c].pc = "addr"]
  /\ UNCHANGED <<monitored, ring, index, tree, chk, saved, asked, chosen, raced, maps>>

Compare(c) ==
  /\ At(c, "compare")
  /\ map' = [map EXCEPT ![c].pc = IF monitored = map[c].dom THEN "addr" ELSE "install"]
  /\ raced' = (raced \/ (monitored = map[c].dom /\ \E e \in Cpus : InSave(e)))
  /\ UNCHANGED <<monitored, ring, index, tree, chk, saved, asked, chosen, maps>>

\* bsa_iommu_iova_save_addr. A store beyond the ring, which only CPUs that raced
\* can come to, changes nothing here.
SaveAddr(c) ==
  /\ At(c, "addr")
  /\ ring' = [ring EXCEPT ![index].addr = map[c].base]
  /\ map' = [map EXCEPT ![c].pc = "len"]
  /\ UNCHANGED <<monitored, index, tree, chk, saved, asked, chosen, raced, maps>>

SaveLen(c) ==
  /\ At(c, "len")
  /\ ring' = [ring EXCEPT ![index].len = map[c].size % LenSpace]
  /\ saved' = Append(saved, [dom |-> map[c].dom, base |-> map[c].base, size |-> map[c].size])
  /\ map' = [map EXCEPT ![c].pc = "advance"]
  /\ UNCHANGED <<monitored, index, tree, chk, asked, chosen, raced, maps>>

\* Mutant: the ring is one longer than its array.
AdvanceLate(c) ==
  /\ At(c, "advance")
  /\ index' = IF index + 1 > DMA_ARRAY_LEN THEN 0 ELSE index + 1
  /\ map' = [map EXCEPT ![c].pc = "install"]
  /\ UNCHANGED <<monitored, ring, tree, chk, saved, asked, chosen, raced, maps>>

\* index++, and then its wrap, for which the build may store it once or twice. Of
\* the index after a race no property says anything.
Advance(c) ==
  /\ At(c, "advance")
  /\ \/ /\ index' = IF index + 1 >= DMA_ARRAY_LEN THEN 0 ELSE index + 1
        /\ map' = [map EXCEPT ![c].pc = "install"]
     \/ /\ index' = index + 1
        /\ map' = [map EXCEPT ![c].pc = "wrap"]
  /\ UNCHANGED <<monitored, ring, tree, chk, saved, asked, chosen, raced, maps>>

WrapIndex(c) ==
  /\ At(c, "wrap")
  /\ index' = IF index >= DMA_ARRAY_LEN THEN 0 ELSE index
  /\ map' = [map EXCEPT ![c].pc = "install"]
  /\ UNCHANGED <<monitored, ring, tree, chk, saved, asked, chosen, raced, maps>>

\* The rest of __iommu_map(): the translation is there.
Install(c) ==
  /\ At(c, "install")
  /\ tree' = [tree EXCEPT ![map[c].dom][map[c].base].state = "live"]
  /\ asked' = asked \cup {map[c].dom} \X Span(map[c].base, map[c].size)
  /\ map' = [map EXCEPT ![c] = IdleMap]
  /\ UNCHANGED <<monitored, ring, index, chk, saved, chosen, raced, maps>>

\* Or a page of it cannot be mapped, when its address has been saved: those mapped
\* before are unmapped, and the IOMMU core takes the range back.
MapFails(c) ==
  /\ At(c, "install")
  /\ tree' = [tree EXCEPT ![map[c].dom][map[c].base].state = "cached"]
  /\ asked' = asked \cup {map[c].dom} \X Span(map[c].base, map[c].size)
  /\ map' = [map EXCEPT ![c] = IdleMap]
  /\ UNCHANGED <<monitored, ring, index, chk, saved, chosen, raced, maps>>

\* The mapping goes; its node stays in the tree, cached for the next one...
Unmap(d, b) ==
  /\ b \in Live(d)
  /\ tree' = [tree EXCEPT ![d][b].state = "cached"]
  /\ chk' = IF Checking /\ d = DomainOf[chk.port] /\ chk.addr \in Span(b, tree[d][b].size)
            THEN Disturbed({"unmapped"}) ELSE chk
  /\ UNCHANGED <<monitored, ring, index, map, saved, asked, chosen, raced, maps>>

\* ... until the allocator drops it, which rearranges the tree as an insertion does.
DropNode(d, b) ==
  /\ b \in DOMAIN tree[d] /\ tree[d][b].state = "cached" /\ Settled(d)
  /\ tree' = [tree EXCEPT ![d][b].state = "leaving"]
  /\ chk' = Disturbed(Own(d, {"reshaped"}))
  /\ UNCHANGED <<monitored, ring, index, map, saved, asked, chosen, raced, maps>>

\* The rotations are done: the node is in the tree, or gone and its memory freed.
Rebalanced(d, b) ==
  /\ b \in DOMAIN tree[d]
  /\ \/ /\ tree[d][b].state = "joining"
        /\ tree' = [tree EXCEPT ![d][b].state = "new"]
     \/ /\ tree[d][b].state = "leaving"
        /\ tree' = [tree EXCEPT ![d] = [o \in DOMAIN @ \ {b} |-> @[o]]]
  /\ UNCHANGED <<monitored, ring, index, map, chk, saved, asked, chosen, raced, maps>>

-----------------------------------------------------------------------------
(***************************************************************************)
(* pal_smmu.c, for the test.                                               *)
(***************************************************************************)
Attached(p) == DomainOf[p] # NoDomain
Idle == ~Checking

StartMonitor(p) ==
  /\ Idle /\ Attached(p)
  /\ monitored' = DomainOf[p]
  /\ chosen' = chosen \cup {DomainOf[p]}
  /\ UNCHANGED <<ring, index, map, tree, chk, saved, asked, raced, maps>>

StopMonitor(p) ==
  /\ Idle /\ Attached(p)
  /\ monitored' = NoDomain
  /\ UNCHANGED <<ring, index, map, tree, chk, saved, asked, chosen, raced, maps>>

\* pal_smmu_check_device_iova. `first' and `amid' are history: how many mappings
\* had been saved, and what has come between since.
CheckCalled(p, a) ==
  /\ Idle /\ Attached(p)
  /\ chk' = [pc |-> "addr", port |-> p, addr |-> a, i |-> 0, node |-> NoNode,
             first |-> Len(saved),
             amid |-> (IF \A c \in Cpus : At(c, "idle") THEN {} ELSE {"mapped"})
                      \cup (IF LiveAt(DomainOf[p], a) THEN {} ELSE {"unmapped"})
                      \cup (IF Settled(DomainOf[p]) THEN {} ELSE {"reshaped"})]
  /\ UNCHANGED <<monitored, ring, index, map, tree, saved, asked, chosen, raced, maps>>

\* bsa_iommu_iova_get_addr reads the address ...
GetAddr ==
  /\ chk.pc = "addr" /\ chk.i < DMA_ARRAY_LEN
  /\ chk' = [chk EXCEPT !.pc = "len", !.node = ring[chk.i].addr]
  /\ UNCHANGED <<monitored, ring, index, map, tree, saved, asked, chosen, raced, maps>>

GetNone ==
  /\ chk.pc = "addr" /\ chk.i >= DMA_ARRAY_LEN
  /\ chk' = [chk EXCEPT !.pc = "walk", !.node = NoNode]
  /\ UNCHANGED <<monitored, ring, index, map, tree, saved, asked, chosen, raced, maps>>

\* Mutant: an entry that does not match ends the search of the ring.
GetLenOnce ==
  /\ chk.pc = "len"
  /\ chk' = CASE chk.addr \in Span(chk.node, ring[chk.i].len) -> [chk EXCEPT !.pc = "SUCCESS"]
              [] OTHER -> [chk EXCEPT !.pc = "walk", !.node = NoNode]
  /\ UNCHANGED <<monitored, ring, index, map, tree, saved, asked, chosen, raced, maps>>

\* Mutant: the search of the ring does not move on.
GetLenSame ==
  /\ chk.pc = "len"
  /\ LET len == ring[chk.i].len IN
     chk' = CASE len = 0 -> [chk EXCEPT !.pc = "walk", !.node = NoNode]
              [] len > 0 /\ chk.addr \in Span(chk.node, len) -> [chk EXCEPT !.pc = "SUCCESS"]
              [] OTHER -> [chk EXCEPT !.pc = "addr"]
  /\ UNCHANGED <<monitored, ring, index, map, tree, saved, asked, chosen, raced, maps>>

\* Mutant: the end of the range counts as part of it.
GetLenInclusive ==
  /\ chk.pc = "len"
  /\ LET len == ring[chk.i].len IN
     chk' = CASE len = 0 -> [chk EXCEPT !.pc = "walk", !.node = NoNode]
              [] len > 0 /\ chk.addr \in Span(chk.node, len + 1) -> [chk EXCEPT !.pc = "SUCCESS"]
              [] OTHER -> [chk EXCEPT !.pc = "addr", !.i = @ + 1]
  /\ UNCHANGED <<monitored, ring, index, map, tree, saved, asked, chosen, raced, maps>>

\* ... and then the length; an entry of length 0 ends the search of the ring.
GetLen ==
  /\ chk.pc = "len"
  /\ LET len == ring[chk.i].len IN
     chk' = CASE len = 0 -> [chk EXCEPT !.pc = "walk", !.node = NoNode]
              [] len > 0 /\ chk.addr \in Span(chk.node, len) -> [chk EXCEPT !.pc = "SUCCESS"]
              [] OTHER -> [chk EXCEPT !.pc = "addr", !.i = @ + 1]
  /\ UNCHANGED <<monitored, ring, index, map, tree, saved, asked, chosen, raced, maps>>

\* bsa_iommu_dma_get_iova: rb_last(), then rb_prev() of the last node, up to a
\* node with a translation. The tree's lock is not taken: while the IOMMU core rotates
\* the tree, and from a node it has freed, the links may lead anywhere.
Below(d, n) == {b \in DOMAIN tree[d] : n = NoNode \/ b < n}
Highest(S) == CHOOSE x \in S : \A y \in S : y <= x
NextNodes(d, n) ==
  CASE ~Settled(d) \/ (n # NoNode /\ n \notin DOMAIN tree[d]) -> DOMAIN tree[d] \cup {NoNode}
    [] Below(d, n) = {} -> {NoNode}
    [] OTHER -> {Highest(Below(d, n))}

Walk ==
  /\ chk.pc = "walk"
  /\ LET d == DomainOf[chk.port] IN \E b \in NextNodes(d, chk.node) :
       chk' = CASE b = NoNode -> [chk EXCEPT !.pc = "ERR"]
                [] b \in Live(d) /\ chk.addr \in Span(b, tree[d][b].size) ->
                     [chk EXCEPT !.pc = "SUCCESS"]
                [] OTHER -> [chk EXCEPT !.node = b]
  /\ UNCHANGED <<monitored, ring, index, map, tree, saved, asked, chosen, raced, maps>>

CheckReturns ==
  /\ chk.pc \in {"SUCCESS", "ERR"}
  /\ chk' = [pc |-> "idle"]
  /\ UNCHANGED <<monitored, ring, index, map, tree, saved, asked, chosen, raced, maps>>

-----------------------------------------------------------------------------
Init ==
  /\ monitored = NoDomain
  /\ ring = [i \in Slots |-> [addr |-> 0, len |-> 0]] /\ index = 0
  /\ map = [c \in Cpus |-> IdleMap]
  /\ tree = [d \in Domains |-> <<>>]
  /\ chk = [pc |-> "idle"]
  /\ saved = <<>> /\ asked = {} /\ chosen = {} /\ raced = FALSE /\ maps = 0

Hook(c) ==
  \/ TestMonitored(c) \/ ScanSata(c) \/ Scanned(c) \/ Compare(c)
  \/ SaveAddr(c) \/ SaveLen(c) \/ Advance(c) \/ WrapIndex(c) \/ Install(c) \/ MapFails(c)

Rebalance == \E d \in Domains, b \in 0 .. Iovas - 1 : Rebalanced(d, b)

Iommu ==
  \/ \E c \in Cpus : Hook(c)
  \/ \E c \in Cpus, d \in Domains, b \in 0 .. Iovas - 1, n \in Sizes : MapCalled(c, d, b, n)
  \/ \E d \in Domains, b \in 0 .. Iovas - 1 : Unmap(d, b) \/ DropNode(d, b)
  \/ Rebalance

CheckSteps == GetAddr \/ GetNone \/ GetLen \/ Walk

Test ==
  \/ \E p \in Ports : StartMonitor(p) \/ StopMonitor(p)
  \/ \E p \in Ports, a \in 0 .. Iovas - 1 : CheckCalled(p, a)
  \/ CheckSteps \/ CheckReturns

Next == Iommu \/ Test

Spec == Init /\ [][Next]_vars

\* A check that was called runs to its end: nothing in it waits. The IOMMU core, which
\* holds the tree's spinlock, ends what it does to the tree.
FairSpec == Spec /\ WF_vars(CheckSteps) /\ WF_vars(Rebalance)

-----------------------------------------------------------------------------
(***************************************************************************)
(* Properties.                                                             *)
(***************************************************************************)

\* Types; until two CPUs save at once, the ring is never written outside its array
\* (0001-BSA-ACS-Linux-6.0.patch:255-262).
TypeOK ==
  /\ monitored \in Domains \cup {NoDomain}
  /\ ring \in [Slots -> [addr : 0 .. Iovas - 1, len : 0 .. LenSpace - 1]]
  /\ index \in Nat /\ raced \in BOOLEAN
  /\ ~raced => /\ index \in 0 .. DMA_ARRAY_LEN
               /\ \A c \in Cpus : At(c, "addr") \/ At(c, "len") => index \in Slots
  /\ \A d \in Domains : DOMAIN tree[d] \subseteq 0 .. Iovas - 1

\* No entry of the ring was mixed up, and no length cut to 32 bits.
SavedWhole == ~raced /\ \A k \in 1 .. Len(saved) : saved[k].size < LenSpace

\* A check that fails has not overlooked an address that was mapped for as long as
\* it ran (pal_smmu.c:99-109 and the walk of the IOVA tree, patch:144-179), unless a
\* node of the domain's tree was linked in or taken out under it, which the walk does
\* not exclude; nor, while entries are saved whole, one of
\* the mappings that were in the ring for as long as it ran ("Check if this address
\* was used in the last few transactions of the IOMMU layer", pal_smmu.c:83), mappings
\* being saved and the index wrapping around meanwhile.
NothingOverlooked ==
  LET begun == Cardinality({c \in Cpus : At(c, "len")})  \* being overwritten
  IN  chk.pc = "ERR" =>
        /\ "unmapped" \in chk.amid \/ "reshaped" \in chk.amid
        /\ SavedWhole =>
             \A k \in 1 .. chk.first :
               k > Len(saved) + begun - DMA_ARRAY_LEN
               => chk.addr \notin Span(saved[k].base, saved[k].size)

\* Until two CPUs save at once, an address the check accepts is one the IOMMU was asked
\* to map at some time, unless a mapping was replacing an entry of the ring while it was
\* read (pal_smmu.c:88-97 against patch:255-257). That it has been mapped is not so: the
\* hook saves the address of a mapping that fails afterwards as well (patch:360-363).
SuccessMeansAsked ==
  chk.pc = "SUCCESS" /\ "mapped" \notin chk.amid /\ ~raced =>
    \E d \in Domains : <<d, chk.addr>> \in asked

\* "SUCCESS if the input address is part of the IOVA range" of the "Device port
\* whose domain IOVA table is checked" (pal_smmu.c:68-70): when the port's device is
\* the monitored one and nothing is being mapped, the IOMMU was asked to map the address
\* for that device at some time.
SuccessMeansDevice ==
  chk.pc = "SUCCESS" /\ "mapped" \notin chk.amid /\ monitored = DomainOf[chk.port] =>
    <<monitored, chk.addr>> \in asked

\* "This API is used to indicate which device IOMMU transactions are to be
\* monitored" (patch:214): only mappings of a domain so indicated, or of a SATA
\* device found without one, are saved.
OnlyChosenDomains ==
  \A k \in 1 .. Len(saved) :
    saved[k].dom \in chosen \cup {DomainOf[Sata[j]] : j \in 1 .. Len(Sata)}

\* No check goes on for ever, whatever is mapped meanwhile.
CheckEnds == []<>(chk.pc \in {"idle", "SUCCESS", "ERR"})
=============================================================================
