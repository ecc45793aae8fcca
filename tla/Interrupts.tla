------------------------------ MODULE Interrupts ------------------------------
(***************************************************************************)
(* Interrupt handlers installed by the BSA, SDEI and FF-A platform layers. *)
(*                                                                         *)
(* An interrupt of the GIC's domain is mapped to a Linux interrupt (virq), *)
(* whose handler the kernel calls.  A hierarchical domain gives each       *)
(* install a new virq and maps the interrupt to it, whoever had it before. *)
(***************************************************************************)
EXTENDS Naturals, FiniteSets

CONSTANTS
  Layers,         \* "bsa", "sdei", "ffa"
  HwIrqs,         \* interrupts of the domain
  KernelIrq,      \* one that a kernel driver has a handler for
  MaxVirq,        \* how many virqs there are
  MaxInstalls     \* a bound: handlers installed

ASSUME InterruptsAssumption ==
  /\ {"bsa", "sdei", "ffa"} \subseteq Layers /\ "free" \notin Layers
  /\ KernelIrq \in HwIrqs /\ HwIrqs \subseteq Nat \ {0}
  /\ {MaxVirq, MaxInstalls} \subseteq Nat /\ MaxVirq > 1

VARIABLES
  domain,     \* acs_get_irq_domain(): "none", "flat" or "hierarchy"
  mapped,     \* the virq of each interrupt, or 0
  virq,       \* each virq: its interrupt, its handler and who requested it, or "free"
  tried,      \* history: what a layer called install for, and did not free yet
  installed,  \* history: the handler a layer installed last and has not freed, or 0
  shared,     \* history: interrupts installed on before the last install was freed
  handlers    \* how many handlers were installed; the last one's number

interruptsVars == <<domain, mapped, virq, tried, installed, shared, handlers>>

Virqs == 1 .. MaxVirq
Descriptor(hw, by, n) == [hw |-> hw, by |-> by, handler |-> n]
FreeVirq == Descriptor(0, "free", 0)
Lowest(S) == IF S = {} THEN 0 ELSE CHOOSE v \in S : \A w \in S : v <= w
MsiVirq == 2
NewVirq == Lowest({v \in Virqs : virq[v].by = "free"})

\* irq_create_mapping() and irq_domain_alloc_irqs().
CreateMapping(hw) == IF mapped[hw] # 0 THEN mapped[hw] ELSE NewVirq
AllocIrqs(hw) == NewVirq
VirqFor(hw) == IF domain = "hierarchy" THEN AllocIrqs(hw) ELSE CreateMapping(hw)

Installs(l, hw) ==
  /\ handlers < MaxInstalls /\ handlers' = handlers + 1
  /\ LET handled == \E v \in Virqs : virq[v].hw = hw /\ virq[v].handler # 0
         others == \E k \in tried : k[2] = hw /\ k[1] # l
     IN shared' = IF handled \/ others THEN shared \cup {hw} ELSE shared
  /\ tried' = tried \cup {<<l, hw>>}
  /\ UNCHANGED domain

\* No domain, no memory, or no virq: nothing has changed.
InstallFails(l, hw) ==
  /\ Installs(l, hw)
  /\ UNCHANGED <<mapped, virq, installed>>

\* The virq is mapped and requested; when it is busy, or the request fails, the
\* mapping stays and whatever handler the interrupt had before is not called any more.
Install(l, hw) ==
  LET v == VirqFor(hw)
      d == IF virq[v].by = "free" THEN Descriptor(hw, "", 0) ELSE virq[v]
  IN /\ domain # "none" /\ v # 0
     /\ Installs(l, hw)
     /\ mapped' = [mapped EXCEPT ![hw] = v]
     /\ \/ /\ d.handler = 0
           /\ virq' = [virq EXCEPT ![v] = Descriptor(hw, l, handlers + 1)]
           /\ installed' = [installed EXCEPT ![<<l, hw>>] = handlers + 1]
        \/ /\ virq' = [virq EXCEPT ![v] = d]
           /\ installed' = IF mapped[hw] = v THEN installed
                           ELSE [k \in DOMAIN installed |-> IF k[2] = hw THEN 0 ELSE installed[k]]

\* Each layer's install function, which differ in who requests the interrupt.
InstallIsr(hw) == Install("bsa", hw)
InstallSdei(hw) == Install("sdei", hw)
RegisterHandler(hw) == Install("ffa", hw)

\* Mutant: the handler is freed by another dev_id than it was requested by.
DevIdNull(l) == "bsa"
DevId(l) == l

Frees(l, hw, v) ==
  /\ domain # "none" /\ v # 0 /\ <<l, hw>> \in tried
  /\ tried' = tried \ {<<l, hw>>}
  /\ mapped' = [mapped EXCEPT ![hw] = 0]
  /\ installed' = [installed EXCEPT ![<<l, hw>>] = 0]

\* The SDEI and FF-A layers free by the interrupt's number: the mapping found, or made,
\* is disposed of, its handler freed if the layer requested it.
FreeMapped(l, hw) ==
  LET v == CreateMapping(hw) IN
  /\ Frees(l, hw, v)
  /\ virq[v].by \in {DevId(l), "", "free"}
  /\ virq' = [virq EXCEPT ![v] = FreeVirq]
  /\ UNCHANGED <<domain, shared, handlers>>

\* With another layer's handler there, free_irq() only warns; the mapping goes.
FreeUnowned(l, hw) ==
  LET v == CreateMapping(hw) IN
  /\ Frees(l, hw, v)
  /\ virq[v].by \notin {DevId(l), "", "free"}
  /\ UNCHANGED <<domain, virq, shared, handlers>>

FreeInterrupt(hw) == FreeMapped("sdei", hw) \/ FreeUnowned("sdei", hw)
UnregisterHandler(hw) == FreeMapped("ffa", hw) \/ FreeUnowned("ffa", hw)

\* pal_gic_request_irq and pal_gic_free_irq are given a virq, that of a device's message.
RequestIrq ==
  /\ virq[MsiVirq].handler = 0 /\ handlers < MaxInstalls /\ handlers' = handlers + 1
  /\ virq' = [virq EXCEPT ![MsiVirq] = Descriptor(0, "bsa", handlers + 1)]
  /\ UNCHANGED <<domain, mapped, installed, tried, shared>>
FreeIrq ==
  /\ virq[MsiVirq].by = "bsa"
  /\ virq' = [virq EXCEPT ![MsiVirq] = Descriptor(0, "", 0)]
  /\ UNCHANGED <<domain, mapped, installed, tried, shared, handlers>>

InterruptsInit(domains) ==
  /\ domain \in domains
  /\ mapped = [hw \in HwIrqs |-> IF hw = KernelIrq THEN 1 ELSE 0]
  /\ virq = [v \in Virqs |-> IF v = 1 THEN Descriptor(KernelIrq, "kernel", 1)
                             ELSE IF v = MsiVirq THEN Descriptor(0, "", 0) ELSE FreeVirq]
  /\ installed = [k \in Layers \X HwIrqs |-> 0] /\ tried = {} /\ shared = {} /\ handlers = 1

InterruptsNext ==
  \/ \E hw \in HwIrqs : \/ InstallIsr(hw) \/ InstallSdei(hw) \/ RegisterHandler(hw)
                        \/ FreeInterrupt(hw) \/ UnregisterHandler(hw)
                        \/ \E l \in Layers : InstallFails(l, hw)
  \/ RequestIrq \/ FreeIrq

InterruptsSpec ==
  InterruptsInit({"none", "flat", "hierarchy"}) /\ [][InterruptsNext]_interruptsVars

\* As long as nobody installs on an interrupt another install uses, the handler a layer
\* installed last is the one called for its interrupt, and nothing is called any more
\* for an interrupt whose handlers were freed (SDEI pal_gic.c:145-213, pal_irq.c:56-124).
HandlerCalled ==
  \A hw \in HwIrqs \ (shared \cup {KernelIrq}) :
    /\ \A l \in Layers : installed[<<l, hw>>] # 0 =>
         mapped[hw] # 0 /\ virq[mapped[hw]].handler = installed[<<l, hw>>]
    /\ (\A l \in Layers : installed[<<l, hw>>] = 0) =>
         \A v \in Virqs : virq[v].hw = hw => virq[v].handler = 0
=============================================================================
