-------------------------- MODULE IovaMonitorProofs --------------------------
(***************************************************************************)
(* What IovaMonitor guarantees for every set of CPUs, domains, ports and   *)
(* addresses and every ring length: that only mappings of chosen or SATA   *)
(* domains are saved; that the check overlooks no address that is mapped   *)
(* while the tree keeps its nodes; and, until two CPUs save at once, that  *)
(* the ring is written inside its array, that an address the check accepts *)
(* was to be mapped, and that the check overlooks no entry of the ring.    *)
(***************************************************************************)
EXTENDS IovaMonitor, FiniteSetTheorems, TLAPS

SataDomains == {DomainOf[Sata[j]] : j \in 1 .. Len(Sata)}
Wanted == chosen \cup SataDomains

\* The points of __iommu_map(): in the hook's scan there is a port as well.
Addresses == 0 .. Iovas - 1
MapPCs == {"test", "compare", "addr", "len", "advance", "wrap", "install"}
Mapping == [pc : MapPCs, dom : Domains, base : Addresses, size : Nat]
Scanning == [pc : MapPCs \cup {"scan"}, port : Nat \ {0}, dom : Domains,
             base : Addresses, size : Nat]
Mappings == {IdleMap} \cup Mapping \cup Scanning
Saving == [dom : Domains, base : Addresses, size : Nat]

\* How a mapping ends, and what else the IOMMU core does to a domain's tree.
Ends(c) == Install(c) \/ MapFails(c)
TreeStep(d, b) == Unmap(d, b) \/ DropNode(d, b) \/ Rebalanced(d, b)

\* What every step keeps, whatever the other CPUs do: a mapping on its way into
\* the ring is of a wanted domain, for it was compared with the monitored one.
IInv ==
  /\ map \in [Cpus -> Mappings]
  /\ monitored \in Domains \cup {NoDomain}
  /\ monitored # NoDomain => monitored \in Wanted
  /\ \A c \in Cpus : At(c, "addr") \/ At(c, "len") => map[c].dom \in Wanted
  /\ saved \in Seq(Saving)
  /\ OnlyChosenDomains

LEMMA Constants ==
  /\ \A p \in Ports : DomainOf[p] \in Domains \cup {NoDomain}
  /\ NoDomain \notin Domains
  /\ Sata \in Seq(Ports)
  /\ Sizes \subseteq Nat
  /\ \A k \in 1 .. Len(Sata) : DomainOf[Sata[k]] \in SataDomains
BY IovaAssumption DEF IovaAssumption, SataDomains, Ports

LEMMA InitIInv == Init => IInv
<1> SUFFICES ASSUME Init PROVE IInv
  OBVIOUS
<1>1. map \in [Cpus -> Mappings]
  BY DEF Init, Mappings
<1>2. \A c \in Cpus : ~At(c, "addr") /\ ~At(c, "len")
  BY DEF Init, At, IdleMap
<1> QED
  BY <1>1, <1>2 DEF Init, IInv, OnlyChosenDomains

\* The steps that neither move a mapping nor change what is wanted.
LEMMA Still ==
  ASSUME IInv, UNCHANGED <<monitored, map, saved, chosen>>
  PROVE  IInv'
BY DEF IInv, OnlyChosenDomains, Wanted, At

\* A CPU's mapping going on to another point, or from the scan's next port.
LEMMA SetPc ==
  ASSUME NEW m \in Mapping \cup Scanning, NEW q \in MapPCs
  PROVE  /\ [m EXCEPT !.pc = q] \in Mapping \cup Scanning
         /\ [m EXCEPT !.pc = q].pc = q
         /\ [m EXCEPT !.pc = q].dom = m.dom
<1>1. CASE m \in Mapping
  BY <1>1 DEF Mapping, MapPCs
<1>2. CASE m \in Scanning
  BY <1>2 DEF Scanning, MapPCs
<1> QED
  BY <1>1, <1>2

LEMMA SetPort ==
  ASSUME NEW m \in Scanning
  PROVE  [m EXCEPT !.port = @ + 1] \in Scanning /\ [m EXCEPT !.port = @ + 1].pc = m.pc
BY DEF Scanning

\* A CPU that is not idle, and what it is doing while it scans.
LEMMA Busy ==
  ASSUME IInv, NEW c \in Cpus
  PROVE  /\ map[c].pc # "idle" => map[c] \in Mapping \cup Scanning
         /\ map[c].pc = "scan" => map[c] \in Scanning
<1>1. map[c] \in Mappings
  BY DEF IInv
<1>2. \A m \in Mapping : m.pc # "scan"
  BY DEF Mapping, MapPCs
<1> QED
  BY <1>1, <1>2 DEF Mappings, IdleMap

\* What the steps of one CPU have in common.
LEMMA Moves ==
  ASSUME IInv, NEW c \in Cpus, NEW m \in Mappings,
         map' = [map EXCEPT ![c] = m],
         m.pc \in {"addr", "len"} => m.dom \in Wanted,
         monitored' \in Domains \cup {NoDomain},
         monitored' # NoDomain => monitored' \in Wanted,
         UNCHANGED chosen,
         saved' \in Seq(Saving), OnlyChosenDomains'
  PROVE  IInv'
<1>1. map' \in [Cpus -> Mappings] /\ map'[c] = m /\ \A e \in Cpus \ {c} : map'[e] = map[e]
  BY DEF IInv
<1>2. \A e \in Cpus : At(e, "addr")' \/ At(e, "len")' => map'[e].dom \in Wanted
  BY <1>1 DEF IInv, At
<1>3. Wanted' = Wanted
  BY DEF Wanted, SataDomains
<1> QED
  BY <1>1, <1>2, <1>3 DEF IInv

\* The same for the steps that save nothing and monitor no other domain.
LEMMA MovesOn ==
  ASSUME IInv, NEW c \in Cpus, NEW m \in Mappings,
         map' = [map EXCEPT ![c] = m],
         m.pc \in {"addr", "len"} => m.dom \in Wanted,
         UNCHANGED <<monitored, chosen, saved>>
  PROVE  IInv'
<1>1. saved' \in Seq(Saving) /\ OnlyChosenDomains'
  BY DEF IInv, OnlyChosenDomains
<1>2. monitored' \in Domains \cup {NoDomain} /\ (monitored' # NoDomain => monitored' \in Wanted)
  BY DEF IInv
<1> QED
  BY <1>1, <1>2, Moves

\* Going on to another point of the hook, not into the ring.
LEMMA SetsPc ==
  ASSUME IInv, NEW c \in Cpus, NEW q \in MapPCs, map[c].pc # "idle",
         map' = [map EXCEPT ![c] = [map[c] EXCEPT !.pc = q]],
         q \in {"addr", "len"} => map[c].dom \in Wanted,
         UNCHANGED <<monitored, chosen, saved>>
  PROVE  IInv'
<1> DEFINE m == [map[c] EXCEPT !.pc = q]
<1>1. map[c] \in Mapping \cup Scanning
  BY Busy
<1>2. m \in Mapping \cup Scanning /\ m.pc = q /\ m.dom = map[c].dom
  BY <1>1, SetPc
<1>3. m \in Mappings /\ map' = [map EXCEPT ![c] = m]
  BY <1>2 DEF Mappings
<1> HIDE DEF m
<1> QED
  BY <1>2, <1>3, MovesOn

LEMMA NextIInv == IInv /\ [Next]_vars => IInv'
<1> SUFFICES ASSUME IInv, [Next]_vars PROVE IInv'
  OBVIOUS
<1>1. ASSUME NEW c \in Cpus, NEW d \in Domains, NEW b \in 0 .. Iovas - 1, NEW n \in Sizes,
             MapCalled(c, d, b, n)
      PROVE  IInv'
  <2> DEFINE m == [pc |-> "test", dom |-> d, base |-> b, size |-> n]
  <2>1. n \in Nat
    BY Constants
  <2>2. m \in Mappings /\ m.pc = "test"
    BY <2>1 DEF Mapping, MapPCs, Addresses, Mappings
  <2>3. map' = [map EXCEPT ![c] = m] /\ UNCHANGED <<monitored, chosen, saved>>
    BY <1>1 DEF MapCalled
  <2> HIDE DEF m
  <2> QED
    BY <2>2, <2>3, MovesOn
<1>2. ASSUME NEW c \in Cpus, TestMonitored(c) PROVE IInv'
  <2>1. map[c].pc = "test" /\ UNCHANGED <<monitored, chosen, saved>>
    BY <1>2 DEF TestMonitored, At
  <2>2. CASE monitored # NoDomain
    <3>1. map' = [map EXCEPT ![c] = [map[c] EXCEPT !.pc = "compare"]]
      BY <1>2, <2>2 DEF TestMonitored
    <3> QED
      BY <2>1, <3>1, SetsPc DEF MapPCs
  <2>3. CASE monitored = NoDomain
    <3> DEFINE m == [pc |-> "scan", port |-> 1, dom |-> map[c].dom,
                     base |-> map[c].base, size |-> map[c].size]
    <3>1. map[c] \in Mapping \cup Scanning
      BY <2>1, Busy
    <3>2. m \in Mappings /\ m.pc = "scan"
      BY <3>1 DEF Mapping, Scanning, Mappings
    <3>3. map' = [map EXCEPT ![c] = m]
      BY <1>2, <2>3 DEF TestMonitored
    <3> HIDE DEF m
    <3> QED
      BY <2>1, <3>2, <3>3, MovesOn
  <2> QED
    BY <2>2, <2>3
<1>3. ASSUME NEW c \in Cpus, ScanSata(c) PROVE IInv'
  <2> DEFINE m == [map[c] EXCEPT !.port = @ + 1]
  <2>1. map[c] \in Scanning /\ map[c].pc = "scan"
    BY <1>3, Busy DEF ScanSata, At
  <2>2. m \in Mappings /\ m.pc = "scan"
    BY <2>1, SetPort DEF Mappings
  <2>3. map' = [map EXCEPT ![c] = m] /\ UNCHANGED <<chosen, saved>>
    BY <1>3 DEF ScanSata
  <2>4. map[c].port \in 1 .. Len(Sata)
    <3>1. map[c].port \in Nat \ {0} /\ map[c].port <= Len(Sata)
      BY <1>3, <2>1 DEF ScanSata, Scanning
    <3>2. Len(Sata) \in Nat
      BY Constants
    <3> QED
      BY <3>1, <3>2
  <2>5. monitored' \in SataDomains /\ monitored' \in Domains \cup {NoDomain}
    BY <1>3, <2>4, Constants DEF ScanSata
  <2>6. saved' \in Seq(Saving) /\ OnlyChosenDomains'
    BY <2>3 DEF IInv, OnlyChosenDomains
  <2> HIDE DEF m
  <2> QED
    BY <2>2, <2>3, <2>5, <2>6, Moves DEF Wanted
<1>4. ASSUME NEW c \in Cpus, Scanned(c) PROVE IInv'
  <2>1. map[c].pc = "scan" /\ map' = [map EXCEPT ![c] = [map[c] EXCEPT !.pc = "compare"]]
    BY <1>4 DEF Scanned, At
  <2> QED
    BY <1>4, <2>1, SetsPc DEF Scanned, MapPCs
<1>5. ASSUME NEW c \in Cpus, Compare(c) PROVE IInv'
  <2>1. map[c].pc = "compare" /\ UNCHANGED <<monitored, chosen, saved>>
    BY <1>5 DEF Compare, At
  <2>2. CASE monitored = map[c].dom
    <3>1. map' = [map EXCEPT ![c] = [map[c] EXCEPT !.pc = "addr"]]
      BY <1>5, <2>2 DEF Compare
    <3>2. map[c].dom \in Domains
      BY <2>1, Busy DEF Mapping, Scanning
    <3>3. map[c].dom \in Wanted
      BY <2>2, <3>2, Constants DEF IInv
    <3> QED
      BY <2>1, <3>1, <3>3, SetsPc DEF MapPCs
  <2>3. CASE monitored # map[c].dom
    <3>1. map' = [map EXCEPT ![c] = [map[c] EXCEPT !.pc = "install"]]
      BY <1>5, <2>3 DEF Compare
    <3> QED
      BY <2>1, <3>1, SetsPc DEF MapPCs
  <2> QED
    BY <2>2, <2>3
<1>6. ASSUME NEW c \in Cpus, SaveAddr(c) PROVE IInv'
  <2>1. /\ map[c].pc = "addr" /\ UNCHANGED <<monitored, chosen, saved>>
        /\ map' = [map EXCEPT ![c] = [map[c] EXCEPT !.pc = "len"]]
    BY <1>6 DEF SaveAddr, At
  <2>2. map[c].dom \in Wanted
    BY <2>1 DEF IInv, At
  <2> QED
    BY <2>1, <2>2, SetsPc DEF MapPCs
<1>7. ASSUME NEW c \in Cpus, SaveLen(c) PROVE IInv'
  <2> DEFINE m == [map[c] EXCEPT !.pc = "advance"]
             s == [dom |-> map[c].dom, base |-> map[c].base, size |-> map[c].size]
  <2>1. /\ map[c].pc = "len" /\ UNCHANGED <<monitored, chosen>>
        /\ map' = [map EXCEPT ![c] = m] /\ saved' = Append(saved, s)
    BY <1>7 DEF SaveLen, At
  <2>2. map[c] \in Mapping \cup Scanning /\ map[c].dom \in Wanted
    BY <2>1, Busy DEF IInv, At
  <2>3. m \in Mappings /\ m.pc = "advance"
    BY <2>2, SetPc DEF Mappings, MapPCs
  <2>4. /\ saved' \in Seq(Saving) /\ Len(saved') = Len(saved) + 1
        /\ \A k \in 1 .. Len(saved) : saved'[k] = saved[k]
        /\ saved'[Len(saved) + 1].dom = map[c].dom
    <3>1. s \in Saving /\ s.dom = map[c].dom
      BY <2>2 DEF Mapping, Scanning, Saving
    <3> HIDE DEF s
    <3> QED
      BY <2>1, <3>1 DEF IInv
  <2>5. OnlyChosenDomains'
    BY <2>1, <2>2, <2>4 DEF IInv, OnlyChosenDomains, Wanted, SataDomains
  <2>6. monitored' \in Domains \cup {NoDomain} /\ (monitored' # NoDomain => monitored' \in Wanted)
    BY <2>1 DEF IInv
  <2> HIDE DEF m
  <2> QED
    BY <2>1, <2>3, <2>4, <2>5, <2>6, Moves
<1>8. ASSUME NEW c \in Cpus, Advance(c) PROVE IInv'
  <2>1. map[c].pc = "advance" /\ UNCHANGED <<monitored, chosen, saved>>
    BY <1>8 DEF Advance, At
  <2>2. \E q \in {"install", "wrap"} : map' = [map EXCEPT ![c] = [map[c] EXCEPT !.pc = q]]
    BY <1>8 DEF Advance
  <2> QED
    BY <2>1, <2>2, SetsPc DEF MapPCs
<1>9. ASSUME NEW c \in Cpus, WrapIndex(c) PROVE IInv'
  <2>1. /\ map[c].pc = "wrap" /\ UNCHANGED <<monitored, chosen, saved>>
        /\ map' = [map EXCEPT ![c] = [map[c] EXCEPT !.pc = "install"]]
    BY <1>9 DEF WrapIndex, At
  <2> QED
    BY <2>1, SetsPc DEF MapPCs
<1>10. ASSUME NEW c \in Cpus, Ends(c) PROVE IInv'
  <2>1. IdleMap \in Mappings /\ IdleMap.pc = "idle"
    BY DEF Mappings, IdleMap
  <2>2. map' = [map EXCEPT ![c] = IdleMap] /\ UNCHANGED <<monitored, chosen, saved>>
    BY <1>10 DEF Ends, Install, MapFails
  <2> QED
    BY <2>1, <2>2, MovesOn
<1>11. ASSUME NEW p \in Ports, StartMonitor(p) \/ StopMonitor(p) PROVE IInv'
  <2>1. saved' = saved /\ map' = map /\ Wanted \subseteq Wanted'
    BY <1>11 DEF StartMonitor, StopMonitor, Wanted
  <2>2. OnlyChosenDomains'
    BY <2>1 DEF IInv, OnlyChosenDomains, Wanted, SataDomains
  <2>3. /\ monitored' \in Domains \cup {NoDomain}
        /\ monitored' # NoDomain => monitored' \in Wanted'
    BY <1>11, Constants DEF StartMonitor, StopMonitor, Wanted
  <2>4. \A e \in Cpus : At(e, "addr")' \/ At(e, "len")' => map'[e].dom \in Wanted'
    BY <2>1 DEF IInv, At
  <2> QED
    BY <2>1, <2>2, <2>3, <2>4 DEF IInv
<1>12. ASSUME NEW d \in Domains, NEW b \in 0 .. Iovas - 1, TreeStep(d, b) PROVE IInv'
  BY <1>12, Still DEF TreeStep, Unmap, DropNode, Rebalanced
<1>13. ASSUME NEW p \in Ports, NEW a \in 0 .. Iovas - 1, CheckCalled(p, a) PROVE IInv'
  BY <1>13, Still DEF CheckCalled
<1>14. CASE CheckSteps \/ CheckReturns
  BY <1>14, Still DEF CheckSteps, GetAddr, GetNone, GetLen, Walk, CheckReturns
<1>15. CASE UNCHANGED vars
  BY <1>15, Still DEF vars
<1> QED
  BY <1>1, <1>2, <1>3, <1>4, <1>5, <1>6, <1>7, <1>8, <1>9, <1>10, <1>11, <1>12,
     <1>13, <1>14, <1>15 DEF Next, Iommu, Hook, Rebalance, Ends, TreeStep, Test

THEOREM Invariance == Spec => []IInv
<1> QED
  BY InitIInv, NextIInv, PTL DEF Spec

\* However many CPUs map, and whenever the test starts and stops the monitoring
\* between the comparison and the saving, only mappings of a domain it chose or
\* of a SATA device are saved (0001-BSA-ACS-Linux-6.0.patch:236-263, 360-361).
THEOREM OnlyChosen == Spec => []OnlyChosenDomains
<1>1. IInv => OnlyChosenDomains
  BY DEF IInv
<1> QED
  BY <1>1, Invariance, PTL

-----------------------------------------------------------------------------
(* What the steps of the hook have in common. *)
Busily(c) == ~At(c, "idle")
Same(c) ==
  /\ \A e \in Cpus \ {c} : map'[e] = map[e]
  /\ map'[c].dom = map[c].dom /\ map'[c].base = map[c].base /\ map'[c].size = map[c].size
  /\ UNCHANGED <<tree, chk, asked>>
Pc(c, from, to) == map[c].pc \in from /\ map'[c].pc \in to /\ Same(c)

LEMMA PcMoves ==
  ASSUME IInv, NEW c \in Cpus, NEW q \in MapPCs, map[c].pc # "idle",
         map' = [map EXCEPT ![c] = [map[c] EXCEPT !.pc = q]]
  PROVE  /\ map'[c].pc = q /\ map'[c].dom = map[c].dom
         /\ map'[c].base = map[c].base /\ map'[c].size = map[c].size
         /\ \A e \in Cpus \ {c} : map'[e] = map[e]
<1>1. map[c] \in Mapping \cup Scanning
  BY Busy
<1>2. map'[c] = [map[c] EXCEPT !.pc = q] /\ \A e \in Cpus \ {c} : map'[e] = map[e]
  BY DEF IInv
<1> QED
  BY <1>1, <1>2 DEF Mapping, Scanning

LEMMA HookMoves ==
  ASSUME IInv, NEW c \in Cpus
  PROVE  /\ TestMonitored(c) \/ ScanSata(c) \/ Scanned(c) \/ Compare(c) =>
              /\ Pc(c, {"test", "scan", "compare"}, {"scan", "compare", "addr", "install"})
              /\ UNCHANGED <<ring, index, saved>>
         /\ TestMonitored(c) \/ ScanSata(c) \/ Scanned(c) => map'[c].pc \in {"scan", "compare"}
         /\ SaveAddr(c) => Pc(c, {"addr"}, {"len"}) /\ UNCHANGED <<index, saved>>
         /\ SaveLen(c) => Pc(c, {"len"}, {"advance"}) /\ UNCHANGED index
         /\ Advance(c) => Pc(c, {"advance"}, {"wrap", "install"}) /\ UNCHANGED <<ring, saved>>
         /\ WrapIndex(c) => Pc(c, {"wrap"}, {"install"}) /\ UNCHANGED <<ring, saved>>
<1> USE DEF Pc, Same, MapPCs
<1>1. ASSUME TestMonitored(c)
      PROVE  Pc(c, {"test"}, {"scan", "compare"}) /\ UNCHANGED <<ring, index, saved>>
  <2>1. CASE monitored # NoDomain
    BY <1>1, <2>1, PcMoves DEF TestMonitored, At
  <2>2. CASE monitored = NoDomain
    BY <1>1, <2>2 DEF TestMonitored, At, IInv
  <2> QED
    BY <2>1, <2>2
<1>2. ASSUME ScanSata(c)
      PROVE  Pc(c, {"scan"}, {"scan"}) /\ UNCHANGED <<ring, index, saved>>
  <2>1. /\ map[c] \in Scanning /\ map'[c] = [map[c] EXCEPT !.port = @ + 1]
        /\ \A e \in Cpus \ {c} : map'[e] = map[e]
    BY <1>2, Busy DEF ScanSata, At, IInv
  <2>2. map'[c].pc = map[c].pc /\ map'[c].dom = map[c].dom /\ map'[c].base = map[c].base
        /\ map'[c].size = map[c].size
    BY <2>1 DEF Scanning
  <2> QED
    BY <1>2, <2>1, <2>2 DEF ScanSata, At
<1>3. ASSUME Scanned(c)
      PROVE  Pc(c, {"scan"}, {"compare"}) /\ UNCHANGED <<ring, index, saved>>
  BY <1>3, PcMoves DEF Scanned, At
<1>4. ASSUME Compare(c)
      PROVE  Pc(c, {"compare"}, {"addr", "install"}) /\ UNCHANGED <<ring, index, saved>>
  <2>1. PICK q \in {"addr", "install"} : map' = [map EXCEPT ![c] = [map[c] EXCEPT !.pc = q]]
    BY <1>4 DEF Compare
  <2> QED
    BY <1>4, <2>1, PcMoves DEF Compare, At
<1>5. SaveAddr(c) => Pc(c, {"addr"}, {"len"}) /\ UNCHANGED <<index, saved>>
  BY PcMoves DEF SaveAddr, At
<1>6. SaveLen(c) => Pc(c, {"len"}, {"advance"}) /\ UNCHANGED index
  BY PcMoves DEF SaveLen, At
<1>7. ASSUME Advance(c)
      PROVE  Pc(c, {"advance"}, {"wrap", "install"}) /\ UNCHANGED <<ring, saved>>
  <2>1. PICK q \in {"wrap", "install"} : map' = [map EXCEPT ![c] = [map[c] EXCEPT !.pc = q]]
    BY <1>7 DEF Advance
  <2> QED
    BY <1>7, <2>1, PcMoves DEF Advance, At
<1>8. WrapIndex(c) => Pc(c, {"wrap"}, {"install"}) /\ UNCHANGED <<ring, saved>>
  BY PcMoves DEF WrapIndex, At
<1> QED
  BY <1>1, <1>2, <1>3, <1>4, <1>5, <1>6, <1>7, <1>8

\* The steps of the hook up to the installation; the other steps of the system.
Saves(c) ==
  \/ TestMonitored(c) \/ ScanSata(c) \/ Scanned(c) \/ Compare(c)
  \/ SaveAddr(c) \/ SaveLen(c) \/ Advance(c) \/ WrapIndex(c)
Checks == CheckSteps \/ CheckReturns \/ \E p \in Ports, a \in Addresses : CheckCalled(p, a)
Monitors == \E p \in Ports : StartMonitor(p) \/ StopMonitor(p)

LEMMA SavesMove ==
  ASSUME IInv, NEW c \in Cpus, Saves(c)
  PROVE  Same(c) /\ Busily(c) /\ Busily(c)'
BY HookMoves DEF Saves, Pc, Busily, At

LEMMA OtherSteps ==
  /\ Checks => UNCHANGED <<monitored, ring, index, map, tree, saved, asked, chosen, raced, maps>>
  /\ Monitors => UNCHANGED <<ring, index, map, tree, chk, saved, asked, raced, maps>> /\ ~Checking
<1>1. Checks => UNCHANGED <<monitored, ring, index, map, tree, saved, asked, chosen, raced, maps>>
  BY DEF Checks, CheckSteps, GetAddr, GetNone, GetLen, Walk, CheckReturns, CheckCalled
<1>2. Monitors => UNCHANGED <<ring, index, map, tree, chk, saved, asked, raced, maps>> /\ ~Checking
  BY DEF Monitors, StartMonitor, StopMonitor, Idle
<1> QED
  BY <1>1, <1>2

\* Every step is one of these.
LEMMA Steps ==
  ASSUME [Next]_vars
  PROVE  \/ \E c \in Cpus : Saves(c) \/ Ends(c)
         \/ \E c \in Cpus, d \in Domains, b \in Addresses, n \in Sizes : MapCalled(c, d, b, n)
         \/ \E d \in Domains, b \in Addresses : TreeStep(d, b)
         \/ Checks \/ Monitors \/ UNCHANGED vars
BY DEF Next, Iommu, Test, Hook, Rebalance, Ends, TreeStep, Saves, Checks, Monitors, Addresses

-----------------------------------------------------------------------------
(***************************************************************************)
(* The ring, until two CPUs save at once.  Its index is the array's length *)
(* only between the two stores of the increment and its wrap, when no      *)
(* other mapping may be about to use it.                                   *)
(***************************************************************************)
Alone == \A c, e \in Cpus : InSave(c) /\ InSave(e) => c = e

Entry == [addr : Addresses, len : 0 .. LenSpace - 1]

RingInv ==
  /\ ring \in [Slots -> Entry] /\ index \in Nat /\ raced \in BOOLEAN
  /\ ~raced => /\ Alone /\ index \in 0 .. DMA_ARRAY_LEN
               /\ index = DMA_ARRAY_LEN => \E c \in Cpus : At(c, "wrap")

TreeInv ==
  /\ tree = [d \in Domains |-> tree[d]]
  /\ \A d \in Domains : DOMAIN tree[d] \subseteq Addresses

LEMMA InitRingInv == Init => RingInv /\ TreeInv
<1> SUFFICES ASSUME Init PROVE RingInv /\ TreeInv
  OBVIOUS
<1>1. [addr |-> 0, len |-> 0] \in Entry
  BY IovaAssumption DEF IovaAssumption, Entry, Addresses
<1>2. RingInv
  <2>1. ring \in [Slots -> Entry] /\ raced \in BOOLEAN
    BY <1>1 DEF Init
  <2>2. index \in 0 .. DMA_ARRAY_LEN /\ index # DMA_ARRAY_LEN
    BY IovaAssumption DEF Init
  <2>3. \A c \in Cpus : map[c].pc = "idle"
    BY DEF Init, IdleMap
  <2>4. Alone
    BY <2>3 DEF Alone, InSave
  <2> QED
    BY <2>1, <2>2, <2>4 DEF RingInv
<1>3. tree = [d \in Domains |-> tree[d]]
  BY DEF Init
<1>4. \A d \in Domains : DOMAIN tree[d] \subseteq Addresses
  BY DEF Init
<1> QED
  BY <1>2, <1>3, <1>4 DEF TreeInv

\* A node changes its state, or is taken out, and nothing else in the trees.
SetNode(d, b, st) ==
  tree' = [tree EXCEPT ![d] = [tree[d] EXCEPT ![b] = [tree[d][b] EXCEPT !.state = st]]]
CutNode(d, b) == tree' = [tree EXCEPT ![d] = [o \in DOMAIN tree[d] \ {b} |-> tree[d][o]]]

LEMMA NodeSet ==
  ASSUME TreeInv, NEW d \in Domains, NEW b, NEW st, SetNode(d, b, st)
  PROVE  /\ TreeInv'
         /\ \A e \in Domains :
              /\ DOMAIN tree'[e] = DOMAIN tree[e]
              /\ \A o \in DOMAIN tree[e] : (e = d /\ o = b) \/ tree'[e][o] = tree[e][o]
         /\ b \in DOMAIN tree[d] => tree'[d][b] = [tree[d][b] EXCEPT !.state = st]
<1>1. \A e \in Domains :
        /\ DOMAIN tree'[e] = DOMAIN tree[e]
        /\ \A o \in DOMAIN tree[e] : (e = d /\ o = b) \/ tree'[e][o] = tree[e][o]
  BY DEF TreeInv, SetNode
<1>2. tree' = [e \in Domains |-> tree'[e]]
  BY DEF TreeInv, SetNode
<1>3. b \in DOMAIN tree[d] => tree'[d][b] = [tree[d][b] EXCEPT !.state = st]
  BY DEF TreeInv, SetNode
<1> QED
  BY <1>1, <1>2, <1>3 DEF TreeInv

LEMMA NodeGone ==
  ASSUME TreeInv, NEW d \in Domains, NEW b, CutNode(d, b)
  PROVE  /\ TreeInv'
         /\ \A e \in Domains :
              /\ DOMAIN tree'[e] = IF e = d THEN DOMAIN tree[e] \ {b} ELSE DOMAIN tree[e]
              /\ \A o \in DOMAIN tree'[e] : tree'[e][o] = tree[e][o]
BY DEF TreeInv, CutNode

\* The node of a new mapping, which nothing else in the trees has changed for.
Enters(d, b, n, st) ==
  /\ DOMAIN tree'[d] = DOMAIN tree[d] \cup {b} /\ tree'[d][b] = [size |-> n, state |-> st]
  /\ \A o \in DOMAIN tree[d] : o = b \/ tree'[d][o] = tree[d][o]
  /\ \A e \in Domains \ {d} : tree'[e] = tree[e]

LEMMA NodeEnters ==
  ASSUME TreeInv, NEW c \in Cpus, NEW d \in Domains, NEW b \in Addresses, NEW n \in Sizes,
         MapCalled(c, d, b, n)
  PROVE  TreeInv' /\ \E st \in {"new", "joining"} : Enters(d, b, n, st)
<1>1. CASE /\ b \in DOMAIN tree[d] /\ tree[d][b] = [size |-> n, state |-> "cached"]
           /\ SetNode(d, b, "new")
  <2>1. tree'[d][b] = [tree[d][b] EXCEPT !.state = "new"] /\ TreeInv'
        /\ (\A o \in DOMAIN tree[d] : o = b \/ tree'[d][o] = tree[d][o])
        /\ DOMAIN tree'[d] = DOMAIN tree[d] \cup {b}
    BY <1>1, NodeSet
  <2>2. [tree[d][b] EXCEPT !.state = "new"] = [size |-> n, state |-> "new"]
    BY <1>1
  <2>3. \A e \in Domains \ {d} : tree'[e] = tree[e]
    BY <1>1 DEF TreeInv, SetNode
  <2> QED
    BY <2>1, <2>2, <2>3 DEF Enters
<1>2. CASE tree' = [tree EXCEPT ![d] = [o \in DOMAIN tree[d] \cup {b} |->
                      IF o = b THEN [size |-> n, state |-> "joining"] ELSE tree[d][o]]]
  <2>1. /\ DOMAIN tree'[d] = DOMAIN tree[d] \cup {b}
        /\ tree'[d][b] = [size |-> n, state |-> "joining"]
        /\ \A o \in DOMAIN tree[d] : o = b \/ tree'[d][o] = tree[d][o]
        /\ \A e \in Domains \ {d} : tree'[e] = tree[e]
    BY <1>2 DEF TreeInv
  <2>2. TreeInv'
    BY <1>2, <2>1 DEF TreeInv
  <2> QED
    BY <2>1, <2>2 DEF Enters
<1> QED
  BY <1>1, <1>2 DEF MapCalled, SetNode

\* What a step of the IOMMU core does to a node that is not of a mapping in progress.
Sets(d, b, from, st) ==
  b \in DOMAIN tree[d] /\ tree[d][b].state \in from /\ SetNode(d, b, st)
Removes(d, b) == b \in DOMAIN tree[d] /\ tree[d][b].state = "leaving" /\ CutNode(d, b)

LEMMA TreeSteps ==
  ASSUME NEW d, NEW b, TreeStep(d, b)
  PROVE  /\ UNCHANGED <<monitored, ring, index, map, saved, asked, chosen, raced, maps>>
         /\ \/ Unmap(d, b) /\ Sets(d, b, {"live"}, "cached")
            \/ DropNode(d, b) /\ Sets(d, b, {"cached"}, "leaving")
            \/ chk' = chk /\ Sets(d, b, {"joining"}, "new")
            \/ chk' = chk /\ Removes(d, b)
BY DEF TreeStep, Unmap, DropNode, Rebalanced, Live, Sets, Removes, SetNode, CutNode

\* A mapping that ends leaves its node live, or cached when it failed.
LEMMA EndsNode ==
  ASSUME NEW c, Ends(c)
  PROVE  \E st \in {"live", "cached"} : SetNode(map[c].dom, map[c].base, st)
BY DEF Ends, Install, MapFails, SetNode

LEMMA NextTreeInv == IInv /\ TreeInv /\ [Next]_vars => TreeInv'
<1> SUFFICES ASSUME IInv, TreeInv, [Next]_vars PROVE TreeInv'
  OBVIOUS
<1>1. ASSUME NEW c \in Cpus, NEW d \in Domains, NEW b \in Addresses, NEW n \in Sizes,
             MapCalled(c, d, b, n)
      PROVE  TreeInv'
  BY <1>1, NodeEnters
<1>2. ASSUME NEW c \in Cpus, Ends(c) PROVE TreeInv'
  <2>1. map[c].dom \in Domains
    BY <1>2, Busy DEF Ends, Install, MapFails, At, Mapping, Scanning
  <2> QED
    BY <1>2, <2>1, EndsNode, NodeSet
<1>3. ASSUME NEW d \in Domains, NEW b \in Addresses, TreeStep(d, b) PROVE TreeInv'
  BY <1>3, TreeSteps, NodeSet, NodeGone DEF Sets, Removes
<1>4. UNCHANGED tree => TreeInv'
  BY DEF TreeInv
<1>5. \A c \in Cpus : Saves(c) => UNCHANGED tree
  BY SavesMove DEF Same
<1> QED
  BY <1>1, <1>2, <1>3, <1>4, <1>5, Steps, OtherSteps DEF vars

\* A mapping in progress has an address.
LEMMA MapBase ==
  ASSUME IInv, NEW c \in Cpus, ~At(c, "idle")
  PROVE  map[c].base \in Addresses /\ map[c].size \in Nat
BY DEF IInv, Mappings, Mapping, Scanning, IdleMap, At

\* A CPU that saves alone has an entry of the array before it.
LEMMA SaveSlot ==
  ASSUME RingInv, ~raced, NEW c \in Cpus, map[c].pc \in {"addr", "len", "advance"}
  PROVE  index \in Slots
<1>1. index # DMA_ARRAY_LEN
  BY DEF RingInv, Alone, InSave, At
<1> QED
  BY <1>1, IovaAssumption DEF RingInv, Slots

\* The installation and the call of a mapping: the CPU was and is not saving.
LEMMA EndsMove ==
  ASSUME IInv, NEW c \in Cpus,
         Ends(c) \/ \E d \in Domains, b \in Addresses, n \in Sizes : MapCalled(c, d, b, n)
  PROVE  /\ \A e \in Cpus \ {c} : map'[e] = map[e]
         /\ map[c].pc \in {"install", "idle"} /\ map'[c].pc \in {"idle", "test"}
         /\ UNCHANGED <<ring, index, saved, raced>>
<1>1. Ends(c) => \A e \in Cpus \ {c} : map'[e] = map[e]
  BY DEF Ends, Install, MapFails, IInv
<1>2. Ends(c) => /\ map[c].pc = "install" /\ map'[c].pc = "idle"
                    /\ UNCHANGED <<ring, index, saved, raced>>
  BY DEF Ends, Install, MapFails, IInv, IdleMap, At
<1>3. ASSUME NEW d \in Domains, NEW b \in Addresses, NEW n \in Sizes, MapCalled(c, d, b, n)
      PROVE  /\ \A e \in Cpus \ {c} : map'[e] = map[e]
             /\ map[c].pc = "idle" /\ map'[c].pc = "test" /\ UNCHANGED <<ring, index, saved, raced>>
  BY <1>3 DEF MapCalled, IInv, At
<1> QED
  BY <1>1, <1>2, <1>3

\* The steps that do not change the ring, its index or whether there was a race.
LEMMA RingKept ==
  ASSUME IInv, [Next]_vars
  PROVE  \/ \E c \in Cpus : Compare(c) /\ UNCHANGED <<ring, index>>
         \/ /\ UNCHANGED raced
            /\ \/ \E c \in Cpus : SaveAddr(c) \/ SaveLen(c) \/ Advance(c) \/ WrapIndex(c)
               \/ UNCHANGED <<ring, index>>
<1>1. ASSUME NEW c \in Cpus
      PROVE  /\ TestMonitored(c) \/ ScanSata(c) \/ Scanned(c) => UNCHANGED <<ring, index, raced>>
             /\ Compare(c) => UNCHANGED <<ring, index>>
  BY DEF TestMonitored, ScanSata, Scanned, Compare
<1>2. ASSUME NEW c \in Cpus
      PROVE  SaveAddr(c) \/ SaveLen(c) \/ Advance(c) \/ WrapIndex(c) => UNCHANGED raced
  BY DEF SaveAddr, SaveLen, Advance, WrapIndex
<1>3. ASSUME NEW d \in Domains, NEW b \in Addresses
      PROVE  TreeStep(d, b) => UNCHANGED <<ring, index, raced>>
  BY DEF TreeStep, Unmap, DropNode, Rebalanced
<1>4. Checks \/ Monitors \/ UNCHANGED vars => UNCHANGED <<ring, index, raced>>
  BY OtherSteps DEF vars
<1> QED
  BY <1>1, <1>2, <1>3, <1>4, Steps, EndsMove DEF Saves

\* A race is not forgotten; without one, who begins to save is the only one.
LEMMA NoRace ==
  ASSUME IInv, [Next]_vars, ~raced'
  PROVE  /\ ~raced
         /\ \A c \in Cpus : Compare(c) /\ InSave(c)' => \A e \in Cpus : ~InSave(e)
<1>1. ASSUME NEW c \in Cpus, Compare(c)
      PROVE  ~raced /\ (InSave(c)' => \A e \in Cpus : ~InSave(e))
  <2>1. ~raced /\ ~ (monitored = map[c].dom /\ \E e \in Cpus : InSave(e))
    BY <1>1 DEF Compare
  <2>2. CASE monitored # map[c].dom
    <3>1. map'[c].pc = "install"
      BY <1>1, <2>2, PcMoves DEF Compare, At, MapPCs
    <3> QED
      BY <2>1, <3>1 DEF InSave
  <2> QED
    BY <2>1, <2>2
<1> QED
  BY <1>1, RingKept

LEMMA AloneNext ==
  ASSUME IInv, RingInv, [Next]_vars, ~raced'
  PROVE  ~raced /\ Alone /\ Alone'
<1>1. ~raced /\ Alone
  BY NoRace DEF RingInv
<1>2. ASSUME NEW c \in Cpus, Saves(c) PROVE Alone'
  <2>1. \A e \in Cpus \ {c} : map'[e] = map[e]
    BY <1>2, SavesMove DEF Same
  <2>2. InSave(c)' => InSave(c) \/ \A e \in Cpus : ~InSave(e)
    <3>1. Compare(c) => (InSave(c)' => \A e \in Cpus : ~InSave(e))
      BY NoRace
    <3>2. SaveAddr(c) \/ SaveLen(c) \/ Advance(c) \/ WrapIndex(c) => InSave(c)
      BY DEF SaveAddr, SaveLen, Advance, WrapIndex, At, InSave
    <3>3. TestMonitored(c) \/ ScanSata(c) \/ Scanned(c) => ~InSave(c)'
      BY HookMoves DEF InSave
    <3> QED
      BY <1>2, <3>1, <3>2, <3>3 DEF Saves
  <2> QED
    BY <1>1, <2>1, <2>2 DEF Alone, InSave
<1>3. ASSUME NEW c \in Cpus,
             Ends(c) \/ \E d \in Domains, b \in Addresses, n \in Sizes : MapCalled(c, d, b, n)
      PROVE  Alone'
  <2>1. /\ \A e \in Cpus \ {c} : map'[e] = map[e]
        /\ map'[c].pc \in {"idle", "test"}
    BY <1>3, EndsMove
  <2> QED
    BY <1>1, <2>1 DEF Alone, InSave
<1>4. UNCHANGED map => Alone'
  BY <1>1 DEF Alone, InSave
<1> QED
  BY <1>1, <1>2, <1>3, <1>4, Steps, OtherSteps DEF TreeStep, Unmap, DropNode, Rebalanced, vars

\* While a CPU saves, before or after its step, the others do something else.
LEMMA SavesAlone ==
  ASSUME IInv, RingInv, [Next]_vars, ~raced', NEW c \in Cpus, Saves(c), InSave(c) \/ InSave(c)'
  PROVE  \A e \in Cpus \ {c} : ~InSave(e) /\ ~InSave(e)' /\ map'[e] = map[e]
<1>1. Alone /\ Alone' /\ \A e \in Cpus \ {c} : map'[e] = map[e]
  BY AloneNext, SavesMove DEF Same
<1> QED
  BY <1>1 DEF Alone, InSave

\* The types of the ring and its index hold whoever saves.
LEMMA RingTyped ==
  ASSUME IInv, RingInv, [Next]_vars
  PROVE  ring' \in [Slots -> Entry] /\ index' \in Nat /\ raced' \in BOOLEAN
<1>1. ASSUME NEW c \in Cpus, SaveAddr(c)
      PROVE  ring' \in [Slots -> Entry] /\ index' \in Nat /\ raced' \in BOOLEAN
  <2>1. /\ ring' = [ring EXCEPT ![index] = [ring[index] EXCEPT !.addr = map[c].base]]
        /\ UNCHANGED <<index, raced>>
    BY <1>1 DEF SaveAddr
  <2>2. index \in Slots => [ring[index] EXCEPT !.addr = map[c].base] \in Entry
    BY <1>1, MapBase DEF SaveAddr, RingInv, Entry, At
  <2> QED
    BY <2>1, <2>2 DEF RingInv
<1>2. ASSUME NEW c \in Cpus, SaveLen(c)
      PROVE  ring' \in [Slots -> Entry] /\ index' \in Nat /\ raced' \in BOOLEAN
  <2>1. /\ ring' = [ring EXCEPT ![index] = [ring[index] EXCEPT !.len = map[c].size % LenSpace]]
        /\ UNCHANGED <<index, raced>>
    BY <1>2 DEF SaveLen
  <2>2. map[c].size % LenSpace \in 0 .. LenSpace - 1
    BY <1>2, MapBase, IovaAssumption DEF IovaAssumption, SaveLen, At
  <2>3. index \in Slots => [ring[index] EXCEPT !.len = map[c].size % LenSpace] \in Entry
    BY <2>2 DEF RingInv, Entry
  <2> QED
    BY <2>1, <2>3 DEF RingInv
<1>3. ASSUME NEW c \in Cpus, Compare(c) PROVE UNCHANGED <<ring, index>> /\ raced' \in BOOLEAN
  BY <1>3 DEF Compare
<1>4. ASSUME NEW c \in Cpus, Advance(c) \/ WrapIndex(c)
      PROVE  UNCHANGED <<ring, raced>> /\ index' \in Nat
  BY <1>4 DEF Advance, WrapIndex, RingInv
<1> QED
  BY <1>1, <1>2, <1>3, <1>4, RingKept DEF RingInv

LEMMA NextRingInv == IInv /\ RingInv /\ [Next]_vars => RingInv'
<1> SUFFICES ASSUME IInv, RingInv, [Next]_vars PROVE RingInv'
  OBVIOUS
<1> DEFINE Inside == /\ index \in 0 .. DMA_ARRAY_LEN
                     /\ index = DMA_ARRAY_LEN => \E c \in Cpus : At(c, "wrap")
<1> SUFFICES ASSUME ~raced' PROVE Inside'
  BY AloneNext, RingTyped DEF RingInv
<1>0. ~raced /\ Inside
  BY AloneNext DEF RingInv
<1>1. ASSUME NEW c \in Cpus,
             \/ TestMonitored(c) \/ ScanSata(c) \/ Scanned(c) \/ Compare(c)
             \/ Ends(c) \/ \E d \in Domains, b \in Addresses, n \in Sizes : MapCalled(c, d, b, n)
      PROVE  Inside'
  <2>1. /\ map[c].pc # "wrap" /\ UNCHANGED index
        /\ \A e \in Cpus \ {c} : map'[e] = map[e]
    BY <1>1, HookMoves, EndsMove DEF Pc, Same
  <2> QED
    BY <1>0, <2>1 DEF At
<1>2. ASSUME NEW c \in Cpus, SaveAddr(c) \/ SaveLen(c) PROVE Inside'
  <2>1. map[c].pc \in {"addr", "len"} /\ UNCHANGED index
    BY <1>2, HookMoves DEF Pc
  <2>2. index \in Slots
    BY <1>0, <2>1, SaveSlot
  <2> QED
    BY <2>1, <2>2, IovaAssumption DEF Slots
<1>3. ASSUME NEW c \in Cpus, Advance(c) PROVE Inside'
  <2>1. map[c].pc = "advance" /\ index \in Slots
    BY <1>0, <1>3, SaveSlot DEF Advance, At
  <2>2. CASE index' = IF index + 1 >= DMA_ARRAY_LEN THEN 0 ELSE index + 1
    BY <2>1, <2>2, IovaAssumption DEF Slots
  <2>3. CASE index' = index + 1 /\ map' = [map EXCEPT ![c].pc = "wrap"]
    <3>1. At(c, "wrap")'
      BY <2>1, <2>3, PcMoves DEF At, MapPCs
    <3> QED
      BY <2>1, <2>3, <3>1, IovaAssumption DEF Slots
  <2> QED
    BY <1>3, <2>2, <2>3 DEF Advance
<1>4. ASSUME NEW c \in Cpus, WrapIndex(c) PROVE Inside'
  BY <1>0, <1>4, IovaAssumption DEF WrapIndex
<1>5. ASSUME UNCHANGED <<index, map>> PROVE Inside'
  BY <1>0, <1>5 DEF At
<1> QED
  BY <1>1, <1>2, <1>3, <1>4, <1>5, Steps, OtherSteps DEF Saves, TreeStep, Unmap, DropNode, Rebalanced, vars

\* However many CPUs map, whatever the test does meanwhile and however the compiler
\* stores the index, each store of bsa_iommu_iova_save_addr() is to an entry of the array
\* until two CPUs are in it at once (0001-BSA-ACS-Linux-6.0.patch:255-262).
THEOREM RingSafe == Spec => []TypeOK
<1>1. IInv /\ RingInv /\ TreeInv => TypeOK
  <2> SUFFICES ASSUME IInv, RingInv, TreeInv PROVE TypeOK
    OBVIOUS
  <2>1. ~raced => \A c \in Cpus : At(c, "addr") \/ At(c, "len") => index \in Slots
    BY SaveSlot DEF At
  <2> QED
    BY <2>1 DEF TypeOK, IInv, RingInv, TreeInv, Entry, Addresses
<1>2. IInv /\ RingInv /\ TreeInv /\ [Next]_vars => (RingInv /\ TreeInv)'
  BY NextRingInv, NextTreeInv
<1> QED
  BY <1>1, <1>2, InitRingInv, Invariance, PTL DEF Spec

-----------------------------------------------------------------------------
(***************************************************************************)
(* What the check finds: what the tree holds, and until two CPUs save at   *)
(* once the ring, belongs to mappings that were made or tried.             *)
(***************************************************************************)
Node == [size : Sizes, state : {"joining", "new", "live", "cached", "leaving"}]

\* A mapping has a node of its own until it ends, and a live node was installed.
NodeInv ==
  /\ \A d \in Domains : \A b \in DOMAIN tree[d] :
       /\ tree[d][b] \in Node
       /\ tree[d][b].state = "live" => {d} \X Span(b, tree[d][b].size) \subseteq asked
  /\ \A c \in Cpus : Busily(c) =>
       /\ map[c].size \in Sizes /\ map[c].base \in DOMAIN tree[map[c].dom]
       /\ tree[map[c].dom][map[c].base].size = map[c].size
       /\ tree[map[c].dom][map[c].base].state \in {"joining", "new"}
  /\ \A c, e \in Cpus : Busily(c) /\ Busily(e) /\ c # e =>
       <<map[c].dom, map[c].base>> # <<map[e].dom, map[e].base>>

\* An entry covers addresses of mappings that ended, but for the one being written and those
\* of the mappings that are about to end.
WasAsked(a) == \E d \in Domains : <<d, a>> \in asked
Covered(i) == Span(ring[i].addr, ring[i].len)
EntryInv ==
  ~raced => \A i \in Slots :
    \/ \A a \in Covered(i) : WasAsked(a)
    \/ \E c \in Cpus :
         \/ At(c, "len") /\ i = index
         \/ map[c].pc \in {"advance", "wrap", "install"} /\ Covered(i) \subseteq Span(map[c].base, map[c].size)
AddrInv ==
  ~raced => \A c \in Cpus : At(c, "len") => index \in Slots /\ ring[index].addr = map[c].base

CheckPCs == {"addr", "len", "walk", "SUCCESS", "ERR"}
CheckTyped ==
  \/ chk = [pc |-> "idle"]
  \/ /\ chk \in [pc : CheckPCs, port : Ports, addr : Addresses, i : Nat, node : Addresses \cup {NoNode},
                 first : Nat, amid : SUBSET {"mapped", "unmapped", "reshaped"}]
     /\ chk.pc = "len" => chk.i \in Slots
     /\ Attached(chk.port) /\ chk.first <= Len(saved)

\* No mapping has begun: nothing in the ring changes under the check.
Quiet == Checking /\ "mapped" \notin chk.amid
QuietInv ==
  Quiet =>
    /\ \A c \in Cpus : At(c, "idle")
    /\ chk.pc = "len" => chk.node = ring[chk.i].addr
    /\ chk.pc = "SUCCESS" /\ ~raced => WasAsked(chk.addr)

\* The entry the next mapping is saved in, and that of the k-th mapping saved, counted back
\* from it.
NextSlot ==
  LET i == IF \E c \in Cpus : At(c, "advance") THEN index + 1 ELSE index
  IN  IF i >= DMA_ARRAY_LEN THEN 0 ELSE i
SlotOf(k) ==
  LET s == NextSlot - 1 - (Len(saved) - k) IN IF s >= 0 THEN s ELSE s + DMA_ARRAY_LEN
Overwritten == Len(saved) - DMA_ARRAY_LEN
Overwriting == Overwritten + (IF \E c \in Cpus : At(c, "len") THEN 1 ELSE 0)

HistoryInv ==
  SavedWhole =>
    /\ Len(saved) < DMA_ARRAY_LEN => NextSlot = Len(saved)
    /\ \A k \in 1 .. Len(saved) :
         /\ saved[k].size \in Sizes
         /\ k > Overwritten => ring[SlotOf(k)].len = saved[k].size
         /\ k > Overwriting => ring[SlotOf(k)].addr = saved[k].base

\* What was in the ring before the check and still is, is not the address at the entries
\* it has passed.
Apart(k) == chk.addr \notin Span(saved[k].base, saved[k].size)
PassedInv ==
  Checking /\ SavedWhole =>
    \A k \in 1 .. chk.first : k > Overwriting =>
      /\ chk.pc \in {"addr", "len"} /\ SlotOf(k) < chk.i => Apart(k)
      /\ chk.pc = "len" /\ SlotOf(k) = chk.i => chk.node = saved[k].base
      /\ chk.pc \in {"walk", "ERR"} => Apart(k)

\* The walk has not gone past the node of an address that has been mapped all along.
Undisturbed == Checking /\ "unmapped" \notin chk.amid /\ "reshaped" \notin chk.amid
WalkInv ==
  Undisturbed =>
    LET d == DomainOf[chk.port]
    IN  /\ chk.pc # "ERR" /\ Settled(d)
        /\ chk.pc = "walk" => chk.node = NoNode \/ chk.node \in DOMAIN tree[d]
        /\ \E b \in Live(d) :
             /\ chk.addr \in Span(b, tree[d][b].size)
             /\ chk.pc = "walk" => chk.node = NoNode \/ b < chk.node

-----------------------------------------------------------------------------
\* The last node of a part of the tree.
LEMMA HighestIn ==
  ASSUME NEW S, S \subseteq Addresses, S # {}
  PROVE  Highest(S) \in S /\ \A y \in S : y <= Highest(S)
<1> DEFINE T == {Iovas - x : x \in S}
<1>1. Iovas \in Nat /\ \A x \in S : x \in Int /\ x < Iovas
  BY IovaAssumption DEF Addresses
<1>2. T \subseteq Nat /\ T # {}
  BY <1>1
<1>3. PICK m \in T : \A y \in T : ~ (<<y, m>> \in OpToRel(<, Nat))
  BY <1>2, NatLessThanWellFounded, WFMin
<1>4. \A y \in T : ~ (y < m)
  BY <1>2, <1>3 DEF OpToRel
<1>5. PICK x \in S : m = Iovas - x
  BY <1>3
<1>6. \A y \in S : y <= x
  <2>1. ASSUME NEW y \in S PROVE y <= x
    <3>1. Iovas - y \in T
      OBVIOUS
    <3>2. ~ (Iovas - y < Iovas - x)
      BY <1>4, <1>5, <3>1
    <3> QED
      BY <1>1, <3>2
  <2> QED
    BY <2>1
<1> QED
  BY <1>6 DEF Highest

\* The range given to a mapping has no node of a mapping that goes on.
LEMMA OwnNode ==
  ASSUME NodeInv, NEW c \in Cpus, NEW d \in Domains, NEW b \in Addresses, NEW n \in Sizes,
         MapCalled(c, d, b, n), NEW e \in Cpus, Busily(e)
  PROVE  <<map[e].dom, map[e].base>> # <<d, b>>
<1> SUFFICES ASSUME map[e].dom = d, map[e].base = b PROVE FALSE
  OBVIOUS
<1>1. /\ b \in DOMAIN tree[d] /\ tree[d][b].size \in Sizes /\ tree[d][b].state # "cached"
  BY DEF NodeInv
<1>2. tree[d][b] # [size |-> n, state |-> "cached"]
  BY <1>1
<1>3. Span(b, tree[d][b].size) \cap Span(b, n) = {}
  BY <1>1, <1>2 DEF MapCalled
<1>4. b \in Int /\ tree[d][b].size \in Nat \ {0} /\ n \in Nat \ {0}
  BY <1>1, IovaAssumption DEF IovaAssumption, Addresses
<1> QED
  BY <1>3, <1>4 DEF Span

LEMMA NodeNext ==
  ASSUME IInv, TreeInv, NodeInv, [Next]_vars
  PROVE  NodeInv'
<1> USE DEF NodeInv, Busily, At, Addresses
<1>1. ASSUME NEW c \in Cpus, Saves(c) PROVE NodeInv'
  <2>1. /\ UNCHANGED <<tree, asked>>
        /\ \A e \in Cpus : /\ map'[e].dom = map[e].dom /\ map'[e].base = map[e].base
                          /\ map'[e].size = map[e].size /\ (Busily(e)' => Busily(e))
    BY <1>1, SavesMove DEF Same
  <2> QED
    BY <2>1
<1>2. ASSUME NEW c \in Cpus, Ends(c) PROVE NodeInv'
  <2> DEFINE d == map[c].dom
             b == map[c].base
             n == map[c].size
  <2>1. /\ Busily(c) /\ d \in Domains /\ b \in DOMAIN tree[d] /\ n \in Sizes
        /\ tree[d][b] \in Node /\ tree[d][b].size = n
    BY <1>2, Busy DEF Ends, Install, MapFails, Mapping, Scanning
  <2>2. asked' = asked \cup {d} \X Span(b, n) /\ map' = [map EXCEPT ![c] = IdleMap]
    BY <1>2 DEF Ends, Install, MapFails
  <2>3. PICK st \in {"live", "cached"} :
          SetNode(d, b, st)
    BY <1>2, EndsNode
  <2> HIDE DEF d, b, n
  <2>4. /\ \A e \in Domains : /\ DOMAIN tree'[e] = DOMAIN tree[e]
                             /\ \A o \in DOMAIN tree[e] : (e = d /\ o = b) \/ tree'[e][o] = tree[e][o]
        /\ tree'[d][b] \in Node /\ tree'[d][b].size = n
    <3> HIDE DEF NodeInv, Busily
    <3>1. /\ \A e \in Domains : /\ DOMAIN tree'[e] = DOMAIN tree[e]
                               /\ \A o \in DOMAIN tree[e] : (e = d /\ o = b) \/ tree'[e][o] = tree[e][o]
          /\ tree'[d][b] = [tree[d][b] EXCEPT !.state = st]
      BY <2>1, <2>3, NodeSet
    <3> QED
      BY <2>1, <3>1 DEF Node
  <2>5. ASSUME NEW e \in Domains, NEW o \in DOMAIN tree'[e]
        PROVE  /\ tree'[e][o] \in Node
               /\ tree'[e][o].state = "live" => {e} \X Span(o, tree'[e][o].size) \subseteq asked'
    BY <2>2, <2>4
  <2>6. \A e \in Cpus : Busily(e)' => e # c /\ map'[e] = map[e] /\ Busily(e)
    BY <2>2 DEF IInv, IdleMap
  <2>7. ASSUME NEW e \in Cpus, Busily(e)'
        PROVE  /\ map'[e].size \in Sizes /\ map'[e].base \in DOMAIN tree'[map'[e].dom]
               /\ tree'[map'[e].dom][map'[e].base].size = map'[e].size
               /\ tree'[map'[e].dom][map'[e].base].state \in {"joining", "new"}
    <3>1. /\ e # c /\ map'[e] = map[e] /\ Busily(e) /\ map[e].dom \in Domains
          /\ map[e].base \in DOMAIN tree[map[e].dom]
      BY <2>6, <2>7, Busy DEF Mapping, Scanning
    <3>2. <<map[e].dom, map[e].base>> # <<d, b>>
      BY <2>1, <3>1 DEF d, b
    <3>3. /\ DOMAIN tree'[map[e].dom] = DOMAIN tree[map[e].dom]
          /\ tree'[map[e].dom][map[e].base] = tree[map[e].dom][map[e].base]
      BY <2>4, <3>1, <3>2
    <3> QED
      BY <3>1, <3>3
  <2>8. \A e, f \in Cpus : Busily(e)' /\ Busily(f)' /\ e # f =>
          <<map'[e].dom, map'[e].base>> # <<map'[f].dom, map'[f].base>>
    BY <2>6
  <2> QED
    BY <2>5, <2>7, <2>8
<1>3. ASSUME NEW c \in Cpus, NEW d \in Domains, NEW b \in Addresses, NEW n \in Sizes,
             MapCalled(c, d, b, n)
      PROVE  NodeInv'
  <2>1. asked' = asked
    BY <1>3 DEF MapCalled
  <2>2. PICK st \in {"new", "joining"} : Enters(d, b, n, st)
    BY <1>3, NodeEnters
  <2>3. /\ DOMAIN tree'[d] = DOMAIN tree[d] \cup {b} /\ tree'[d][b] = [size |-> n, state |-> st]
        /\ \A o \in DOMAIN tree[d] : o = b \/ tree'[d][o] = tree[d][o]
        /\ \A e \in Domains \ {d} : tree'[e] = tree[e]
    BY <2>2 DEF Enters
  <2>3a. tree'[d][b] \in Node /\ tree'[d][b].state = st /\ tree'[d][b].size = n /\ st # "live"
    BY <2>3 DEF Node
  <2>4. ASSUME NEW e \in Domains, NEW o \in DOMAIN tree'[e]
        PROVE  /\ tree'[e][o] \in Node
               /\ tree'[e][o].state = "live" => {e} \X Span(o, tree'[e][o].size) \subseteq asked'
    BY <2>1, <2>3, <2>3a
  <2>5. /\ map'[c] = [pc |-> "test", dom |-> d, base |-> b, size |-> n]
        /\ \A e \in Cpus \ {c} : map'[e] = map[e]
    BY <1>3 DEF MapCalled, IInv
  <2>6. ASSUME NEW e \in Cpus \ {c}, Busily(e)
        PROVE  <<map[e].dom, map[e].base>> # <<d, b>>
    BY <1>3, <2>6, OwnNode
  <2>7. ASSUME NEW e \in Cpus, Busily(e)'
        PROVE  /\ map'[e].size \in Sizes /\ map'[e].base \in DOMAIN tree'[map'[e].dom]
               /\ tree'[map'[e].dom][map'[e].base].size = map'[e].size
               /\ tree'[map'[e].dom][map'[e].base].state \in {"joining", "new"}
    <3>1. CASE e = c
      <4>1. map'[e].size = n /\ map'[e].dom = d /\ map'[e].base = b
        BY <2>5, <3>1
      <4> QED
        BY <2>3, <2>3a, <4>1
    <3>2. CASE e # c
      <4>1. map'[e] = map[e] /\ Busily(e) /\ map[e].dom \in Domains
        BY <2>5, <2>7, <3>2, Busy DEF Mapping, Scanning
      <4>2. <<map[e].dom, map[e].base>> # <<d, b>>
        BY <2>6, <3>2, <4>1
      <4>3. /\ map[e].base \in DOMAIN tree[map[e].dom]
            /\ map[e].base \in DOMAIN tree'[map[e].dom]
            /\ tree'[map[e].dom][map[e].base] = tree[map[e].dom][map[e].base]
        BY <2>3, <4>1, <4>2
      <4> QED
        BY <4>1, <4>3
    <3> QED
      BY <3>1, <3>2
  <2>8. \A e, f \in Cpus : Busily(e)' /\ Busily(f)' /\ e # f =>
          <<map'[e].dom, map'[e].base>> # <<map'[f].dom, map'[f].base>>
    BY <2>5, <2>6
  <2> QED
    BY <2>4, <2>7, <2>8
<1>4. ASSUME NEW d \in Domains, NEW b \in Addresses, NEW from, NEW st \in {"new", "cached", "leaving"},
             Sets(d, b, from, st), UNCHANGED <<map, asked>>,
             from \cap {"joining", "new"} = {} \/ st = "new"
      PROVE  NodeInv'
  <2>1. b \in DOMAIN tree[d] /\ tree[d][b] \in Node /\ tree[d][b].state \in from
    BY <1>4 DEF Sets
  <2>2. /\ \A e \in Domains : /\ DOMAIN tree'[e] = DOMAIN tree[e]
                             /\ \A o \in DOMAIN tree[e] : (e = d /\ o = b) \/ tree'[e][o] = tree[e][o]
        /\ tree'[d][b] = [tree[d][b] EXCEPT !.state = st]
    <3> HIDE DEF NodeInv, Busily
    <3> QED
      BY <1>4, NodeSet DEF Sets
  <2>3. tree'[d][b] \in Node /\ tree'[d][b].state = st /\ tree'[d][b].size = tree[d][b].size
    <3> HIDE DEF NodeInv, Busily
    <3> QED
      BY <2>1, <2>2 DEF Node
  <2>4. ASSUME NEW e \in Domains, NEW o \in DOMAIN tree'[e]
        PROVE  /\ tree'[e][o] \in Node
               /\ tree'[e][o].state = "live" => {e} \X Span(o, tree'[e][o].size) \subseteq asked'
    <3>1. CASE e = d /\ o = b
      BY <2>3, <3>1
    <3>2. CASE ~(e = d /\ o = b)
      BY <1>4, <2>2, <3>2
    <3> QED
      BY <3>1, <3>2
  <2>5. ASSUME NEW c \in Cpus, Busily(c)
        PROVE  /\ map[c].size \in Sizes /\ map[c].base \in DOMAIN tree'[map[c].dom]
               /\ tree'[map[c].dom][map[c].base].size = map[c].size
               /\ tree'[map[c].dom][map[c].base].state \in {"joining", "new"}
    <3>1. map[c].dom \in Domains
      BY <2>5, Busy DEF Mapping, Scanning
    <3>2. CASE map[c].dom = d /\ map[c].base = b
      BY <1>4, <2>1, <2>2, <2>3, <2>5, <3>2
    <3>3. CASE ~(map[c].dom = d /\ map[c].base = b)
      BY <2>2, <2>5, <3>1, <3>3
    <3> QED
      BY <3>2, <3>3
  <2> QED
    BY <1>4, <2>4, <2>5
<1>5. ASSUME NEW d \in Domains, NEW b \in Addresses, Removes(d, b), UNCHANGED <<map, asked>>
      PROVE  NodeInv'
  <2>1. b \in DOMAIN tree[d] /\ tree[d][b].state = "leaving"
    BY <1>5 DEF Removes
  <2>2. ASSUME NEW e \in Domains
        PROVE  /\ DOMAIN tree'[e] = IF e = d THEN DOMAIN tree[e] \ {b} ELSE DOMAIN tree[e]
               /\ \A o \in DOMAIN tree'[e] : tree'[e][o] = tree[e][o]
    BY <1>5, NodeGone DEF Removes
  <2>3. ASSUME NEW e \in Domains, NEW o \in DOMAIN tree'[e]
        PROVE  /\ tree'[e][o] \in Node
               /\ tree'[e][o].state = "live" => {e} \X Span(o, tree'[e][o].size) \subseteq asked'
    BY <1>5, <2>2
  <2>4. ASSUME NEW c \in Cpus, Busily(c)
        PROVE  /\ map[c].size \in Sizes /\ map[c].base \in DOMAIN tree'[map[c].dom]
               /\ tree'[map[c].dom][map[c].base].size = map[c].size
               /\ tree'[map[c].dom][map[c].base].state \in {"joining", "new"}
    <3>1. map[c].dom \in Domains
      BY <2>4, Busy DEF Mapping, Scanning
    <3> QED
      BY <2>1, <2>2, <2>4, <3>1
  <2> QED
    BY <1>5, <2>3, <2>4
<1>5a. ASSUME NEW d \in Domains, NEW b \in Addresses, TreeStep(d, b) PROVE NodeInv'
  <2>1. CASE Sets(d, b, {"live"}, "cached")
    BY <1>4, <1>5a, <2>1, TreeSteps
  <2>2. CASE Sets(d, b, {"cached"}, "leaving")
    BY <1>4, <1>5a, <2>2, TreeSteps
  <2>3. CASE Sets(d, b, {"joining"}, "new")
    BY <1>4, <1>5a, <2>3, TreeSteps
  <2>4. CASE Removes(d, b)
    BY <1>5, <1>5a, <2>4, TreeSteps
  <2> QED
    BY <1>5a, <2>1, <2>2, <2>3, <2>4, TreeSteps
<1>6. CASE Checks \/ Monitors \/ UNCHANGED vars
  <2>1. UNCHANGED <<map, tree, asked>>
    BY <1>6, OtherSteps DEF vars
  <2> QED
    BY <2>1
<1> QED
  BY <1>1, <1>2, <1>3, <1>5a, <1>6, Steps

\* A size below 2^32 is saved as it is, a larger one smaller.
LEMMA SavedLength ==
  ASSUME NEW n \in Sizes
  PROVE  n % LenSpace \in 0 .. LenSpace - 1 /\ n % LenSpace <= n /\ (n < LenSpace => n % LenSpace = n)
<1>1. n \in Nat \ {0} /\ LenSpace \in Nat \ {0}
  BY IovaAssumption
<1> QED
  BY <1>1

LEMMA EntryNext ==
  ASSUME IInv, RingInv, NodeInv, EntryInv, AddrInv, [Next]_vars
  PROVE  EntryInv' /\ AddrInv'
<1> DEFINE Pending(c, i) ==
             \/ At(c, "len") /\ i = index
             \/ /\ map[c].pc \in {"advance", "wrap", "install"}
                /\ Covered(i) \subseteq Span(map[c].base, map[c].size)
           Entries == \A i \in Slots : \/ \A a \in Covered(i) : WasAsked(a)
                                     \/ \E c \in Cpus : Pending(c, i)
           Addrs == \A c \in Cpus : At(c, "len") => index \in Slots /\ ring[index].addr = map[c].base
<1> SUFFICES ASSUME ~raced' PROVE Entries' /\ Addrs'
  BY DEF EntryInv, AddrInv
<1>0. /\ ~raced /\ Entries /\ Addrs
      /\ \A i \in Slots : ring[i].addr \in Int /\ ring[i].len \in Int
  BY NoRace, IovaAssumption DEF EntryInv, AddrInv, RingInv, Entry, Addresses
<1> USE DEF At, Covered, WasAsked
<1>1. ASSUME NEW c \in Cpus, TestMonitored(c) \/ ScanSata(c) \/ Scanned(c) \/ Compare(c)
      PROVE  Entries' /\ Addrs'
  <2>1. /\ map[c].pc \in {"test", "scan", "compare"} /\ map'[c].pc \notin {"len"}
        /\ UNCHANGED <<ring, index, asked>> /\ \A e \in Cpus \ {c} : map'[e] = map[e]
    BY <1>1, HookMoves DEF Pc, Same
  <2>2. Addrs' /\ \A e \in Cpus, i \in Slots : Pending(e, i) => Pending(e, i)'
    BY <1>0, <2>1
  <2> HIDE DEF Pending
  <2> QED
    BY <1>0, <2>1, <2>2
<1>2. ASSUME NEW c \in Cpus, SaveAddr(c) PROVE Entries' /\ Addrs'
  <2>1. /\ map[c].pc = "addr" /\ map'[c].pc = "len" /\ map'[c].base = map[c].base
        /\ UNCHANGED <<index, asked>>
    BY <1>2, HookMoves DEF Pc, Same
  <2>2. \A e \in Cpus \ {c} : ~InSave(e) /\ ~InSave(e)' /\ map'[e] = map[e]
    BY <1>2, <2>1, SavesAlone DEF Saves, InSave
  <2>3. index \in Slots /\ ring' = [ring EXCEPT ![index] = [ring[index] EXCEPT !.addr = map[c].base]]
    BY <1>0, <1>2, <2>1, SaveSlot DEF SaveAddr
  <2>4. ring'[index].addr = map[c].base /\ \A i \in Slots \ {index} : ring'[i] = ring[i]
    BY <2>3 DEF RingInv, Entry
  <2>5. Addrs'
    BY <2>1, <2>2, <2>3, <2>4 DEF InSave
  <2>6. ASSUME NEW i \in Slots
        PROVE  (\A a \in Covered(i) : WasAsked(a))' \/ \E e \in Cpus : Pending(e, i)'
    <3>1. CASE i = index
      BY <2>1, <3>1
    <3>2. CASE i # index
      <4>1. \A e \in Cpus : Pending(e, i) => Pending(e, i)'
        BY <2>1, <2>2, <2>4, <3>2 DEF InSave
      <4>2. ring'[i] = ring[i] /\ asked' = asked
        BY <2>1, <2>4, <3>2
      <4> HIDE DEF Pending
      <4> QED
        BY <1>0, <4>1, <4>2
    <3> QED
      BY <3>1, <3>2
  <2> QED
    BY <2>5, <2>6
<1>3. ASSUME NEW c \in Cpus, SaveLen(c) PROVE Entries' /\ Addrs'
  <2>1. /\ map[c].pc = "len" /\ map'[c].pc = "advance" /\ map'[c].base = map[c].base
        /\ map'[c].size = map[c].size /\ UNCHANGED <<index, asked>>
    BY <1>3, HookMoves DEF Pc, Same
  <2>2. \A e \in Cpus \ {c} : ~InSave(e) /\ ~InSave(e)' /\ map'[e] = map[e]
    BY <1>3, <2>1, SavesAlone DEF Saves, InSave
  <2>3. /\ index \in Slots /\ ring[index].addr = map[c].base /\ map[c].size \in Sizes
        /\ ring' = [ring EXCEPT ![index] = [ring[index] EXCEPT !.len = map[c].size % LenSpace]]
    BY <1>0, <1>3, <2>1 DEF SaveLen, NodeInv, Busily
  <2>4. /\ ring'[index].addr = map[c].base /\ ring'[index].len = map[c].size % LenSpace
        /\ \A i \in Slots \ {index} : ring'[i] = ring[i]
    BY <2>3 DEF RingInv, Entry
  <2>5. Span(map[c].base, map[c].size % LenSpace) \subseteq Span(map[c].base, map[c].size)
    <3>1. map[c].size % LenSpace <= map[c].size /\ map[c].size % LenSpace \in Int
          /\ map[c].size \in Int /\ map[c].base \in Int
      BY <1>0, <2>3, SavedLength, IovaAssumption
    <3> QED
      BY <3>1 DEF Span
  <2>6. Addrs'
    BY <2>1, <2>2 DEF InSave
  <2>7. ASSUME NEW i \in Slots
        PROVE  (\A a \in Covered(i) : WasAsked(a))' \/ \E e \in Cpus : Pending(e, i)'
    <3>1. CASE i = index
      <4>1. Pending(c, i)'
        BY <2>1, <2>4, <2>5, <3>1
      <4> QED
        BY <4>1
    <3>2. CASE i # index
      <4>1. \A e \in Cpus : Pending(e, i) => Pending(e, i)'
        BY <2>1, <2>2, <2>4, <3>2 DEF InSave
      <4>2. ring'[i] = ring[i] /\ asked' = asked
        BY <2>1, <2>4, <3>2
      <4> HIDE DEF Pending
      <4> QED
        BY <1>0, <4>1, <4>2
    <3> QED
      BY <3>1, <3>2
  <2> QED
    BY <2>6, <2>7
<1>4. ASSUME NEW c \in Cpus, Advance(c) \/ WrapIndex(c) PROVE Entries' /\ Addrs'
  <2>1. /\ map[c].pc \in {"advance", "wrap"} /\ map'[c].pc \in {"wrap", "install"}
        /\ map'[c].base = map[c].base /\ map'[c].size = map[c].size /\ UNCHANGED <<ring, asked>>
    BY <1>4, HookMoves DEF Pc, Same
  <2>2. \A e \in Cpus \ {c} : ~InSave(e) /\ ~InSave(e)' /\ map'[e] = map[e]
    BY <1>4, <2>1, SavesAlone DEF Saves, InSave
  <2>3. Addrs'
    BY <2>1, <2>2 DEF InSave
  <2>4. ASSUME NEW i \in Slots, NEW e \in Cpus, Pending(e, i) PROVE Pending(e, i)'
    BY <2>1, <2>2, <2>4 DEF InSave
  <2> HIDE DEF Pending
  <2>5. Entries'
    BY <1>0, <2>1, <2>4
  <2> QED
    BY <2>3, <2>5
<1>5. ASSUME NEW c \in Cpus, Ends(c) PROVE Entries' /\ Addrs'
  <2>1. /\ map[c].pc = "install" /\ map'[c].pc = "idle" /\ UNCHANGED <<ring, index>>
        /\ \A e \in Cpus \ {c} : map'[e] = map[e]
    BY <1>5, EndsMove DEF Ends, Install, MapFails, IInv, IdleMap
  <2>2. /\ map[c].dom \in Domains
        /\ asked' = asked \cup {map[c].dom} \X Span(map[c].base, map[c].size)
    BY <1>5, <2>1, Busy DEF Ends, Install, MapFails, Mapping, Scanning
  <2>3. /\ \A a : WasAsked(a) => WasAsked(a)'
        /\ \A a \in Span(map[c].base, map[c].size) : WasAsked(a)'
    BY <2>2
  <2>4. ASSUME NEW i \in Slots, NEW e \in Cpus, Pending(e, i)
        PROVE  (\A a \in Covered(i) : WasAsked(a))' \/ Pending(e, i)'
    <3>1. CASE e = c
      BY <2>1, <2>3, <2>4, <3>1
    <3>2. CASE e # c
      BY <2>1, <2>4, <3>2
    <3> QED
      BY <3>1, <3>2
  <2>5. Addrs'
    BY <1>0, <2>1
  <2> HIDE DEF Pending
  <2>6. Entries'
    BY <1>0, <2>1, <2>3, <2>4
  <2> QED
    BY <2>5, <2>6
<1>6. ASSUME NEW c \in Cpus, NEW d \in Domains, NEW b \in Addresses, NEW n \in Sizes,
             MapCalled(c, d, b, n)
      PROVE  Entries' /\ Addrs'
  <2>1. /\ map[c].pc = "idle" /\ map'[c].pc = "test" /\ UNCHANGED <<ring, index, asked>>
        /\ \A e \in Cpus \ {c} : map'[e] = map[e]
    BY <1>6 DEF MapCalled, IInv
  <2>2. Addrs' /\ \A e \in Cpus, i \in Slots : Pending(e, i) => Pending(e, i)'
    BY <1>0, <2>1
  <2> HIDE DEF Pending
  <2> QED
    BY <1>0, <2>1, <2>2
<1>7. CASE \/ \E d \in Domains, b \in Addresses : TreeStep(d, b)
           \/ Checks \/ Monitors \/ UNCHANGED vars
  <2>1. UNCHANGED <<map, ring, index, asked>>
    BY <1>7, OtherSteps DEF vars, TreeStep, Unmap, DropNode, Rebalanced
  <2> QED
    BY <1>0, <2>1
<1> QED
  BY <1>1, <1>2, <1>3, <1>4, <1>5, <1>6, <1>7, Steps DEF Saves

-----------------------------------------------------------------------------
(* The check's own variables. *)
CheckState ==
  [pc : CheckPCs, port : Ports, addr : Addresses, i : Nat, node : Addresses \cup {NoNode},
   first : Nat, amid : SUBSET {"mapped", "unmapped", "reshaped"}]

LEMMA CheckIs ==
  ASSUME CheckTyped
  PROVE  /\ Checking => chk \in CheckState /\ DomainOf[chk.port] \in Domains /\ chk.first <= Len(saved)
         /\ chk.pc = "len" => chk.i \in Slots
BY Constants DEF CheckTyped, Checking, CheckState, Attached

\* A field that is set to what it is.
LEMMA CheckSame ==
  ASSUME chk \in CheckState, NEW q, NEW n, NEW j
  PROVE  /\ [chk EXCEPT !.pc = q] = [chk EXCEPT !.pc = q, !.node = chk.node, !.i = chk.i]
         /\ [chk EXCEPT !.pc = q, !.node = n] = [chk EXCEPT !.pc = q, !.node = n, !.i = chk.i]
         /\ [chk EXCEPT !.pc = q, !.i = j] = [chk EXCEPT !.pc = q, !.node = chk.node, !.i = j]
         /\ [chk EXCEPT !.node = n] = [chk EXCEPT !.pc = chk.pc, !.node = n, !.i = chk.i]
BY DEF CheckState

\* The steps of a check that goes on.
LEMMA CheckMoves ==
  ASSUME CheckTyped, CheckSteps, RingInv, TreeInv
  PROVE  /\ Checking /\ Checking' /\ chk' \in CheckState
         /\ chk'.port = chk.port /\ chk'.addr = chk.addr /\ chk'.first = chk.first /\ chk'.amid = chk.amid
         /\ UNCHANGED <<monitored, ring, index, map, tree, saved, asked, chosen, raced, maps>>
<1>1. Checking
  BY DEF CheckSteps, GetAddr, GetNone, GetLen, Walk, Checking
<1>2. chk \in CheckState /\ DomainOf[chk.port] \in Domains
  BY <1>1, CheckIs
<1>3. UNCHANGED <<monitored, ring, index, map, tree, saved, asked, chosen, raced, maps>>
  BY DEF CheckSteps, GetAddr, GetNone, GetLen, Walk
<1>4. ASSUME NEW q \in CheckPCs, NEW n \in Addresses \cup {NoNode}, NEW j \in Nat,
             chk' = [chk EXCEPT !.pc = q, !.node = n, !.i = j]
      PROVE  /\ Checking' /\ chk' \in CheckState
             /\ chk'.port = chk.port /\ chk'.addr = chk.addr /\ chk'.first = chk.first /\ chk'.amid = chk.amid
  BY <1>2, <1>4 DEF CheckState, Checking, CheckPCs
<1>5. \E q \in CheckPCs, n \in Addresses \cup {NoNode}, j \in Nat :
        chk' = [chk EXCEPT !.pc = q, !.node = n, !.i = j]
  <2>0. chk.pc \in CheckPCs /\ chk.node \in Addresses \cup {NoNode} /\ chk.i \in Nat /\ chk.i + 1 \in Nat
        /\ {"addr", "len", "walk", "SUCCESS", "ERR"} \subseteq CheckPCs
    BY <1>2 DEF CheckState, CheckPCs
  <2>1. CASE GetAddr
    <3>1. chk.i \in Slots
      BY <2>0, <2>1, IovaAssumption DEF GetAddr, Slots
    <3>2. ring[chk.i].addr \in Addresses
      BY <3>1 DEF RingInv, Entry
    <3>3. chk' = [chk EXCEPT !.pc = "len", !.node = ring[chk.i].addr, !.i = chk.i]
      BY <1>2, <2>1, CheckSame DEF GetAddr
    <3> QED
      BY <2>0, <3>2, <3>3
  <2>2. CASE GetNone
    <3>1. chk' = [chk EXCEPT !.pc = "walk", !.node = NoNode, !.i = chk.i]
      BY <1>2, <2>2, CheckSame DEF GetNone
    <3> QED
      BY <2>0, <3>1
  <2>3. CASE GetLen
    <3>1. \/ chk' = [chk EXCEPT !.pc = "walk", !.node = NoNode]
          \/ chk' = [chk EXCEPT !.pc = "SUCCESS"]
          \/ chk' = [chk EXCEPT !.pc = "addr", !.i = chk.i + 1]
      BY <2>3 DEF GetLen
    <3>2. \/ chk' = [chk EXCEPT !.pc = "walk", !.node = NoNode, !.i = chk.i]
          \/ chk' = [chk EXCEPT !.pc = "SUCCESS", !.node = chk.node, !.i = chk.i]
          \/ chk' = [chk EXCEPT !.pc = "addr", !.node = chk.node, !.i = chk.i + 1]
      BY <1>2, <3>1, CheckSame
    <3> QED
      BY <2>0, <3>2
  <2>4. CASE Walk
    <3> DEFINE d == DomainOf[chk.port]
    <3>1. PICK b \in NextNodes(d, chk.node) :
            \/ chk' = [chk EXCEPT !.pc = "ERR"]
            \/ chk' = [chk EXCEPT !.pc = "SUCCESS"]
            \/ chk' = [chk EXCEPT !.node = b]
      BY <2>4 DEF Walk
    <3>2. b \in Addresses \cup {NoNode}
      <4>1. Below(d, chk.node) \subseteq Addresses /\ DOMAIN tree[d] \subseteq Addresses
        BY <1>2 DEF Below, TreeInv
      <4> QED
        BY <3>1, <4>1, HighestIn DEF NextNodes
    <3>3. \/ chk' = [chk EXCEPT !.pc = "ERR", !.node = chk.node, !.i = chk.i]
          \/ chk' = [chk EXCEPT !.pc = "SUCCESS", !.node = chk.node, !.i = chk.i]
          \/ chk' = [chk EXCEPT !.pc = chk.pc, !.node = b, !.i = chk.i]
      BY <1>2, <3>1, CheckSame
    <3> QED
      BY <2>0, <3>2, <3>3
  <2> QED
    BY <2>1, <2>2, <2>3, <2>4 DEF CheckSteps
<1> QED
  BY <1>1, <1>3, <1>4, <1>5

\* What each of them does to the variables it reads.
LEMMA CheckReads ==
  ASSUME CheckTyped, RingInv
  PROVE  /\ GetAddr => /\ chk.pc = "addr" /\ chk.i \in Slots
                       /\ chk'.pc = "len" /\ chk'.i = chk.i /\ chk'.node = ring[chk.i].addr
         /\ GetNone => chk.pc = "addr" /\ chk.i >= DMA_ARRAY_LEN /\ chk'.pc = "walk" /\ chk'.node = NoNode
         /\ GetLen => /\ chk.pc = "len" /\ chk.i \in Slots
                      /\ \/ ring[chk.i].len = 0 /\ chk'.pc = "walk" /\ chk'.node = NoNode
                         \/ chk.addr \in Span(chk.node, ring[chk.i].len) /\ chk'.pc = "SUCCESS"
                         \/ /\ chk.addr \notin Span(chk.node, ring[chk.i].len)
                            /\ chk'.pc = "addr" /\ chk'.i = chk.i + 1
         /\ Walk => /\ chk.pc = "walk"
                    /\ LET d == DomainOf[chk.port] IN \E b \in NextNodes(d, chk.node) :
                         \/ b = NoNode /\ chk'.pc = "ERR"
                         \/ /\ b \in Live(d) /\ chk.addr \in Span(b, tree[d][b].size)
                            /\ chk'.pc = "SUCCESS"
                         \/ /\ b # NoNode /\ ~ (b \in Live(d) /\ chk.addr \in Span(b, tree[d][b].size))
                            /\ chk'.pc = "walk" /\ chk'.node = b
<1>1. ASSUME Checking
      PROVE  /\ chk \in CheckState /\ chk.i \in Nat /\ (chk.pc = "len" => chk.i \in Slots)
             /\ \A q, n, j : /\ [chk EXCEPT !.pc = q, !.node = n, !.i = j].pc = q
                             /\ [chk EXCEPT !.pc = q, !.node = n, !.i = j].node = n
                             /\ [chk EXCEPT !.pc = q, !.node = n, !.i = j].i = j
  BY <1>1, CheckIs DEF CheckState
<1>2. ASSUME GetAddr
      PROVE  /\ chk.pc = "addr" /\ chk.i \in Slots
             /\ chk'.pc = "len" /\ chk'.i = chk.i /\ chk'.node = ring[chk.i].addr
  <2>1. chk.pc = "addr" /\ chk.i < DMA_ARRAY_LEN /\ Checking
    BY <1>2 DEF GetAddr, Checking
  <2>2. chk' = [chk EXCEPT !.pc = "len", !.node = ring[chk.i].addr, !.i = chk.i]
    BY <1>1, <1>2, <2>1, CheckSame DEF GetAddr
  <2> QED
    BY <1>1, <2>1, <2>2, IovaAssumption DEF Slots
<1>3. ASSUME GetNone
      PROVE  chk.pc = "addr" /\ chk.i >= DMA_ARRAY_LEN /\ chk'.pc = "walk" /\ chk'.node = NoNode
  <2>1. Checking
    BY <1>3 DEF GetNone, Checking
  <2>2. chk' = [chk EXCEPT !.pc = "walk", !.node = NoNode, !.i = chk.i]
    BY <1>1, <1>3, <2>1, CheckSame DEF GetNone
  <2> QED
    BY <1>1, <1>3, <2>1, <2>2 DEF GetNone
<1>4. ASSUME GetLen
      PROVE  /\ chk.pc = "len" /\ chk.i \in Slots
             /\ \/ ring[chk.i].len = 0 /\ chk'.pc = "walk" /\ chk'.node = NoNode
                \/ chk.addr \in Span(chk.node, ring[chk.i].len) /\ chk'.pc = "SUCCESS"
                \/ /\ chk.addr \notin Span(chk.node, ring[chk.i].len)
                   /\ chk'.pc = "addr" /\ chk'.i = chk.i + 1
  <2>1. Checking /\ chk.pc = "len"
    BY <1>4 DEF GetLen, Checking
  <2>2. ring[chk.i].len \in Nat
    BY <1>1, <2>1, IovaAssumption DEF RingInv, Entry
  <2>3. \/ ring[chk.i].len = 0 /\ chk' = [chk EXCEPT !.pc = "walk", !.node = NoNode]
        \/ chk.addr \in Span(chk.node, ring[chk.i].len) /\ chk' = [chk EXCEPT !.pc = "SUCCESS"]
        \/ /\ chk.addr \notin Span(chk.node, ring[chk.i].len)
           /\ chk' = [chk EXCEPT !.pc = "addr", !.i = chk.i + 1]
    BY <1>4, <2>2 DEF GetLen
  <2>4. \/ ring[chk.i].len = 0 /\ chk' = [chk EXCEPT !.pc = "walk", !.node = NoNode, !.i = chk.i]
        \/ /\ chk.addr \in Span(chk.node, ring[chk.i].len)
           /\ chk' = [chk EXCEPT !.pc = "SUCCESS", !.node = chk.node, !.i = chk.i]
        \/ /\ chk.addr \notin Span(chk.node, ring[chk.i].len)
           /\ chk' = [chk EXCEPT !.pc = "addr", !.node = chk.node, !.i = chk.i + 1]
    BY <1>1, <2>1, <2>3, CheckSame
  <2>5. /\ chk' = [chk EXCEPT !.pc = "walk", !.node = NoNode, !.i = chk.i]
             => chk'.pc = "walk" /\ chk'.node = NoNode
        /\ chk' = [chk EXCEPT !.pc = "SUCCESS", !.node = chk.node, !.i = chk.i] => chk'.pc = "SUCCESS"
        /\ chk' = [chk EXCEPT !.pc = "addr", !.node = chk.node, !.i = chk.i + 1]
             => chk'.pc = "addr" /\ chk'.i = chk.i + 1
    <3>1. chk \in CheckState
      BY <1>1, <2>1
    <3> QED
      BY <3>1 DEF CheckState
  <2> QED
    BY <1>1, <2>1, <2>4, <2>5
<1>5. ASSUME Walk
      PROVE  /\ chk.pc = "walk"
             /\ LET d == DomainOf[chk.port] IN \E b \in NextNodes(d, chk.node) :
                  \/ b = NoNode /\ chk'.pc = "ERR"
                  \/ /\ b \in Live(d) /\ chk.addr \in Span(b, tree[d][b].size)
                     /\ chk'.pc = "SUCCESS"
                  \/ /\ b # NoNode /\ ~ (b \in Live(d) /\ chk.addr \in Span(b, tree[d][b].size))
                     /\ chk'.pc = "walk" /\ chk'.node = b
  <2> DEFINE d == DomainOf[chk.port]
  <2>1. Checking /\ chk.pc = "walk"
    BY <1>5 DEF Walk, Checking
  <2>2. PICK b \in NextNodes(d, chk.node) :
          \/ b = NoNode /\ chk' = [chk EXCEPT !.pc = "ERR"]
          \/ /\ b \in Live(d) /\ chk.addr \in Span(b, tree[d][b].size)
             /\ chk' = [chk EXCEPT !.pc = "SUCCESS"]
          \/ /\ b # NoNode /\ ~ (b \in Live(d) /\ chk.addr \in Span(b, tree[d][b].size))
             /\ chk' = [chk EXCEPT !.node = b]
    BY <1>5 DEF Walk
  <2>3. /\ chk' = [chk EXCEPT !.pc = "ERR"] => chk'.pc = "ERR"
        /\ chk' = [chk EXCEPT !.pc = "SUCCESS"] => chk'.pc = "SUCCESS"
        /\ chk' = [chk EXCEPT !.node = b] => chk'.pc = "walk" /\ chk'.node = b
    BY <1>1, <2>1 DEF CheckState
  <2> HIDE DEF d
  <2>4. \/ b = NoNode /\ chk'.pc = "ERR"
        \/ b \in Live(d) /\ chk.addr \in Span(b, tree[d][b].size) /\ chk'.pc = "SUCCESS"
        \/ /\ b # NoNode /\ ~ (b \in Live(d) /\ chk.addr \in Span(b, tree[d][b].size))
           /\ chk'.pc = "walk" /\ chk'.node = b
    BY <2>2, <2>3
  <2> QED
    BY <2>1, <2>4 DEF d
<1> QED
  BY <1>2, <1>3, <1>4, <1>5

\* The steps of others: the check goes on where it was.
Held ==
  /\ ~Checking => chk' = chk
  /\ Checking =>
       /\ Checking' /\ chk' \in CheckState
       /\ chk'.pc = chk.pc /\ chk'.port = chk.port /\ chk'.addr = chk.addr /\ chk'.i = chk.i
       /\ chk'.node = chk.node /\ chk'.first = chk.first /\ chk.amid \subseteq chk'.amid

LEMMA Holding ==
  ASSUME CheckTyped
  PROVE  /\ chk' = chk => Held
         /\ \A by \in SUBSET {"mapped", "unmapped", "reshaped"} :
              chk' = Disturbed(by) => Held /\ (Checking => by \subseteq chk'.amid)
<1>1. CASE ~Checking
  BY <1>1 DEF Held, Disturbed
<1>2. CASE Checking
  <2>1. chk \in CheckState /\ Checking
    BY <1>2, CheckIs
  <2>2. ASSUME NEW by \in SUBSET {"mapped", "unmapped", "reshaped"}, chk' = Disturbed(by)
        PROVE  Held /\ by \subseteq chk'.amid
    <3>1. chk' = [chk EXCEPT !.amid = chk.amid \cup by]
      BY <2>1, <2>2 DEF Disturbed
    <3>2. chk.amid \cup by \in SUBSET {"mapped", "unmapped", "reshaped"}
      BY <2>1 DEF CheckState
    <3>3. /\ chk'.pc = chk.pc /\ chk'.port = chk.port /\ chk'.addr = chk.addr /\ chk'.i = chk.i
          /\ chk'.node = chk.node /\ chk'.first = chk.first /\ chk'.amid = chk.amid \cup by
      BY <2>1, <3>1 DEF CheckState
    <3>4. chk' \in CheckState
      BY <2>1, <3>1, <3>2 DEF CheckState
    <3> QED
      BY <2>1, <3>3, <3>4 DEF Held, Checking
  <2>3. chk' = chk => Held
    BY <2>1 DEF Held, Checking
  <2> QED
    BY <2>2, <2>3
<1> QED
  BY <1>1, <1>2

LEMMA OthersHold ==
  ASSUME IInv, CheckTyped
  PROVE  /\ \A c \in Cpus : Saves(c) \/ Ends(c) => Held
         /\ \A c \in Cpus, d \in Domains, b \in Addresses, n \in Sizes : MapCalled(c, d, b, n) =>
              Held /\ (Checking => "mapped" \in chk'.amid)
         /\ \A d \in Domains, b \in Addresses : DropNode(d, b) =>
              Held /\ (Checking /\ d = DomainOf[chk.port] => "reshaped" \in chk'.amid)
         /\ \A d \in Domains, b \in Addresses : Unmap(d, b) =>
              /\ Held
              /\ Checking /\ d = DomainOf[chk.port] /\ chk.addr \in Span(b, tree[d][b].size)
                 => "unmapped" \in chk'.amid
         /\ \A d \in Domains, b \in Addresses : TreeStep(d, b) => Held
         /\ Monitors \/ UNCHANGED vars => Held
<1> DEFINE Tags == {"mapped", "unmapped", "reshaped"}
<1>1. \A c \in Cpus : Saves(c) \/ Ends(c) => chk' = chk
  BY SavesMove DEF Same, Ends, Install, MapFails
<1>2. Monitors \/ UNCHANGED vars => chk' = chk
  BY OtherSteps DEF vars
<1>3. ASSUME NEW c \in Cpus, NEW d \in Domains, NEW b \in Addresses, NEW n \in Sizes,
             MapCalled(c, d, b, n)
      PROVE  Held /\ (Checking => "mapped" \in chk'.amid)
  <2>1. PICK by \in SUBSET Tags : chk' = Disturbed(by) /\ "mapped" \in by
    <3>1. \/ chk' = Disturbed({"mapped"})
          \/ chk' = Disturbed({"mapped"} \cup Own(d, {"reshaped"}))
      BY <1>3 DEF MapCalled
    <3>2. {"mapped"} \cup Own(d, {"reshaped"}) \in SUBSET Tags
      BY DEF Own
    <3> QED
      BY <3>1, <3>2
  <2> QED
    BY <2>1, Holding
<1>4. ASSUME NEW d \in Domains, NEW b \in Addresses, DropNode(d, b)
      PROVE  Held /\ (Checking /\ d = DomainOf[chk.port] => "reshaped" \in chk'.amid)
  <2>1. chk' = Disturbed(Own(d, {"reshaped"})) /\ Own(d, {"reshaped"}) \in SUBSET Tags
    BY <1>4 DEF DropNode, Own
  <2>2. Checking /\ d = DomainOf[chk.port] => "reshaped" \in Own(d, {"reshaped"})
    BY DEF Own
  <2> QED
    BY <2>1, <2>2, Holding
<1>5. ASSUME NEW d \in Domains, NEW b \in Addresses, Unmap(d, b)
      PROVE  /\ Held
             /\ Checking /\ d = DomainOf[chk.port] /\ chk.addr \in Span(b, tree[d][b].size)
                => "unmapped" \in chk'.amid
  BY <1>5, Holding DEF Unmap
<1>6. ASSUME NEW d \in Domains, NEW b \in Addresses, TreeStep(d, b) PROVE Held
  BY <1>4, <1>5, <1>6, TreeSteps, Holding
<1> QED
  BY <1>1, <1>2, <1>3, <1>4, <1>5, <1>6, Holding

\* The record of the mappings saved only grows.
LEMMA SavedGrows ==
  ASSUME IInv, [Next]_vars
  PROVE  /\ Len(saved) \in Nat /\ Len(saved') \in Nat /\ Len(saved) <= Len(saved')
         /\ \A k \in 1 .. Len(saved) : saved'[k] = saved[k]
<1>0. saved \in Seq(Saving)
  BY DEF IInv
<1>1. ASSUME NEW c \in Cpus, SaveLen(c)
      PROVE  \E x \in Saving : saved' = Append(saved, x)
  <2>1. map[c] \in Mapping \cup Scanning
    BY <1>1, Busy DEF SaveLen, At
  <2> QED
    BY <1>1, <2>1 DEF SaveLen, Mapping, Scanning, Saving
<1>2. UNCHANGED saved \/ \E c \in Cpus : SaveLen(c)
  <2>1. \A c \in Cpus : Saves(c) \/ Ends(c) => UNCHANGED saved \/ SaveLen(c)
    BY HookMoves DEF Saves, Ends, Install, MapFails
  <2> QED
    BY <2>1, Steps, OtherSteps DEF MapCalled, TreeStep, Unmap, DropNode, Rebalanced, vars
<1> QED
  BY <1>0, <1>1, <1>2

LEMMA CheckTypedNext ==
  ASSUME IInv, RingInv, TreeInv, CheckTyped, [Next]_vars
  PROVE  CheckTyped'
<1>1. ASSUME Held PROVE CheckTyped'
  <2>1. CASE Checking
    BY <1>1, <2>1, CheckIs, SavedGrows DEF Held, CheckTyped, CheckState, Attached, Checking
  <2>2. CASE ~Checking
    BY <1>1, <2>2 DEF Held, CheckTyped, Checking, CheckPCs
  <2> QED
    BY <2>1, <2>2
<1>2. CASE CheckSteps
  <2>1. /\ chk \in CheckState /\ chk' \in CheckState /\ chk'.port = chk.port /\ chk'.first = chk.first
        /\ saved' = saved
    BY <1>2, CheckMoves, CheckIs
  <2>2. chk'.pc = "len" => chk'.i \in Slots
    BY <1>2, CheckReads DEF CheckSteps
  <2>3. Attached(chk.port) /\ chk.first <= Len(saved)
    BY <1>2, CheckMoves DEF CheckTyped, Checking
  <2> QED
    BY <2>1, <2>2, <2>3 DEF CheckTyped, CheckState, Attached
<1>3. CASE CheckReturns
  BY <1>3 DEF CheckReturns, CheckTyped
<1>4. ASSUME NEW p \in Ports, NEW a \in Addresses, CheckCalled(p, a) PROVE CheckTyped'
  <2>1. Attached(p) /\ UNCHANGED saved
    BY <1>4 DEF CheckCalled
  <2>2. PICK by \in SUBSET {"mapped", "unmapped", "reshaped"} :
          chk' = [pc |-> "addr", port |-> p, addr |-> a, i |-> 0, node |-> NoNode,
                  first |-> Len(saved), amid |-> by]
    BY <1>4 DEF CheckCalled
  <2>3. Len(saved) \in Nat
    BY DEF IInv
  <2>4. chk' \in CheckState
    BY <2>2, <2>3 DEF CheckState, CheckPCs
  <2>5. chk'.port = p /\ chk'.first = Len(saved) /\ chk'.pc # "len"
    BY <2>2
  <2> QED
    BY <2>1, <2>3, <2>4, <2>5 DEF CheckTyped, CheckState, Attached
<1> QED
  BY <1>1, <1>2, <1>3, <1>4, Steps, OthersHold DEF Checks

-----------------------------------------------------------------------------
(* An address the check accepts was mapped. *)
LEMMA QuietNext ==
  ASSUME IInv, RingInv, TreeInv, NodeInv, EntryInv, CheckTyped, QuietInv, [Next]_vars
  PROVE  QuietInv'
<1>1. Held /\ Quiet' => Quiet
  BY DEF Held, Quiet, Checking
<1>2. ASSUME NEW c \in Cpus, Saves(c) \/ Ends(c) PROVE QuietInv'
  <2>1. ~Quiet
    BY <1>2, SavesMove DEF QuietInv, Busily, Ends, Install, MapFails, At
  <2>2. Held
    BY <1>2, OthersHold
  <2> QED
    BY <1>1, <2>1, <2>2 DEF QuietInv
<1>3. ASSUME NEW c \in Cpus, NEW d \in Domains, NEW b \in Addresses, NEW n \in Sizes,
             MapCalled(c, d, b, n)
      PROVE  QuietInv'
  <2>1. Held /\ (Checking => "mapped" \in chk'.amid)
    BY <1>3, OthersHold
  <2> QED
    BY <2>1 DEF QuietInv, Quiet, Held, Checking
<1>4. CASE \/ \E d \in Domains, b \in Addresses : TreeStep(d, b)
           \/ Monitors \/ UNCHANGED vars
  <2>1. Held
    BY <1>4, OthersHold
  <2>2. UNCHANGED <<ring, map, asked, raced>>
    BY <1>4, OtherSteps DEF TreeStep, Unmap, DropNode, Rebalanced, vars
  <2>3. Quiet' => Quiet
    BY <1>1, <2>1
  <2> QED
    BY <2>1, <2>2, <2>3 DEF QuietInv, Quiet, Held, At, WasAsked
<1>5. CASE CheckSteps
  <2>1. UNCHANGED <<ring, map, tree, asked, raced>> /\ chk'.addr = chk.addr /\ (Quiet' => Quiet)
    BY <1>5, CheckMoves DEF Quiet
  <2>2. CASE ~Quiet
    BY <2>1, <2>2 DEF QuietInv
  <2>3. CASE Quiet
    <3>1. \A c \in Cpus : map[c].pc = "idle"
      BY <2>3 DEF QuietInv, At
    <3>2. \A c \in Cpus : At(c, "idle")'
      BY <2>1, <3>1 DEF At
    <3>3. chk'.pc = "len" => chk'.node = ring'[chk'.i].addr
      BY <1>5, <2>1, CheckReads DEF CheckSteps
    <3>4. chk'.pc = "SUCCESS" /\ ~raced => WasAsked(chk.addr)
      <4>1. ASSUME GetLen, chk'.pc = "SUCCESS", ~raced PROVE WasAsked(chk.addr)
        <5>1. chk.pc = "len" /\ chk.i \in Slots /\ chk.addr \in Span(chk.node, ring[chk.i].len)
          BY <4>1, CheckReads
        <5>2. chk.addr \in Covered(chk.i)
          BY <2>3, <5>1 DEF QuietInv, Covered
        <5>3. \A a \in Covered(chk.i) : WasAsked(a)
          BY <3>1, <4>1, <5>1 DEF EntryInv, At
        <5> QED
          BY <5>2, <5>3
      <4>2. ASSUME Walk, chk'.pc = "SUCCESS" PROVE WasAsked(chk.addr)
        <5> DEFINE d == DomainOf[chk.port]
        <5>1. PICK b \in Live(d) : chk.addr \in Span(b, tree[d][b].size)
          BY <4>2, CheckReads
        <5>2. d \in Domains
          BY <2>3, CheckIs DEF Quiet
        <5> QED
          BY <5>1, <5>2 DEF NodeInv, Live, WasAsked
      <4>3. GetAddr \/ GetNone => chk'.pc # "SUCCESS"
        BY CheckReads
      <4> QED
        BY <1>5, <4>1, <4>2, <4>3 DEF CheckSteps
    <3>5. chk'.pc = "SUCCESS" /\ ~raced' => WasAsked(chk.addr)'
      BY <2>1, <3>4 DEF WasAsked
    <3> QED
      BY <3>2, <3>3, <3>5 DEF QuietInv
  <2> QED
    BY <2>2, <2>3
<1>6. CASE CheckReturns
  BY <1>6 DEF CheckReturns, QuietInv, Quiet, Checking
<1>7. ASSUME NEW p \in Ports, NEW a \in Addresses, CheckCalled(p, a) PROVE QuietInv'
  <2>1. /\ chk'.pc = "addr" /\ map' = map
        /\ "mapped" \notin chk'.amid => \A c \in Cpus : At(c, "idle")
    BY <1>7 DEF CheckCalled
  <2> QED
    BY <2>1 DEF QuietInv, Quiet, At
<1> QED
  BY <1>2, <1>3, <1>4, <1>5, <1>6, <1>7, Steps DEF Checks

MappedInv == IInv /\ RingInv /\ TreeInv /\ NodeInv /\ EntryInv /\ AddrInv /\ CheckTyped /\ QuietInv

LEMMA InitMappedInv == Init => MappedInv
<1> SUFFICES ASSUME Init PROVE MappedInv
  OBVIOUS
<1>1. IInv /\ RingInv /\ TreeInv
  BY InitIInv, InitRingInv
<1>2. chk = [pc |-> "idle"] /\ ~Checking
  BY DEF Init, Checking
<1>3. \A c \in Cpus : At(c, "idle") /\ ~At(c, "len")
  BY DEF Init, At, IdleMap
<1>4. \A d \in Domains : DOMAIN tree[d] = {}
  BY DEF Init
<1>5. \A i \in Slots : Covered(i) = {}
  BY DEF Init, Covered, Span
<1> QED
  BY <1>1, <1>2, <1>3, <1>4, <1>5
  DEF MappedInv, NodeInv, EntryInv, AddrInv, CheckTyped, QuietInv, Quiet, Busily

LEMMA NextMappedInv == MappedInv /\ [Next]_vars => MappedInv'
<1> SUFFICES ASSUME MappedInv, [Next]_vars PROVE MappedInv'
  OBVIOUS
<1>1. IInv /\ RingInv /\ TreeInv /\ NodeInv /\ EntryInv /\ AddrInv /\ CheckTyped /\ QuietInv
  BY DEF MappedInv
<1>2. IInv' /\ RingInv' /\ TreeInv'
  BY <1>1, NextIInv, NextRingInv, NextTreeInv
<1>3. NodeInv' /\ EntryInv' /\ AddrInv'
  BY <1>1, NodeNext, EntryNext
<1>4. CheckTyped' /\ QuietInv'
  BY <1>1, CheckTypedNext, QuietNext
<1> QED
  BY <1>2, <1>3, <1>4 DEF MappedInv

\* Until two CPUs save at once, an address the check accepts is one the IOMMU was asked to
\* map, if no mapping was made while it ran: what the tree holds live was installed, and
\* what the ring covers installed or given up (pal_smmu.c:88-97 against
\* 0001-BSA-ACS-Linux-6.0.patch:255-257 and 360-363).
THEOREM AcceptedWasAsked == Spec => []SuccessMeansAsked
<1>1. MappedInv => SuccessMeansAsked
  BY DEF MappedInv, QuietInv, Quiet, Checking, WasAsked, SuccessMeansAsked
<1> QED
  BY <1>1, InitMappedInv, NextMappedInv, PTL DEF Spec

-----------------------------------------------------------------------------
(***************************************************************************)
(* What the check overlooks.  Saved whole, the last mappings are in        *)
(* consecutive entries up to the next one, so that a mapping keeps its     *)
(* entry until the length of the one that replaces it is stored.           *)
(***************************************************************************)
Writing == \E c \in Cpus : At(c, "len")

LEMMA Bounds ==
  ASSUME IInv
  PROVE  /\ DMA_ARRAY_LEN \in Nat \ {0} /\ Len(saved) \in Nat
         /\ Overwritten = Len(saved) - DMA_ARRAY_LEN
         /\ Overwriting = IF Writing THEN Overwritten + 1 ELSE Overwritten
         /\ Overwritten \in Int /\ Overwriting \in Int /\ Overwritten <= Overwriting
BY IovaAssumption DEF IInv, Overwritten, Overwriting, Writing

LEMMA NextSlotIn ==
  ASSUME ~raced, IInv, RingInv
  PROVE  NextSlot \in Slots
<1>1. (\E c \in Cpus : At(c, "advance")) => index # DMA_ARRAY_LEN
  BY SaveSlot, IovaAssumption DEF At, Slots
<1>2. index \in 0 .. DMA_ARRAY_LEN
  BY DEF RingInv
<1> QED
  BY <1>1, <1>2, IovaAssumption DEF Slots, NextSlot

LEMMA SlotIn ==
  ASSUME ~raced, IInv, RingInv, NEW k \in 1 .. Len(saved), k > Overwritten
  PROVE  SlotOf(k) \in Slots
BY NextSlotIn, Bounds DEF Slots, SlotOf

\* Where the next entry will be replaced is the oldest one, and no other.
LEMMA SlotsOfOthers ==
  ASSUME ~raced, IInv, RingInv, NEW k \in 1 .. Len(saved), k > Overwritten + 1
  PROVE  SlotOf(k) # NextSlot
BY NextSlotIn, Bounds DEF Slots, SlotOf

\* An entry below the next, or any entry of a full ring, is that of a mapping.
LEMMA SlotHolder ==
  ASSUME SavedWhole, IInv, RingInv, HistoryInv, NEW i \in Slots,
         Len(saved) >= DMA_ARRAY_LEN \/ i < Len(saved)
  PROVE  \E k \in 1 .. Len(saved) : k > Overwritten /\ SlotOf(k) = i
<1> DEFINE L == Len(saved)
           k == IF i < NextSlot THEN L - (NextSlot - 1 - i) ELSE L - (NextSlot - 1 - i + DMA_ARRAY_LEN)
<1>1. NextSlot \in 0 .. DMA_ARRAY_LEN - 1 /\ i \in 0 .. DMA_ARRAY_LEN - 1 /\ L \in Nat
      /\ Overwritten = L - DMA_ARRAY_LEN /\ DMA_ARRAY_LEN \in Nat \ {0}
  BY NextSlotIn, Bounds DEF Slots, SavedWhole
<1>2. L < DMA_ARRAY_LEN => NextSlot = L
  BY DEF HistoryInv
<1>3. k \in 1 .. L /\ k > Overwritten
  BY <1>1, <1>2
<1>4. SlotOf(k) = i
  BY <1>1 DEF SlotOf
<1> HIDE DEF k
<1> QED
  BY <1>3, <1>4

\* Every step but the saving of a length leaves each mapping's entry alone.
LEMMA SlotStays ==
  ASSUME ~raced', IInv, RingInv, [Next]_vars, ~ \E c \in Cpus : SaveLen(c)
  PROVE  /\ saved' = saved /\ NextSlot' = NextSlot
         /\ \A k \in 1 .. Len(saved) : SlotOf(k)' = SlotOf(k)
<1>1. ASSUME NEW c \in Cpus, TestMonitored(c) \/ ScanSata(c) \/ Scanned(c) \/ Compare(c) \/ SaveAddr(c)
      PROVE  saved' = saved /\ NextSlot' = NextSlot
  <2>1. /\ saved' = saved /\ index' = index /\ \A e \in Cpus \ {c} : map'[e] = map[e]
        /\ map[c].pc # "advance" /\ map'[c].pc # "advance"
    BY <1>1, HookMoves DEF Pc, Same
  <2> QED
    BY <2>1 DEF NextSlot, At
<1>2. ASSUME NEW c \in Cpus, Advance(c) PROVE saved' = saved /\ NextSlot' = NextSlot
  <2>0. saved' = saved /\ map[c].pc = "advance" /\ map'[c].pc # "advance"
    BY <1>2, HookMoves DEF Pc
  <2>1. /\ saved' = saved /\ At(c, "advance") /\ ~At(c, "advance")'
        /\ \A e \in Cpus \ {c} : ~At(e, "advance")'
    BY <1>2, <2>0, SavesAlone DEF Saves, InSave, At
  <2>2. index \in 0 .. DMA_ARRAY_LEN - 1
    BY <2>0, AloneNext, SaveSlot DEF Slots
  <2>3. index' = (IF index + 1 >= DMA_ARRAY_LEN THEN 0 ELSE index + 1) \/ index' = index + 1
    BY <1>2 DEF Advance
  <2>4. NextSlot = IF index + 1 >= DMA_ARRAY_LEN THEN 0 ELSE index + 1
    BY <2>1 DEF NextSlot, At
  <2>5. NextSlot' = IF index' >= DMA_ARRAY_LEN THEN 0 ELSE index'
    BY <2>1 DEF NextSlot, At
  <2> QED
    BY <2>1, <2>2, <2>3, <2>4, <2>5, IovaAssumption
<1>3. ASSUME NEW c \in Cpus, WrapIndex(c) PROVE saved' = saved /\ NextSlot' = NextSlot
  <2>0. /\ saved' = saved /\ map[c].pc = "wrap" /\ map'[c].pc = "install"
        /\ index' = IF index >= DMA_ARRAY_LEN THEN 0 ELSE index
    BY <1>3, HookMoves DEF Pc, WrapIndex
  <2>1. \A e \in Cpus : ~At(e, "advance") /\ ~At(e, "advance")'
    BY <1>3, <2>0, SavesAlone DEF Saves, InSave, At
  <2>2. NextSlot = (IF index >= DMA_ARRAY_LEN THEN 0 ELSE index)
        /\ NextSlot' = IF index' >= DMA_ARRAY_LEN THEN 0 ELSE index'
    BY <2>1 DEF NextSlot
  <2>3. index \in Nat
    BY DEF RingInv
  <2> QED
    BY <2>0, <2>2, <2>3, IovaAssumption
<1>4. ASSUME NEW c \in Cpus,
             Ends(c) \/ \E d \in Domains, b \in Addresses, n \in Sizes : MapCalled(c, d, b, n)
      PROVE  saved' = saved /\ NextSlot' = NextSlot
  <2>1. /\ saved' = saved /\ index' = index /\ map[c].pc # "advance" /\ map'[c].pc # "advance"
        /\ \A e \in Cpus \ {c} : map'[e] = map[e]
    BY <1>4, EndsMove
  <2> QED
    BY <2>1 DEF NextSlot, At
<1>5. ASSUME \/ \E d \in Domains, b \in Addresses : TreeStep(d, b)
             \/ Checks \/ Monitors \/ UNCHANGED vars
      PROVE  saved' = saved /\ NextSlot' = NextSlot
  <2>1. UNCHANGED <<index, map, saved>>
    BY <1>5, OtherSteps DEF TreeStep, Unmap, DropNode, Rebalanced, vars
  <2> QED
    BY <2>1 DEF NextSlot, At
<1>6. saved' = saved /\ NextSlot' = NextSlot
  BY <1>1, <1>2, <1>3, <1>4, <1>5, Steps DEF Saves
<1> QED
  BY <1>6 DEF SlotOf

\* The saving of a length puts the mapping into the next entry.
LEMMA SlotSaved ==
  ASSUME ~raced', IInv, RingInv, AddrInv, [Next]_vars, NEW c \in Cpus, SaveLen(c)
  PROVE  /\ index = NextSlot /\ ring[index].addr = map[c].base /\ Writing /\ ~Writing'
         /\ saved' = Append(saved, [dom |-> map[c].dom, base |-> map[c].base, size |-> map[c].size])
         /\ Len(saved') = Len(saved) + 1
         /\ NextSlot' = IF NextSlot + 1 >= DMA_ARRAY_LEN THEN 0 ELSE NextSlot + 1
         /\ \A k \in {Len(saved) + 1} : SlotOf(k)' = index
         /\ \A k \in 1 .. Len(saved) : k > Overwritten + 1 => SlotOf(k)' = SlotOf(k)
<1>0. map[c].pc = "len" /\ map'[c].pc = "advance" /\ index' = index
  BY HookMoves DEF Pc
<1>1. /\ At(c, "len") /\ ~At(c, "advance") /\ ~At(c, "len")' /\ At(c, "advance")' /\ index' = index
      /\ \A e \in Cpus \ {c} : ~At(e, "len") /\ ~At(e, "advance") /\ ~At(e, "len")'
  BY <1>0, SavesAlone DEF Saves, InSave, At
<1>2. index \in Slots /\ ring[index].addr = map[c].base
  BY <1>1, NoRace DEF AddrInv
<1>3. index = NextSlot /\ Writing /\ ~Writing'
  BY <1>1, <1>2, IovaAssumption DEF NextSlot, Slots, Writing
<1>4. saved' = Append(saved, [dom |-> map[c].dom, base |-> map[c].base, size |-> map[c].size])
  BY DEF SaveLen
<1>5. Len(saved') = Len(saved) + 1 /\ Len(saved) \in Nat
  BY <1>4 DEF IInv
<1>6. NextSlot' = IF NextSlot + 1 >= DMA_ARRAY_LEN THEN 0 ELSE NextSlot + 1
  BY <1>1, <1>3 DEF NextSlot
<1>7. NextSlot \in 0 .. DMA_ARRAY_LEN - 1 /\ DMA_ARRAY_LEN \in Nat \ {0}
  BY <1>2, <1>3, IovaAssumption DEF Slots
<1>8. ASSUME NEW k, k = Len(saved) + 1 PROVE SlotOf(k)' = index
  <2>1. SlotOf(k)' = IF NextSlot' - 1 >= 0 THEN NextSlot' - 1 ELSE NextSlot' - 1 + DMA_ARRAY_LEN
    BY <1>5, <1>6, <1>7, <1>8 DEF SlotOf
  <2> QED
    BY <1>3, <1>6, <1>7, <2>1
<1>9. ASSUME NEW k \in 1 .. Len(saved), k > Overwritten + 1
      PROVE  SlotOf(k)' = SlotOf(k)
  <2>1. SlotOf(k)' = IF NextSlot' - 1 - (Len(saved) + 1 - k) >= 0
                     THEN NextSlot' - 1 - (Len(saved) + 1 - k)
                     ELSE NextSlot' - 1 - (Len(saved) + 1 - k) + DMA_ARRAY_LEN
    BY <1>5 DEF SlotOf
  <2> QED
    BY <1>5, <1>6, <1>7, <1>9, <2>1 DEF SlotOf, Overwritten
<1> QED
  BY <1>2, <1>3, <1>4, <1>5, <1>6, <1>8, <1>9

\* Every step but the two that store leaves the ring alone.
LEMMA RingStays ==
  ASSUME IInv, [Next]_vars, ~ \E c \in Cpus : SaveLen(c) \/ SaveAddr(c)
  PROVE  ring' = ring /\ (Writing' <=> Writing)
<1>1. ASSUME NEW c \in Cpus,
             \/ TestMonitored(c) \/ ScanSata(c) \/ Scanned(c) \/ Compare(c)
             \/ Advance(c) \/ WrapIndex(c)
      PROVE  ring' = ring /\ (Writing' <=> Writing)
  <2>1. /\ ring' = ring /\ map[c].pc # "len" /\ map'[c].pc # "len"
        /\ \A e \in Cpus \ {c} : map'[e] = map[e]
    BY <1>1, HookMoves DEF Pc, Same
  <2> QED
    BY <2>1 DEF Writing, At
<1>2. ASSUME NEW c \in Cpus,
             Ends(c) \/ \E d \in Domains, b \in Addresses, n \in Sizes : MapCalled(c, d, b, n)
      PROVE  ring' = ring /\ (Writing' <=> Writing)
  <2>1. /\ ring' = ring /\ map[c].pc # "len" /\ map'[c].pc # "len"
        /\ \A e \in Cpus \ {c} : map'[e] = map[e]
    BY <1>2, EndsMove
  <2> QED
    BY <2>1 DEF Writing, At
<1>3. ASSUME \/ \E d \in Domains, b \in Addresses : TreeStep(d, b)
             \/ Checks \/ Monitors \/ UNCHANGED vars
      PROVE  ring' = ring /\ (Writing' <=> Writing)
  <2>1. UNCHANGED <<ring, map>>
    BY <1>3, OtherSteps DEF TreeStep, Unmap, DropNode, Rebalanced, vars
  <2> QED
    BY <2>1 DEF Writing, At
<1> QED
  BY <1>1, <1>2, <1>3, Steps DEF Saves

\* Once an entry is mixed up or cut, that is for good.
LEMMA WholeStays ==
  ASSUME IInv, [Next]_vars, SavedWhole'
  PROVE  SavedWhole /\ ~raced /\ ~raced'
<1>1. ~raced /\ ~raced'
  BY NoRace DEF SavedWhole
<1>2. \A k \in 1 .. Len(saved) : k \in 1 .. Len(saved') /\ saved'[k] = saved[k]
  BY SavedGrows
<1> QED
  BY <1>1, <1>2 DEF SavedWhole

LEMMA HistoryNext ==
  ASSUME IInv, RingInv, NodeInv, AddrInv, HistoryInv, [Next]_vars
  PROVE  HistoryInv'
<1> SUFFICES ASSUME SavedWhole' PROVE HistoryInv'
  BY DEF HistoryInv
<1>0. SavedWhole /\ ~raced /\ ~raced'
  BY WholeStays
<1>1. ASSUME NEW c \in Cpus, SaveLen(c) PROVE HistoryInv'
  <2> DEFINE x == [dom |-> map[c].dom, base |-> map[c].base, size |-> map[c].size]
             L == Len(saved)
  <2>0. map[c].pc = "len" /\ map[c].size \in Sizes /\ saved \in Seq(Saving)
    BY <1>1 DEF SaveLen, NodeInv, Busily, At, IInv
  <2>1. /\ saved' = Append(saved, x) /\ Len(saved') = L + 1 /\ L \in Nat /\ x \in Saving
        /\ saved'[L + 1] = x /\ \A k \in 1 .. L : saved'[k] = saved[k]
    <3>1. map[c] \in Mapping \cup Scanning
      BY <2>0, Busy
    <3>2. x \in Saving
      BY <3>1 DEF Mapping, Scanning, Saving
    <3> HIDE DEF x
    <3>3. saved' = Append(saved, x)
      BY <1>1 DEF SaveLen, x
    <3> QED
      BY <2>0, <3>2, <3>3
  <2>2. /\ index \in Slots /\ index = NextSlot
        /\ ring' = [ring EXCEPT ![index] = [ring[index] EXCEPT !.len = map[c].size % LenSpace]]
    BY <1>0, <1>1, SlotSaved, NextSlotIn DEF SaveLen
  <2>3. map[c].size % LenSpace = map[c].size
    <3>1. saved'[L + 1].size < LenSpace /\ saved'[L + 1].size = map[c].size
      BY <2>1 DEF SavedWhole
    <3> QED
      BY <2>0, <3>1, SavedLength
  <2>4. /\ ring'[index].len = map[c].size /\ ring'[index].addr = map[c].base
        /\ \A i \in Slots \ {index} : ring'[i] = ring[i]
    BY <1>0, <1>1, <2>2, <2>3, SlotSaved DEF RingInv, Entry
  <2>5. Overwritten' = Overwritten + 1 /\ Overwriting' = Overwritten + 1 /\ Overwriting = Overwritten + 1
    BY <1>0, <1>1, <2>1, Bounds, SlotSaved DEF Overwritten, Overwriting, Writing
  <2>6. ASSUME NEW k \in 1 .. L
        PROVE  /\ saved'[k].size \in Sizes
               /\ k > Overwritten' => ring'[SlotOf(k)'].len = saved'[k].size
               /\ k > Overwriting' => ring'[SlotOf(k)'].addr = saved'[k].base
    <3>1. saved'[k] = saved[k] /\ saved[k].size \in Sizes
      BY <1>0, <2>1 DEF HistoryInv
    <3>2. ASSUME k > Overwritten + 1
          PROVE  SlotOf(k)' = SlotOf(k) /\ ring'[SlotOf(k)] = ring[SlotOf(k)]
      <4>1. SlotOf(k)' = SlotOf(k)
        BY <1>0, <1>1, <3>2, SlotSaved
      <4>2. SlotOf(k) \in Slots /\ SlotOf(k) # index
        BY <1>0, <2>2, <3>2, SlotIn, SlotsOfOthers, Bounds
      <4> QED
        BY <2>4, <4>1, <4>2
    <3>3. k > Overwritten + 1 => ring[SlotOf(k)].len = saved[k].size /\ ring[SlotOf(k)].addr = saved[k].base
      BY <1>0, <2>5, Bounds DEF HistoryInv
    <3> QED
      BY <2>5, <3>1, <3>2, <3>3
  <2>7. ASSUME NEW k, k = L + 1
        PROVE  /\ saved'[k].size \in Sizes
               /\ ring'[SlotOf(k)'].len = saved'[k].size /\ ring'[SlotOf(k)'].addr = saved'[k].base
    <3>1. SlotOf(k)' = index
      BY <1>0, <1>1, <2>7, SlotSaved
    <3>2. saved'[k].size = map[c].size /\ saved'[k].base = map[c].base
      BY <2>1, <2>7
    <3> QED
      BY <2>0, <2>4, <3>1, <3>2
  <2>8. Len(saved') < DMA_ARRAY_LEN => NextSlot' = Len(saved')
    BY <1>0, <1>1, <2>1, SlotSaved, Bounds DEF HistoryInv
  <2>9. \A k \in 1 .. Len(saved') : k \in 1 .. L \/ k = L + 1
    BY <2>1
  <2> HIDE DEF L, x
  <2> QED
    BY <2>6, <2>7, <2>8, <2>9 DEF HistoryInv
<1>2. ASSUME NEW c \in Cpus, SaveAddr(c) PROVE HistoryInv'
  <2>0. map[c].pc = "addr" /\ map'[c].pc = "len" /\ index' = index
    BY <1>2, HookMoves DEF Pc
  <2>1. At(c, "len")' /\ \A e \in Cpus : ~At(e, "len") /\ ~At(e, "advance")
    BY <1>0, <1>2, <2>0, SavesAlone DEF Saves, InSave, At
  <2>2. ~ \E e \in Cpus : SaveLen(e)
    BY <2>1 DEF SaveLen
  <2>3. saved' = saved /\ NextSlot' = NextSlot /\ \A k \in 1 .. Len(saved) : SlotOf(k)' = SlotOf(k)
    BY <1>0, <2>2, SlotStays
  <2>4. index = NextSlot /\ index \in Slots
    <3>1. index \in Slots
      BY <1>0, <2>0, SaveSlot
    <3> QED
      BY <2>1, <3>1, IovaAssumption DEF NextSlot, Slots
  <2>5. /\ ring' = [ring EXCEPT ![index] = [ring[index] EXCEPT !.addr = map[c].base]]
        /\ ring'[index].len = ring[index].len /\ \A i \in Slots \ {index} : ring'[i] = ring[i]
    BY <1>2, <2>4 DEF SaveAddr, RingInv, Entry
  <2>6. Overwritten' = Overwritten /\ Overwriting' = Overwritten + 1 /\ Overwriting = Overwritten
    <3>1. Writing' /\ ~Writing
      BY <2>1 DEF Writing
    <3>2. Overwritten' = Overwritten
      BY <2>3 DEF Overwritten
    <3> QED
      BY <3>1, <3>2, Bounds DEF Overwriting, Writing
  <2>7. ASSUME NEW k \in 1 .. Len(saved)
        PROVE  /\ k > Overwritten => ring'[SlotOf(k)].len = ring[SlotOf(k)].len
               /\ k > Overwritten + 1 => ring'[SlotOf(k)] = ring[SlotOf(k)]
    BY <1>0, <2>4, <2>5, SlotIn, SlotsOfOthers, Bounds
  <2>8. ASSUME NEW k \in 1 .. Len(saved)
        PROVE  /\ saved'[k].size \in Sizes
               /\ k > Overwritten' => ring'[SlotOf(k)'].len = saved'[k].size
               /\ k > Overwriting' => ring'[SlotOf(k)'].addr = saved'[k].base
    BY <1>0, <2>3, <2>6, <2>7, Bounds DEF HistoryInv
  <2> QED
    BY <1>0, <2>3, <2>8 DEF HistoryInv
<1>3. CASE ~ \E c \in Cpus : SaveLen(c) \/ SaveAddr(c)
  <2>1. saved' = saved /\ NextSlot' = NextSlot /\ \A k \in 1 .. Len(saved) : SlotOf(k)' = SlotOf(k)
    BY <1>0, <1>3, SlotStays
  <2>2. ring' = ring /\ (Writing' <=> Writing)
    BY <1>3, RingStays
  <2>3. Overwritten' = Overwritten /\ Overwriting' = Overwriting
    BY <2>1, <2>2 DEF Overwritten, Overwriting, Writing
  <2> QED
    BY <1>0, <2>1, <2>2, <2>3 DEF HistoryInv
<1> QED
  BY <1>1, <1>2, <1>3

\* While the check goes on, no mapping in the ring from before comes to another entry, and
\* those being replaced are no longer considered.
LEMMA WindowMoves ==
  ASSUME ~raced', IInv, RingInv, AddrInv, CheckTyped, Checking, [Next]_vars,
         NEW k \in 1 .. chk.first, k > Overwriting'
  PROVE  /\ k \in 1 .. Len(saved) /\ k > Overwriting /\ SlotOf(k)' = SlotOf(k) /\ saved'[k] = saved[k]
<1>1. k \in 1 .. Len(saved) /\ saved'[k] = saved[k]
  BY CheckIs, SavedGrows DEF CheckState
<1>2. ASSUME NEW c \in Cpus, SaveLen(c) PROVE k > Overwriting /\ SlotOf(k)' = SlotOf(k)
  <2>1. Writing /\ ~Writing' /\ Len(saved') = Len(saved) + 1
    BY <1>2, SlotSaved
  <2>2. Overwriting = Overwritten + 1 /\ Overwriting' = Overwritten + 1
    <3>1. Overwritten' = Overwritten + 1
      BY <2>1, Bounds DEF Overwritten
    <3> QED
      BY <2>1, <3>1, Bounds DEF Overwriting, Writing
  <2>3. k > Overwritten + 1
    BY <2>2
  <2> QED
    BY <1>1, <1>2, <2>2, <2>3, SlotSaved
<1>3. ASSUME ~ \E c \in Cpus : SaveLen(c) PROVE k > Overwriting /\ SlotOf(k)' = SlotOf(k)
  <2>1. saved' = saved /\ \A j \in 1 .. Len(saved) : SlotOf(j)' = SlotOf(j)
    BY <1>3, SlotStays
  <2>2. Overwritten' = Overwritten
    BY <2>1 DEF Overwritten
  <2>3. Writing => Writing'
    <3>1. ASSUME NEW c \in Cpus, SaveAddr(c) PROVE Writing'
      BY <3>1, HookMoves DEF Pc, Writing, At
    <3> QED
      BY <1>3, <3>1, RingStays
  <2>4. Overwriting' \in Int /\ Overwriting \in Int /\ Overwriting <= Overwriting'
    <3>1. Overwriting' = IF Writing' THEN Overwritten + 1 ELSE Overwritten
      BY <2>2, Bounds DEF Overwriting, Writing
    <3> QED
      BY <2>3, <3>1, Bounds
  <2>5. k \in Int
    OBVIOUS
  <2> QED
    BY <1>1, <2>1, <2>4, <2>5
<1> QED
  BY <1>1, <1>2, <1>3

LEMMA PassedNext ==
  ASSUME IInv, RingInv, TreeInv, AddrInv, CheckTyped, HistoryInv, PassedInv, [Next]_vars
  PROVE  PassedInv'
<1> SUFFICES ASSUME SavedWhole' PROVE PassedInv'
  BY DEF PassedInv
<1>0. SavedWhole /\ ~raced /\ ~raced'
  BY WholeStays
<1>1. ASSUME Held PROVE PassedInv'
  <2>1. ASSUME Checking', NEW k \in 1 .. chk'.first, k > Overwriting'
        PROVE  /\ chk'.pc \in {"addr", "len"} /\ SlotOf(k)' < chk'.i => Apart(k)'
               /\ chk'.pc = "len" /\ SlotOf(k)' = chk'.i => chk'.node = saved'[k].base
               /\ chk'.pc \in {"walk", "ERR"} => Apart(k)'
    <3>1. /\ Checking /\ chk'.pc = chk.pc /\ chk'.addr = chk.addr /\ chk'.i = chk.i
          /\ chk'.node = chk.node /\ chk'.first = chk.first
      BY <1>1, <2>1 DEF Held, Checking
    <3>2. k > Overwriting /\ SlotOf(k)' = SlotOf(k) /\ saved'[k] = saved[k]
      BY <1>0, <2>1, <3>1, WindowMoves
    <3>3. Apart(k)' <=> Apart(k)
      BY <3>1, <3>2 DEF Apart
    <3> QED
      BY <1>0, <2>1, <3>1, <3>2, <3>3 DEF PassedInv
  <2> QED
    BY <2>1 DEF PassedInv
<1>2. CASE CheckSteps
  <2>1. /\ Checking /\ chk'.first = chk.first /\ chk'.addr = chk.addr
        /\ UNCHANGED <<ring, index, map, saved>>
    BY <1>2, CheckMoves
  <2>2. ASSUME NEW k \in 1 .. chk.first, k > Overwriting
        PROVE  /\ chk'.pc \in {"addr", "len"} /\ SlotOf(k) < chk'.i => Apart(k)
               /\ chk'.pc = "len" /\ SlotOf(k) = chk'.i => chk'.node = saved[k].base
               /\ chk'.pc \in {"walk", "ERR"} => Apart(k)
    <3>1. k \in 1 .. Len(saved) /\ k > Overwritten /\ SlotOf(k) \in Slots
          /\ chk.i \in Nat /\ chk.addr \in Addresses
      BY <1>0, <2>1, <2>2, CheckIs, SlotIn, Bounds DEF CheckState
    <3>2. saved[k].size \in Sizes /\ ring[SlotOf(k)].len = saved[k].size
          /\ ring[SlotOf(k)].addr = saved[k].base
      BY <1>0, <2>2, <3>1 DEF HistoryInv
    <3>3. /\ chk.pc \in {"addr", "len"} /\ SlotOf(k) < chk.i => Apart(k)
          /\ chk.pc = "len" /\ SlotOf(k) = chk.i => chk.node = saved[k].base
          /\ chk.pc \in {"walk", "ERR"} => Apart(k)
      BY <1>0, <2>1, <2>2 DEF PassedInv
    <3>4. CASE GetAddr
      BY <3>2, <3>3, <3>4, CheckReads
    <3>5. CASE GetNone
      <4>1. SlotOf(k) < chk.i
        BY <3>1, <3>5, CheckReads, IovaAssumption DEF Slots
      <4> QED
        BY <3>3, <3>5, <4>1, CheckReads
    <3>6. CASE GetLen
      <4>1. chk.pc = "len" /\ chk.i \in Slots
        BY <3>6, CheckReads
      <4>2. CASE ring[chk.i].len = 0 /\ chk'.pc = "walk"
        <5>1. ~ (Len(saved) >= DMA_ARRAY_LEN \/ chk.i < Len(saved))
          <6>1. \A j \in 1 .. Len(saved) : j > Overwritten => ring[SlotOf(j)].len # 0
            BY <1>0, IovaAssumption DEF HistoryInv
          <6> QED
            BY <1>0, <4>1, <4>2, <6>1, SlotHolder
        <5>2. SlotOf(k) < Len(saved)
          BY <1>0, <3>1, <5>1, Bounds DEF HistoryInv, SlotOf
        <5>3. SlotOf(k) < chk.i
          BY <3>1, <5>1, <5>2, Bounds DEF Slots
        <5> QED
          BY <3>3, <4>1, <4>2, <5>3
      <4>3. CASE chk'.pc = "SUCCESS"
        BY <4>3
      <4>4. CASE /\ chk.addr \notin Span(chk.node, ring[chk.i].len)
                 /\ chk'.pc = "addr" /\ chk'.i = chk.i + 1
        <5>1. SlotOf(k) < chk.i + 1 => SlotOf(k) < chk.i \/ SlotOf(k) = chk.i
          BY <3>1 DEF Slots
        <5>2. SlotOf(k) = chk.i => Apart(k)
          BY <3>2, <3>3, <4>1, <4>4 DEF Apart
        <5> QED
          BY <3>3, <4>1, <4>4, <5>1, <5>2
      <4>5. \/ ring[chk.i].len = 0 /\ chk'.pc = "walk"
            \/ chk'.pc = "SUCCESS"
            \/ /\ chk.addr \notin Span(chk.node, ring[chk.i].len)
               /\ chk'.pc = "addr" /\ chk'.i = chk.i + 1
        BY <3>6, CheckReads
      <4> QED
        BY <4>2, <4>3, <4>4, <4>5
    <3>7. CASE Walk
      <4>1. chk.pc = "walk" /\ chk'.pc \notin {"addr", "len"}
        BY <3>7, CheckReads
      <4> QED
        BY <3>3, <4>1
    <3> QED
      BY <1>2, <3>4, <3>5, <3>6, <3>7 DEF CheckSteps
  <2>3. Overwriting' = Overwriting /\ NextSlot' = NextSlot
    BY <2>1 DEF Overwriting, Overwritten, NextSlot, At
  <2>4. \A k \in 1 .. chk.first : SlotOf(k)' = SlotOf(k) /\ (Apart(k)' <=> Apart(k))
    BY <2>1, <2>3 DEF SlotOf, Apart
  <2> QED
    BY <2>1, <2>2, <2>3, <2>4 DEF PassedInv
<1>3. CASE CheckReturns
  BY <1>3 DEF CheckReturns, PassedInv, Checking
<1>4. ASSUME NEW p \in Ports, NEW a \in Addresses, CheckCalled(p, a) PROVE PassedInv'
  <2>1. chk'.pc = "addr" /\ chk'.i = 0 /\ chk'.first = Len(saved) /\ UNCHANGED <<ring, index, map, saved>>
    BY <1>4 DEF CheckCalled
  <2>2. Overwriting' = Overwriting /\ NextSlot' = NextSlot
    BY <2>1 DEF Overwriting, Overwritten, NextSlot, At
  <2>3. ASSUME NEW k \in 1 .. Len(saved), k > Overwriting
        PROVE  ~ (SlotOf(k)' < 0)
    <3>1. SlotOf(k) \in Slots
      BY <1>0, <2>3, SlotIn, Bounds
    <3>2. SlotOf(k)' = SlotOf(k)
      BY <2>1, <2>2 DEF SlotOf
    <3> QED
      BY <3>1, <3>2 DEF Slots
  <2> QED
    BY <2>1, <2>2, <2>3 DEF PassedInv
<1> QED
  BY <1>1, <1>2, <1>3, <1>4, Steps, OthersHold DEF Checks

\* A node of the walked tree has an address that is not the walk's start.
LEMMA WalkFrom ==
  ASSUME TreeInv, NEW d \in Domains, Settled(d), NEW n, n = NoNode \/ n \in DOMAIN tree[d], NEW w \in Below(d, n)
  PROVE  \E b \in DOMAIN tree[d] : NextNodes(d, n) = {b} /\ w <= b /\ b # NoNode /\ (n = NoNode \/ b < n)
<1>1. Below(d, n) \subseteq DOMAIN tree[d] /\ DOMAIN tree[d] \subseteq Addresses
  BY DEF Below, TreeInv
<1>2. Highest(Below(d, n)) \in Below(d, n) /\ w <= Highest(Below(d, n))
  BY <1>1, HighestIn
<1>3. NextNodes(d, n) = {Highest(Below(d, n))}
  <2>1. ~ (~Settled(d) \/ (n # NoNode /\ n \notin DOMAIN tree[d]))
    OBVIOUS
  <2>2. Below(d, n) # {}
    OBVIOUS
  <2> QED
    BY <2>1, <2>2 DEF NextNodes
<1>4. Highest(Below(d, n)) # NoNode
  BY <1>1, <1>2 DEF Addresses, NoNode
<1>5. n = NoNode \/ Highest(Below(d, n)) < n
  BY <1>2 DEF Below
<1> QED
  BY <1>1, <1>2, <1>3, <1>4, <1>5

\* What the walk still has before it, in the tree as it is.
Ahead(b) ==
  LET d == DomainOf[chk.port]
  IN  /\ b \in Live(d) /\ chk.addr \in Span(b, tree[d][b].size)
      /\ chk.pc = "walk" => chk.node = NoNode \/ b < chk.node

\* The steps that keep the tree's nodes, and those that are live but for one at most.
LEMMA WalkKept ==
  ASSUME Held, WalkInv, Undisturbed', CheckTyped,
         DOMAIN tree[DomainOf[chk.port]] \subseteq DOMAIN tree'[DomainOf[chk.port]],
         \A b \in Live(DomainOf[chk.port]) :
           chk.addr \in Span(b, tree[DomainOf[chk.port]][b].size) =>
             /\ tree'[DomainOf[chk.port]][b] = tree[DomainOf[chk.port]][b],
         Settled(DomainOf[chk.port]) =>
           \A b \in DOMAIN tree'[DomainOf[chk.port]] :
             tree'[DomainOf[chk.port]][b].state \notin {"joining", "leaving"}
  PROVE  WalkInv'
<1>1. /\ Checking /\ chk'.pc = chk.pc /\ chk'.port = chk.port /\ chk'.addr = chk.addr
      /\ chk'.node = chk.node /\ chk.amid \subseteq chk'.amid
  BY DEF Held, Undisturbed, Checking
<1>2. Undisturbed
  BY <1>1 DEF Undisturbed
<1> DEFINE d == DomainOf[chk.port]
<1>2a. Settled(d)'
  BY <1>1, <1>2 DEF WalkInv, Settled
<1>3. /\ chk.pc # "ERR" /\ (chk.pc = "walk" => chk.node = NoNode \/ chk.node \in DOMAIN tree[d])
      /\ \E b \in Live(d) : Ahead(b)
  BY <1>2 DEF WalkInv, Ahead
<1>4. PICK b \in Live(d) : Ahead(b)
  BY <1>3
<1>5. b \in DOMAIN tree'[d] /\ tree'[d][b] = tree[d][b] /\ tree[d][b].state = "live"
  BY <1>4 DEF Ahead, Live
<1>6. b \in Live(d)'
  BY <1>1, <1>5 DEF Live
<1> QED
  BY <1>1, <1>2a, <1>3, <1>4, <1>5, <1>6 DEF WalkInv, Ahead

LEMMA WalkNext ==
  ASSUME IInv, RingInv, TreeInv, NodeInv, CheckTyped, WalkInv, [Next]_vars
  PROVE  WalkInv'
<1> DEFINE dom == DomainOf[chk.port]
<1> SUFFICES ASSUME Undisturbed' PROVE WalkInv'
  BY DEF WalkInv
<1>0. ASSUME Held PROVE dom \in Domains /\ Checking
  BY <1>0, CheckIs DEF Held, Undisturbed, Checking
<1>1. ASSUME Held, UNCHANGED tree PROVE WalkInv'
  BY <1>1, WalkKept DEF Settled
<1>2. ASSUME NEW d \in Domains, NEW b \in DOMAIN tree[d], NEW from, NEW st \in {"new", "live", "cached"},
             Held, Sets(d, b, from, st),
             "live" \in from => ~ (d = dom /\ chk.addr \in Span(b, tree[d][b].size))
      PROVE  WalkInv'
  <2>1. dom \in Domains
    BY <1>0, <1>2
  <2>2. tree[d][b] \in Node /\ tree[d][b].state \in from
    BY <1>2 DEF Sets, NodeInv
  <2>3. /\ DOMAIN tree'[dom] = DOMAIN tree[dom]
        /\ \A o \in DOMAIN tree[dom] : (dom = d /\ o = b) \/ tree'[dom][o] = tree[dom][o]
        /\ tree'[d][b] = [tree[d][b] EXCEPT !.state = st]
    BY <1>2, <2>1, NodeSet DEF Sets
  <2>4. tree'[d][b].state = st
    BY <2>2, <2>3 DEF Node
  <2>5. Settled(dom) => \A o \in DOMAIN tree'[dom] : tree'[dom][o].state \notin {"joining", "leaving"}
    BY <2>3, <2>4 DEF Settled
  <2>6. \A o \in Live(dom) : chk.addr \in Span(o, tree[dom][o].size) => tree'[dom][o] = tree[dom][o]
    BY <1>2, <2>2, <2>3 DEF Live
  <2> QED
    BY <1>2, <2>3, <2>5, <2>6, WalkKept
<1>2a. ASSUME NEW c \in Cpus, Ends(c) PROVE WalkInv'
  <2> DEFINE e == map[c].dom
             o == map[c].base
  <2>1. Held
    BY <1>2a, OthersHold
  <2>2. ~At(c, "idle") /\ e \in Domains
    BY <1>2a, Busy DEF Ends, Install, MapFails, At, Mapping, Scanning
  <2>3. o \in DOMAIN tree[e] /\ tree[e][o].state \in {"joining", "new"}
    BY <2>2 DEF NodeInv, Busily
  <2>4. PICK st \in {"live", "cached"} : Sets(e, o, {"joining", "new"}, st)
    BY <1>2a, <2>3, EndsNode DEF Sets
  <2> HIDE DEF e, o
  <2> QED
    BY <1>2, <2>1, <2>2, <2>3, <2>4
<1>3. ASSUME NEW c \in Cpus, NEW d \in Domains, NEW b \in Addresses, NEW n \in Sizes,
             MapCalled(c, d, b, n)
      PROVE  WalkInv'
  <2>1. Held /\ dom \in Domains /\ Checking
    BY <1>0, <1>3, OthersHold
  <2>2. CASE d # dom
    <3>1. tree'[dom] = tree[dom]
      BY <1>3, <2>1, <2>2, NodeEnters DEF Enters
    <3> QED
      BY <2>1, <3>1, WalkKept DEF Settled
  <2>3. CASE /\ d = dom
             /\ b \in DOMAIN tree[d] /\ tree[d][b] = [size |-> n, state |-> "cached"]
             /\ SetNode(d, b, "new")
    <3>1. Sets(d, b, {"cached"}, "new")
      BY <2>3 DEF Sets
    <3> QED
      BY <1>2, <2>1, <2>3, <3>1
  <2>4. CASE d = dom /\ chk' = Disturbed({"mapped"} \cup Own(d, {"reshaped"}))
    <3>1. {"mapped"} \cup Own(d, {"reshaped"}) = {"mapped", "reshaped"}
      BY <2>1, <2>4 DEF Own
    <3>2. "reshaped" \in chk'.amid
      BY <2>1, <2>4, <3>1, Holding
    <3> QED
      BY <3>2 DEF Undisturbed
  <2> QED
    BY <1>3, <2>2, <2>3, <2>4 DEF MapCalled, SetNode
<1>4. ASSUME NEW d \in Domains, NEW b \in Addresses, TreeStep(d, b) PROVE WalkInv'
  <2>1. Held /\ dom \in Domains /\ Checking
    BY <1>0, <1>4, OthersHold
  <2>2. CASE Unmap(d, b) /\ Sets(d, b, {"live"}, "cached")
    <3>1. d = dom /\ chk.addr \in Span(b, tree[d][b].size) => "unmapped" \in chk'.amid
      BY <2>1, <2>2, OthersHold
    <3>2. ~ (d = dom /\ chk.addr \in Span(b, tree[d][b].size)) /\ b \in DOMAIN tree[d]
      BY <2>2, <3>1 DEF Undisturbed, Sets
    <3> QED
      BY <1>2, <2>1, <2>2, <3>2
  <2>3. CASE chk' = chk /\ Sets(d, b, {"joining"}, "new")
    BY <1>2, <2>1, <2>3 DEF Sets
  <2>4. ASSUME DropNode(d, b), Sets(d, b, {"cached"}, "leaving") PROVE WalkInv'
    <3>1. d # dom
      BY <2>1, <2>4, OthersHold DEF Undisturbed
    <3>2. tree'[dom] = tree[dom]
      BY <2>1, <2>4, <3>1 DEF Sets, SetNode, TreeInv
    <3> QED
      BY <2>1, <3>2, WalkKept DEF Settled
  <2>5. ASSUME chk' = chk, Removes(d, b) PROVE WalkInv'
    <3>1. Undisturbed
      BY <2>5 DEF Undisturbed, Checking
    <3>2. d # dom
      BY <2>5, <3>1 DEF WalkInv, Settled, Removes
    <3>3. tree'[dom] = tree[dom]
      BY <2>1, <2>5, <3>2 DEF Removes, CutNode, TreeInv
    <3> QED
      BY <2>1, <3>3, WalkKept DEF Settled
  <2> QED
    BY <1>4, <2>2, <2>3, <2>4, <2>5, TreeSteps
<1>6. CASE CheckSteps
  <2>1. /\ Checking /\ chk'.port = chk.port /\ chk'.addr = chk.addr /\ chk'.amid = chk.amid
        /\ tree' = tree /\ dom \in Domains
    BY <1>6, CheckMoves, CheckIs
  <2>2. Undisturbed
    BY <2>1 DEF Undisturbed
  <2>3. PICK w \in Live(dom) : Ahead(w)
    BY <2>2 DEF WalkInv, Ahead
  <2>3a. Settled(dom) /\ Settled(dom)'
    BY <2>1, <2>2 DEF WalkInv, Settled
  <2>4. ASSUME chk'.pc # "ERR", chk'.pc = "walk" => chk'.node = NoNode PROVE WalkInv'
    BY <2>1, <2>3, <2>3a, <2>4 DEF WalkInv, Ahead, Live
  <2>5. CASE GetAddr \/ GetNone \/ GetLen
    <3>1. chk'.pc # "ERR" /\ (chk'.pc = "walk" => chk'.node = NoNode)
      BY <2>5, CheckReads
    <3> QED
      BY <2>4, <3>1
  <2>6. CASE Walk
    <3>1. chk.pc = "walk" /\ (chk.node = NoNode \/ chk.node \in DOMAIN tree[dom])
      BY <2>2, <2>6, CheckReads DEF WalkInv
    <3>2. w \in Below(dom, chk.node)
      BY <2>3, <3>1 DEF Ahead, Below, Live
    <3>3. PICK b \in DOMAIN tree[dom] :
            NextNodes(dom, chk.node) = {b} /\ w <= b /\ b # NoNode
      BY <2>1, <2>3a, <3>1, <3>2, WalkFrom
    <3>4. \/ chk'.pc = "SUCCESS"
          \/ /\ ~ (b \in Live(dom) /\ chk.addr \in Span(b, tree[dom][b].size))
             /\ chk'.pc = "walk" /\ chk'.node = b
      BY <2>6, <3>3, CheckReads
    <3>5. chk'.pc = "walk" => chk'.node = b /\ w < b
      <4>1. w \in Int /\ b \in Int
        BY <2>1 DEF Live, TreeInv, Addresses
      <4>2. w # b \/ chk'.pc # "walk"
        BY <2>3, <3>4 DEF Ahead
      <4> QED
        BY <3>3, <3>4, <4>1, <4>2
    <3> QED
      BY <2>1, <2>3, <2>3a, <3>3, <3>4, <3>5 DEF WalkInv, Ahead, Live
  <2> QED
    BY <1>6, <2>5, <2>6 DEF CheckSteps
<1>7. CASE CheckReturns
  BY <1>7 DEF CheckReturns, Undisturbed, Checking
<1>8. ASSUME NEW p \in Ports, NEW a \in Addresses, CheckCalled(p, a) PROVE WalkInv'
  <2>1. /\ chk'.pc = "addr" /\ chk'.port = p /\ chk'.addr = a /\ tree' = tree
        /\ ~ LiveAt(DomainOf[p], a) => "unmapped" \in chk'.amid
        /\ ~ Settled(DomainOf[p]) => "reshaped" \in chk'.amid
    BY <1>8 DEF CheckCalled
  <2>2. LiveAt(DomainOf[p], a) /\ Settled(DomainOf[p])
    BY <2>1 DEF Undisturbed
  <2> QED
    BY <2>1, <2>2 DEF WalkInv, LiveAt, Live, Settled
<1>9. ASSUME NEW c \in Cpus, Saves(c) PROVE WalkInv'
  BY <1>1, <1>9, OthersHold, SavesMove DEF Same
<1>10. CASE Monitors \/ UNCHANGED vars
  BY <1>1, <1>10, OthersHold, OtherSteps DEF vars
<1> QED
  BY <1>2a, <1>3, <1>4, <1>6, <1>7, <1>8, <1>9, <1>10, Steps DEF Checks

SearchInv == MappedInv /\ HistoryInv /\ PassedInv /\ WalkInv

LEMMA InitSearchInv == Init => SearchInv
<1> SUFFICES ASSUME Init PROVE SearchInv
  OBVIOUS
<1>1. ~Checking /\ saved = <<>>
  BY DEF Init, Checking
<1>2. NextSlot = 0
  BY IovaAssumption DEF Init, NextSlot, At, IdleMap
<1>3. Len(saved) = 0
  BY <1>1
<1> QED
  BY <1>1, <1>2, <1>3, InitMappedInv DEF SearchInv, HistoryInv, PassedInv, WalkInv, Undisturbed

LEMMA NextSearchInv == SearchInv /\ [Next]_vars => SearchInv'
<1> SUFFICES ASSUME SearchInv, [Next]_vars PROVE SearchInv'
  OBVIOUS
<1>1. /\ MappedInv /\ HistoryInv /\ PassedInv /\ WalkInv
      /\ IInv /\ RingInv /\ TreeInv /\ NodeInv /\ AddrInv /\ CheckTyped
  BY DEF SearchInv, MappedInv
<1>2. MappedInv'
  BY <1>1, NextMappedInv
<1>3. HistoryInv' /\ PassedInv' /\ WalkInv'
  BY <1>1, HistoryNext, PassedNext, WalkNext
<1> QED
  BY <1>2, <1>3 DEF SearchInv

\* However many CPUs map, a check that fails has overlooked no address that was mapped for
\* as long as it ran, unless a node of the tree was linked in or taken out under the walk;
\* nor, until two CPUs save at once or a length is cut, a mapping that was in the ring for
\* as long as it ran, however often the index wrapped around under it (pal_smmu.c:83-109,
\* 0001-BSA-ACS-Linux-6.0.patch:144-179).
THEOREM CheckOverlooksNothing == Spec => []NothingOverlooked
<1>1. SearchInv => NothingOverlooked
  <2> SUFFICES ASSUME SearchInv, chk.pc = "ERR" PROVE NothingOverlooked
    BY DEF NothingOverlooked
  <2>1. Checking /\ chk \in CheckState /\ IInv /\ chk.first <= Len(saved)
    BY CheckIs DEF Checking, SearchInv, MappedInv
  <2> DEFINE W == {c \in Cpus : At(c, "len")}
  <2>2. SavedWhole => Overwriting = Len(saved) + Cardinality(W) - DMA_ARRAY_LEN
    <3> SUFFICES ASSUME SavedWhole PROVE Overwriting = Len(saved) + Cardinality(W) - DMA_ARRAY_LEN
      OBVIOUS
    <3>1. CASE Writing
      <4>1. PICK c \in Cpus : At(c, "len")
        BY <3>1 DEF Writing
      <4>2. Alone
        BY DEF SavedWhole, SearchInv, MappedInv, RingInv
      <4>3. W = {c}
        BY <4>1, <4>2 DEF Alone, InSave, At
      <4>4. Cardinality(W) = 1
        BY <4>3, FS_Singleton
      <4> HIDE DEF W
      <4> QED
        BY <2>1, <3>1, <4>4, Bounds
    <3>2. CASE ~Writing
      <4>1. Cardinality(W) = 0
        BY <3>2, FS_EmptySet DEF Writing
      <4> HIDE DEF W
      <4> QED
        BY <2>1, <3>2, <4>1, Bounds
    <3> QED
      BY <3>1, <3>2
  <2>3. "unmapped" \in chk.amid \/ "reshaped" \in chk.amid
    BY <2>1 DEF SearchInv, WalkInv, Undisturbed
  <2>4. SavedWhole => \A k \in 1 .. chk.first :
          k > Overwriting => chk.addr \notin Span(saved[k].base, saved[k].size)
    BY <2>1 DEF SearchInv, PassedInv, Apart
  <2> HIDE DEF W
  <2> QED
    BY <2>2, <2>3, <2>4 DEF NothingOverlooked, W
<1> QED
  BY <1>1, InitSearchInv, NextSearchInv, PTL DEF Spec
=============================================================================
