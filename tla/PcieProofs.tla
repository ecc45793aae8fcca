----------------------------- MODULE PcieProofs -----------------------------
(***************************************************************************)
(* What the PCIe services guarantee in every hierarchy and however many    *)
(* devices are unplugged. No pointer to a device the PAL works with        *)
(* outlives the device: it is not freed as long as there are references to *)
(* it, and the invariant counts those that must be there.                  *)
(*                                                                         *)
(* What the vector list, the walk over a class, the search for a root port *)
(* and the peripheral table answer is right.                               *)
(***************************************************************************)
EXTENDS Pcie, FiniteSetTheorems, TLAPS

\* The device the making of the table has arrived at, and those the VAL has.
AtInTable(d) == call.op = "table" /\ call.pdev = d
OfVal(d) == d \in kept \cup mem
Owed(d) == (IF OfVal(d) THEN 1 ELSE 0) + (IF AtInTable(d) THEN 1 ELSE 0)

Places ==
  /\ Devices \subseteq Nat \ {NULL}
  /\ present \subseteq Devices
  /\ kept \cup mem \subseteq Devices
  /\ \/ call = Idle \/ call = Killed
     \/ call \in [op : {"table"}, pdev : Devices \cup {NULL}, unplugged : BOOLEAN]
     \/ \E l : call = [op |-> "msi", left |-> l]

Counts ==
  /\ refs \in [Devices -> Int]
  /\ \A d \in Devices : refs[d] >= Owed(d)

LiveInv == Places /\ Counts

-----------------------------------------------------------------------------
\* A set of natural numbers that is not empty has a least member.
LEMMA LeastMember ==
  ASSUME NEW S, S \subseteq Nat, S # {}
  PROVE  \E d \in S : \A e \in S : d <= e
  <1>1. PICK d \in S : \A e \in S : ~ (<<e, d>> \in OpToRel(<, Nat))
    BY NatLessThanWellFounded, WFMin
  <1>2. \A e \in S : ~ (e < d)
    BY <1>1 DEF OpToRel
  <1> QED BY <1>2

\* What a search through the kernel's list gives is NULL or one of those searched.
LEMMA FirstIsOne ==
  ASSUME NEW S, S \subseteq Nat
  PROVE  First(S) \in S \cup {NULL}
  <1>1. CASE S = {}
    BY <1>1 DEF First
  <1>2. CASE S # {}
    <2>1. \E d \in S : \A e \in S : d <= e
      BY <1>2, LeastMember
    <2> QED BY <1>2, <2>1 DEF First
  <1> QED BY <1>1, <1>2

LEMMA AfterIsPresent ==
  ASSUME NEW S, NEW from, Places
  PROVE  After(S, from) \in present \cup {NULL}
  <1> DEFINE T == {d \in S \cap present : from \in present => d > from}
  <1>1. T \subseteq present /\ T \subseteq Nat
    BY DEF Places
  <1>2. First(T) \in T \cup {NULL}
    BY <1>1, FirstIsOne
  <1> QED BY <1>1, <1>2 DEF After

\* A look-up by slot gives NULL or a device that is there.
LEMMA LookupIsPresent ==
  ASSUME NEW b
  PROVE  Lookup(b) \in present \cup {NULL}
  BY DEF Lookup

\* A look-up gives its device a reference, and no other any less.
LEMMA FoundAdds ==
  ASSUME Places, Counts, NEW d \in Devices \cup {NULL}
  PROVE  /\ Found(refs, d) \in [Devices -> Int]
         /\ \A e \in Devices : Found(refs, d)[e] = refs[e] + (IF e = d THEN 1 ELSE 0)
  BY DEF Found, Take, Places, Counts

LEMMA TakeAdds ==
  ASSUME Places, Counts, NEW d \in Devices \cup {NULL}
  PROVE  /\ Take(refs, d) \in [Devices -> Int]
         /\ \A e \in Devices : Take(refs, d)[e] = refs[e] + (IF e = d THEN 1 ELSE 0)
  BY DEF Take, Places, Counts

\* A service is called when no other goes on.
LEMMA CalledIdle == Places /\ Called => call = Idle
  BY DEF Places, Called, Killed

-----------------------------------------------------------------------------
LEMMA LiveInit == PcieInit(Systems) => LiveInv
  <1> SUFFICES ASSUME PcieInit(Systems) PROVE LiveInv
    OBVIOUS
  <1>1. Places
    BY PcieAssumption DEF PcieInit, Places, Devices, Idle, Killed
  <1>2. Counts
    <2>1. \A d \in Devices : ~OfVal(d) /\ ~AtInTable(d)
      BY DEF PcieInit, OfVal, AtInTable, Idle, Killed
    <2>2. refs = [d \in Devices |-> 0]
      BY DEF PcieInit
    <2> QED BY <2>1, <2>2 DEF Counts, Owed
  <1> QED BY <1>1, <1>2 DEF LiveInv

\* A service that looks a device up, and leaves what it keeps to the VAL alone.
LEMMA LookedUp ==
  ASSUME LiveInv, NEW d \in present \cup {NULL}, refs' = Found(refs, d),
         UNCHANGED <<hierarchy, pointers>>, call = Idle,
         call' \in {Idle, Killed} \/ \E l : call' = [op |-> "msi", left |-> l]
  PROVE  LiveInv'
  <1>1. Places'
    BY DEF LiveInv, Places, hierarchy, pointers, Devices, Idle, Killed
  <1>2. Counts'
    BY FoundAdds DEF LiveInv, Places, Counts, Owed, OfVal, AtInTable, hierarchy, pointers, Devices, Idle, Killed
  <1> QED BY <1>1, <1>2 DEF LiveInv

\* A service that looks a device up and lets the VAL have it, or have it no more.
LEMMA HandedOut ==
  ASSUME LiveInv, NEW d \in present \cup {NULL}, refs' = Found(refs, d),
         (kept \cup mem)' \subseteq (kept \cup mem) \cup ({d} \ {NULL}),
         UNCHANGED hierarchy, call = Idle, call' \in {Idle, Killed}
  PROVE  LiveInv'
  <1>1. Places'
    BY DEF LiveInv, Places, hierarchy, Devices, Idle, Killed
  <1>2. Counts'
    BY FoundAdds DEF LiveInv, Places, Counts, Owed, OfVal, AtInTable, hierarchy, Devices, Idle, Killed
  <1> QED BY <1>1, <1>2 DEF LiveInv

LEMMA LiveNext == LiveInv /\ [PcieNext]_pcieVars => LiveInv'
  <1> SUFFICES ASSUME LiveInv, [PcieNext]_pcieVars PROVE LiveInv'
    OBVIOUS
  <1> USE DEF LiveInv
  <1>1. CASE TableCalled
    <2>1. Places'
      BY <1>1 DEF TableCalled, Called, Places, hierarchy, pointers, Devices, Idle, Killed
    <2>2. Counts'
      BY <1>1 DEF TableCalled, Called, Places, Counts, Owed, OfVal, AtInTable, hierarchy, pointers, Devices, Idle, Killed
    <2> QED BY <2>1, <2>2
  <1>2. CASE TableTurn
    <2> DEFINE d == GetDevNext(call.pdev)
    <2>1. d \in present \cup {NULL}
      BY AfterIsPresent DEF GetDevNext
    <2>2. Places'
      BY <1>2, <2>1 DEF TableTurn, Places, hierarchy, pointers, Devices, Idle, Killed
    <2>3. refs' = Take(Drop(refs, call.pdev), d)
      BY <1>2 DEF TableTurn
    <2>4. /\ Drop(refs, call.pdev) \in [Devices -> Int]
          /\ \A e \in Devices : Drop(refs, call.pdev)[e] = refs[e] - (IF e = call.pdev THEN 1 ELSE 0)
      BY <1>2 DEF TableTurn, Drop, Places, Counts, Idle, Killed
    <2>5. /\ refs' \in [Devices -> Int]
          /\ \A e \in Devices : refs'[e] = refs[e] - (IF e = call.pdev THEN 1 ELSE 0)
                                                   + (IF e = d THEN 1 ELSE 0)
      <3> DEFINE r == Drop(refs, call.pdev)
      <3> HIDE DEF r, d
      <3>1. Take(r, d) \in [Devices -> Int]
        BY <2>1, <2>4 DEF Take, Places, r
      <3>2. \A e \in Devices : Take(r, d)[e] = r[e] + (IF e = d THEN 1 ELSE 0)
        BY <2>1, <2>4 DEF Take, Places, r
      <3> QED BY <2>3, <2>4, <3>1, <3>2 DEF r
    <2>6. call'.op = "table" => call'.pdev = d
      BY <1>2 DEF TableTurn, Idle, Killed, Places
    <2>7. Counts'
      BY <1>2, <2>5, <2>6 DEF TableTurn, Places, Counts, Owed, OfVal, AtInTable, hierarchy, pointers, Devices, Idle, Killed
    <2> QED BY <2>2, <2>7
  <1>3. CASE VectorsCalled
    <2>1. PICK b \in Bdfs : /\ refs' = Found(refs, Lookup(b))
                            /\ \E l : call' = [op |-> "msi", left |-> l]
      BY <1>3 DEF VectorsCalled
    <2> QED BY <1>3, <2>1, LookupIsPresent, LookedUp, CalledIdle DEF VectorsCalled
  <1>4. CASE VectorTurn
    <2>1. Places'
      BY <1>4 DEF VectorTurn, Places, hierarchy, pointers, Devices, Idle, Killed
    <2>2. Counts'
      BY <1>4 DEF VectorTurn, Places, Counts, Owed, OfVal, AtInTable, hierarchy, pointers, Devices, Idle, Killed
    <2> QED BY <2>1, <2>2
  <1>5. CASE VectorsReturn
    <2>1. Places'
      BY <1>5 DEF VectorsReturn, Places, hierarchy, pointers, Devices, Idle, Killed
    <2>2. Counts'
      BY <1>5 DEF VectorsReturn, Places, Counts, Owed, OfVal, AtInTable, hierarchy, pointers, Devices, Idle, Killed
    <2> QED BY <2>1, <2>2
  <1>6. CASE GetLegacyIrqMap
    <2>1. PICK b \in Bdfs : refs' = Found(refs, Lookup(b))
      BY <1>6 DEF GetLegacyIrqMap
    <2> QED BY <1>6, <2>1, LookupIsPresent, LookedUp, CalledIdle DEF GetLegacyIrqMap
  <1>7. CASE Query
    <2>1. PICK b \in Bdfs : refs' = Found(refs, Lookup(b))
      BY <1>7 DEF Query
    <2> QED BY <1>7, <2>1, LookupIsPresent, LookedUp, CalledIdle DEF Query
  <1>8. CASE BdfToDev
    <2>1. PICK b \in Bdfs : refs' = Found(refs, Lookup(b)) /\ kept' = kept \cup ({Lookup(b)} \ {NULL})
      BY <1>8 DEF BdfToDev
    <2> QED BY <1>8, <2>1, LookupIsPresent, HandedOut, CalledIdle DEF BdfToDev
  <1>9. CASE AllocCacheable
    <2>1. PICK b \in Bdfs : /\ refs' = Found(refs, Lookup(b))
                            /\ mem' \in {mem, mem \cup ({Lookup(b)} \ {NULL})}
      BY <1>9 DEF AllocCacheable
    <2> QED BY <1>9, <2>1, LookupIsPresent, HandedOut, CalledIdle DEF AllocCacheable, Followed
  <1>10. CASE FreeCacheable
    <2>1. PICK m \in mem : refs' = Found(refs, Lookup(Bdf(m))) /\ mem' = mem \ {Lookup(Bdf(m))}
      BY <1>10 DEF FreeCacheable
    <2> QED BY <1>10, <2>1, LookupIsPresent, HandedOut, CalledIdle DEF FreeCacheable, Followed
  <1>11. ASSUME NEW c, GetBdfWrapper(c)
         PROVE  LiveInv'
    <2>1. PICK S, from : refs' = Take(refs, After(S, from)) /\ Followed(After(S, from))
      BY <1>11 DEF GetBdfWrapper
    <2>2. After(S, from) \in present \cup {NULL}
      BY AfterIsPresent
    <2>3. refs' = Found(refs, After(S, from))
      BY <2>1 DEF Found
    <2> QED BY <1>11, <2>1, <2>2, <2>3, LookedUp, CalledIdle DEF GetBdfWrapper, Followed
  <1>12. ASSUME NEW d \in present, Unplug(d)
         PROVE  LiveInv'
    <2>1. /\ call'.op = call.op
          /\ call.op = "table" => call'.pdev = call.pdev
      BY <1>12 DEF Unplug, Places, Idle, Killed
    <2>2. Places'
      BY <1>12, <2>1 DEF Unplug, Places, pointers, Devices, Idle, Killed
    <2>3. Counts'
      BY <1>12, <2>1 DEF Unplug, Counts, Owed, OfVal, AtInTable, pointers, Devices
    <2> QED BY <2>2, <2>3
  <1>13. CASE UNCHANGED pcieVars
    BY <1>13 DEF pcieVars, hierarchy, pointers, Places, Counts, Owed, OfVal, AtInTable, Devices, Idle, Killed
  <1> QED
    BY <1>1, <1>2, <1>3, <1>4, <1>5, <1>6, <1>7, <1>8, <1>9, <1>10, <1>11, <1>12, <1>13
    DEF PcieNext, PcieServices

\* Devices that were kept, whose memory the VAL has, or that the table is being made
\* from are never freed, in any hierarchy (pal_pcie_enumeration.c:54-123).
THEOREM KeptAreLive == PcieSpec => []KeptLive
  <1>1. LiveInv => KeptLive
    <2> SUFFICES ASSUME LiveInv PROVE KeptLive
      OBVIOUS
    <2>1. \A d \in kept \cup mem : d \in Devices /\ refs[d] >= 1
      <3> SUFFICES ASSUME NEW d \in kept \cup mem PROVE d \in Devices /\ refs[d] >= 1
        OBVIOUS
      <3>1. d \in Devices
        BY DEF LiveInv, Places
      <3>2. Owed(d) \in Int /\ Owed(d) >= 1
        BY DEF Owed, OfVal
      <3>3. refs[d] \in Int /\ refs[d] >= Owed(d)
        BY <3>1 DEF LiveInv, Counts
      <3> QED BY <3>1, <3>2, <3>3
    <2>2. call.op = "table" /\ call.pdev # NULL => call.pdev \in Devices /\ refs[call.pdev] >= 1
      <3> SUFFICES ASSUME call.op = "table", call.pdev # NULL
                   PROVE  call.pdev \in Devices /\ refs[call.pdev] >= 1
        OBVIOUS
      <3>1. call.pdev \in Devices
        BY DEF LiveInv, Places, Idle, Killed
      <3>2. Owed(call.pdev) \in Int /\ Owed(call.pdev) >= 1
        BY DEF Owed, OfVal, AtInTable
      <3>3. refs[call.pdev] \in Int /\ refs[call.pdev] >= Owed(call.pdev)
        BY <3>1 DEF LiveInv, Counts
      <3> QED BY <3>1, <3>2, <3>3
    <2> QED BY <2>1, <2>2 DEF KeptLive, Freed
  <1> QED BY <1>1, LiveInit, LiveNext, PTL DEF PcieSpec

-----------------------------------------------------------------------------
(***************************************************************************)
(* The list of MSI vectors.                                                *)
(***************************************************************************)
Message == [hwirq : Nat, msix : BOOLEAN, is_64 : BOOLEAN, lower : Nat, upper : Nat, control : Nat]
Vector == [irq_base : Nat, lower : Nat, upper : Nat, control : Nat]
ListNode == [next : Nat, vector : Vector]
Lists == [first : Nat, node : Seq(ListNode), vcount : Nat, of : Devices \cup {NULL}]
Messages == sys.dev[vec.of].vectors

\* The nodes allocated so far are linked one to the next, and the rest of the
\* descriptors is still to come.
VectorInv ==
  /\ sys \in Systems
  /\ vec \in Lists
  /\ vec.vcount = Len(vec.node)
  /\ vec.vcount > 0 => vec.first = 1 /\ vec.of \in Devices /\ vec.vcount <= Len(Messages)
  /\ \A i \in 1 .. vec.vcount :
       /\ vec.node[i].next = IF i < vec.vcount THEN i + 1 ELSE NULL
       /\ vec.node[i].vector.irq_base = Messages[i].hwirq
  /\ call.op = "msi" =>
       /\ call.left \in Seq(Message)
       /\ call.left # <<>> =>
            /\ vec.of \in Devices /\ Len(Messages) = vec.vcount + Len(call.left)
            /\ \A j \in 1 .. Len(call.left) : call.left[j] = Messages[vec.vcount + j]

LEMMA OfSystem ==
  ASSUME sys \in Systems
  PROVE  /\ Devices \subseteq Nat \ {NULL}
         /\ \A d \in Devices :
              /\ sys.dev[d].up \in Devices \cup {NULL} /\ sys.dev[d].up < d
              /\ sys.dev[d].slot \in [1 .. 4 -> Nat] /\ sys.dev[d].port \in Nat
              /\ sys.dev[d].vectors \in Seq(Message)
              /\ sys.dev[d].port = ROOT_PORT => sys.dev[d].up = NULL
              /\ \A e \in Devices : sys.dev[d].slot = sys.dev[e].slot => d = e
<1>1. \A d \in Devices :
        /\ d \in Nat \ {NULL} /\ sys.dev[d].up \in {NULL} \cup Devices /\ sys.dev[d].up < d
        /\ sys.dev[d].slot \in [1 .. 4 -> Nat] /\ sys.dev[d].port \in Nat
        /\ sys.dev[d].vectors \in Seq(Message)
  BY PcieAssumption DEF Devices, Message
<1>2. \A d \in Devices :
        /\ sys.dev[d].port = ROOT_PORT => sys.dev[d].up = NULL
        /\ \A e \in Devices : sys.dev[d].slot = sys.dev[e].slot => d = e
  BY PciAssumption DEF Devices
<1> QED
  BY <1>1, <1>2

LEMMA SystemStays == [PcieNext]_pcieVars => sys' = sys
BY DEF PcieNext, PcieServices, pcieVars, hierarchy, TableCalled, TableTurn, VectorsCalled,
       VectorTurn, VectorsReturn, GetLegacyIrqMap, Query, BdfToDev, AllocCacheable,
       FreeCacheable, GetBdfWrapper, Unplug

\* The steps of everything but the list.
LEMMA VectorStill ==
  ASSUME VectorInv, sys' = sys, vec' = vec, call'.op = "msi" => call' = call
  PROVE  VectorInv'
BY DEF VectorInv, Messages, Devices, Lists

LEMMA VectorInit == PcieInit(Systems) => VectorInv
<1> SUFFICES ASSUME PcieInit(Systems) PROVE VectorInv
  OBVIOUS
<1>1. vec = [first |-> NULL, node |-> <<>>, vcount |-> 0, of |-> NULL] /\ call.op = "none"
      /\ sys \in Systems
  BY DEF PcieInit, Idle, Killed
<1> QED
  BY <1>1 DEF VectorInv, NULL, Lists

LEMMA VectorNext == LiveInv /\ VectorInv /\ [PcieNext]_pcieVars => VectorInv'
<1> SUFFICES ASSUME LiveInv, VectorInv, [PcieNext]_pcieVars PROVE VectorInv'
  OBVIOUS
<1>0. sys' = sys /\ sys \in Systems
  BY SystemStays DEF VectorInv
<1>1. CASE VectorsCalled
  <2>1. PICK b \in Bdfs :
          /\ call' = [op |-> "msi", left |-> IF Lookup(b) = NULL THEN <<>> ELSE sys.dev[Lookup(b)].vectors]
          /\ vec' = [first |-> NULL, node |-> <<>>, vcount |-> 0, of |-> Lookup(b)]
    BY <1>1 DEF VectorsCalled
  <2>2. Lookup(b) \in Devices \cup {NULL}
    BY LookupIsPresent DEF LiveInv, Places
  <2> DEFINE d == Lookup(b)
  <2> HIDE DEF d
  <2>3. /\ call'.left = (IF d = NULL THEN <<>> ELSE sys.dev[d].vectors)
        /\ vec'.first = 0 /\ vec'.node = <<>> /\ vec'.vcount = 0 /\ vec'.of = d
        /\ vec' \in Lists
    BY <2>1, <2>2 DEF d, NULL, Lists
  <2>4. call'.left \in Seq(Message)
    BY <1>0, <2>2, <2>3, OfSystem DEF d
  <2>5. call'.left # <<>> => d \in Devices /\ call'.left = sys.dev[d].vectors
    BY <2>2, <2>3 DEF d
  <2> QED
    BY <1>0, <2>3, <2>4, <2>5 DEF VectorInv, Messages, Devices, Lists
<1>2. CASE VectorTurn
  <2>1. call.op = "msi" /\ call.left # <<>> /\ call.left \in Seq(Message) /\ Len(call.left) > 0
    BY <1>2 DEF VectorTurn, VectorInv
  <2>2. PICK l : call = [op |-> "msi", left |-> l]
    BY <2>1 DEF LiveInv, Places, Idle, Killed
  <2>3. CASE call' = Idle /\ UNCHANGED vec
    BY <1>0, <2>3, VectorStill DEF Idle, Killed
  <2>4. CASE call' = [call EXCEPT !.left = Tail(@)]
    <3> DEFINE n == vec.vcount
               e == call.left[1]
               new == [next |-> NULL, vector |-> ReadMsiVector(e)]
    <3>1. n \in Nat /\ n = vec.vcount
      BY DEF VectorInv, Lists
    <3>2. n = Len(vec.node) /\ vec.node \in Seq(ListNode)
      BY DEF VectorInv, Lists
    <3>3. vec.of \in Devices /\ Len(Messages) = n + Len(call.left) /\ e = Messages[n + 1] /\ e \in Message
      <4>1. 1 \in 1 .. Len(call.left)
        BY <2>1
      <4>2. e \in Message
        BY <2>1, <4>1
      <4>3. vec.of \in Devices /\ Len(Messages) = n + Len(call.left)
        BY <2>1 DEF VectorInv
      <4>4. e = Messages[n + 1]
        BY <2>1, <4>1 DEF VectorInv
      <4> QED
        BY <4>2, <4>3, <4>4
    <3>4. new \in ListNode /\ new.next = NULL /\ new.vector.irq_base = e.hwirq
      BY <3>3 DEF Message, ListNode, Vector, ReadMsiVector, NULL
    <3>5. \A i \in 1 .. n : vec.node[i].next = (IF i < n THEN i + 1 ELSE NULL)
                            /\ vec.node[i].vector.irq_base = Messages[i].hwirq
      BY DEF VectorInv
    <3>6. n # 0 => vec.first = 1
      BY <3>1 DEF VectorInv
    <3>7. \A j \in 1 .. Len(call.left) : call.left[j] = Messages[n + j]
      BY <2>1 DEF VectorInv
    <3> HIDE DEF new, n, e
    <3>8. /\ Linked(n) \in Seq(ListNode) /\ Len(Linked(n)) = n
          /\ \A i \in 1 .. n : Linked(n)[i].next = i + 1 /\ Linked(n)[i].vector = vec.node[i].vector
      <4>1. CASE n = 0
        BY <4>1 DEF Linked
      <4>2. CASE n # 0
        <5>1. Linked(n) = [vec.node EXCEPT ![n] = [vec.node[n] EXCEPT !.next = n + 1]]
          BY <4>2 DEF Linked
        <5>2. n \in 1 .. Len(vec.node)
          BY <3>1, <3>2, <4>2
        <5>3. vec.node[n] \in ListNode /\ n + 1 \in Nat
          BY <3>1, <3>2, <5>2
        <5>4. [vec.node[n] EXCEPT !.next = n + 1] \in ListNode
              /\ [vec.node[n] EXCEPT !.next = n + 1].next = n + 1
              /\ [vec.node[n] EXCEPT !.next = n + 1].vector = vec.node[n].vector
          BY <5>3 DEF ListNode
        <5>5. \A i \in 1 .. n : i # n => vec.node[i].next = i + 1
          BY <3>1, <3>5
        <5>6. Linked(n) \in Seq(ListNode) /\ Len(Linked(n)) = n
          BY <3>2, <5>1, <5>2, <5>4
        <5>7. Linked(n)[n] = [vec.node[n] EXCEPT !.next = n + 1]
              /\ \A i \in 1 .. n : i # n => Linked(n)[i] = vec.node[i]
          BY <3>2, <5>1, <5>2
        <5> QED
          BY <5>4, <5>5, <5>6, <5>7
      <4> QED
        BY <4>1, <4>2
    <3>9. vec' = [vec EXCEPT !.first = 1, !.vcount = n + 1, !.node = Append(Linked(n), new)]
      <4>1. call' # Idle
        BY <2>2, <2>4 DEF Idle, Killed
      <4>2. vec' = [vec EXCEPT !.first = IF vec.node = <<>> THEN 1 ELSE @, !.vcount = @ + 1,
                               !.node = Append(Linked(n), new)]
        BY <1>2, <3>1, <3>2, <4>1 DEF VectorTurn, new, e
      <4>3. (IF vec.node = <<>> THEN 1 ELSE vec.first) = 1
        BY <3>2, <3>6
      <4>4. vec \in Lists
        BY DEF VectorInv
      <4> QED
        BY <3>1, <4>2, <4>3, <4>4 DEF Lists
    <3>10. /\ Append(Linked(n), new) \in Seq(ListNode) /\ Len(Append(Linked(n), new)) = n + 1
           /\ Append(Linked(n), new)[n + 1] = new
           /\ \A i \in 1 .. n : Append(Linked(n), new)[i] = Linked(n)[i]
      BY <3>1, <3>4, <3>8
    <3>11. /\ vec'.vcount = n + 1 /\ vec'.node = Append(Linked(n), new) /\ vec'.of = vec.of
           /\ vec'.first = 1
      <4>1. vec \in Lists
        BY DEF VectorInv
      <4> QED
        BY <3>9, <4>1 DEF Lists
    <3>12. vec' \in Lists
      <4>1. vec \in Lists
        BY DEF VectorInv
      <4>2. n + 1 \in Nat
        BY <3>1
      <4> QED
        BY <3>9, <3>10, <4>1, <4>2 DEF Lists
    <3>13. Lists' = Lists /\ Messages' = Messages /\ Devices' = Devices
      BY <1>0, <3>11 DEF Messages, Lists, Devices
    <3>14. \A i \in 1 .. n + 1 :
            /\ vec'.node[i].next = IF i < n + 1 THEN i + 1 ELSE NULL
            /\ vec'.node[i].vector.irq_base = Messages[i].hwirq
      <4>1. ASSUME NEW i \in 1 .. n
            PROVE  vec'.node[i].next = i + 1 /\ vec'.node[i].vector.irq_base = Messages[i].hwirq
        BY <3>5, <3>8, <3>10, <3>11
      <4>2. vec'.node[n + 1].next = NULL /\ vec'.node[n + 1].vector.irq_base = Messages[n + 1].hwirq
        BY <3>3, <3>4, <3>10, <3>11
      <4>3. \A i \in 1 .. n + 1 : (i \in 1 .. n /\ i < n + 1) \/ (i = n + 1 /\ ~ (i < n + 1))
        BY <3>1
      <4> QED
        BY <4>1, <4>2, <4>3
    <3>15. /\ call'.left \in Seq(Message) /\ Len(call'.left) = Len(call.left) - 1
           /\ \A j \in 1 .. Len(call'.left) : call'.left[j] = Messages[n + 1 + j]
      <4>1. call'.left = Tail(call.left)
        BY <2>2, <2>4
      <4>2. /\ Tail(call.left) \in Seq(Message) /\ Len(Tail(call.left)) = Len(call.left) - 1
            /\ \A j \in 1 .. Len(call.left) - 1 : Tail(call.left)[j] = call.left[j + 1]
        BY <2>1
      <4>3. ASSUME NEW j \in 1 .. Len(call.left) - 1 PROVE call.left[j + 1] = Messages[n + 1 + j]
        <5>1. j + 1 \in 1 .. Len(call.left) /\ n + (j + 1) = n + 1 + j
          BY <2>1, <3>1
        <5> QED
          BY <3>7, <5>1
      <4> QED
        BY <4>1, <4>2, <4>3
    <3>16. Len(Messages) = n + 1 + Len(call'.left) /\ n + 1 <= Len(Messages) /\ n + 1 > 0
      <4>1. Len(call.left) \in Nat /\ Len(call.left) > 0 /\ Len(call'.left) = Len(call.left) - 1
        BY <2>1, <3>15
      <4>2. Len(Messages) = n + Len(call.left)
        BY <3>3
      <4>3. n + Len(call.left) = n + 1 + (Len(call.left) - 1) /\ n + 1 <= n + Len(call.left) /\ n + 1 > 0
        BY <3>1, <4>1
      <4> QED
        BY <4>1, <4>2, <4>3
    <3> QED
      BY <1>0, <3>3, <3>10, <3>11, <3>12, <3>13, <3>14, <3>15, <3>16 DEF VectorInv
  <2> QED
    BY <1>2, <2>3, <2>4 DEF VectorTurn
<1>3. CASE VectorsReturn \/ TableCalled \/ TableTurn
  <2>1. vec' = vec /\ call'.op # "msi"
    BY <1>3 DEF VectorsReturn, TableCalled, TableTurn, results, Idle, Killed, LiveInv, Places
  <2> QED
    BY <1>0, <2>1, VectorStill
<1>4. CASE \/ GetLegacyIrqMap \/ Query \/ BdfToDev \/ AllocCacheable \/ FreeCacheable
           \/ \E c \in Classes : GetBdfWrapper(c)
           \/ UNCHANGED pcieVars
  <2>1. vec' = vec /\ (call' = call \/ call' = Killed)
    BY <1>4 DEF GetLegacyIrqMap, Query, BdfToDev, AllocCacheable, FreeCacheable, GetBdfWrapper,
                Followed, results, pcieVars
  <2> QED
    BY <1>0, <2>1, VectorStill DEF Killed
<1>5. ASSUME NEW d \in present, Unplug(d) PROVE VectorInv'
  <2>1. vec' = vec /\ (call'.op = "msi" => call' = call)
    BY <1>5 DEF Unplug, LiveInv, Places, Idle, Killed
  <2> QED
    BY <1>0, <2>1, VectorStill
<1> QED
  BY <1>1, <1>2, <1>3, <1>4, <1>5 DEF PcieNext, PcieServices

\* Going along the list as it is linked meets its nodes one after the other.
LEMMA ReachedIs ==
  ASSUME VectorInv, NEW i \in 1 .. vec.vcount
  PROVE  Reached[i] = i
<1> DEFINE n == vec.vcount
           Of(f) == [j \in 1 .. n |-> IF j = 1 THEN vec.first ELSE vec.node[f[j - 1]].next]
<1>1. n \in Nat /\ (n > 0 => vec.first = 1) /\ \A j \in 1 .. n : j < n => vec.node[j].next = j + 1
  BY DEF VectorInv, Lists
<1>2. Reached = Of(Reached)
  <2> DEFINE id == [j \in 1 .. n |-> j]
  <2>1. \A j \in 1 .. n : j = IF j = 1 THEN vec.first ELSE vec.node[id[j - 1]].next
    <3>1. ASSUME NEW j \in 1 .. n, j # 1 PROVE vec.node[id[j - 1]].next = j
      <4>1. j - 1 \in 1 .. n /\ j - 1 < n /\ (j - 1) + 1 = j
        BY <1>1, <3>1
      <4>2. id[j - 1] = j - 1
        BY <4>1
      <4> QED
        BY <1>1, <4>1, <4>2
    <3> QED
      BY <1>1, <3>1
  <2>2. id = Of(id)
    BY <2>1
  <2> HIDE DEF id
  <2>3. \E f : f = Of(f)
    BY <2>2
  <2> QED
    BY <2>3 DEF Reached
<1>3. \A j \in 1 .. n : Reached[j] = IF j = 1 THEN vec.first ELSE vec.node[Reached[j - 1]].next
  BY <1>2
<1> DEFINE Bad == {j \in 1 .. n : Reached[j] # j}
<1>4. CASE Bad = {}
  BY <1>4
<1>5. CASE Bad # {}
  <2>0. Bad \subseteq Nat
    BY <1>1
  <2>1. PICK j \in Bad : \A k \in Bad : j <= k
    <3> HIDE DEF Bad
    <3> QED
      BY <1>5, <2>0, LeastMember
  <2>2. j # 1
    BY <1>1, <1>3, <2>1
  <2>3. j - 1 \in 1 .. n /\ j - 1 < n /\ Reached[j - 1] = j - 1 /\ (j - 1) + 1 = j
    BY <1>1, <2>1, <2>2
  <2> QED
    BY <1>1, <1>3, <2>1, <2>2, <2>3
<1> QED
  BY <1>4, <1>5

\* Whatever allocation fails, the list of vectors can be followed from its first node to
\* its last, in the order of the descriptors (pal_pcie.c:141-157).
THEOREM VectorsLinked == PcieSpec => []VectorListWhole
<1>1. VectorInv => VectorListWhole
  <2> SUFFICES ASSUME VectorInv PROVE VectorListWhole
    OBVIOUS
  <2>1. ASSUME NEW i \in 1 .. vec.vcount
        PROVE  /\ i \in DOMAIN vec.node
               /\ i = vec.vcount => vec.node[i].next = NULL
               /\ vec.node[i].vector.irq_base = sys.dev[vec.of].vectors[i].hwirq
    BY DEF VectorInv, Messages
  <2> QED
    BY <2>1, ReachedIs DEF VectorListWhole
<1> QED
  BY <1>1, LiveInit, LiveNext, VectorInit, VectorNext, PTL DEF PcieSpec

-----------------------------------------------------------------------------
(***************************************************************************)
(* Going through the devices of a class.                                   *)
(***************************************************************************)
Mine == {d \in Devices : sys.dev[d].class = walk.class}
Findable(d) == Addressable(d) /\ Bdf(d) # ZeroBdf
Walks == [class : {""} \cup Classes, killed : BOOLEAN,
          at : {ZeroBdf} \cup Bdfs, seen : Seq(Devices), undisturbed : BOOLEAN]
Rising(s) == \A i, j \in DOMAIN s : i < j => s[i] < s[j]

\* Those seen are in order, and all there are up to the one the walk is at.
WalkInv ==
  /\ sys \in Systems
  /\ walk \in Walks
  /\ walk.killed => call = Killed
  /\ walk.undisturbed /\ (\A d \in Mine : Findable(d)) =>
       /\ Rising(walk.seen) /\ ToSet(walk.seen) \subseteq Mine
       /\ walk.seen # <<>> /\ ~walk.killed =>
            /\ walk.seen[Len(walk.seen)] \in present
            /\ walk.at = Bdf(walk.seen[Len(walk.seen)])
            /\ \A d \in Mine \cap present :
                 d <= walk.seen[Len(walk.seen)] => d \in ToSet(walk.seen)
       /\ walk.killed => Mine \cap present \subseteq ToSet(walk.seen)

LEMMA BdfIsSlot ==
  ASSUME sys \in Systems, NEW d \in Devices, Addressable(d)
  PROVE  Bdf(d) = sys.dev[d].slot
<1>1. sys.dev[d].slot \in [1 .. 4 -> Nat]
  BY OfSystem
<1>2. sys.dev[d].slot[1] % Segments = sys.dev[d].slot[1]
  <2>1. sys.dev[d].slot[1] \in Nat /\ Segments \in Nat /\ sys.dev[d].slot[1] < Segments
    BY <1>1, PcieAssumption DEF Addressable
  <2> QED
    BY <2>1
<1> QED
  BY <1>1, <1>2 DEF Bdf, Create

\* A device whose segment fits is found by its BDF.
LEMMA LookupFinds ==
  ASSUME Places, sys \in Systems, NEW d \in present, Addressable(d)
  PROVE  Lookup(Bdf(d)) = d
<1>1. d \in Devices /\ present \subseteq Devices
  BY DEF Places
<1>2. \A e \in present : sys.dev[e].slot = sys.dev[d].slot => e = d
  BY <1>1, OfSystem
<1> QED
  BY <1>1, <1>2, BdfIsSlot DEF Lookup

LEMMA FirstIsLeast ==
  ASSUME NEW S, S \subseteq Nat \ {NULL}
  PROVE  /\ First(S) = NULL <=> S = {}
         /\ S # {} => First(S) \in S /\ \A e \in S : First(S) <= e
<1>1. CASE S = {}
  BY <1>1 DEF First
<1>2. CASE S # {}
  <2>1. \E d \in S : \A e \in S : d <= e
    BY <1>2, LeastMember
  <2> QED
    BY <1>2, <2>1 DEF First
<1> QED
  BY <1>1, <1>2

LEMMA OneMore ==
  ASSUME NEW S, NEW s \in Seq(S), NEW d \in S
  PROVE  /\ s \o <<d>> \in Seq(S) /\ Len(s \o <<d>>) = Len(s) + 1
         /\ (s \o <<d>>)[Len(s) + 1] = d /\ \A i \in 1 .. Len(s) : (s \o <<d>>)[i] = s[i]
         /\ ToSet(s \o <<d>>) = ToSet(s) \cup {d}
<1>1. s \o <<d>> \in Seq(S) /\ Len(s \o <<d>>) = Len(s) + 1 /\ Len(s) \in Nat
  OBVIOUS
<1>2. (s \o <<d>>)[Len(s) + 1] = d /\ \A i \in 1 .. Len(s) : (s \o <<d>>)[i] = s[i]
  OBVIOUS
<1>3. DOMAIN s = 1 .. Len(s) /\ DOMAIN (s \o <<d>>) = 1 .. Len(s) + 1
  BY <1>1
<1>4. ToSet(s \o <<d>>) = ToSet(s) \cup {d}
  <2> DEFINE t == s \o <<d>>
  <2>1. \A i \in 1 .. Len(s) + 1 : i \in 1 .. Len(s) \/ i = Len(s) + 1
    BY <1>1
  <2>2. \A i \in 1 .. Len(s) : i \in 1 .. Len(s) + 1
    BY <1>1
  <2>3. Len(s) + 1 \in 1 .. Len(s) + 1
    BY <1>1
  <2>4. DOMAIN s = 1 .. Len(s) /\ DOMAIN t = 1 .. Len(s) + 1
        /\ t[Len(s) + 1] = d /\ \A i \in 1 .. Len(s) : t[i] = s[i]
    BY <1>2, <1>3
  <2> HIDE DEF t
  <2>5. ToSet(t) = ToSet(s) \cup {d}
    BY <2>1, <2>2, <2>3, <2>4 DEF ToSet
  <2> QED
    BY <2>5 DEF t
<1> QED
  BY <1>1, <1>2, <1>4

LEMMA WalkStill ==
  ASSUME WalkInv, UNCHANGED <<sys, present, walk>>, call = Killed => call' = Killed
  PROVE  WalkInv'
BY DEF WalkInv, Walks, Classes, Mine, Findable, Addressable, Bdf, Bdfs, Devices

LEMMA WalkInit == PcieInit(Systems) => WalkInv
<1> SUFFICES ASSUME PcieInit(Systems) PROVE WalkInv
  OBVIOUS
<1>1. sys \in Systems
      /\ walk = [class |-> "", killed |-> FALSE, at |-> ZeroBdf, seen |-> <<>>, undisturbed |-> TRUE]
  BY DEF PcieInit
<1>2. Rising(<<>>) /\ ToSet(<<>>) = {}
  BY DEF Rising, ToSet
<1>3. walk \in Walks
  <2>1. <<>> \in Seq(Devices) /\ "" \in {""} \cup Classes
        /\ ZeroBdf \in {ZeroBdf} \cup Bdfs
    OBVIOUS
  <2> QED
    BY <1>1, <2>1 DEF Walks
<1>4. walk.seen = <<>> /\ ~walk.killed
  BY <1>1
<1> QED
  BY <1>1, <1>2, <1>3, <1>4 DEF WalkInv

LEMMA WalkGoesOn ==
  ASSUME LiveInv, WalkInv, NEW c \in Classes, GetBdfWrapper(c)
  PROVE  WalkInv'
<1>0. PICK again \in BOOLEAN :
        LET goesOn == ~again /\ walk.class = c /\ walk.seen # <<>>
            from == IF goesOn THEN StartAt(walk.at) ELSE NULL
            d == After({e \in Devices : sys.dev[e].class = c}, from)
        IN /\ Followed(d)
           /\ walk' = [class |-> c, killed |-> d = NULL,
                       at |-> IF d = NULL THEN ZeroBdf ELSE Bdf(d),
                       seen |-> (IF goesOn THEN walk.seen ELSE <<>>) \o (IF d = NULL THEN <<>> ELSE <<d>>),
                       undisturbed |-> (goesOn => walk.undisturbed)]
  BY DEF GetBdfWrapper
<1> DEFINE M == {e \in Devices : sys.dev[e].class = c}
           goesOn == ~again /\ walk.class = c /\ walk.seen # <<>>
           from == IF goesOn THEN StartAt(walk.at) ELSE NULL
           T == {e \in M \cap present : from \in present => e > from}
           d == First(T)
           base == IF goesOn THEN walk.seen ELSE <<>>
<1>1. /\ walk' = [class |-> c, killed |-> d = NULL, at |-> IF d = NULL THEN ZeroBdf ELSE Bdf(d),
                  seen |-> base \o (IF d = NULL THEN <<>> ELSE <<d>>),
                  undisturbed |-> (goesOn => walk.undisturbed)]
      /\ UNCHANGED <<sys, present>> /\ ~walk.killed
      /\ call' = IF d = NULL THEN Killed ELSE call
  <2>1. call.op = "none" /\ UNCHANGED <<sys, present>>
    BY DEF GetBdfWrapper, Called, hierarchy
  <2>2. ~walk.killed
    BY <2>1 DEF WalkInv, Killed
  <2> HIDE DEF goesOn
  <2>3. After(M, from) = d
    BY DEF After
  <2>4. /\ Followed(d)
        /\ walk' = [class |-> c, killed |-> d = NULL, at |-> IF d = NULL THEN ZeroBdf ELSE Bdf(d),
                    seen |-> base \o (IF d = NULL THEN <<>> ELSE <<d>>),
                    undisturbed |-> (goesOn => walk.undisturbed)]
    BY <1>0, <2>3 DEF goesOn
  <2> QED
    BY <2>1, <2>2, <2>4 DEF Followed
<1>2. present \subseteq Devices /\ Devices \subseteq Nat \ {NULL} /\ sys \in Systems
  BY DEF LiveInv, Places, WalkInv
<1>3. T \subseteq M \cap present /\ T \subseteq Nat \ {NULL}
  BY <1>2
<1>4. (d = NULL <=> T = {}) /\ (T # {} => d \in T /\ \A e \in T : d <= e)
  <2> HIDE DEF T
  <2> QED
    BY <1>3, FirstIsLeast
<1>5. base \in Seq(Devices)
  <2>1. walk.seen \in Seq(Devices)
    BY DEF WalkInv, Walks
  <2>2. <<>> \in Seq(Devices)
    OBVIOUS
  <2> QED
    BY <2>1, <2>2
<1>6. ASSUME goesOn => walk.undisturbed, \A e \in M : Findable(e)
      PROVE  /\ Rising(base) /\ ToSet(base) \subseteq M
             /\ \A e \in T : \A i \in 1 .. Len(base) : base[i] < e
             /\ \A e \in M \cap present : e \in ToSet(base) \/ e \in T
  <2>1. CASE ~goesOn
    <3>1. Rising(<<>>) /\ ToSet(<<>>) = {}
      BY DEF Rising, ToSet
    <3>2. from \notin present
      BY <1>2, <2>1
    <3> QED
      BY <2>1, <3>1, <3>2
  <2>2. CASE goesOn
    <3> DEFINE last == walk.seen[Len(walk.seen)]
    <3>1. Mine = M /\ walk.seen # <<>> /\ walk.undisturbed /\ base = walk.seen
      BY <1>6, <2>2 DEF Mine
    <3>2. /\ Rising(base) /\ ToSet(base) \subseteq M /\ base # <<>> /\ last \in present
          /\ walk.at = Bdf(last) /\ \A e \in M \cap present : e <= last => e \in ToSet(base)
      BY <1>1, <1>6, <3>1 DEF WalkInv
    <3>3. Len(base) \in Nat /\ DOMAIN base = 1 .. Len(base) /\ Len(base) \in 1 .. Len(base)
          /\ last = base[Len(base)]
      BY <1>5, <3>1, <3>2
    <3>4. last \in M
      BY <3>2, <3>3 DEF ToSet
    <3>5. from = last
      BY <1>2, <1>6, <2>2, <3>2, <3>4, LookupFinds DEF StartAt, Findable, LiveInv
    <3>6. \A i \in 1 .. Len(base) : base[i] \in Devices /\ base[i] <= last
      <4>1. ASSUME NEW i \in 1 .. Len(base) PROVE base[i] \in Devices /\ base[i] <= last
        <5>1. base[i] \in Devices
          BY <1>5
        <5>2. i < Len(base) => base[i] < last
          BY <3>2, <3>3 DEF Rising
        <5>3. i < Len(base) \/ i = Len(base)
          BY <3>3
        <5>4. base[i] \in Nat /\ last \in Nat
          BY <1>2, <3>2, <5>1
        <5>5. i = Len(base) => base[i] = last
          BY <3>3
        <5> QED
          BY <5>1, <5>2, <5>3, <5>4, <5>5
      <4> QED
        BY <4>1
    <3> HIDE DEF base, last, from, goesOn
    <3>7. \A e \in T : \A i \in 1 .. Len(base) : base[i] < e
      <4>1. \A e \in T : e \in Nat /\ last < e
        BY <1>2, <3>2, <3>5
      <4>2. last \in Nat /\ \A i \in 1 .. Len(base) : base[i] \in Nat /\ base[i] <= last
        BY <1>2, <3>2, <3>6
      <4> HIDE DEF T
      <4> QED
        BY <4>1, <4>2
    <3>8. \A e \in M \cap present : e \in ToSet(base) \/ e \in T
      <4>1. \A e \in M \cap present : e <= last \/ e > last
        BY <1>2, <3>2
      <4> QED
        BY <3>2, <3>5, <4>1
    <3> QED
      BY <3>2, <3>7, <3>8
  <2> QED
    BY <2>1, <2>2
<1> HIDE DEF from, base, T, d, goesOn
<1>7. Mine' = M /\ (\A e \in M : Findable(e)' <=> Findable(e)) /\ Devices' = Devices /\ Bdfs' = Bdfs
      /\ Classes' = Classes
  BY <1>1 DEF Classes, Mine, Findable, Addressable, Bdf, Bdfs, Devices
<1>8. CASE d = NULL
  <2>0. base \o <<>> = base
    BY <1>5
  <2>1. walk'.seen = base /\ walk'.killed /\ call' = Killed /\ walk'.undisturbed = (goesOn => walk.undisturbed)
        /\ walk'.class = c /\ walk'.at = ZeroBdf
    BY <1>1, <1>8, <2>0
  <2>2. walk' \in Walks
    BY <1>1, <1>5, <1>7, <1>8, <2>1 DEF Walks
  <2>3. Walks' = Walks
    BY <1>1, <1>7 DEF Walks
  <2> QED
    BY <1>1, <1>2, <1>4, <1>6, <1>7, <1>8, <2>1, <2>2, <2>3 DEF WalkInv
<1>9. CASE d # NULL
  <2>1. d \in T /\ d \in M /\ d \in present /\ d \in Devices /\ \A e \in T : d <= e
    BY <1>2, <1>3, <1>4, <1>9
  <2>2. walk'.seen = base \o <<d>> /\ ~walk'.killed /\ walk'.undisturbed = (goesOn => walk.undisturbed)
        /\ walk'.class = c /\ walk'.at = Bdf(d)
    BY <1>1, <1>9
  <2>3. /\ walk'.seen \in Seq(Devices) /\ Len(walk'.seen) = Len(base) + 1 /\ Len(base) \in Nat
        /\ walk'.seen[Len(base) + 1] = d /\ \A i \in 1 .. Len(base) : walk'.seen[i] = base[i]
        /\ ToSet(walk'.seen) = ToSet(base) \cup {d}
    BY <1>5, <2>1, <2>2, OneMore
  <2>4. walk' \in Walks
    <3>1. Bdf(d) \in Bdfs
      BY <2>1 DEF Bdfs
    <3> QED
      BY <1>1, <1>9, <2>2, <2>3, <3>1 DEF Walks
  <2>5. Walks' = Walks
    BY <1>1, <1>7 DEF Walks
  <2>6. ASSUME goesOn => walk.undisturbed, \A e \in M : Findable(e)
        PROVE  /\ Rising(walk'.seen) /\ ToSet(walk'.seen) \subseteq M
               /\ \A e \in M \cap present : e <= d => e \in ToSet(walk'.seen)
    <3>1. Rising(walk'.seen)
      <4>1. DOMAIN walk'.seen = 1 .. Len(base) + 1
        BY <2>3
      <4>2. DOMAIN base = 1 .. Len(base) /\ Rising(base) /\ \A i \in 1 .. Len(base) : base[i] < d
        BY <1>5, <1>6, <2>1, <2>6
      <4>3. ASSUME NEW i \in 1 .. Len(base) + 1, NEW j \in 1 .. Len(base) + 1, i < j
            PROVE  walk'.seen[i] < walk'.seen[j]
        <5>1. i \in 1 .. Len(base) /\ (j \in 1 .. Len(base) \/ j = Len(base) + 1)
          BY <2>3, <4>3
        <5> QED
          BY <2>3, <4>2, <4>3, <5>1 DEF Rising
      <4> QED
        BY <4>1, <4>3 DEF Rising
    <3>2. \A e \in M \cap present : e <= d => e \in ToSet(walk'.seen)
      <4>1. \A e \in T : e <= d => e = d
        BY <1>3, <2>1
      <4> QED
        BY <1>6, <2>3, <2>6, <4>1
    <3> QED
      BY <1>6, <2>1, <2>3, <2>6, <3>1, <3>2
  <2>7. walk'.seen # <<>>
    <3>1. Len(walk'.seen) # 0
      BY <2>3
    <3> QED
      BY <3>1
  <2>8. walk'.seen[Len(walk'.seen)] = d
    BY <2>3
  <2>9. /\ walk' \in Walks' /\ sys' \in Systems /\ Mine' = M /\ ~walk'.killed
        /\ present' = present
    BY <1>1, <1>2, <1>7, <2>2, <2>4, <2>5
  <2>10. \A e : Bdf(e)' = Bdf(e)
    BY <1>1 DEF Bdf, Create
  <2>11. ASSUME NEW l, l = d PROVE walk'.at = Bdf(l)'
    BY <2>2, <2>10, <2>11
  <2>12. walk'.undisturbed /\ (\A e \in M : Findable(e)') =>
           /\ Rising(walk'.seen) /\ ToSet(walk'.seen) \subseteq M
           /\ \A e \in M \cap present : e <= d => e \in ToSet(walk'.seen)
    BY <1>7, <2>2, <2>6
  <2> HIDE DEF M
  <2> QED
    BY <2>1, <2>7, <2>8, <2>9, <2>11, <2>12 DEF WalkInv
<1> QED
  BY <1>8, <1>9

LEMMA WalkNext == LiveInv /\ WalkInv /\ [PcieNext]_pcieVars => WalkInv'
<1> SUFFICES ASSUME LiveInv, WalkInv, [PcieNext]_pcieVars PROVE WalkInv'
  OBVIOUS
<1>1. CASE \/ TableCalled \/ TableTurn \/ VectorsCalled \/ VectorTurn \/ VectorsReturn
           \/ GetLegacyIrqMap \/ Query \/ BdfToDev \/ AllocCacheable \/ FreeCacheable
           \/ UNCHANGED pcieVars
  <2>1. UNCHANGED <<sys, present, walk>> /\ (call = Killed => call' = Killed)
    BY <1>1 DEF Called, Killed, TableCalled, TableTurn, VectorsCalled, VectorTurn, VectorsReturn, GetLegacyIrqMap,
                Query, BdfToDev, AllocCacheable, FreeCacheable, hierarchy, results, pcieVars
  <2> QED
    BY <2>1, WalkStill
<1>2. ASSUME NEW d \in present, Unplug(d) PROVE WalkInv'
  <2>1. /\ walk' = [walk EXCEPT !.undisturbed = FALSE] /\ sys' = sys
        /\ call = Killed => call' = Killed
    BY <1>2 DEF Unplug, Killed
  <2>2. walk' \in Walks /\ ~walk'.undisturbed
    BY <2>1 DEF WalkInv, Walks
  <2>3. Walks' = Walks
    BY <2>1 DEF Walks, Classes, Bdfs, Bdf, Devices
  <2>4. walk'.killed = walk.killed
    BY <2>1 DEF WalkInv, Walks
  <2> QED
    BY <2>1, <2>2, <2>3, <2>4 DEF WalkInv
<1> QED
  BY <1>1, <1>2, WalkGoesOn DEF PcieNext, PcieServices

\* In every hierarchy, going through the devices of a class meets each once, in the order of
\* the kernel's list, before a call follows a NULL pointer, as long as none is unplugged
\* (pal_pcie_enumeration.c:91-101).
THEOREM WalkMeetsAll == PcieSpec => []WalkOnward
<1>1. WalkInv => WalkOnward
  <2> SUFFICES ASSUME WalkInv, walk.undisturbed, \A d \in Mine : Addressable(d) /\ Bdf(d) # ZeroBdf
               PROVE  /\ \A i, j \in DOMAIN walk.seen : i < j => walk.seen[i] < walk.seen[j]
                      /\ walk.killed /\ Mine \subseteq present => ToSet(walk.seen) = Mine
    BY DEF WalkOnward, Mine
  <2>1. Rising(walk.seen) /\ ToSet(walk.seen) \subseteq Mine
        /\ (walk.killed => Mine \cap present \subseteq ToSet(walk.seen))
    BY DEF WalkInv, Findable
  <2> QED
    BY <2>1 DEF Rising
<1> QED
  BY <1>1, LiveInit, LiveNext, WalkInit, WalkNext, PTL DEF PcieSpec

-----------------------------------------------------------------------------
(***************************************************************************)
(* Finding the root port.  The way up from a device ends at a root port or *)
(* on a root bus; its least place in the kernel's list is where it ends.   *)
(***************************************************************************)
Goes(d) == d # NULL /\ sys.dev[d].port # ROOT_PORT
UpFrom(d) ==
  {x \in Devices \cup {NULL} : \A C \in SUBSET (Devices \cup {NULL}) :
     d \in C /\ (\A c \in C : Goes(c) => sys.dev[c].up \in C) => x \in C}

\* It is the device itself, or the first step of the way goes on from the next.
LEMMA WayUp ==
  ASSUME sys \in Systems, NEW d \in Devices \cup {NULL}
  PROVE  /\ d \in UpFrom(d)
         /\ ~Goes(d) => UpFrom(d) = {d}
         /\ Goes(d) => UpFrom(d) = {d} \cup UpFrom(sys.dev[d].up)
<1> DEFINE D == Devices \cup {NULL}
           Closed(C) == \A c \in C : Goes(c) => sys.dev[c].up \in C
<1>1. d \in UpFrom(d)
  BY DEF UpFrom
<1>2. ASSUME ~Goes(d) PROVE UpFrom(d) = {d}
  <2>1. {d} \in SUBSET D /\ d \in {d} /\ Closed({d})
    BY <1>2
  <2> QED
    BY <1>1, <2>1 DEF UpFrom
<1>3. ASSUME Goes(d) PROVE UpFrom(d) = {d} \cup UpFrom(sys.dev[d].up)
  <2> DEFINE u == sys.dev[d].up
  <2>1. u \in D
    BY <1>3, OfSystem DEF Goes
  <2>2. ASSUME NEW x \in UpFrom(u) PROVE x \in UpFrom(d)
    <3>1. \A C \in SUBSET D : d \in C /\ Closed(C) => u \in C
      BY <1>3
    <3> QED
      BY <2>2, <3>1 DEF UpFrom
  <2>3. ASSUME NEW x \in UpFrom(d), x # d PROVE x \in UpFrom(u)
    <3>1. ASSUME NEW C \in SUBSET D, u \in C, Closed(C) PROVE x \in C
      <4>1. C \cup {d} \in SUBSET D /\ d \in C \cup {d} /\ Closed(C \cup {d})
        BY <3>1
      <4> QED
        BY <2>3, <4>1 DEF UpFrom
    <3>2. x \in D
      BY <2>3 DEF UpFrom
    <3> QED
      BY <3>1, <3>2 DEF UpFrom
  <2> QED
    BY <1>1, <2>2, <2>3
<1> QED
  BY <1>1, <1>2, <1>3

\* So the search ends, in every hierarchy.
LEMMA SearchEnds ==
  ASSUME sys \in Systems
  PROVE  \A d \in Devices \cup {NULL} : FindRootPort[d] =
           IF d = NULL THEN NULL ELSE IF sys.dev[d].port = ROOT_PORT THEN d
           ELSE FindRootPort[sys.dev[d].up]
<1> DEFINE D == Devices \cup {NULL}
           Of(f) == [d \in D |-> IF d = NULL THEN NULL ELSE IF sys.dev[d].port = ROOT_PORT THEN d
                                 ELSE f[sys.dev[d].up]]
           Least(S) == CHOOSE x \in S : \A y \in S : x <= y
           end == [d \in D |-> Least(UpFrom(d))]
<1>1. D \subseteq Nat /\ \A d \in Devices : sys.dev[d].up \in D /\ sys.dev[d].up < d
  BY OfSystem DEF NULL
<1>2. ASSUME NEW S, S \subseteq Nat, S # {}
      PROVE  Least(S) \in S /\ \A y \in S : Least(S) <= y
  BY <1>2, LeastMember
<1>3. \A d \in D : UpFrom(d) \subseteq Nat /\ UpFrom(d) # {}
  BY <1>1, WayUp DEF UpFrom
<1>4. ASSUME NEW d \in D, ~Goes(d) PROVE end[d] = d
  <2>1. UpFrom(d) = {d}
    BY <1>4, WayUp
  <2> QED
    BY <1>2, <1>3, <2>1
<1>5. ASSUME NEW d \in D, Goes(d) PROVE end[d] = end[sys.dev[d].up]
  <2> DEFINE u == sys.dev[d].up
             m == Least(UpFrom(d))
             k == Least(UpFrom(u))
  <2>1. u \in D /\ u < d /\ d \in Nat /\ u \in Nat
    BY <1>1, <1>5 DEF Goes
  <2>2. UpFrom(d) = {d} \cup UpFrom(u) /\ u \in UpFrom(u)
    BY <1>5, <2>1, WayUp
  <2>3. k \in UpFrom(u) /\ (\A y \in UpFrom(u) : k <= y) /\ m \in UpFrom(d) /\ \A y \in UpFrom(d) : m <= y
    BY <1>2, <1>3, <2>1
  <2>4. end[d] = m /\ end[u] = k
    BY <2>1
  <2> HIDE DEF m, k, u, end
  <2>5. m \in Nat /\ k \in Nat
    BY <1>3, <2>1, <2>3
  <2>6. m <= k /\ k <= u
    BY <2>2, <2>3
  <2>7. m # d
    BY <2>1, <2>5, <2>6
  <2>8. k <= m
    BY <2>2, <2>3, <2>7
  <2> QED
    BY <2>4, <2>5, <2>6, <2>8 DEF u
<1> HIDE DEF Least
<1>6. \A d \in D : end[d] = IF d = NULL THEN NULL ELSE IF sys.dev[d].port = ROOT_PORT THEN d
                            ELSE end[sys.dev[d].up]
  <2> HIDE DEF end
  <2> QED
    BY <1>4, <1>5 DEF Goes
<1>7. end = Of(end)
  <2>1. end = [d \in D |-> end[d]]
    OBVIOUS
  <2> HIDE DEF end
  <2> QED
    BY <1>6, <2>1
<1> HIDE DEF end
<1>8. \E f : f = Of(f)
  BY <1>7
<1>9. FindRootPort = Of(FindRootPort)
  BY <1>8 DEF FindRootPort
<1> HIDE DEF D
<1>10. \A d \in D : FindRootPort[d] = IF d = NULL THEN NULL ELSE IF sys.dev[d].port = ROOT_PORT THEN d
                                      ELSE FindRootPort[sys.dev[d].up]
  BY <1>9
<1> QED
  BY <1>10 DEF D

\* What it finds is no further down.
LEMMA RootAbove ==
  ASSUME sys \in Systems, NEW d \in Devices \cup {NULL}
  PROVE  FindRootPort[d] \in 0 .. d
<1> DEFINE D == Devices \cup {NULL}
           Bad == {e \in D : FindRootPort[e] \notin 0 .. e}
<1>1. D \subseteq Nat /\ \A e \in Devices : sys.dev[e].up \in D /\ sys.dev[e].up < e
  BY OfSystem DEF NULL
<1>2. CASE Bad = {}
  BY <1>2
<1>3. CASE Bad # {}
  <2>0. Bad \subseteq Nat
    BY <1>1
  <2>1. PICK e \in Bad : \A c \in Bad : e <= c
    <3> HIDE DEF Bad
    <3> QED
      BY <1>3, <2>0, LeastMember
  <2>2. e \in Devices /\ e \in Nat /\ FindRootPort[e] = FindRootPort[sys.dev[e].up]
    BY <1>1, <2>1, SearchEnds DEF NULL
  <2>3. sys.dev[e].up \in D /\ sys.dev[e].up < e /\ sys.dev[e].up \in Nat
    BY <1>1, <2>2
  <2>4. sys.dev[e].up \notin Bad
    BY <2>1, <2>2, <2>3
  <2>5. FindRootPort[sys.dev[e].up] \in 0 .. sys.dev[e].up
    BY <2>3, <2>4
  <2> QED
    BY <2>1, <2>2, <2>3, <2>5
<1> QED
  BY <1>2, <1>3

\* What a query answers for a device.
LEMMA AnswersSound ==
  ASSUME sys \in Systems, NEW d \in Devices \cup {NULL}
  PROVE  /\ Answers(d).get_root_port_bdf = 0 => d \in Devices /\ FindRootPort[d] \in 1 .. d - 1
         /\ Answers(d).check_device_valid = 0 =>
              \A q \in DOMAIN Answers(d) : Answers(d)[q] = Oops => q = "check_memtype"
<1>1. Answers(d).get_root_port_bdf = GetRootPortBdf(d) /\ Answers(d).check_device_valid = CheckDeviceValid(d)
  BY DEF Answers
<1>2. ASSUME GetRootPortBdf(d) = 0 PROVE d \in Devices /\ FindRootPort[d] \in 1 .. d - 1
  <2>1. d \in Devices /\ sys.dev[d].up # NULL /\ FindRootPort[d] # NULL
    BY <1>2 DEF GetRootPortBdf, Oops
  <2>2. FindRootPort[d] = FindRootPort[sys.dev[d].up]
    BY <2>1, OfSystem, SearchEnds
  <2>3. sys.dev[d].up \in Devices /\ sys.dev[d].up < d /\ sys.dev[d].up \in Nat /\ d \in Nat
    BY <2>1, OfSystem
  <2>4. FindRootPort[sys.dev[d].up] \in 0 .. sys.dev[d].up
    BY <2>3, RootAbove
  <2> QED
    BY <2>1, <2>2, <2>3, <2>4 DEF NULL
<1>3. ASSUME CheckDeviceValid(d) = 0
      PROVE  \A q \in DOMAIN Answers(d) : Answers(d)[q] = Oops => q = "check_memtype"
  <2>1. d \in Devices /\ d # NULL
    BY <1>3 DEF CheckDeviceValid, Bit
  <2>2. sys.dev[d].port # Oops
    BY <2>1, OfSystem DEF Oops
  <2> QED
    BY <2>1, <2>2 DEF Answers, IsDeviceBehindSmmu, IsDevicedma64bit, DeviceDriverPresent, GetPcieType,
       GetSnoopBit, GetDmaSupport, GetDmaCoherent, ReadExtCapWord, MultifunctionSupport,
       PeripheralIsPcie, CheckDeviceValid, ReadConfigByte, WriteConfigByte, GetDeviceType,
       GetRootPortBdf, Bit, Oops
<1> QED
  BY <1>1, <1>2, <1>3

\* In every hierarchy, a root port is given only for devices below one, and a NULL
\* pointer is followed just where RootPortAbove says (pal_pcie.c:315, 397, 428-438).
THEOREM RootPortsRight == PcieSpec => []RootPortAbove
<1> DEFINE Inv == sys \in Systems /\ RootPortAbove
<1>1. PcieInit(Systems) => Inv
  <2> SUFFICES ASSUME PcieInit(Systems) PROVE Inv
    OBVIOUS
  <2>1. Answers(NULL).get_root_port_bdf # 0 /\ Answers(NULL).check_device_valid # 0
    BY DEF Answers, GetRootPortBdf, CheckDeviceValid, Bit, Oops
  <2>2. answer.value = Answers(NULL) /\ sys \in Systems
    BY DEF PcieInit
  <2> QED
    BY <2>1, <2>2 DEF RootPortAbove
<1>2. LiveInv /\ Inv /\ [PcieNext]_pcieVars => Inv'
  <2> SUFFICES ASSUME LiveInv, Inv, [PcieNext]_pcieVars PROVE Inv'
    OBVIOUS
  <2>1. sys' = sys
    BY SystemStays
  <2>2. CASE Query
    <3>1. PICK b \in Bdfs :
            answer' = [of |-> b, dev |-> Lookup(b), value |-> Answers(Lookup(b)),
                       root |-> IF Lookup(b) = NULL THEN NULL ELSE FindRootPort[Lookup(b)]]
      BY <2>2 DEF Query
    <3> DEFINE d == Lookup(b)
    <3>2. d \in Devices \cup {NULL}
      BY LookupIsPresent DEF LiveInv, Places
    <3>3. answer'.dev = d /\ answer'.value = Answers(d)
          /\ answer'.root = IF d = NULL THEN NULL ELSE FindRootPort[d]
      BY <3>1
    <3> HIDE DEF d
    <3>4. d \in Devices => d # NULL
      BY OfSystem
    <3> QED
      BY <2>1, <3>2, <3>3, <3>4, AnswersSound DEF RootPortAbove
  <2>3. CASE ~Query
    <3>1. answer' = answer
      BY <2>3 DEF PcieNext, PcieServices, pcieVars, results, TableCalled, TableTurn, VectorsCalled,
         VectorTurn, VectorsReturn, GetLegacyIrqMap, BdfToDev, AllocCacheable, FreeCacheable,
         GetBdfWrapper, Unplug
    <3> QED
      BY <2>1, <3>1 DEF RootPortAbove
  <2> QED
    BY <2>2, <2>3
<1> QED
  BY <1>1, <1>2, LiveInit, LiveNext, PTL DEF PcieSpec

-----------------------------------------------------------------------------
(***************************************************************************)
(* The peripheral table.                                                   *)
(***************************************************************************)
Blocks == {Block(d) : d \in Devices}
Tables == [num_usb : Nat, num_sata : Nat, num_all : Nat, info : Seq(Blocks),
           end : BOOLEAN, undisturbed : BOOLEAN]
Typed(s, t) == {i \in 1 .. Len(s) : s[i].type = t}
Counted(t, s) ==
  /\ t.num_all = Len(s)
  /\ t.num_usb = Cardinality(Typed(s, "USB")) /\ t.num_sata = Cardinality(Typed(s, "SATA"))

\* The devices that the blocks are made from, in the kernel's order; none is left out up
\* to the one the making has arrived at.
From(f, s) ==
  /\ f \in [1 .. Len(s) -> Devices]
  /\ \A i \in 1 .. Len(s) : s[i] = Block(f[i])
InOrder(f, n) == \A i, j \in 1 .. n : i < j => f[i] < f[j]
Among(d, f, n) == \E i \in 1 .. n : f[i] = d
Arrived(f, n, at, there) ==
  /\ InOrder(f, n)
  /\ at \in there \cup {NULL}
  /\ \A i \in 1 .. n : f[i] <= at
  /\ \A d \in there : d <= at => Among(d, f, n)
Ended(f, n, there) == InOrder(f, n) /\ \A d \in there : Among(d, f, n)

TableInv ==
  /\ sys \in Systems
  /\ table \in Tables
  /\ Counted(table, table.info)
  /\ call.op = "table" => ~table.end
  /\ \E f : /\ From(f, table.info)
            /\ call.op = "table" /\ ~call.unplugged => Arrived(f, Len(table.info), call.pdev, present)
            /\ table.end /\ table.undisturbed => Ended(f, Len(table.info), present)

\* One more block is counted under its type.
LEMMA OneMoreTyped ==
  ASSUME NEW s \in Seq(Blocks), NEW b \in Blocks, NEW t
  PROVE  /\ IsFiniteSet(Typed(s, t)) /\ Cardinality(Typed(s, t)) \in Nat
         /\ Cardinality(Typed(Append(s, b), t)) =
              Cardinality(Typed(s, t)) + (IF b.type = t THEN 1 ELSE 0)
<1> DEFINE n == Len(s)
           u == Append(s, b)
<1>1. n \in Nat /\ Len(u) = n + 1 /\ u[n + 1] = b
  OBVIOUS
<1>2. \A i \in 1 .. n : u[i] = s[i]
  OBVIOUS
<1>3. IsFiniteSet(Typed(s, t)) /\ Cardinality(Typed(s, t)) \in Nat
  <2>1. IsFiniteSet(1 .. n) /\ Typed(s, t) \subseteq 1 .. n
    BY <1>1, FS_Interval DEF Typed
  <2>2. IsFiniteSet(Typed(s, t))
    BY <2>1, FS_Subset
  <2> QED
    BY <2>2, FS_CardinalityType
<1>4. Typed(u, t) = Typed(s, t) \cup (IF b.type = t THEN {n + 1} ELSE {})
  <2> HIDE DEF u
  <2>1. 1 .. n + 1 = (1 .. n) \cup {n + 1}
    BY <1>1
  <2> QED
    BY <1>1, <1>2, <2>1 DEF Typed
<1>5. n + 1 \notin Typed(s, t)
  BY <1>1 DEF Typed
<1> HIDE DEF n, u
<1>6. Cardinality(Typed(u, t)) = Cardinality(Typed(s, t)) + (IF b.type = t THEN 1 ELSE 0)
  <2>1. Cardinality(Typed(s, t) \cup {n + 1}) = Cardinality(Typed(s, t)) + 1
    BY <1>3, <1>5, FS_AddElement
  <2>2. Typed(s, t) \cup {} = Typed(s, t) /\ Cardinality(Typed(s, t)) + 0 = Cardinality(Typed(s, t))
    BY <1>3
  <2> QED
    BY <1>4, <2>1, <2>2
<1> QED
  BY <1>3, <1>6 DEF u

LEMMA TableStill ==
  ASSUME TableInv, UNCHANGED <<sys, table>>, present' \subseteq present,
         \/ call' = call /\ present' = present
         \/ call'.op # "table"
         \/ call.op = "table" /\ call'.unplugged
  PROVE  TableInv'
<1>1. PICK f : /\ From(f, table.info)
               /\ call.op = "table" /\ ~call.unplugged => Arrived(f, Len(table.info), call.pdev, present)
               /\ table.end /\ table.undisturbed => Ended(f, Len(table.info), present)
  BY DEF TableInv
<1>2. Devices' = Devices /\ \A d : Block(d)' = Block(d)
  BY DEF Devices, Block, Bdf, Create, Has
<1>3. Blocks' = Blocks /\ Tables' = Tables
  BY <1>2 DEF Blocks, Tables, Devices
<1>4. \A h, s : From(h, s)' <=> From(h, s)
  BY <1>2 DEF From
<1>5. call'.op = "table" /\ ~call'.unplugged => Arrived(f, Len(table'.info), call'.pdev, present')
  BY <1>1 DEF Arrived
<1>6. table'.end /\ table'.undisturbed => Ended(f, Len(table'.info), present')
  BY <1>1 DEF Ended
<1>7. call'.op = "table" => ~table'.end
  BY DEF TableInv
<1>8. sys' \in Systems /\ table' \in Tables' /\ Counted(table', table'.info)
  BY <1>3 DEF TableInv
<1>9. From(f, table'.info)
  BY <1>1
<1> QED
  BY <1>4, <1>5, <1>6, <1>7, <1>8, <1>9 DEF TableInv

LEMMA TableNew ==
  ASSUME Places, TableInv, TableCalled
  PROVE  TableInv'
<1>1. /\ sys' = sys /\ present' = present
      /\ call' = [op |-> "table", pdev |-> NULL, unplugged |-> FALSE]
      /\ table' = [num_usb |-> 0, num_sata |-> 0, num_all |-> 0, info |-> <<>>, end |-> FALSE,
                   undisturbed |-> TRUE]
  BY DEF TableCalled, hierarchy
<1>2. \A h, s : From(h, s)' <=> From(h, s)
  BY <1>1 DEF From, Block, Bdf, Create, Has, Devices
<1>3. table' \in Tables'
  <2>1. <<>> \in Seq(Blocks')
    OBVIOUS
  <2> QED
    BY <1>1, <2>1 DEF Tables
<1>4. \A t : Typed(<<>>, t) = {}
  BY DEF Typed
<1>5. Counted(table', table'.info)
  BY <1>1, <1>4, FS_EmptySet DEF Counted
<1>6. From(<<>>, table'.info)
  BY <1>1 DEF From
<1>7. Arrived(<<>>, Len(table'.info), call'.pdev, present')
  <2>1. \A d \in present : ~(d <= NULL)
    <3>1. \A d \in present : d \in Nat /\ d # 0
      BY DEF Places, NULL
    <3> QED
      BY <3>1 DEF NULL
  <2>2. Len(table'.info) = 0 /\ call'.pdev = NULL /\ present' = present
    BY <1>1
  <2> QED
    BY <2>1, <2>2 DEF Arrived, InOrder
<1>8. sys' \in Systems /\ ~table'.end
  BY <1>1 DEF TableInv
<1> QED
  BY <1>2, <1>3, <1>5, <1>6, <1>7, <1>8 DEF TableInv

LEMMA TableGrows ==
  ASSUME Places, TableInv, TableTurn
  PROVE  TableInv'
<1> DEFINE n == Len(table.info)
           d == GetDevNext(call.pdev)
           T == {e \in Devices \cap present : call.pdev \in present => e > call.pdev}
<1>1. PICK f : /\ From(f, table.info)
               /\ call.op = "table" /\ ~call.unplugged => Arrived(f, n, call.pdev, present)
               /\ table.end /\ table.undisturbed => Ended(f, n, present)
  BY DEF TableInv
<1>2. /\ sys' = sys /\ present' = present /\ Devices' = Devices /\ \A e : Block(e)' = Block(e)
      /\ Blocks' = Blocks /\ Tables' = Tables /\ \A h, s : From(h, s)' <=> From(h, s)
  <2>1. sys' = sys /\ present' = present
    BY DEF TableTurn, hierarchy
  <2>2. Devices' = Devices /\ \A e : Block(e)' = Block(e)
    BY <2>1 DEF Devices, Block, Bdf, Create, Has
  <2> QED
    BY <2>1, <2>2 DEF Blocks, Tables, From
<1>3. /\ call \in [op : {"table"}, pdev : Devices \cup {NULL}, unplugged : BOOLEAN]
      /\ call.op = "table" /\ ~table.end
  BY DEF Places, TableTurn, TableInv, Idle, Killed
<1>4. /\ T \subseteq present /\ present \subseteq Devices /\ Devices \subseteq Nat \ {NULL}
      /\ (d = NULL <=> T = {}) /\ (T # {} => d \in T /\ \A e \in T : d <= e)
  <2>1. T \subseteq present /\ T \subseteq Nat \ {NULL} /\ present \subseteq Devices
        /\ Devices \subseteq Nat \ {NULL}
    BY DEF Places
  <2>2. d = First(T)
    BY DEF GetDevNext, After
  <2> HIDE DEF T, d
  <2> QED
    BY <2>1, <2>2, FirstIsLeast
<1>5. table \in Tables /\ table.info \in Seq(Blocks) /\ n \in Nat /\ Counted(table, table.info)
  BY DEF TableInv, Tables
<1>6. \A e \in present : ~call.unplugged => e \in T \/ Among(e, f, n)
  <2>1. ASSUME NEW e \in present, ~call.unplugged, e \notin T PROVE Among(e, f, n)
    <3>1. Arrived(f, n, call.pdev, present)
      BY <1>1, <1>3, <2>1
    <3>2. e <= call.pdev
      <4>1. call.pdev \in present /\ ~(e > call.pdev)
        BY <1>4, <2>1
      <4>2. e \in Nat /\ call.pdev \in Nat
        BY <1>4, <4>1
      <4> QED
        BY <4>1, <4>2
    <3> QED
      BY <3>1, <3>2 DEF Arrived
  <2> QED
    BY <2>1
<1> HIDE DEF T, d
<1>7. CASE d = NULL
  <2>1. call' = Idle /\ table' = [table EXCEPT !.end = TRUE, !.undisturbed = ~call.unplugged]
    BY <1>7 DEF TableTurn, d
  <2>2. /\ table' \in Tables /\ table'.info = table.info /\ table'.undisturbed = ~call.unplugged
        /\ table'.num_usb = table.num_usb /\ table'.num_sata = table.num_sata
        /\ table'.num_all = table.num_all
    BY <1>3, <1>5, <2>1 DEF Tables
  <2>3. Counted(table', table'.info)
    BY <1>5, <2>2 DEF Counted
  <2>4. From(f, table'.info)
    BY <1>1, <2>2
  <2>5. ~call.unplugged => Ended(f, n, present)
    BY <1>1, <1>3, <1>4, <1>6, <1>7 DEF Ended, Arrived
  <2>6. table'.undisturbed => Ended(f, Len(table'.info), present')
    BY <1>2, <2>2, <2>5 DEF Ended
  <2>7. call'.op # "table"
    BY <2>1 DEF Idle, Killed
  <2> QED
    BY <1>2, <2>2, <2>3, <2>4, <2>6, <2>7 DEF TableInv
<1>8. CASE d # NULL
  <2>1. /\ call' = [call EXCEPT !.pdev = d]
        /\ table' = [table EXCEPT
             !.info = Append(@, Block(d)), !.num_all = @ + 1,
             !.num_usb = IF Block(d).type = "USB" THEN @ + 1 ELSE @,
             !.num_sata = IF Block(d).type = "SATA" THEN @ + 1 ELSE @]
    BY <1>8 DEF TableTurn, d
  <2>2. d \in T /\ d \in present /\ d \in Devices /\ d \in Nat /\ \A e \in T : d <= e
    BY <1>4, <1>8
  <2>3. Block(d) \in Blocks
    BY <2>2 DEF Blocks
  <2> DEFINE s == Append(table.info, Block(d))
             b == Block(d)
             g == [i \in 1 .. n + 1 |-> IF i = n + 1 THEN d ELSE f[i]]
  <2>4. s \in Seq(Blocks) /\ Len(s) = n + 1 /\ s[n + 1] = b
    BY <1>5, <2>3
  <2>5. \A i \in 1 .. n : s[i] = table.info[i]
    BY <1>5, <2>3
  <2> HIDE DEF b
  <2>6. /\ table'.info = s /\ table'.end = table.end /\ table'.undisturbed = table.undisturbed
        /\ table'.num_all = table.num_all + 1
        /\ table'.num_usb = IF b.type = "USB" THEN table.num_usb + 1 ELSE table.num_usb
        /\ table'.num_sata = IF b.type = "SATA" THEN table.num_sata + 1 ELSE table.num_sata
        /\ DOMAIN table' = DOMAIN table
    BY <1>5, <2>1 DEF Tables, b
  <2>7. \A t : Cardinality(Typed(s, t)) =
                 Cardinality(Typed(table.info, t)) + (IF b.type = t THEN 1 ELSE 0)
               /\ Cardinality(Typed(table.info, t)) \in Nat
    BY <1>5, <2>3, OneMoreTyped DEF b
  <2> HIDE DEF s
  <2>8. Counted(table', table'.info)
    <3>1. table'.num_usb = Cardinality(Typed(s, "USB"))
      BY <1>5, <2>6, <2>7 DEF Counted
    <3>2. table'.num_sata = Cardinality(Typed(s, "SATA"))
      BY <1>5, <2>6, <2>7 DEF Counted
    <3>3. table'.num_all = Len(s)
      BY <1>5, <2>4, <2>6 DEF Counted
    <3> QED
      BY <2>6, <3>1, <3>2, <3>3 DEF Counted
  <2>9. table' \in Tables
    <3>1. table'.num_usb \in Nat /\ table'.num_sata \in Nat /\ table'.num_all \in Nat
          /\ table'.end \in BOOLEAN /\ table'.undisturbed \in BOOLEAN
      BY <1>5, <2>6 DEF Tables
    <3>2. table' = [num_usb |-> table'.num_usb, num_sata |-> table'.num_sata,
                    num_all |-> table'.num_all, info |-> table'.info, end |-> table'.end,
                    undisturbed |-> table'.undisturbed]
      BY <1>5, <2>1 DEF Tables
    <3> QED
      BY <2>4, <2>6, <3>1, <3>2 DEF Tables
  <2>10. /\ g \in [1 .. n + 1 -> Devices] /\ g[n + 1] = d /\ \A i \in 1 .. n : g[i] = f[i]
         /\ \A i \in 1 .. n + 1 : i \in 1 .. n \/ i = n + 1
         /\ 1 .. n \subseteq 1 .. n + 1 /\ n + 1 \in 1 .. n + 1
    <3>1. \A i \in 1 .. n : f[i] \in Devices
      BY <1>1 DEF From
    <3>2. \A i \in 1 .. n + 1 : i \in 1 .. n \/ i = n + 1
      BY <1>5
    <3>3. 1 .. n \subseteq 1 .. n + 1 /\ n + 1 \in 1 .. n + 1 /\ \A i \in 1 .. n : i # n + 1
      BY <1>5
    <3> QED
      BY <2>2, <3>1, <3>2, <3>3
  <2> HIDE DEF g
  <2>11. From(g, s)
    <3>1. \A i \in 1 .. n : s[i] = Block(g[i])
      BY <1>1, <2>5, <2>10 DEF From
    <3>2. s[n + 1] = Block(g[n + 1])
      BY <2>4, <2>10 DEF b
    <3> QED
      BY <2>4, <2>10, <3>1, <3>2 DEF From
  <2>12. From(g, table'.info)
    BY <2>6, <2>11
  <2>13. call'.op = "table" /\ call'.pdev = d /\ call'.unplugged = call.unplugged
    BY <1>3, <2>1
  <2>14. ASSUME ~call.unplugged
         PROVE  /\ InOrder(g, n + 1) /\ (\A i \in 1 .. n + 1 : g[i] <= d)
                /\ \A e \in present : e <= d => Among(e, g, n + 1)
    <3>1. Arrived(f, n, call.pdev, present)
      BY <1>1, <1>3, <2>14
    <3>2. \A i \in 1 .. n : f[i] \in Devices /\ f[i] < d
      <4>1. ASSUME NEW i \in 1 .. n PROVE f[i] \in Devices /\ f[i] < d
        <5>1. f[i] \in Devices /\ f[i] \in Nat /\ f[i] # NULL
          BY <1>1, <1>4 DEF From
        <5>2. f[i] <= call.pdev
          BY <3>1 DEF Arrived
        <5>3. call.pdev \in present
          BY <3>1, <5>1, <5>2 DEF Arrived, NULL
        <5>4. d > call.pdev /\ call.pdev \in Nat
          BY <1>4, <2>2, <5>3 DEF T
        <5> QED
          BY <2>2, <5>1, <5>2, <5>4
      <4> QED
        BY <4>1
    <3>3. InOrder(g, n + 1)
      <4>1. ASSUME NEW i \in 1 .. n + 1, NEW j \in 1 .. n + 1, i < j PROVE g[i] < g[j]
        <5>1. i \in 1 .. n /\ (j \in 1 .. n \/ j = n + 1)
          BY <1>5, <4>1
        <5>2. CASE j = n + 1
          BY <2>10, <3>2, <5>1, <5>2
        <5>3. CASE j \in 1 .. n
          BY <2>10, <3>1, <4>1, <5>1, <5>3 DEF Arrived, InOrder
        <5> QED
          BY <5>1, <5>2, <5>3
      <4> QED
        BY <4>1 DEF InOrder
    <3>4. \A i \in 1 .. n + 1 : g[i] <= d
      <4>1. ASSUME NEW i \in 1 .. n PROVE g[i] <= d
        <5>1. g[i] = f[i] /\ f[i] \in Nat /\ f[i] < d
          BY <1>4, <2>10, <3>2
        <5> QED
          BY <2>2, <5>1
      <4>2. g[n + 1] <= d
        BY <2>2, <2>10
      <4> QED
        BY <2>10, <4>1, <4>2
    <3>5. \A e \in present : e <= d => Among(e, g, n + 1)
      <4>1. ASSUME NEW e \in present, e <= d PROVE Among(e, g, n + 1)
        <5>1. CASE e \in T
          <6>1. e = d
            BY <1>4, <2>2, <4>1, <5>1
          <6> QED
            BY <2>10, <6>1 DEF Among
        <5>2. CASE Among(e, f, n)
          BY <2>10, <5>2 DEF Among
        <5> QED
          BY <1>6, <2>14, <5>1, <5>2
      <4> QED
        BY <4>1
    <3> QED
      BY <3>3, <3>4, <3>5
  <2>15. ~call'.unplugged => Arrived(g, Len(table'.info), call'.pdev, present')
    BY <1>2, <2>2, <2>4, <2>6, <2>13, <2>14 DEF Arrived
  <2>16. ~table'.end /\ sys' \in Systems
    BY <1>2, <1>3, <2>6 DEF TableInv
  <2> QED
    BY <1>2, <2>8, <2>9, <2>12, <2>15, <2>16 DEF TableInv
<1> QED
  BY <1>7, <1>8

LEMMA TableNext == LiveInv /\ TableInv /\ [PcieNext]_pcieVars => TableInv'
<1> SUFFICES ASSUME LiveInv, TableInv, [PcieNext]_pcieVars PROVE TableInv'
  OBVIOUS
<1>1. CASE TableCalled
  BY <1>1, TableNew DEF LiveInv
<1>2. CASE TableTurn
  BY <1>2, TableGrows DEF LiveInv
<1>3. CASE \/ GetLegacyIrqMap \/ Query \/ BdfToDev \/ AllocCacheable \/ FreeCacheable
           \/ (\E c \in Classes : GetBdfWrapper(c)) \/ UNCHANGED pcieVars
  <2>1. UNCHANGED <<sys, present, table>> /\ (call' = call \/ call' = Killed)
    BY <1>3 DEF GetLegacyIrqMap, Query, BdfToDev, AllocCacheable, FreeCacheable, GetBdfWrapper,
                Followed, hierarchy, results, pcieVars
  <2> QED
    BY <2>1, TableStill DEF Killed
<1>4. CASE VectorsCalled \/ VectorTurn \/ VectorsReturn
  <2>1. UNCHANGED <<sys, present, table>>
    BY <1>4 DEF VectorsCalled, VectorTurn, VectorsReturn, hierarchy, results
  <2>2. call'.op # "table"
    BY <1>4 DEF VectorsCalled, VectorTurn, VectorsReturn, LiveInv, Places, Idle, Killed
  <2> QED
    BY <2>1, <2>2, TableStill
<1>5. ASSUME NEW d \in present, Unplug(d) PROVE TableInv'
  <2>1. UNCHANGED <<sys, table>> /\ present' \subseteq present
        /\ call' = IF call.op = "table" THEN [call EXCEPT !.unplugged = TRUE] ELSE call
    BY <1>5 DEF Unplug
  <2>2. call.op = "table" => call'.unplugged
    BY <2>1 DEF LiveInv, Places, Idle, Killed
  <2> QED
    BY <2>1, <2>2, TableStill
<1> QED
  BY <1>1, <1>2, <1>3, <1>4, <1>5 DEF PcieNext, PcieServices

LEMMA TableInit == PcieInit(Systems) => TableInv
<1> SUFFICES ASSUME PcieInit(Systems) PROVE TableInv
  OBVIOUS
<1>1. /\ sys \in Systems /\ call.op = "none"
      /\ table = [num_usb |-> 0, num_sata |-> 0, num_all |-> 0, info |-> <<>>, end |-> FALSE,
                  undisturbed |-> FALSE]
  BY DEF PcieInit, Idle, Killed
<1>2. table \in Tables
  <2>1. <<>> \in Seq(Blocks)
    OBVIOUS
  <2> QED
    BY <1>1, <2>1 DEF Tables
<1>3. \A t : Typed(<<>>, t) = {}
  BY DEF Typed
<1>4. Counted(table, table.info)
  BY <1>1, <1>3, FS_EmptySet DEF Counted
<1>5. From(<<>>, table.info)
  BY <1>1 DEF From
<1>6. ~table.end
  BY <1>1
<1> QED
  BY <1>1, <1>2, <1>4, <1>5, <1>6 DEF TableInv

\* In every hierarchy, the table has one block for each device, and its counters and BDFs
\* are right, as long as none is unplugged while it is made (pal_peripherals.c:59-97).
THEOREM TableRight == PcieSpec => []TableNamesDevices
<1>1. LiveInv /\ TableInv => TableNamesDevices
  <2> SUFFICES ASSUME LiveInv, TableInv, table.end, table.undisturbed
               PROVE  TableNamesDevices
    BY DEF TableNamesDevices
  <2> DEFINE n == Len(table.info)
  <2>1. PICK f : From(f, table.info) /\ Ended(f, n, present)
    BY DEF TableInv
  <2>2. \A i \in 1 .. n : f[i] \in Devices /\ table.info[i] = Block(f[i])
                          /\ table.info[i].bdf = Bdf(f[i])
    BY <2>1 DEF From, Block
  <2>3. table.num_all = n /\ table.num_usb = Cardinality({i \in 1 .. n : table.info[i].type = "USB"})
        /\ table.num_sata = Cardinality({i \in 1 .. n : table.info[i].type = "SATA"})
    BY DEF TableInv, Counted, Typed
  <2>4. ASSUME NEW d \in present, Addressable(d)
        PROVE  \E i \in 1 .. n : Lookup(table.info[i].bdf) = d /\ table.info[i] = Block(d)
    <3>1. PICK i \in 1 .. n : f[i] = d
      BY <2>1 DEF Ended, Among
    <3>2. Lookup(Bdf(d)) = d
      BY <2>4, LookupFinds DEF LiveInv, TableInv
    <3> QED
      BY <2>2, <3>1, <3>2
  <2>5. ASSUME NEW i \in 1 .. n, NEW j \in 1 .. n, table.info[i].bdf = table.info[j].bdf, i # j,
               \A d \in Devices : Addressable(d)
        PROVE  FALSE
    <3>1. f[i] \in Devices /\ f[j] \in Devices /\ Bdf(f[i]) = Bdf(f[j])
      BY <2>2, <2>5
    <3>2. sys.dev[f[i]].slot = sys.dev[f[j]].slot
      BY <2>5, <3>1, BdfIsSlot DEF TableInv
    <3>3. f[i] = f[j] /\ f[i] \in Nat
      BY <3>1, <3>2, OfSystem DEF TableInv
    <3>4. i < j \/ j < i
      BY <2>5
    <3>5. f[i] < f[j] \/ f[j] < f[i]
      BY <2>1, <3>4 DEF Ended, InOrder
    <3> QED
      BY <3>3, <3>5
  <2> HIDE DEF n
  <2> QED
    BY <2>3, <2>4, <2>5 DEF TableNamesDevices, n
<1> QED
  BY <1>1, LiveInit, LiveNext, TableInit, TableNext, PTL DEF PcieSpec

-----------------------------------------------------------------------------
(***************************************************************************)
(* The legacy interrupt map.  The loop over the routing entries is a       *)
(* recursion over their number; that it has a value for each number, and   *)
(* what that is, is shown for the least number for which it might fail.    *)
(***************************************************************************)
Solution(f, n, S, s, step) ==
  f \in [0 .. n -> S] /\ f[0] = s /\ \A k \in 1 .. n : f[k] = step[<<f[k - 1], k>>]

LEMMA Recursion ==
  ASSUME NEW N \in Nat, NEW S, NEW s \in S, NEW step \in [S \X (1 .. N) -> S]
  PROVE  \E f : Solution(f, N, S, s, step)
<1> USE DEF Solution
<1> DEFINE Sol(f, n) == Solution(f, n, S, s, step)
           T == {n \in 0 .. N : ~\E f : Sol(f, n)}
<1>1. ASSUME T # {} PROVE FALSE
  <2>1. PICK n \in T : \A m \in T : n <= m
    <3>1. T \subseteq Nat
      OBVIOUS
    <3> HIDE DEF T
    <3> QED
      BY <1>1, <3>1, LeastMember
  <2>2. CASE n = 0
    <3>1. Sol([i \in 0 .. 0 |-> s], 0)
      OBVIOUS
    <3> QED
      BY <2>1, <2>2, <3>1
  <2>3. CASE n # 0
    <3>1. n \in 1 .. N /\ n - 1 \in 0 .. N /\ n - 1 \notin T
      BY <2>1, <2>3
    <3>2. PICK f : Sol(f, n - 1)
      BY <3>1
    <3> DEFINE g == [i \in 0 .. n |-> IF i < n THEN f[i] ELSE step[<<f[n - 1], n>>]]
    <3>3. f[n - 1] \in S /\ step[<<f[n - 1], n>>] \in S
      BY <3>1, <3>2
    <3>4. g \in [0 .. n -> S] /\ g[0] = s
      BY <3>1, <3>2, <3>3
    <3>5. ASSUME NEW k \in 1 .. n PROVE g[k] = step[<<g[k - 1], k>>]
      <4>1. k - 1 \in 0 .. n /\ k \in 0 .. n /\ k - 1 < n /\ g[k - 1] = f[k - 1]
        BY <3>1
      <4>2. CASE k = n
        BY <4>1, <4>2
      <4>3. CASE k # n
        <5>1. k < n /\ k \in 1 .. n - 1
          BY <4>3, <3>1
        <5>2. g[k] = f[k] /\ f[k] = step[<<f[k - 1], k>>]
          BY <3>2, <4>1, <5>1
        <5> QED
          BY <4>1, <5>2
      <4> QED
        BY <4>2, <4>3
    <3> QED
      BY <2>1, <3>4, <3>5
  <2> QED
    BY <2>2, <2>3
<1>2. N \notin T
  BY <1>1
<1>3. N \in 0 .. N
  OBVIOUS
<1>4. \E f : Sol(f, N)
  BY <1>2, <1>3
<1> HIDE DEF T
<1> QED
  BY <1>4

Maps == [Pins -> Seq(Nat)]
Loop == [map : Maps, status : {0, 4, 5, 6}]
Bounded(map) == \A p \in Pins : Len(map[p]) <= MAX_IRQ_CNT

IrqInv ==
  /\ sys \in Systems
  /\ irq \in [map : Maps, status : 0 .. 6, cleared : BOOLEAN]
  /\ IrqMapExact

LEMMA EntryOf ==
  ASSUME sys \in Systems, NEW k \in 1 .. Len(sys.prt)
  PROVE  /\ sys.prt[k].pin \in Nat /\ sys.prt[k].source \in Nat /\ sys.prt[k].source_index \in Nat
         /\ Len(sys.prt) \in Nat
<1>1. sys.prt \in Seq([pin : Nat, source : Nat, source_index : Nat])
  BY PcieAssumption
<1>2. sys.prt[k] \in [pin : Nat, source : Nat, source_index : Nat] /\ Len(sys.prt) \in Nat
  <2>1. \A R, s : s \in Seq(R) => Len(s) \in Nat /\ \A i \in 1 .. Len(s) : s[i] \in R
    OBVIOUS
  <2> QED
    BY <1>1, <2>1, Zenon
<1>3. PICK e : e = sys.prt[k]
  OBVIOUS
<1>4. e.pin \in Nat /\ e.source \in Nat /\ e.source_index \in Nat
  BY <1>2, <1>3
<1> QED
  BY <1>2, <1>3, <1>4

\* How many entries a pin has, with one more looked at.
LEMMA MoreEntries ==
  ASSUME NEW n \in Nat, NEW p
  PROVE  /\ Cardinality(Entries(p, n)) \in Nat /\ Cardinality(Entries(p, 0)) = 0
         /\ Cardinality(Entries(p, n + 1))
            = Cardinality(Entries(p, n)) + (IF sys.prt[n + 1].pin = p THEN 1 ELSE 0)
<1>1. IsFiniteSet(Entries(p, n))
  <2>1. IsFiniteSet(1 .. n)
    BY FS_Interval
  <2>2. Entries(p, n) \subseteq 1 .. n
    BY DEF Entries
  <2> QED
    BY <2>1, <2>2, FS_Subset
<1>2. Cardinality(Entries(p, n)) \in Nat
  BY <1>1, FS_CardinalityType
<1>3. Entries(p, 0) = {}
  BY DEF Entries
<1>4. CASE sys.prt[n + 1].pin = p
  <2>1. Entries(p, n + 1) = Entries(p, n) \cup {n + 1} /\ n + 1 \notin Entries(p, n)
    BY <1>4 DEF Entries
  <2>2. Cardinality(Entries(p, n + 1)) = Cardinality(Entries(p, n)) + 1
    BY <1>1, <2>1, FS_AddElement
  <2> QED
    BY <1>2, <1>3, <1>4, <2>2, FS_EmptySet
<1>5. CASE sys.prt[n + 1].pin # p
  <2>1. Entries(p, n + 1) = Entries(p, n)
    BY <1>5 DEF Entries
  <2> QED
    BY <1>2, <1>3, <1>5, <2>1, FS_EmptySet
<1> QED
  BY <1>4, <1>5

\* The n-th entry fits.
LEMMA HoldsMore ==
  ASSUME sys \in Systems, NEW n \in 0 .. Len(sys.prt), n < Len(sys.prt), NEW map \in Maps,
         InRoutingOrder(map, n), NEW p \in Pins, p = sys.prt[n + 1].pin,
         NEW map2, map2 = [map EXCEPT ![p] = Append(@, sys.prt[n + 1].source_index)]
  PROVE  InRoutingOrder(map2, n + 1)
<1>1. PICK v \in Nat : v = sys.prt[n + 1].source_index
  <2>1. n + 1 \in 1 .. Len(sys.prt)
    OBVIOUS
  <2> QED
    BY <2>1, EntryOf
<1>2. PICK q, q2 : q = map[p] /\ q2 = Append(q, v)
  OBVIOUS
<1>3. q \in Seq(Nat) /\ map2[p] = q2 /\ \A o \in Pins : o # p => map2[o] = map[o]
  BY <1>1, <1>2 DEF Maps
<1>4. Len(q) \in Nat /\ Len(q2) = Len(q) + 1 /\ q2[Len(q) + 1] = v /\ \A i \in 1 .. Len(q) : q2[i] = q[i]
  <2>1. q \in Seq(Nat)
    BY <1>3
  <2>2. q2 = Append(q, v)
    BY <1>2
  <2> QED
    BY <2>1, <2>2
<1>5. n \in Nat
  OBVIOUS
<1>6. ASSUME NEW o \in Pins PROVE Len(map2[o]) = Cardinality(Entries(o, n + 1))
  <2>1. Len(map[o]) = Cardinality(Entries(o, n))
    BY DEF InRoutingOrder
  <2>2. Cardinality(Entries(o, n + 1)) = Cardinality(Entries(o, n)) + (IF sys.prt[n + 1].pin = o THEN 1 ELSE 0)
        /\ Cardinality(Entries(o, n)) \in Nat
    BY <1>5, MoreEntries
  <2>3. PICK c \in Nat : c = Cardinality(Entries(o, n))
    BY <2>2
  <2>4. CASE o = p
    BY <1>2, <1>3, <1>4, <2>1, <2>2, <2>3, <2>4
  <2>5. CASE o # p
    BY <1>3, <2>1, <2>2, <2>3, <2>5
  <2> QED
    BY <2>4, <2>5
<1>7. ASSUME NEW i \in 1 .. n + 1 PROVE sys.prt[i].pin \in Pins
  <2>1. CASE i = n + 1
    BY <2>1
  <2>2. CASE i # n + 1
    <3>1. i \in 1 .. n
      BY <1>5, <2>2
    <3> QED
      BY <3>1 DEF InRoutingOrder
  <2> QED
    BY <2>1, <2>2
<1>8. ASSUME NEW o \in Pins, NEW i \in Entries(o, n + 1)
      PROVE  map2[o][Cardinality(Entries(o, i))] = sys.prt[i].source_index
  <2>0. i \in 1 .. n + 1 /\ sys.prt[i].pin = o
    BY <1>8 DEF Entries
  <2>1. CASE i = n + 1
    <3>1. Cardinality(Entries(p, n + 1)) = Len(q) + 1 /\ o = p
      BY <1>2, <1>3, <1>4, <1>6, <2>0, <2>1
    <3> QED
      BY <1>1, <1>3, <1>4, <2>1, <3>1
  <2>2. CASE i # n + 1
    <3>1. i \in 1 .. n /\ i \in 1 .. i
      BY <1>5, <2>0, <2>2
    <3>2. i \in Entries(o, n)
      BY <2>0, <3>1 DEF Entries
    <3>3. map[o][Cardinality(Entries(o, i))] = sys.prt[i].source_index
      BY <3>2 DEF InRoutingOrder
    <3>4. CASE o # p
      BY <1>3, <3>3, <3>4
    <3>5. CASE o = p
      <4>1. PICK c \in Nat : c = Cardinality(Entries(p, i)) /\ c >= 1 /\ c <= Len(q)
        <5>1. IsFiniteSet(1 .. n)
          BY <1>5, FS_Interval
        <5>2. Entries(p, n) \subseteq 1 .. n /\ Entries(p, i) \subseteq Entries(p, n)
          BY <1>5, <3>1 DEF Entries
        <5>3. IsFiniteSet(Entries(p, n))
          BY <5>1, <5>2, FS_Subset
        <5>4. Cardinality(Entries(p, i)) <= Cardinality(Entries(p, n)) /\ IsFiniteSet(Entries(p, i))
          BY <5>2, <5>3, FS_Subset
        <5>5. i \in Entries(p, i)
          BY <2>0, <3>1, <3>5 DEF Entries
        <5>6. Cardinality(Entries(p, i)) \in Nat /\ Cardinality(Entries(p, i)) # 0
          BY <5>4, <5>5, FS_CardinalityType, FS_EmptySet
        <5>7. Cardinality(Entries(p, n)) = Len(q)
          BY <1>2 DEF InRoutingOrder
        <5> QED
          BY <5>4, <5>6, <5>7
      <4>2. q2[c] = q[c]
        BY <1>4, <4>1
      <4> QED
        BY <1>2, <1>3, <3>3, <3>5, <4>1, <4>2
    <3> QED
      BY <3>4, <3>5
  <2> QED
    BY <2>1, <2>2
<1> QED
  BY <1>6, <1>7, <1>8 DEF InRoutingOrder

\* What the loop has come to after k entries, from a map passed cleared or not.
Turned(m, cleared, k) ==
  /\ m \in Loop /\ Bounded(m.map)
  /\ cleared => \E n \in 0 .. k : InRoutingOrder(m.map, n) /\ (m.status = 0 <=> n = k)

LEMMA OneTurn ==
  ASSUME sys \in Systems, NEW k \in Nat, k < Len(sys.prt), NEW m, NEW cleared \in BOOLEAN, Turned(m, cleared, k)
  PROVE  Turned(Route(m, sys.prt[k + 1]), cleared, k + 1)
<1>1. PICK e : e = sys.prt[k + 1]
  OBVIOUS
<1>2. k + 1 \in 1 .. Len(sys.prt) /\ k \in 0 .. Len(sys.prt) /\ Len(sys.prt) \in Nat
  <2>1. sys.prt \in Seq([pin : Nat, source : Nat, source_index : Nat])
    BY PcieAssumption
  <2> QED
    BY <2>1
<1>3. e.pin \in Nat /\ e.source_index \in Nat /\ MAX_IRQ_CNT \in Nat
  BY <1>1, <1>2, EntryOf, PcieAssumption
<1>4. PICK map, st : map = m.map /\ st = m.status /\ m = [map |-> map, status |-> st]
  BY DEF Turned, Loop
<1>5. map \in Maps /\ st \in {0, 4, 5, 6} /\ Bounded(map)
      /\ (cleared => \E n \in 0 .. k : InRoutingOrder(map, n) /\ (st = 0 <=> n = k))
  BY <1>4 DEF Turned, Loop
<1>6. CASE st # 0
  <2>1. Route(m, e) = m
    BY <1>4, <1>6 DEF Route
  <2>2. cleared => \E n \in 0 .. k + 1 : InRoutingOrder(map, n) /\ (st = 0 <=> n = k + 1)
    BY <1>5, <1>6
  <2> QED
    BY <1>1, <1>4, <2>1, <2>2 DEF Turned
<1>7. CASE st = 0 /\ Status(map, e) # 0
  <2>1. PICK c \in {4, 5, 6} : c = Status(map, e)
    BY <1>7 DEF Status
  <2>2. Route(m, e) = [map |-> map, status |-> c]
    BY <1>4, <1>7, <2>1 DEF Route
  <2>3. cleared => \E n \in 0 .. k + 1 : InRoutingOrder(map, n) /\ (c = 0 <=> n = k + 1)
    BY <1>5, <1>7, <2>1
  <2> QED
    BY <1>1, <1>5, <2>1, <2>2, <2>3 DEF Turned, Loop
<1>8. CASE st = 0 /\ Status(map, e) = 0
  <2>1. PICK p : p = e.pin
    OBVIOUS
  <2>2. p \in Pins /\ Len(map[p]) < MAX_IRQ_CNT
    <3>1. ~(p > 3) /\ ~(Len(map[p]) >= MAX_IRQ_CNT)
      BY <1>8, <2>1 DEF Status
    <3>a. p \in Nat
      BY <1>3, <2>1
    <3>b. \A u \in Nat : ~(u > 3) => u \in 0 .. 3
      OBVIOUS
    <3>2. p \in Pins
      BY <3>1, <3>a, <3>b DEF Pins
    <3>3. map[p] \in Seq(Nat)
      BY <1>5, <3>2 DEF Maps
    <3> QED
      BY <1>3, <3>1, <3>2, <3>3
  <2>3. PICK map2 : map2 = [map EXCEPT ![p] = Append(@, e.source_index)]
    OBVIOUS
  <2>4. Route(m, e) = [map |-> map2, status |-> 0]
    BY <1>4, <1>8, <2>1, <2>3 DEF Route
  <2>5. PICK q, q2 : q = map[p] /\ q2 = Append(q, e.source_index)
    OBVIOUS
  <2>6. q \in Seq(Nat) /\ q2 \in Seq(Nat) /\ Len(q2) = Len(q) + 1 /\ map2 = [map EXCEPT ![p] = q2]
    <3>1. q \in Seq(Nat)
      BY <1>5, <2>2, <2>5 DEF Maps
    <3> QED
      BY <1>3, <2>3, <2>5, <3>1
  <2>7. map2 \in Maps
    BY <1>5, <2>2, <2>6 DEF Maps
  <2>8. Bounded(map2)
    <3>1. \A o \in Pins : map2[o] = IF o = p THEN q2 ELSE map[o]
      BY <1>5, <2>6 DEF Maps
    <3>2. Len(q) \in Nat /\ Len(q) + 1 <= MAX_IRQ_CNT
      BY <1>3, <2>2, <2>5, <2>6
    <3> QED
      BY <1>5, <2>6, <3>1, <3>2 DEF Bounded
  <2>9. cleared => InRoutingOrder(map2, k + 1)
    <3>1. cleared => InRoutingOrder(map, k)
      BY <1>5, <1>8
    <3> QED
      BY <1>1, <1>2, <1>5, <2>1, <2>2, <2>3, <3>1, HoldsMore
  <2>10. k + 1 \in 0 .. k + 1
    OBVIOUS
  <2> QED
    BY <1>1, <2>4, <2>7, <2>8, <2>9, <2>10 DEF Turned, Loop
<1> QED
  BY <1>6, <1>7, <1>8

\* The whole loop.
LEMMA AllTurns ==
  ASSUME sys \in Systems, NEW map \in Maps, NEW cleared \in BOOLEAN, Bounded(map),
         cleared => map = NoMap
  PROVE  Turned(Routed(map), cleared, Len(sys.prt))
<1> DEFINE N == Len(sys.prt)
           m0 == [map |-> map, status |-> 0]
<1>1. N \in Nat
  <2>1. sys.prt \in Seq([pin : Nat, source : Nat, source_index : Nat])
    BY PcieAssumption
  <2> QED
    BY <2>1
<1>2. Turned(m0, cleared, 0)
  <2>1. cleared => InRoutingOrder(map, 0)
    <3>1. \A p \in Pins : Cardinality(Entries(p, 0)) = 0
      BY MoreEntries
    <3>2. \A p \in Pins : Entries(p, 0) = {}
      BY DEF Entries
    <3>3. \A p \in Pins : Len(NoMap[p]) = 0
      BY DEF NoMap
    <3> QED
      BY <3>1, <3>2, <3>3 DEF InRoutingOrder
  <2> QED
    BY <2>1 DEF Turned, Loop
<1> DEFINE good == {m \in Loop : Bounded(m.map)}
           step == [x \in good \X (1 .. N) |-> Route(x[1], sys.prt[x[2]])]
<1>3. ASSUME NEW m \in good, NEW k \in 1 .. N PROVE Route(m, sys.prt[k]) \in good
  <2>1. k - 1 \in Nat /\ k - 1 < N /\ k - 1 + 1 = k
    BY <1>1
  <2>2. Turned(m, FALSE, k - 1)
    BY DEF Turned
  <2>3. Turned(Route(m, sys.prt[k - 1 + 1]), FALSE, k - 1 + 1)
    <3> HIDE DEF good, step
    <3> QED
      BY <2>1, <2>2, OneTurn
  <2> QED
    BY <2>1, <2>3 DEF Turned
<1>4. m0 \in good /\ step \in [good \X (1 .. N) -> good]
  <2>1. m0 \in good
    BY DEF Loop
  <2>2. ASSUME NEW x \in good \X (1 .. N) PROVE Route(x[1], sys.prt[x[2]]) \in good
    <3>1. x[1] \in good /\ x[2] \in 1 .. N
      OBVIOUS
    <3> HIDE DEF good
    <3> QED
      BY <1>3, <3>1
  <2> HIDE DEF good
  <2> QED
    BY <2>1, <2>2
<1>5. PICK f \in [0 .. N -> good] : f[0] = m0 /\ \A k \in 1 .. N : f[k] = step[<<f[k - 1], k>>]
  <2>1. \E g : Solution(g, N, good, m0, step)
    <3> HIDE DEF good, step, m0, N
    <3> QED
      BY <1>1, <1>4, Recursion
  <2> HIDE DEF good, step, m0, N
  <2> QED
    BY <2>1 DEF Solution
<1>6. \A k \in 1 .. N : f[k] = Route(f[k - 1], sys.prt[k])
  <2> SUFFICES ASSUME NEW k \in 1 .. N PROVE f[k] = Route(f[k - 1], sys.prt[k])
    OBVIOUS
  <2>1. k - 1 \in 0 .. N
    BY <1>1
  <2>2. f[k - 1] \in good
    BY <1>5, <2>1
  <2>3. <<f[k - 1], k>> \in good \X (1 .. N)
    BY <2>2
  <2> HIDE DEF good
  <2> QED
    BY <1>5, <2>3
<1> DEFINE after[k \in 0 .. Len(sys.prt)] ==
             IF k = 0 THEN [map |-> map, status |-> 0] ELSE Route(after[k - 1], sys.prt[k])
<1>7. f = [k \in 0 .. N |-> IF k = 0 THEN m0 ELSE Route(f[k - 1], sys.prt[k])]
  <2> HIDE DEF good, step
  <2> QED
    BY <1>1, <1>5, <1>6
<1>8. after = [k \in 0 .. N |-> IF k = 0 THEN m0 ELSE Route(after[k - 1], sys.prt[k])]
  <2> HIDE DEF good, step
  <2> QED
    BY <1>7
<1>9. Routed(map) = after[N]
  BY DEF Routed
<1> HIDE DEF after
<1>10. after[0] = m0 /\ \A k \in 1 .. N : after[k] = Route(after[k - 1], sys.prt[k])
  <2> HIDE DEF m0, N
  <2> QED
    BY <1>1, <1>8
<1> DEFINE bad == {k \in 0 .. N : ~Turned(after[k], cleared, k)}
<1>11. ASSUME bad # {} PROVE FALSE
  <2>1. PICK k \in bad : \A l \in bad : k <= l
    <3>1. bad \subseteq Nat
      BY <1>1
    <3> HIDE DEF bad
    <3> QED
      BY <1>11, <3>1, LeastMember
  <2>2. k # 0
    BY <1>2, <1>10, <2>1
  <2>3. k \in 1 .. N /\ k - 1 \in 0 .. N /\ k - 1 \in Nat /\ k - 1 < N /\ k - 1 + 1 = k
    BY <1>1, <2>1, <2>2
  <2>4. Turned(after[k - 1], cleared, k - 1)
    BY <2>1, <2>3
  <2>5. Turned(Route(after[k - 1], sys.prt[k - 1 + 1]), cleared, k - 1 + 1)
    <3> HIDE DEF bad
    <3> QED
      BY <2>3, <2>4, OneTurn
  <2>6. Turned(after[k], cleared, k)
    BY <1>10, <2>3, <2>5
  <2> QED
    BY <2>1, <2>6
<1> QED
  BY <1>1, <1>9, <1>11

LEMMA IrqInit == PcieInit(Systems) => IrqInv
<1> SUFFICES ASSUME PcieInit(Systems) PROVE IrqInv
  OBVIOUS
<1>1. sys \in Systems
  BY DEF PcieInit
<1>a. irq = [map |-> NoMap, status |-> 0, cleared |-> FALSE]
  BY DEF PcieInit
<1>2. NoMap \in Maps /\ Bounded(NoMap)
  BY PcieAssumption DEF NoMap, Maps, Bounded
<1>3. irq.map = NoMap /\ irq.cleared = FALSE
      /\ irq \in [map : Maps, status : 0 .. 6, cleared : BOOLEAN]
  BY <1>a, <1>2
<1> QED
  BY <1>1, <1>2, <1>3 DEF IrqInv, IrqMapExact, Bounded

\* The property of a map, a status and whether the map was passed cleared.
Exact(map, status, cleared) ==
  /\ Bounded(map)
  /\ cleared /\ status \in {0, 4, 5, 6} => \E n \in 0 .. Len(sys.prt) :
       InRoutingOrder(map, n) /\ (status = 0 <=> n = Len(sys.prt))

\* It stays when the routing entries stay.
LEMMA ExactStays ==
  ASSUME sys' = sys, NEW map, NEW status, NEW cleared, Exact(map, status, cleared),
         irq'.map = map, irq'.status = status, irq'.cleared = cleared
  PROVE  IrqMapExact'
<1>1. \A p, n : Entries(p, n)' = Entries(p, n)
  BY DEF Entries
<1>2. Bounded(irq'.map)
  BY DEF Exact
<1>3. ASSUME NEW n, InRoutingOrder(map, n) PROVE InRoutingOrder(irq.map, n)'
  BY <1>1, <1>3 DEF InRoutingOrder
<1>4. irq'.cleared /\ irq'.status \in {0, 4, 5, 6} => \E n \in 0 .. Len(sys'.prt) :
        InRoutingOrder(irq.map, n)' /\ (irq'.status = 0 <=> n = Len(sys'.prt))
  BY <1>3 DEF Exact
<1> QED
  BY <1>2, <1>4 DEF IrqMapExact, Bounded

LEMMA IrqNext == IrqInv /\ [PcieNext]_pcieVars => IrqInv'
<1> SUFFICES ASSUME IrqInv, [PcieNext]_pcieVars PROVE IrqInv'
  OBVIOUS
<1>0. sys \in Systems /\ irq \in [map : Maps, status : 0 .. 6, cleared : BOOLEAN]
      /\ Exact(irq.map, irq.status, irq.cleared)
  BY DEF IrqInv, IrqMapExact, Exact, Bounded
<1>1. CASE UNCHANGED <<sys, irq>>
  <2>1. PICK map, status, cleared : map = irq.map /\ status = irq.status /\ cleared = irq.cleared
    OBVIOUS
  <2>2. IrqMapExact'
    BY <1>0, <1>1, <2>1, ExactStays
  <2> QED
    BY <1>0, <1>1, <2>2 DEF IrqInv
<1>2. CASE GetLegacyIrqMap
  <2>1. sys' = sys
    BY <1>2 DEF GetLegacyIrqMap, hierarchy
  <2>2. PICK cleared \in BOOLEAN, map \in {NoMap, irq.map} :
          /\ map = IF cleared THEN NoMap ELSE irq.map
          /\ \/ \E s \in {1, 2, 3} : irq' = [map |-> map, status |-> s, cleared |-> cleared]
             \/ irq' = [map |-> Routed(map).map, status |-> Routed(map).status, cleared |-> cleared]
    BY <1>2 DEF GetLegacyIrqMap
  <2>3. map \in Maps /\ Bounded(map)
    <3>1. NoMap \in Maps /\ Bounded(NoMap)
      BY PcieAssumption DEF NoMap, Maps, Bounded
    <3>2. irq.map \in Maps /\ Bounded(irq.map)
      BY <1>0 DEF Exact
    <3> QED
      BY <2>2, <3>1, <3>2
  <2>4. CASE \E s \in {1, 2, 3} : irq' = [map |-> map, status |-> s, cleared |-> cleared]
    <3>1. PICK s \in {1, 2, 3} : irq' = [map |-> map, status |-> s, cleared |-> cleared]
      BY <2>4
    <3>2. Exact(map, s, cleared)
      BY <2>3 DEF Exact
    <3>3. irq'.map = map /\ irq'.status = s /\ irq'.cleared = cleared
          /\ irq' \in [map : Maps, status : 0 .. 6, cleared : BOOLEAN]
      BY <2>3, <3>1
    <3>4. IrqMapExact'
      BY <2>1, <3>2, <3>3, ExactStays
    <3> QED
      BY <1>0, <2>1, <3>3, <3>4 DEF IrqInv
  <2>5. CASE irq' = [map |-> Routed(map).map, status |-> Routed(map).status, cleared |-> cleared]
    <3>1. PICK m : m = Routed(map)
      OBVIOUS
    <3>2. Turned(m, cleared, Len(sys.prt))
      BY <1>0, <2>2, <2>3, <3>1, AllTurns
    <3>3. irq'.map = m.map /\ irq'.status = m.status /\ irq'.cleared = cleared
          /\ irq' \in [map : Maps, status : 0 .. 6, cleared : BOOLEAN]
      BY <2>5, <3>1, <3>2 DEF Turned, Loop
    <3>4. Exact(m.map, m.status, cleared)
      BY <3>2 DEF Turned, Exact
    <3>5. IrqMapExact'
      BY <2>1, <3>3, <3>4, ExactStays
    <3> QED
      BY <1>0, <2>1, <3>3, <3>5 DEF IrqInv
  <2> QED
    BY <2>2, <2>4, <2>5
<1> QED
  BY <1>1, <1>2 DEF PcieNext, PcieServices, TableCalled, TableTurn, VectorsCalled, VectorTurn, VectorsReturn,
     Query, BdfToDev, AllocCacheable, FreeCacheable, GetBdfWrapper, Unplug, pcieVars, hierarchy, results

\* Whatever the routing entries are, and however often a map is passed again, each pin
\* gets the interrupts of its entries in order and no more than it has room for
\* (pal_pcie.c:266-296).
THEOREM InterruptsMapped == PcieSpec => []IrqMapExact
<1>1. IrqInv => IrqMapExact
  BY DEF IrqInv
<1> QED
  BY <1>1, IrqInit, IrqNext, PTL DEF PcieSpec
=============================================================================
