-------------------------- MODULE SdeiTablesProofs --------------------------
(***************************************************************************)
(* The SDEI layer's tables hold what the firmware lists, and the timer the *)
(* test is given is the right one, for firmware tables of any length.      *)
(*                                                                         *)
(* Each table is described at every step of its walk: what is in it is     *)
(* what the entries passed so far ask for, each at the place that is the   *)
(* number of those taken over before it.                                   *)
(***************************************************************************)
EXTENDS SdeiTables, FiniteSetTheorems, TLAPS

LEMMA LeastMember ==
  ASSUME NEW S, S \subseteq Nat, S # {}
  PROVE  \E d \in S : \A e \in S : d <= e
<1>1. PICK d \in S : \A e \in S : ~ (<<e, d>> \in OpToRel(<, Nat))
  BY NatLessThanWellFounded, WFMin
<1>2. \A e \in S : ~ (e < d)
  BY <1>1 DEF OpToRel
<1> QED
  BY <1>2

LEMMA GreatestMember ==
  ASSUME NEW n \in Nat, NEW S, S \subseteq 0 .. n, S # {}
  PROVE  Max(S) \in S /\ \A e \in S : e <= Max(S)
<1> DEFINE T == {k \in Nat : \A e \in S : e <= k}
<1>1. n \in T /\ T \subseteq Nat
  OBVIOUS
<1>2. PICK m \in T : \A k \in T : m <= k
  <2> HIDE DEF T
  <2> QED
    BY <1>1, LeastMember
<1>3. m \in S
  <2>1. SUFFICES ASSUME m \notin S PROVE FALSE
    OBVIOUS
  <2>2. \A e \in S : e < m /\ e \in Nat
    BY <1>2, <2>1
  <2>3. m \in Nat /\ m # 0
    <3>1. PICK e \in S : e < m /\ e \in Nat
      BY <2>2
    <3> QED
      BY <1>2, <3>1
  <2>4. m - 1 \in T
    BY <2>2, <2>3
  <2> QED
    BY <1>2, <2>3, <2>4
<1>4. \A e \in S : m >= e
  BY <1>2
<1>5. Max(S) \in S /\ \A e \in S : Max(S) >= e
  BY <1>3, <1>4 DEF Max
<1>6. \A e, x \in Nat : x >= e => e <= x
  OBVIOUS
<1>7. S \subseteq Nat
  OBVIOUS
<1> HIDE DEF T
<1> QED
  BY <1>5, <1>6, <1>7

LEMMA Fewer ==
  ASSUME NEW A, NEW B, IsFiniteSet(B), A \subseteq B, NEW b \in B, b \notin A
  PROVE  Cardinality(A) \in Nat /\ Cardinality(B) \in Nat /\ Cardinality(A) + 1 <= Cardinality(B)
<1>1. IsFiniteSet(A)
  BY FS_Subset
<1>2. A \cup {b} \subseteq B
  OBVIOUS
<1>3. Cardinality(A \cup {b}) = Cardinality(A) + 1 /\ Cardinality(A) \in Nat
  BY <1>1, FS_AddElement, FS_CardinalityType
<1> QED
  BY <1>2, <1>3, FS_Subset, FS_CardinalityType

-----------------------------------------------------------------------------
(* The entries of the GIC's table. *)
KeptBefore(p, n) == {x \in Kept : Earlier(x, <<p, n>>)}
KeptOf(q, p, n) == {x \in KeptBefore(p, n) : x[1] = q}

LEMMA FourPasses ==
  /\ Len(Passes) = 4 /\ ToSet(Passes) = {"cpuif", "gicd", "gicrd", "its"}
  /\ \A p, q \in 1 .. 4 : p # q => Passes[p] # Passes[q]
  /\ \A p \in 1 .. 4 : Passes[p] \in ToSet(Passes)
<1>1. Len(Passes) = 4 /\ Passes[1] = "cpuif" /\ Passes[2] = "gicd" /\ Passes[3] = "gicrd" /\ Passes[4] = "its"
  BY DEF Passes
<1>2. 1 .. 4 = {1, 2, 3, 4} /\ DOMAIN Passes = 1 .. 4
  BY DEF Passes
<1> QED
  BY <1>1, <1>2 DEF ToSet

LEMMA MadtTyped ==
  ASSUME fw \in FirmwareTables
  PROVE  /\ fw.madt \in Seq([type : STRING, base : Nat, version : Nat]) /\ Len(fw.madt) \in Nat
         /\ \A n \in 1 .. Len(fw.madt) : fw.madt[n] \in [type : STRING, base : Nat, version : Nat]
<1>1. fw.madt \in Seq([type : STRING, base : Nat, version : Nat])
  BY DEF FirmwareTables
<1>2. \A R, s : s \in Seq(R) => Len(s) \in Nat /\ \A i \in 1 .. Len(s) : s[i] \in R
  OBVIOUS
<1> QED
  BY <1>1, <1>2, Zenon

LEMMA KeptFinite ==
  ASSUME fw \in FirmwareTables
  PROVE  /\ IsFiniteSet(Kept) /\ \A p, n : IsFiniteSet(KeptBefore(p, n))
         /\ \A q, p, n : IsFiniteSet(KeptOf(q, p, n))
<1>1. Len(Passes) \in Nat /\ Len(fw.madt) \in Nat
  BY FourPasses, MadtTyped
<1>2. IsFiniteSet((1 .. Len(Passes)) \X (1 .. Len(fw.madt)))
  <2>1. IsFiniteSet(1 .. Len(Passes)) /\ IsFiniteSet(1 .. Len(fw.madt))
    BY <1>1, FS_Interval
  <2> QED
    BY <2>1, FS_Product
<1>3. IsFiniteSet(Kept)
  <2>1. Kept \subseteq (1 .. Len(Passes)) \X (1 .. Len(fw.madt))
    BY DEF Kept
  <2> QED
    BY <1>2, <2>1, FS_Subset
<1>4. \A p, n : KeptBefore(p, n) \subseteq Kept
  BY DEF KeptBefore
<1>5. \A q, p, n : KeptOf(q, p, n) \subseteq Kept
  BY <1>4 DEF KeptOf
<1> QED
  BY <1>3, <1>4, <1>5, FS_Subset

\* One entry further.
LEMMA KeptNext ==
  ASSUME fw \in FirmwareTables, NEW p \in 1 .. 4, NEW n \in 1 .. Len(fw.madt)
  PROVE  /\ <<p, n>> \notin KeptBefore(p, n)
         /\ Taken(p, fw.madt[n]) => KeptBefore(p, n + 1) = KeptBefore(p, n) \cup {<<p, n>>} /\ <<p, n>> \in Kept
         /\ ~Taken(p, fw.madt[n]) => KeptBefore(p, n + 1) = KeptBefore(p, n)
<1>1. n \in Nat /\ p \in Nat /\ Len(fw.madt) \in Nat
  BY MadtTyped
<1>2. <<p, n>> \in Kept <=> Taken(p, fw.madt[n])
  BY FourPasses DEF Kept
<1>3. ASSUME NEW x \in Kept
      PROVE  Earlier(x, <<p, n + 1>>) <=> Earlier(x, <<p, n>>) \/ x = <<p, n>>
  <2>1. PICK a \in 1 .. 4, b \in 1 .. Len(fw.madt) : x = <<a, b>>
    BY FourPasses DEF Kept
  <2>2. Earlier(x, <<p, n + 1>>) <=> a < p \/ (a = p /\ b < n + 1)
    BY <2>1 DEF Earlier
  <2>3. Earlier(x, <<p, n>>) <=> a < p \/ (a = p /\ b < n)
    BY <2>1 DEF Earlier
  <2>4. x = <<p, n>> <=> a = p /\ b = n
    BY <2>1
  <2>5. b < n + 1 <=> b < n \/ b = n
    BY <1>1, <2>1
  <2> QED
    BY <2>2, <2>3, <2>4, <2>5
<1>4. ~Earlier(<<p, n>>, <<p, n>>)
  BY <1>1 DEF Earlier
<1> QED
  BY <1>2, <1>3, <1>4 DEF KeptBefore

\* From the end of a pass to the beginning of the next.
LEMMA KeptTurn ==
  ASSUME fw \in FirmwareTables, NEW p \in 1 .. 4, NEW n, n = Len(fw.madt) + 1
  PROVE  /\ p < 4 => KeptBefore(p, n) = KeptBefore(p + 1, 1)
         /\ p = 4 => KeptBefore(p, n) = Kept
<1>1. n \in Nat /\ p \in Nat /\ Len(fw.madt) \in Nat
  BY MadtTyped
<1>2. ASSUME NEW x \in Kept
      PROVE  /\ Earlier(x, <<p, n>>) <=> Earlier(x, <<p + 1, 1>>)
             /\ p = 4 => Earlier(x, <<p, n>>)
  <2>1. PICK a \in 1 .. 4, b \in 1 .. Len(fw.madt) : x = <<a, b>>
    BY FourPasses DEF Kept
  <2>2. Earlier(x, <<p, n>>) <=> a < p \/ (a = p /\ b < n)
    BY <2>1 DEF Earlier
  <2>3. Earlier(x, <<p + 1, 1>>) <=> a < p + 1 \/ (a = p + 1 /\ b < 1)
    BY <2>1 DEF Earlier
  <2>4. b < n /\ ~(b < 1)
    BY <1>1, <2>1
  <2> QED
    BY <1>1, <2>1, <2>2, <2>3, <2>4
<1> QED
  BY <1>2 DEF KeptBefore

\* The table when all entries before <<p, n>> have been looked at.
GicEntries == [type : STRING \cup {"end"}, base : Nat, version : Nat]
GicTyped == gic \in [entries : Seq(GicEntries), num : [ToSet(Passes) -> Nat], version : Nat]
Gathered(entries, p, n) ==
  /\ Len(entries) = Cardinality(KeptBefore(p, n))
  /\ \A x \in KeptBefore(p, n) : entries[Number(Kept, x) + 1] = fw.madt[x[2]]
Grouped(num, p, n) == \A q \in 2 .. 4 : num[Passes[q]] = Cardinality(KeptOf(q, p, n))
GicDone ==
  /\ Len(gic.entries) = Cardinality(Kept) + 1 /\ Last(gic.entries) = EndOfData
  /\ \A x \in Kept : gic.entries[Number(Kept, x) + 1] = fw.madt[x[2]]
  /\ \A q \in 2 .. 4 : gic.num[Passes[q]] = Cardinality({x \in Kept : x[1] = q})

GicInv ==
  /\ fw \in FirmwareTables
  /\ pc = "gic" => /\ GicTyped /\ pass \in 1 .. 4 /\ pos \in 1 .. Len(fw.madt) + 1
                   /\ Gathered(gic.entries, pass, pos) /\ Grouped(gic.num, pass, pos)
  /\ pc # "gic" => GicDone

LEMMA GicInit == Init => GicInv
<1> SUFFICES ASSUME Init PROVE GicInv
  OBVIOUS
<1>1. fw \in FirmwareTables /\ pc = "gic" /\ pass = 1 /\ pos = 1 /\ Len(fw.madt) \in Nat
  BY FirmwareAssumption, MadtTyped DEF Init
<1>2. gic = [entries |-> <<>>, num |-> [t \in ToSet(Passes) |-> 0], version |-> 0]
  BY DEF Init
<1>3. KeptBefore(1, 1) = {}
  <2>1. ASSUME NEW x \in Kept PROVE ~Earlier(x, <<1, 1>>)
    <3>1. PICK a \in 1 .. 4, b \in 1 .. Len(fw.madt) : x = <<a, b>>
      BY FourPasses DEF Kept
    <3> QED
      BY <1>1, <3>1 DEF Earlier
  <2> QED
    BY <2>1 DEF KeptBefore
<1>4. Cardinality(KeptBefore(1, 1)) = 0 /\ \A q : Cardinality(KeptOf(q, 1, 1)) = 0
  BY <1>3, FS_EmptySet DEF KeptOf
<1>5. GicTyped
  BY <1>2 DEF GicTyped
<1>6. Gathered(gic.entries, 1, 1) /\ Grouped(gic.num, 1, 1)
  BY <1>2, <1>3, <1>4, FourPasses DEF Gathered, Grouped
<1> QED
  BY <1>1, <1>5, <1>6 DEF GicInv

\* An entry is taken over behind those of before.
LEMMA GatherOne ==
  ASSUME fw \in FirmwareTables, NEW p \in 1 .. 4, NEW n \in 1 .. Len(fw.madt), Taken(p, fw.madt[n]),
         NEW entries \in Seq(GicEntries), Gathered(entries, p, n)
  PROVE  Gathered(Append(entries, fw.madt[n]), p, n + 1)
<1>1. PICK e, more : e \in GicEntries /\ e = fw.madt[n] /\ more = Append(entries, e)
  <2>1. fw.madt[n] \in GicEntries
    BY MadtTyped DEF GicEntries
  <2> QED
    BY <2>1
<1>2. Len(more) = Len(entries) + 1 /\ more[Len(entries) + 1] = e /\ Len(entries) \in Nat
      /\ \A i \in 1 .. Len(entries) : more[i] = entries[i]
  BY <1>1
<1>3. /\ <<p, n>> \notin KeptBefore(p, n) /\ IsFiniteSet(KeptBefore(p, n)) /\ <<p, n>> \in Kept
      /\ KeptBefore(p, n + 1) = KeptBefore(p, n) \cup {<<p, n>>}
  BY KeptNext, KeptFinite
<1>4. Cardinality(KeptBefore(p, n + 1)) = Cardinality(KeptBefore(p, n)) + 1
  BY <1>3, FS_AddElement
<1>5. ASSUME NEW x \in KeptBefore(p, n) PROVE more[Number(Kept, x) + 1] = fw.madt[x[2]]
  <2>1. Number(Kept, x) \in Nat /\ Number(Kept, x) + 1 <= Len(entries)
    <3>1. PICK a \in 1 .. 4, b \in 1 .. Len(fw.madt) : x = <<a, b>>
      BY FourPasses DEF Kept, KeptBefore
    <3>2. KeptBefore(a, b) \subseteq KeptBefore(p, n) /\ x \notin KeptBefore(a, b)
      <4>1. a < p \/ (a = p /\ b < n)
        BY <3>1 DEF KeptBefore, Earlier
      <4>2. ASSUME NEW y \in KeptBefore(a, b) PROVE Earlier(y, <<p, n>>) /\ y # x
        <5>1. PICK c \in 1 .. 4, d \in 1 .. Len(fw.madt) : y = <<c, d>>
          BY FourPasses DEF Kept, KeptBefore
        <5>2. c < a \/ (c = a /\ d < b)
          BY <5>1, <4>2 DEF KeptBefore, Earlier
        <5>3. d \in Nat /\ b \in Nat /\ n \in Nat
          BY MadtTyped
        <5>4. c < p \/ (c = p /\ d < n)
          BY <4>1, <5>2, <5>3
        <5>5. ~(c = a /\ d = b)
          BY <5>2, <5>3
        <5> QED
          BY <3>1, <5>1, <5>4, <5>5 DEF Earlier
      <4> QED
        BY <4>2 DEF KeptBefore
    <3>3. Number(Kept, x) = Cardinality(KeptBefore(a, b))
      BY <3>1 DEF Number, KeptBefore
    <3> QED
      BY <1>3, <3>2, <3>3, Fewer DEF Gathered
  <2>2. Number(Kept, x) + 1 \in 1 .. Len(entries)
    BY <1>2, <2>1
  <2> QED
    BY <1>2, <2>2 DEF Gathered
<1>6. Number(Kept, <<p, n>>) + 1 = Len(entries) + 1 /\ <<p, n>>[2] = n
  BY DEF Number, KeptBefore, Gathered
<1>7. more[Number(Kept, <<p, n>>) + 1] = fw.madt[<<p, n>>[2]]
  BY <1>1, <1>2, <1>6
<1> QED
  BY <1>1, <1>2, <1>3, <1>4, <1>5, <1>7 DEF Gathered

LEMMA GroupOne ==
  ASSUME fw \in FirmwareTables, NEW p \in 1 .. 4, NEW n \in 1 .. Len(fw.madt), Taken(p, fw.madt[n]),
         NEW num \in [ToSet(Passes) -> Nat], Grouped(num, p, n),
         NEW more, more = [num EXCEPT ![fw.madt[n].type] = @ + (IF p = 1 THEN 0 ELSE 1)]
  PROVE  Grouped(more, p, n + 1) /\ more \in [ToSet(Passes) -> Nat]
<1>1. fw.madt[n].type = Passes[p] /\ Passes[p] \in ToSet(Passes)
  BY FourPasses DEF Taken
<1>2. PICK t : t = Passes[p] /\ t \in ToSet(Passes)
  BY <1>1
<1>3. more = [num EXCEPT ![t] = @ + (IF p = 1 THEN 0 ELSE 1)]
  BY <1>1, <1>2
<1>4. more \in [ToSet(Passes) -> Nat] /\ more[t] = num[t] + (IF p = 1 THEN 0 ELSE 1)
      /\ \A u \in ToSet(Passes) : u # t => more[u] = num[u]
  <2>1. PICK T : T = ToSet(Passes)
    OBVIOUS
  <2>2. PICK v : v = num[t] + (IF p = 1 THEN 0 ELSE 1)
    OBVIOUS
  <2>3. num \in [T -> Nat] /\ t \in T /\ num[t] \in Nat /\ v \in Nat
    BY <1>2, <2>1, <2>2
  <2>4. more = [num EXCEPT ![t] = v]
    BY <1>3, <2>2
  <2>5. more \in [T -> Nat] /\ more[t] = v /\ \A u \in T : u # t => more[u] = num[u]
    BY <2>3, <2>4
  <2> QED
    BY <2>1, <2>2, <2>5
<1>5. ASSUME NEW q \in 2 .. 4 PROVE more[Passes[q]] = Cardinality(KeptOf(q, p, n + 1))
  <2>1. Passes[q] \in ToSet(Passes) /\ num[Passes[q]] = Cardinality(KeptOf(q, p, n)) /\ q \in 1 .. 4
    BY FourPasses DEF Grouped
  <2>2. KeptBefore(p, n + 1) = KeptBefore(p, n) \cup {<<p, n>>} /\ <<p, n>> \notin KeptBefore(p, n)
    BY KeptNext
  <2>3. CASE q = p
    <3>1. KeptOf(q, p, n + 1) = KeptOf(q, p, n) \cup {<<p, n>>} /\ <<p, n>> \notin KeptOf(q, p, n)
      BY <2>2, <2>3 DEF KeptOf
    <3>2. Cardinality(KeptOf(q, p, n + 1)) = Cardinality(KeptOf(q, p, n)) + 1
      BY <3>1, KeptFinite, FS_AddElement
    <3>3. p # 1
      BY <2>3
    <3> QED
      BY <1>2, <1>4, <2>1, <2>3, <3>2, <3>3
  <2>4. CASE q # p
    <3>1. KeptOf(q, p, n + 1) = KeptOf(q, p, n)
      BY <2>2, <2>4 DEF KeptOf
    <3>2. Passes[q] # t
      BY <1>2, <2>1, <2>4, FourPasses
    <3> QED
      BY <1>4, <2>1, <3>1, <3>2
  <2> QED
    BY <2>3, <2>4
<1> QED
  BY <1>4, <1>5 DEF Grouped

LEMMA GicEntryKeeps ==
  ASSUME GicInv, GicEntry
  PROVE  GicInv'
<1>1. /\ pc = "gic" /\ pos \in 1 .. Len(fw.madt) /\ pass \in 1 .. 4 /\ fw \in FirmwareTables /\ Len(fw.madt) \in Nat
      /\ pos' = pos + 1 /\ UNCHANGED <<fw, pc, pass>>
      /\ GicTyped /\ Gathered(gic.entries, pass, pos) /\ Grouped(gic.num, pass, pos)
  BY MadtTyped DEF GicInv, GicEntry
<1>2. PICK e : e = fw.madt[pos] /\ e \in GicEntries
  BY <1>1, MadtTyped DEF GicEntries
<1>4. \A p, n : KeptBefore(p, n)' = KeptBefore(p, n) /\ Kept' = Kept
  BY <1>1 DEF KeptBefore, Kept
<1>5. GicTyped' /\ Gathered(gic'.entries, pass, pos + 1) /\ Grouped(gic'.num, pass, pos + 1)
  <2>1. CASE Taken(pass, e)
    <3>1. /\ gic'.entries = Append(gic.entries, e)
          /\ gic'.num = [gic.num EXCEPT ![e.type] = @ + (IF pass = 1 THEN 0 ELSE 1)]
      BY <1>2, <2>1 DEF GicEntry
    <3>2. gic'.version \in Nat /\ gic' = [entries |-> gic'.entries, num |-> gic'.num, version |-> gic'.version]
      <4>1. PICK E, M, v : /\ gic' = [gic EXCEPT !.entries = E, !.num = M, !.version = v]
                           /\ v = (IF e.type = "gicd" THEN e.version ELSE gic.version)
        BY <1>2, <2>1 DEF GicEntry
      <4>2. e.version \in Nat /\ gic.version \in Nat /\ v \in Nat
        BY <1>1, <1>2, <4>1 DEF GicEntries, GicTyped
      <4>3. gic = [entries |-> gic.entries, num |-> gic.num, version |-> gic.version]
        BY <1>1 DEF GicTyped
      <4>4. gic' = [entries |-> E, num |-> M, version |-> v]
        BY <4>1, <4>3
      <4> QED
        BY <4>2, <4>4
    <3>5. Append(gic.entries, e) \in Seq(GicEntries)
      BY <1>1, <1>2 DEF GicTyped
    <3>3. Gathered(gic'.entries, pass, pos + 1)
      BY <1>1, <1>2, <2>1, <3>1, GatherOne DEF GicTyped
    <3>4. Grouped(gic'.num, pass, pos + 1) /\ gic'.num \in [ToSet(Passes) -> Nat]
      <4>1. gic'.num = [gic.num EXCEPT ![fw.madt[pos].type] = @ + (IF pass = 1 THEN 0 ELSE 1)]
        BY <1>2, <3>1
      <4>2. gic.num \in [ToSet(Passes) -> Nat]
        BY <1>1 DEF GicTyped
      <4> QED
        BY <1>1, <1>2, <2>1, <4>1, <4>2, GroupOne
    <3> QED
      BY <3>1, <3>2, <3>3, <3>4, <3>5 DEF GicTyped
  <2>2. CASE ~Taken(pass, e)
    <3>1. gic' = gic
      BY <1>2, <2>2 DEF GicEntry
    <3>2. KeptBefore(pass, pos + 1) = KeptBefore(pass, pos)
      BY <1>1, <1>2, <2>2, KeptNext
    <3> QED
      BY <1>1, <3>1, <3>2 DEF GicTyped, Gathered, Grouped, KeptOf
  <2> QED
    BY <2>1, <2>2
<1>6. Gathered(gic.entries, pass, pos)' /\ Grouped(gic.num, pass, pos)'
  BY <1>1, <1>4, <1>5 DEF Gathered, Grouped, KeptOf, Number
<1> QED
  BY <1>1, <1>5, <1>6 DEF GicInv

LEMMA GicPassKeeps ==
  ASSUME GicInv, GicPass
  PROVE  GicInv'
<1>1. /\ pc = "gic" /\ pass \in 1 .. 3 /\ pos = Len(fw.madt) + 1 /\ fw \in FirmwareTables /\ Len(fw.madt) \in Nat
      /\ pass' = pass + 1 /\ pos' = 1 /\ UNCHANGED <<fw, pc, gic>>
      /\ GicTyped /\ Gathered(gic.entries, pass, pos) /\ Grouped(gic.num, pass, pos)
  BY MadtTyped, FourPasses DEF GicInv, GicPass
<1>2. KeptBefore(pass, pos) = KeptBefore(pass + 1, 1)
  BY <1>1, KeptTurn
<1>3. Kept' = Kept
  BY <1>1 DEF Kept
<1>4. Gathered(gic.entries, pass, pos)' /\ Grouped(gic.num, pass, pos)' /\ GicTyped'
  <2>1. KeptBefore(pass, pos)' = KeptBefore(pass, pos)
    BY <1>1, <1>2, <1>3 DEF KeptBefore
  <2> QED
    BY <1>1, <1>3, <2>1 DEF Gathered, Grouped, KeptOf, GicTyped, Number
<1> QED
  BY <1>1, <1>4 DEF GicInv

LEMMA GicEndKeeps ==
  ASSUME GicInv, GicEnd
  PROVE  GicInv'
<1>1. /\ pc = "gic" /\ pass = 4 /\ pos = Len(fw.madt) + 1 /\ fw \in FirmwareTables /\ Len(fw.madt) \in Nat
      /\ pc' = "event" /\ fw' = fw /\ gic'.entries = Append(gic.entries, EndOfData) /\ gic'.num = gic.num
      /\ GicTyped /\ Gathered(gic.entries, pass, pos) /\ Grouped(gic.num, pass, pos)
  BY MadtTyped, FourPasses DEF GicInv, GicEnd, Begin, GicTyped
<1>2. KeptBefore(pass, pos) = Kept /\ Kept' = Kept
  BY <1>1, KeptTurn DEF Kept
<1>3. EndOfData \in GicEntries
  BY DEF EndOfData, GicEntries
<1>4. PICK list, more : list = gic.entries /\ more = Append(list, EndOfData) /\ list \in Seq(GicEntries)
  BY <1>1 DEF GicTyped
<1>5. Len(more) = Len(list) + 1 /\ Len(list) \in Nat /\ more[Len(more)] = EndOfData
      /\ \A i \in 1 .. Len(list) : more[i] = list[i]
  BY <1>3, <1>4
<1>6. ASSUME NEW x \in Kept PROVE more[Number(Kept, x) + 1] = fw.madt[x[2]]
  <2>1. {y \in Kept : Earlier(y, x)} \subseteq Kept /\ x \notin {y \in Kept : Earlier(y, x)}
    <3>1. PICK a \in 1 .. 4, b \in 1 .. Len(fw.madt) : x = <<a, b>>
      BY FourPasses DEF Kept
    <3>2. ~Earlier(x, x)
      BY <1>1, <3>1 DEF Earlier
    <3> QED
      BY <3>2
  <2>2. Number(Kept, x) \in Nat /\ Number(Kept, x) + 1 <= Cardinality(Kept)
    BY <1>1, <2>1, KeptFinite, Fewer DEF Number
  <2>3. Len(list) = Cardinality(Kept) /\ list[Number(Kept, x) + 1] = fw.madt[x[2]]
    BY <1>1, <1>2, <1>4 DEF Gathered
  <2>4. Number(Kept, x) + 1 \in 1 .. Len(list)
    BY <1>5, <2>2, <2>3
  <2> QED
    BY <1>5, <2>3, <2>4
<1>7. Len(more) = Cardinality(Kept) + 1 /\ Last(more) = EndOfData
  BY <1>1, <1>2, <1>4, <1>5 DEF Gathered, Last
<1>8. \A q \in 2 .. 4 : gic.num[Passes[q]] = Cardinality({x \in Kept : x[1] = q})
  BY <1>1, <1>2 DEF Grouped, KeptOf
<1>9. Last(gic.entries)' = Last(more)
  BY <1>1, <1>4 DEF Last
<1>10. GicDone'
  BY <1>1, <1>2, <1>4, <1>6, <1>7, <1>8, <1>9 DEF GicDone, Number
<1> QED
  BY <1>1, <1>10 DEF GicInv

LEMMA GicNext == GicInv /\ [Next]_vars => GicInv'
<1> SUFFICES ASSUME GicInv, [Next]_vars PROVE GicInv'
  OBVIOUS
<1>1. ASSUME UNCHANGED <<fw, gic>>, \/ pc # "gic" /\ pc' # "gic"
                                    \/ UNCHANGED <<pc, pass, pos>>
      PROVE  GicInv'
  <2>1. Kept' = Kept
    BY <1>1 DEF Kept
  <2>2. pc # "gic" => GicDone'
    BY <1>1, <2>1 DEF GicInv, GicDone, Number, Last
  <2>3. pc = "gic" => GicTyped' /\ Gathered(gic.entries, pass, pos)' /\ Grouped(gic.num, pass, pos)'
    BY <1>1, <2>1 DEF GicInv, GicTyped, Gathered, Grouped, KeptBefore, KeptOf, Number
  <2> QED
    BY <1>1, <2>2, <2>3 DEF GicInv
<1>2. CASE GicEntry
  BY <1>2, GicEntryKeeps
<1>3. CASE GicPass
  BY <1>3, GicPassKeeps
<1>4. CASE GicEnd
  BY <1>4, GicEndKeeps
<1>5. CASE NoHest \/ WildHest \/ NoGtdt \/ HestFound \/ EventEntry \/ EventEnd
  BY <1>1, <1>5 DEF NoHest, WildHest, NoGtdt, NoTable, HestFound, EventEntry, EventEnd, Begin
<1>6. CASE WdEntry \/ WdEnd \/ TimerEntry \/ TimerEnd
  BY <1>1, <1>6 DEF WdEntry, WdEnd, TimerEntry, TimerEnd, Begin
<1>7. CASE ConfigureSecondInterrupt \/ GenerateSecondInterrupt \/ DisableSecondInterrupt \/ UNCHANGED vars
  BY <1>1, <1>7 DEF ConfigureSecondInterrupt, GenerateSecondInterrupt, DisableSecondInterrupt, vars
<1> QED
  BY <1>2, <1>3, <1>4, <1>5, <1>6, <1>7 DEF Next

-----------------------------------------------------------------------------
(* The events. *)
SourcesBefore(n) == {k \in Sources : k < n}
EventTable == [hest_found : BOOLEAN, info : Seq(Nat), num_ghes_notify : Nat, num_events : Nat]

LEMMA HestTyped ==
  ASSUME fw \in FirmwareTables
  PROVE  /\ Len(fw.hest) \in Nat /\ DOMAIN fw.hest = 1 .. Len(fw.hest)
         /\ \A n \in 1 .. Len(fw.hest) : fw.hest[n].sdei \in BOOLEAN /\ fw.hest[n].vector \in Nat
<1>1. fw.hest \in Seq([sdei : BOOLEAN, vector : Nat])
  BY DEF FirmwareTables
<1>2. \A R, s : s \in Seq(R) => Len(s) \in Nat /\ DOMAIN s = 1 .. Len(s) /\ \A i \in 1 .. Len(s) : s[i] \in R
  OBVIOUS
<1>3. /\ Len(fw.hest) \in Nat /\ DOMAIN fw.hest = 1 .. Len(fw.hest)
      /\ \A n \in 1 .. Len(fw.hest) : fw.hest[n] \in [sdei : BOOLEAN, vector : Nat]
  BY <1>1, <1>2, Zenon
<1> QED
  BY <1>3

LEMMA SourcesNext ==
  ASSUME fw \in FirmwareTables, NEW n \in 1 .. Len(fw.hest)
  PROVE  /\ n \notin SourcesBefore(n) /\ IsFiniteSet(SourcesBefore(n))
         /\ fw.hest[n].sdei => SourcesBefore(n + 1) = SourcesBefore(n) \cup {n}
         /\ ~fw.hest[n].sdei => SourcesBefore(n + 1) = SourcesBefore(n)
<1>1. Sources \subseteq 1 .. Len(fw.hest) /\ (n \in Sources <=> fw.hest[n].sdei) /\ Len(fw.hest) \in Nat
  BY HestTyped DEF Sources
<1>2. IsFiniteSet(SourcesBefore(n))
  <2>1. IsFiniteSet(1 .. Len(fw.hest))
    BY <1>1, FS_Interval
  <2>2. SourcesBefore(n) \subseteq 1 .. Len(fw.hest)
    BY <1>1 DEF SourcesBefore
  <2> QED
    BY <2>1, <2>2, FS_Subset
<1>3. n \notin SourcesBefore(n)
  BY <1>1 DEF SourcesBefore
<1>4. \A k \in Sources : k < n + 1 <=> k < n \/ k = n
  BY <1>1
<1> QED
  BY <1>1, <1>2, <1>3, <1>4 DEF SourcesBefore

\* The table when the entries before n have been looked at.
Listed(e, n) ==
  /\ Len(e.info) = Cardinality(SourcesBefore(n)) /\ e.num_ghes_notify = Cardinality(SourcesBefore(n))
  /\ \A k \in SourcesBefore(n) : e.info[Cardinality(SourcesBefore(k)) + 1] = fw.hest[k].vector
  /\ (\A k \in SourcesBefore(n) : fw.hest[k].vector # 0) => e.num_events = Cardinality(SourcesBefore(n))
Behind == {"wd", "timer", "ready"}

EventInv ==
  /\ fw \in FirmwareTables
  /\ "hest" \in fw.has => event \in EventTable
  /\ "hest" \notin fw.has /\ fw.clears => pc \in {"gic", "event", "failed"}
  /\ pc = "killed" => "hest" \notin fw.has
  /\ pc \in {"gic", "event"} /\ event.hest_found => "hest" \in fw.has
  /\ pc = "gic" => ~event.hest_found
  /\ ~event.hest_found => event.info = <<>> /\ event.num_ghes_notify = 0 /\ event.num_events = 0
  /\ pc = "event" => /\ pos \in 1 .. Len(fw.hest) + 1
                     /\ IF event.hest_found THEN Listed(event, pos) ELSE pos = 1
  /\ pc \in Behind => event.hest_found
  /\ pc \in Behind /\ "hest" \in fw.has => Listed(event, Len(fw.hest) + 1)
  /\ pc = "failed" /\ event.hest_found => "gtdt" \notin fw.has
  /\ pc \in {"timer", "ready"} => "gtdt" \in fw.has
  /\ pc \in Behind \cup {"gic", "event", "failed", "killed"}

LEMMA NoneListed ==
  ASSUME fw \in FirmwareTables, NEW e, e.info = <<>>, e.num_ghes_notify = 0, e.num_events = 0
  PROVE  Listed(e, 1)
<1>1. SourcesBefore(1) = {}
  BY HestTyped DEF SourcesBefore, Sources
<1> QED
  BY <1>1, FS_EmptySet DEF Listed

LEMMA EventEntryKeeps ==
  ASSUME EventInv, EventEntry
  PROVE  EventInv'
<1>1. /\ pc = "event" /\ event.hest_found /\ pos \in 1 .. Len(fw.hest) /\ Len(fw.hest) \in Nat
      /\ fw \in FirmwareTables /\ event \in EventTable /\ Listed(event, pos)
      /\ pos' = pos + 1 /\ UNCHANGED <<fw, pc>> /\ "hest" \in fw.has
  BY HestTyped DEF EventInv, EventEntry
<1>2. PICK v \in Nat : v = fw.hest[pos].vector
  BY <1>1, HestTyped
<1>3. \A n : SourcesBefore(n)' = SourcesBefore(n)
  BY <1>1 DEF SourcesBefore, Sources
<1>4. event' \in EventTable /\ event'.hest_found /\ Listed(event', pos + 1)
  <2>1. CASE fw.hest[pos].sdei
    <3>1. PICK info, c : /\ info = Append(event.info, v) /\ c = event.num_events + (IF v = 0 THEN 0 ELSE 1)
                         /\ event' = [event EXCEPT !.info = info, !.num_ghes_notify = @ + 1, !.num_events = c]
      BY <1>2, <2>1 DEF EventEntry
    <3>2. /\ event.info \in Seq(Nat) /\ event.num_ghes_notify \in Nat /\ event.num_events \in Nat
          /\ info \in Seq(Nat) /\ c \in Nat
      BY <1>1, <1>2, <3>1 DEF EventTable
    <3>3. /\ event' \in EventTable /\ event'.hest_found /\ event'.info = info
          /\ event'.num_ghes_notify = event.num_ghes_notify + 1 /\ event'.num_events = c
      <4>1. PICK f, g : f = event.hest_found /\ g = event.num_ghes_notify + 1
        OBVIOUS
      <4>2. event = [hest_found |-> f, info |-> event.info, num_ghes_notify |-> event.num_ghes_notify,
                     num_events |-> event.num_events] /\ f = TRUE
        BY <1>1, <4>1 DEF EventTable
      <4>3. event' = [hest_found |-> f, info |-> info, num_ghes_notify |-> g, num_events |-> c]
        BY <3>1, <4>1, <4>2
      <4>4. f \in BOOLEAN
        BY <4>2
      <4>5. g \in Nat
        BY <3>2, <4>1
      <4> QED
        BY <3>2, <4>1, <4>2, <4>3, <4>4, <4>5 DEF EventTable
    <3>4. Len(info) = Len(event.info) + 1 /\ info[Len(event.info) + 1] = v /\ Len(event.info) \in Nat
          /\ \A i \in 1 .. Len(event.info) : info[i] = event.info[i]
      BY <1>2, <3>1, <3>2
    <3>5. /\ pos \notin SourcesBefore(pos) /\ IsFiniteSet(SourcesBefore(pos))
          /\ SourcesBefore(pos + 1) = SourcesBefore(pos) \cup {pos}
      BY <1>1, <2>1, SourcesNext
    <3>6. Cardinality(SourcesBefore(pos + 1)) = Cardinality(SourcesBefore(pos)) + 1
      BY <3>5, FS_AddElement
    <3>7. ASSUME NEW k \in SourcesBefore(pos)
          PROVE  info[Cardinality(SourcesBefore(k)) + 1] = fw.hest[k].vector
      <4>1. SourcesBefore(k) \subseteq SourcesBefore(pos) /\ k \notin SourcesBefore(k)
        BY <1>1, HestTyped DEF SourcesBefore, Sources
      <4>2. Cardinality(SourcesBefore(k)) \in Nat /\ Cardinality(SourcesBefore(k)) + 1 <= Len(event.info)
        BY <1>1, <3>5, <4>1, Fewer DEF Listed
      <4>3. Cardinality(SourcesBefore(k)) + 1 \in 1 .. Len(event.info)
        BY <3>4, <4>2
      <4> QED
        BY <1>1, <3>4, <4>3 DEF Listed
    <3>8. info[Cardinality(SourcesBefore(pos)) + 1] = fw.hest[pos].vector
      BY <1>1, <1>2, <3>4 DEF Listed
    <3>9. (\A k \in SourcesBefore(pos + 1) : fw.hest[k].vector # 0) => c = Cardinality(SourcesBefore(pos + 1))
      BY <1>1, <1>2, <3>1, <3>5, <3>6 DEF Listed
    <3> QED
      BY <1>1, <3>3, <3>4, <3>5, <3>6, <3>7, <3>8, <3>9 DEF Listed
  <2>2. CASE ~fw.hest[pos].sdei
    <3>1. event' = event
      BY <2>2 DEF EventEntry
    <3>2. SourcesBefore(pos + 1) = SourcesBefore(pos)
      BY <1>1, <2>2, SourcesNext
    <3> QED
      BY <1>1, <3>1, <3>2 DEF Listed
  <2> QED
    BY <2>1, <2>2
<1>5. Listed(event, pos)'
  BY <1>1, <1>3, <1>4 DEF Listed
<1>6. pos' \in 1 .. Len(fw'.hest) + 1
  BY <1>1
<1> QED
  BY <1>1, <1>4, <1>5, <1>6 DEF EventInv, Behind

LEMMA EventInit == Init => EventInv
<1> SUFFICES ASSUME Init PROVE EventInv
  OBVIOUS
<1>1. fw \in FirmwareTables /\ pc = "gic"
      /\ event = [hest_found |-> FALSE, info |-> <<>>, num_ghes_notify |-> 0, num_events |-> 0]
  BY FirmwareAssumption DEF Init
<1> QED
  BY <1>1 DEF EventInv, EventTable, Behind

LEMMA EventNext == EventInv /\ [Next]_vars => EventInv'
<1> SUFFICES ASSUME EventInv, [Next]_vars PROVE EventInv'
  OBVIOUS
<1>1. fw \in FirmwareTables /\ Len(fw.hest) \in Nat
  BY HestTyped DEF EventInv
<1>4. ASSUME UNCHANGED <<fw, event, pc, pos>> PROVE EventInv'
  <2>1. Listed(event, pos) => Listed(event, pos)'
    BY <1>4 DEF Listed, SourcesBefore, Sources
  <2>2. Listed(event, Len(fw.hest) + 1) => Listed(event, Len(fw.hest) + 1)'
    BY <1>4 DEF Listed, SourcesBefore, Sources
  <2> QED
    BY <1>4, <2>1, <2>2 DEF EventInv, Behind
<1>5. ASSUME UNCHANGED <<fw, event>>, pc \in Behind, pc' \in Behind, pc' \in {"timer", "ready"} => "gtdt" \in fw.has
      PROVE  EventInv'
  <2>1. Listed(event, Len(fw.hest) + 1) => Listed(event, Len(fw.hest) + 1)'
    <3>1. Sources' = Sources /\ fw' = fw /\ event' = event
      BY <1>5 DEF Sources
    <3> QED
      BY <3>1 DEF Listed, SourcesBefore
  <2> QED
    BY <1>5, <2>1 DEF EventInv, Behind
<1>6. CASE GicEntry \/ GicPass
  BY <1>6 DEF GicEntry, GicPass, EventInv, Behind
<1>7. CASE GicEnd
  BY <1>1, <1>7 DEF GicEnd, Begin, EventInv, Behind
<1>8. CASE NoHest
  BY <1>8 DEF NoHest, NoTable, EventInv, Behind
<1>81. CASE WildHest
  <2>1. CASE pc' = "killed" /\ UNCHANGED <<pos, event>>
    BY <1>81, <2>1 DEF WildHest, EventInv, Behind
  <2>2. CASE pc' = "wd" /\ event'.hest_found
    <3>1. fw' = fw /\ "hest" \notin fw.has /\ ~fw.clears /\ fw \in FirmwareTables
      BY <1>81 DEF WildHest, EventInv
    <3> QED
      BY <2>2, <3>1 DEF EventInv, Behind
  <2>3. ASSUME NEW read \in Stray,
               event' = [hest_found |-> TRUE, info |-> read, num_ghes_notify |-> Len(read),
                         num_events |-> Cardinality({i \in DOMAIN read : read[i] # 0})]
        PROVE  event'.hest_found = TRUE
    BY <2>3
  <2> QED
    BY <1>81, <2>1, <2>2, <2>3 DEF WildHest, Begin
<1>9. CASE NoGtdt
  BY <1>9 DEF NoGtdt, NoTable, EventInv, Behind
<1>10. CASE HestFound
  <2>1. /\ pc = "event" /\ "hest" \in fw.has /\ event' = [event EXCEPT !.hest_found = TRUE] /\ pos = 1
        /\ UNCHANGED <<fw, pc, pos>> /\ event.info = <<>> /\ event.num_ghes_notify = 0 /\ event.num_events = 0
        /\ event \in EventTable
    BY <1>10 DEF HestFound, EventInv
  <2>2. /\ event' \in EventTable /\ event'.hest_found
        /\ event'.info = <<>> /\ event'.num_ghes_notify = 0 /\ event'.num_events = 0
    BY <2>1 DEF EventTable
  <2>3. Listed(event', 1)
    BY <1>1, <2>2, NoneListed
  <2>4. Listed(event, pos)'
    BY <2>1, <2>3 DEF Listed, SourcesBefore, Sources
  <2> QED
    BY <1>1, <2>1, <2>2, <2>4 DEF EventInv, Behind
<1>11. CASE EventEntry
  BY <1>11, EventEntryKeeps
<1>12. CASE EventEnd
  <2>1. /\ pc = "event" /\ event.hest_found /\ pos = Len(fw.hest) + 1 /\ pc' = "wd" /\ UNCHANGED <<fw, event>>
        /\ Listed(event, Len(fw.hest) + 1) /\ "hest" \in fw.has
    BY <1>1, <1>12 DEF EventEnd, EventInv, Begin
  <2>2. Listed(event, Len(fw.hest) + 1)'
    BY <2>1 DEF Listed, SourcesBefore, Sources
  <2> QED
    BY <2>1, <2>2 DEF EventInv, Behind
<1>13. CASE WdEntry \/ WdEnd \/ TimerEntry \/ TimerEnd
  <2>1. pc \in Behind /\ pc' \in Behind /\ UNCHANGED <<fw, event>> /\ "gtdt" \in fw.has
    BY <1>13 DEF WdEntry, WdEnd, TimerEntry, TimerEnd, Begin, Behind, EventInv
  <2> QED
    BY <1>5, <2>1
<1>14. CASE ConfigureSecondInterrupt \/ GenerateSecondInterrupt \/ DisableSecondInterrupt \/ UNCHANGED vars
  BY <1>4, <1>14 DEF ConfigureSecondInterrupt, GenerateSecondInterrupt, DisableSecondInterrupt, vars
<1> QED
  BY <1>6, <1>7, <1>8, <1>81, <1>9, <1>10, <1>11, <1>12, <1>13, <1>14 DEF Next

-----------------------------------------------------------------------------
(* The watchdogs. *)
DogsBefore(n) == {k \in Dogs : k < n}

LEMMA GtdtTyped ==
  ASSUME fw \in FirmwareTables
  PROVE  /\ Len(fw.gtdt) \in Nat /\ DOMAIN fw.gtdt = 1 .. Len(fw.gtdt)
         /\ \A n \in 1 .. Len(fw.gtdt) : fw.gtdt[n].gsiv \in Nat
<1>1. fw.gtdt \in Seq([type : STRING, gsiv : Nat, timers : Seq([gsiv : Nat, base : Nat, secure : BOOLEAN])])
  BY DEF FirmwareTables
<1>2. \A R, s : s \in Seq(R) => Len(s) \in Nat /\ DOMAIN s = 1 .. Len(s) /\ \A i \in 1 .. Len(s) : s[i] \in R
  OBVIOUS
<1>3. /\ Len(fw.gtdt) \in Nat /\ DOMAIN fw.gtdt = 1 .. Len(fw.gtdt)
      /\ \A n \in 1 .. Len(fw.gtdt) :
           fw.gtdt[n] \in [type : STRING, gsiv : Nat, timers : Seq([gsiv : Nat, base : Nat, secure : BOOLEAN])]
  BY <1>1, <1>2, Zenon
<1> QED
  BY <1>3

\* The table when the entries before n have been looked at.
Watched(w, n) ==
  /\ w.num_wd = Cardinality(DogsBefore(n))
  /\ \A k \in Dogs : DogsBefore(n) = {k} => w.info = fw.gtdt[k].gsiv

DogInv ==
  /\ fw \in FirmwareTables /\ wd \in [info : Nat, num_wd : Nat]
  /\ pc \in {"gic", "event"} => wd.num_wd = 0
  /\ pc = "wd" => pos \in 1 .. Len(fw.gtdt) + 1 /\ Watched(wd, pos)
  /\ pc \in {"timer", "ready"} => Watched(wd, Len(fw.gtdt) + 1)
  /\ pc \in Behind \cup {"gic", "event", "failed", "killed"}

LEMMA WdEntryKeeps ==
  ASSUME DogInv, WdEntry
  PROVE  DogInv'
<1>1. /\ pc = "wd" /\ pos \in 1 .. Len(fw.gtdt) /\ Len(fw.gtdt) \in Nat /\ fw \in FirmwareTables
      /\ wd \in [info : Nat, num_wd : Nat] /\ Watched(wd, pos) /\ pos' = pos + 1 /\ UNCHANGED <<fw, pc>>
  BY GtdtTyped DEF DogInv, WdEntry
<1>2. PICK v \in Nat : v = fw.gtdt[pos].gsiv
  BY <1>1, GtdtTyped
<1>3. Dogs \subseteq 1 .. Len(fw.gtdt) /\ (pos \in Dogs <=> fw.gtdt[pos].type = "wd")
  BY <1>1, GtdtTyped DEF Dogs
<1>4. IsFiniteSet(DogsBefore(pos)) /\ pos \notin DogsBefore(pos)
  <2>1. IsFiniteSet(1 .. Len(fw.gtdt))
    <3>1. Len(fw.gtdt) \in Int /\ 1 \in Int
      BY <1>1
    <3> QED
      BY <3>1, FS_Interval, Zenon
  <2>2. DogsBefore(pos) \subseteq 1 .. Len(fw.gtdt)
    BY <1>3 DEF DogsBefore
  <2>3. pos \notin DogsBefore(pos)
    <3>1. ~(pos < pos)
      BY <1>1
    <3> QED
      BY <3>1 DEF DogsBefore
  <2> QED
    BY <2>1, <2>2, <2>3, FS_Subset
<1>5. \A k \in Dogs : k < pos + 1 <=> k < pos \/ k = pos
  BY <1>1, <1>3
<1>6. wd' \in [info : Nat, num_wd : Nat] /\ Watched(wd', pos + 1)
  <2>1. CASE pos \in Dogs
    <3>1. wd' = [info |-> v, num_wd |-> wd.num_wd + 1]
      BY <1>2, <1>3, <2>1 DEF WdEntry
    <3>2. DogsBefore(pos + 1) = DogsBefore(pos) \cup {pos}
      BY <1>5, <2>1 DEF DogsBefore
    <3>3. Cardinality(DogsBefore(pos + 1)) = Cardinality(DogsBefore(pos)) + 1
      BY <1>4, <3>2, FS_AddElement
    <3>4. \A k \in Dogs : DogsBefore(pos + 1) = {k} => k = pos
      BY <3>2
    <3> QED
      BY <1>1, <1>2, <3>1, <3>3, <3>4 DEF Watched
  <2>2. CASE pos \notin Dogs
    <3>1. wd' = wd
      BY <1>3, <2>2 DEF WdEntry
    <3>2. DogsBefore(pos + 1) = DogsBefore(pos)
      BY <1>5, <2>2 DEF DogsBefore
    <3> QED
      BY <1>1, <3>1, <3>2 DEF Watched
  <2> QED
    BY <2>1, <2>2
<1>7. Watched(wd, pos)'
  BY <1>1, <1>6 DEF Watched, DogsBefore, Dogs
<1> QED
  BY <1>1, <1>6, <1>7 DEF DogInv

LEMMA DogInit == Init => DogInv
<1> SUFFICES ASSUME Init PROVE DogInv
  OBVIOUS
<1>1. fw \in FirmwareTables /\ pc = "gic" /\ wd = [info |-> 0, num_wd |-> 0]
  BY FirmwareAssumption DEF Init
<1> QED
  BY <1>1 DEF DogInv

LEMMA DogNext == DogInv /\ [Next]_vars => DogInv'
<1> SUFFICES ASSUME DogInv, [Next]_vars PROVE DogInv'
  OBVIOUS
<1>1. fw \in FirmwareTables /\ Len(fw.gtdt) \in Nat
  BY GtdtTyped DEF DogInv
<1>2. ASSUME UNCHANGED <<fw, wd>> PROVE \A n : (Watched(wd, n) => Watched(wd', n)) /\ Dogs' = Dogs
  BY <1>2 DEF Watched, Dogs
<1>3. ASSUME UNCHANGED <<fw, wd, pc>>, pc = "wd" => pos' = pos PROVE DogInv'
  <2>1. Dogs' = Dogs /\ fw' = fw /\ wd' = wd
    BY <1>3 DEF Dogs
  <2>2. Watched(wd, Len(fw.gtdt) + 1) => Watched(wd, Len(fw.gtdt) + 1)'
    BY <2>1 DEF Watched, DogsBefore
  <2>3. pc = "wd" => (Watched(wd, pos) => Watched(wd, pos)')
    BY <1>3, <2>1 DEF Watched, DogsBefore
  <2> QED
    BY <1>3, <2>2, <2>3 DEF DogInv
<1>4. CASE GicEntry \/ GicPass \/ HestFound \/ EventEntry
  <2>1. UNCHANGED <<fw, wd, pc>> /\ pc # "wd"
    BY <1>4 DEF GicEntry, GicPass, HestFound, EventEntry
  <2> QED
    BY <1>3, <2>1
<1>5. CASE GicEnd \/ NoHest \/ NoGtdt
  BY <1>5 DEF GicEnd, NoHest, NoGtdt, NoTable, Begin, DogInv
<1>51. CASE WildHest /\ pc' = "killed"
  BY <1>51 DEF WildHest, DogInv, Behind
<1>6. CASE EventEnd \/ (WildHest /\ pc' # "killed")
  <2>1. pc' = "wd" /\ pos' = 1 /\ UNCHANGED <<fw, wd>> /\ wd.num_wd = 0 /\ wd \in [info : Nat, num_wd : Nat]
    BY <1>6 DEF EventEnd, WildHest, Begin, DogInv
  <2>2. DogsBefore(1) = {}
    BY <1>1, GtdtTyped DEF DogsBefore, Dogs
  <2>3. Watched(wd, 1)
    BY <2>1, <2>2, FS_EmptySet DEF Watched
  <2>4. Watched(wd, pos)'
    BY <2>1, <2>3 DEF Watched, DogsBefore, Dogs
  <2> QED
    BY <1>1, <2>1, <2>4 DEF DogInv, Behind
<1>7. CASE WdEntry
  BY <1>7, WdEntryKeeps
<1>8. CASE WdEnd
  <2>1. /\ pc = "wd" /\ pc' = "timer" /\ UNCHANGED <<fw, wd>> /\ Watched(wd, pos) /\ pos > Len(fw.gtdt)
        /\ pos \in 1 .. Len(fw.gtdt) + 1 /\ wd \in [info : Nat, num_wd : Nat]
    BY <1>8 DEF WdEnd, Begin, DogInv
  <2>2. pos = Len(fw.gtdt) + 1
    BY <1>1, <2>1
  <2>3. Watched(wd, Len(fw.gtdt) + 1)'
    BY <2>1, <2>2 DEF Watched, DogsBefore, Dogs
  <2> QED
    BY <1>1, <2>1, <2>3 DEF DogInv, Behind
<1>9. CASE TimerEntry \/ TimerEnd
  <2>1. /\ pc = "timer" /\ pc' \in {"timer", "ready"} /\ UNCHANGED <<fw, wd>>
    BY <1>9 DEF TimerEntry, TimerEnd
  <2>2. Watched(wd, Len(fw.gtdt) + 1)'
    BY <2>1 DEF Watched, DogsBefore, Dogs, DogInv
  <2> QED
    BY <1>1, <2>1, <2>2 DEF DogInv, Behind
<1>10. CASE ConfigureSecondInterrupt \/ GenerateSecondInterrupt \/ DisableSecondInterrupt \/ UNCHANGED vars
  <2>1. UNCHANGED <<fw, wd, pc, pos>>
    BY <1>10 DEF ConfigureSecondInterrupt, GenerateSecondInterrupt, DisableSecondInterrupt, vars
  <2> QED
    BY <1>3, <2>1
<1> QED
  BY <1>4, <1>5, <1>51, <1>6, <1>7, <1>8, <1>9, <1>10 DEF Next

\* The GIC's entries, every SDEI source of a HEST and a watchdog that is alone are in the
\* tables, for firmware tables of any length; a run is given up only for want of one, and
\* goes astray only without a HEST, on a kernel that does not clear the pointer
\* (pal_gic.c:66-133, pal_sdei_interface.c:163-199, pal_wd_timer.c:238-250).
THEOREM TablesHoldAll == Spec => []TablesComplete
<1>1. GicInv /\ EventInv /\ DogInv => TablesComplete
  <2> SUFFICES ASSUME GicInv, EventInv, DogInv PROVE TablesComplete
    OBVIOUS
  <2>1. pc = "failed" => IF event.hest_found THEN "gtdt" \notin fw.has ELSE event.num_ghes_notify = 0
    BY DEF EventInv
  <2>2. ASSUME pc = "ready"
        PROVE  /\ GicDone /\ Watched(wd, Len(fw.gtdt) + 1) /\ fw \in FirmwareTables
               /\ "hest" \in fw.has => Listed(event, Len(fw.hest) + 1)
    BY <2>2 DEF GicInv, EventInv, DogInv, Behind
  <2>3. ASSUME pc = "ready" PROVE SourcesBefore(Len(fw.hest) + 1) = Sources /\ DogsBefore(Len(fw.gtdt) + 1) = Dogs
    BY <2>2, <2>3, HestTyped, GtdtTyped DEF SourcesBefore, Sources, DogsBefore, Dogs
  <2>4. \A k : SourcesBefore(k) = {j \in Sources : j < k}
    BY DEF SourcesBefore
  <2>5. ASSUME pc = "ready", "hest" \in fw.has
        PROVE  /\ Len(event.info) = Cardinality(Sources) /\ event.num_ghes_notify = Cardinality(Sources)
               /\ \A k \in Sources : event.info[Cardinality({j \in Sources : j < k}) + 1] = fw.hest[k].vector
               /\ (\A k \in Sources : fw.hest[k].vector # 0) => event.num_events = Cardinality(Sources)
    BY <2>2, <2>3, <2>4, <2>5 DEF Listed
  <2>6. ASSUME pc = "ready"
        PROVE  /\ wd.num_wd = Cardinality(Dogs)
               /\ \A k \in Dogs : Dogs = {k} => wd.info = fw.gtdt[k].gsiv
    BY <2>2, <2>3, <2>6 DEF Watched
  <2>7. ASSUME pc = "ready"
        PROVE  /\ Len(gic.entries) = Cardinality(Kept) + 1 /\ Last(gic.entries) = EndOfData
               /\ \A x \in Kept : gic.entries[Number(Kept, x) + 1] = fw.madt[x[2]]
               /\ \A p \in 2 .. Len(Passes) : gic.num[Passes[p]] = Cardinality({x \in Kept : x[1] = p})
    BY <2>2, <2>7, FourPasses DEF GicDone
  <2>8. /\ pc \in {"wd", "timer", "ready", "killed"} /\ fw.clears => "hest" \in fw.has
        /\ pc = "killed" => "hest" \notin fw.has
    BY DEF EventInv
  <2> QED
    BY <2>1, <2>5, <2>6, <2>7, <2>8 DEF TablesComplete
<1> QED
  BY <1>1, GicInit, GicNext, EventInit, EventNext, DogInit, DogNext, PTL DEF Spec

-----------------------------------------------------------------------------
(***************************************************************************)
(* The timers.  A list of blocks has its timers at slots <<b, i>>; the     *)
(* places of the GTDT are those of the list that has an empty block for    *)
(* each entry that is none.                                                *)
(***************************************************************************)
TimerFrame == [gsiv : Nat, base : Nat, secure : BOOLEAN]
BlockLists == Seq(Seq(TimerFrame))
Slots(list, b) == UNION {{c} \X (1 .. Len(list[c])) : c \in 1 .. b - 1}

LEMMA ListTyped ==
  ASSUME NEW list \in BlockLists
  PROVE  /\ Len(list) \in Nat /\ DOMAIN list = 1 .. Len(list)
         /\ \A c \in 1 .. Len(list) : list[c] \in Seq(TimerFrame) /\ Len(list[c]) \in Nat
<1>1. \A R, s : s \in Seq(R) => Len(s) \in Nat /\ DOMAIN s = 1 .. Len(s) /\ \A i \in 1 .. Len(s) : s[i] \in R
  OBVIOUS
<1>2. /\ Len(list) \in Nat /\ DOMAIN list = 1 .. Len(list)
      /\ \A c \in 1 .. Len(list) : list[c] \in Seq(TimerFrame)
  BY <1>1, Zenon DEF BlockLists
<1> QED
  BY <1>1, <1>2, Zenon

\* One block more.
LEMMA SlotsMore ==
  ASSUME NEW list \in BlockLists, NEW b \in 1 .. Len(list), IsFiniteSet(Slots(list, b))
  PROVE  /\ IsFiniteSet(Slots(list, b + 1))
         /\ Slots(list, b + 1) = Slots(list, b) \cup ({b} \X (1 .. Len(list[b])))
         /\ Cardinality(Slots(list, b + 1)) = Cardinality(Slots(list, b)) + Len(list[b])
<1>1. b \in Nat /\ Len(list[b]) \in Nat
  BY ListTyped
<1>2. 1 .. (b + 1) - 1 = (1 .. b - 1) \cup {b}
  BY <1>1
<1>3. Slots(list, b + 1) = Slots(list, b) \cup ({b} \X (1 .. Len(list[b])))
  BY <1>2 DEF Slots
<1>4. Slots(list, b) \cap ({b} \X (1 .. Len(list[b]))) = {}
  <2>1. \A x \in Slots(list, b) : x[1] \in 1 .. b - 1
    BY DEF Slots
  <2>2. \A x \in {b} \X (1 .. Len(list[b])) : x[1] = b
    OBVIOUS
  <2>3. b \notin 1 .. b - 1
    BY <1>1
  <2> QED
    BY <2>1, <2>2, <2>3
<1>5. PICK n, W : n \in Nat /\ n = Len(list[b]) /\ W = {b} \X (1 .. n)
  BY <1>1
<1>6. IsFiniteSet(W) /\ Cardinality(W) = n
  <2>1. IsFiniteSet(1 .. n) /\ Cardinality(1 .. n) = n
    <3>1. 1 \in Int /\ n \in Int /\ (IF 1 > n THEN 0 ELSE n - 1 + 1) = n
      BY <1>5
    <3> QED
      BY <3>1, FS_Interval
  <2>2. IsFiniteSet({b}) /\ Cardinality({b}) = 1
    BY FS_Singleton
  <2>3. IsFiniteSet(W) /\ Cardinality(W) = Cardinality({b}) * Cardinality(1 .. n)
    BY <1>5, <2>1, <2>2, FS_Product, Zenon
  <2>4. 1 * n = n
    BY <1>5
  <2> QED
    BY <2>1, <2>2, <2>3, <2>4
<1>7. /\ IsFiniteSet(Slots(list, b) \cup W)
      /\ Cardinality(Slots(list, b) \cup W)
         = Cardinality(Slots(list, b)) + Cardinality(W) - Cardinality(Slots(list, b) \cap W)
  BY <1>6, FS_Union
<1>8. Cardinality(Slots(list, b) \cap W) = 0
  BY <1>4, <1>5, FS_EmptySet
<1>9. Cardinality(Slots(list, b)) \in Nat
  BY FS_CardinalityType
<1>10. Slots(list, b + 1) = Slots(list, b) \cup W
  BY <1>3, <1>5
<1>11. Cardinality(Slots(list, b) \cup W) = Cardinality(Slots(list, b)) + n
  BY <1>5, <1>6, <1>7, <1>8, <1>9
<1> QED
  BY <1>3, <1>5, <1>7, <1>10, <1>11

\* There are finitely many slots before each block: no block is the least for which there are not.
LEMMA SlotsFinite ==
  ASSUME NEW list \in BlockLists, NEW b \in 1 .. Len(list) + 1
  PROVE  IsFiniteSet(Slots(list, b)) /\ Cardinality(Slots(list, b)) \in Nat
<1> DEFINE T == {c \in 1 .. Len(list) + 1 : ~IsFiniteSet(Slots(list, c))}
<1>1. ASSUME T # {} PROVE FALSE
  <2>1. PICK c \in T : \A d \in T : c <= d
    <3>1. T \subseteq Nat
      OBVIOUS
    <3> HIDE DEF T
    <3> QED
      BY <1>1, <3>1, LeastMember
  <2>2. CASE c = 1
    <3>1. Slots(list, 1) = {}
      BY DEF Slots
    <3> QED
      BY <2>1, <2>2, <3>1, FS_EmptySet
  <2>3. CASE c # 1
    <3>1. Len(list) \in Nat
      BY ListTyped
    <3>2. PICK d : d = c - 1
      OBVIOUS
    <3>3. d \in 1 .. Len(list) /\ d \in 1 .. Len(list) + 1 /\ d < c /\ c = d + 1
      BY <2>3, <3>1, <3>2
    <3>4. IsFiniteSet(Slots(list, d))
      <4>1. d \notin T
        BY <2>1, <3>3
      <4> QED
        BY <3>3, <4>1
    <3> QED
      BY <2>1, <3>3, <3>4, SlotsMore
  <2> QED
    BY <2>2, <2>3
<1>2. IsFiniteSet(Slots(list, b))
  BY <1>1
<1> HIDE DEF T
<1> QED
  BY <1>2, FS_CardinalityType

\* The numbers of slots grow with the blocks.
LEMMA SlotsGrow ==
  ASSUME NEW list \in BlockLists, NEW b \in 1 .. Len(list) + 1, NEW c \in 1 .. Len(list) + 1, c <= b
  PROVE  Cardinality(Slots(list, c)) <= Cardinality(Slots(list, b))
<1>1. 1 .. c - 1 \subseteq 1 .. b - 1
  BY ListTyped
<1>2. Slots(list, c) \subseteq Slots(list, b)
  BY <1>1 DEF Slots
<1> QED
  BY <1>2, SlotsFinite, FS_Subset

Padded == [k \in 1 .. Len(fw.gtdt) |-> IF k \in Blocks THEN fw.gtdt[k].timers ELSE <<>>]
PlacesBefore(n) == {p \in Places : p[1] < n}
BlocksBefore(n) == {k \in Blocks : k < n}

LEMMA PaddedTyped ==
  ASSUME fw \in FirmwareTables
  PROVE  /\ Padded \in BlockLists /\ Len(Padded) = Len(fw.gtdt) /\ Len(fw.gtdt) \in Nat
         /\ Blocks \subseteq 1 .. Len(fw.gtdt)
         /\ \A k \in Blocks : Padded[k] = fw.gtdt[k].timers /\ fw.gtdt[k].timers \in Seq(TimerFrame)
         /\ \A k \in 1 .. Len(fw.gtdt) : k \notin Blocks => Padded[k] = <<>>
<1>1. fw.gtdt \in Seq([type : STRING, gsiv : Nat, timers : Seq(TimerFrame)])
  BY DEF FirmwareTables, TimerFrame
<1>2. \A R, s : s \in Seq(R) => Len(s) \in Nat /\ DOMAIN s = 1 .. Len(s) /\ \A i \in 1 .. Len(s) : s[i] \in R
  OBVIOUS
<1>3. /\ Len(fw.gtdt) \in Nat /\ DOMAIN fw.gtdt = 1 .. Len(fw.gtdt)
      /\ \A k \in 1 .. Len(fw.gtdt) : fw.gtdt[k] \in [type : STRING, gsiv : Nat, timers : Seq(TimerFrame)]
  BY <1>1, <1>2, Zenon
<1>4. \A k \in 1 .. Len(fw.gtdt) : fw.gtdt[k].timers \in Seq(TimerFrame)
  BY <1>3
<1>5. Blocks \subseteq 1 .. Len(fw.gtdt)
  BY <1>3 DEF Blocks
<1>6. <<>> \in Seq(TimerFrame)
  OBVIOUS
<1>7. PICK n \in Nat : n = Len(fw.gtdt)
  BY <1>3
<1>8. \A k \in 1 .. n : (IF k \in Blocks THEN fw.gtdt[k].timers ELSE <<>>) \in Seq(TimerFrame)
  BY <1>4, <1>6, <1>7
<1>9. Padded \in [1 .. n -> Seq(TimerFrame)]
  BY <1>7, <1>8 DEF Padded
<1>10. \A m \in Nat : \A S, f : f \in [1 .. m -> S] => f \in Seq(S) /\ Len(f) = m
  OBVIOUS
<1>11. Padded \in Seq(Seq(TimerFrame)) /\ Len(Padded) = n
  BY <1>9, <1>10, Zenon
<1> QED
  BY <1>3, <1>4, <1>5, <1>7, <1>11 DEF Padded, BlockLists

LEMMA PlacesAreSlots ==
  ASSUME fw \in FirmwareTables
  PROVE  /\ \A n \in 1 .. Len(fw.gtdt) + 1 : PlacesBefore(n) = Slots(Padded, n)
         /\ Places = Slots(Padded, Len(fw.gtdt) + 1)
<1>1. Len(fw.gtdt) \in Nat
  BY PaddedTyped
<1>2. \A p : p \in Places <=> \E k \in Blocks : p \in {k} \X (1 .. Len(fw.gtdt[k].timers))
  BY DEF Places
<1>3. ASSUME NEW n \in 1 .. Len(fw.gtdt) + 1, NEW p
      PROVE  p \in Slots(Padded, n) <=> p \in PlacesBefore(n)
  <2>1. ASSUME p \in Slots(Padded, n) PROVE p \in PlacesBefore(n)
    <3>1. PICK k \in 1 .. n - 1 : p \in {k} \X (1 .. Len(Padded[k]))
      BY <2>1 DEF Slots
    <3>2. k \in 1 .. Len(fw.gtdt) /\ k < n
      BY <1>1
    <3>3. k \in Blocks
      <4>1. Len(<<>>) = 0 /\ 1 .. 0 = {}
        OBVIOUS
      <4>2. Padded[k] # <<>>
        BY <3>1, <4>1
      <4> QED
        BY <3>2, <4>2, PaddedTyped
    <3>4. p \in Places /\ p[1] = k
      BY <1>2, <3>1, <3>3, PaddedTyped
    <3> QED
      BY <3>2, <3>4 DEF PlacesBefore
  <2>2. ASSUME p \in PlacesBefore(n) PROVE p \in Slots(Padded, n)
    <3>1. PICK k \in Blocks : p \in {k} \X (1 .. Len(fw.gtdt[k].timers))
      BY <1>2, <2>2 DEF PlacesBefore
    <3>2. p[1] = k /\ k < n /\ k \in 1 .. Len(fw.gtdt)
      BY <2>2, <3>1, PaddedTyped DEF PlacesBefore
    <3>3. k \in 1 .. n - 1
      BY <1>1, <3>2
    <3>4. Padded[k] = fw.gtdt[k].timers
      BY PaddedTyped
    <3> QED
      BY <3>1, <3>3, <3>4 DEF Slots
  <2> QED
    BY <2>1, <2>2
<1>4. PlacesBefore(Len(fw.gtdt) + 1) = Places
  <2>1. \A p \in Places : p[1] \in 1 .. Len(fw.gtdt)
    BY <1>2, PaddedTyped
  <2> QED
    BY <1>1, <2>1 DEF PlacesBefore
<1>5. Len(fw.gtdt) + 1 \in 1 .. Len(fw.gtdt) + 1
  BY <1>1
<1> QED
  BY <1>3, <1>4, <1>5

\* How many timers come before the i-th of block k.
LEMMA NumberOf ==
  ASSUME fw \in FirmwareTables, NEW k \in Blocks, NEW i \in 1 .. Len(fw.gtdt[k].timers)
  PROVE  /\ <<k, i>> \in Places
         /\ Number(Places, <<k, i>>) = Cardinality(PlacesBefore(k)) + (i - 1)
         /\ Cardinality(PlacesBefore(k)) \in Nat
<1>1. k \in 1 .. Len(fw.gtdt) /\ Len(fw.gtdt) \in Nat /\ fw.gtdt[k].timers \in Seq(TimerFrame)
  BY PaddedTyped
<1>2. Len(fw.gtdt[k].timers) \in Nat
  BY <1>1
<1>3. <<k, i>> \in Places
  BY DEF Places
<1>4. PICK W : W = {k} \X (1 .. i - 1)
  OBVIOUS
<1>5. {q \in Places : Earlier(q, <<k, i>>)} = PlacesBefore(k) \cup W
  <2>1. ASSUME NEW q \in Places PROVE Earlier(q, <<k, i>>) <=> q[1] < k \/ q \in W
    <3>0. PICK c \in Blocks : q \in {c} \X (1 .. Len(fw.gtdt[c].timers))
      BY DEF Places
    <3>1. PICK j \in 1 .. Len(fw.gtdt[c].timers) : q = <<c, j>>
      BY <3>0
    <3>2. j \in Nat /\ j >= 1
      <4>1. Len(fw.gtdt[c].timers) \in Nat
        <5>1. fw.gtdt[c].timers \in Seq(TimerFrame)
          BY PaddedTyped
        <5> QED
          BY <5>1
      <4> QED
        BY <4>1
    <3>3. j < i <=> j \in 1 .. i - 1
      BY <1>2, <3>2
    <3>4. Earlier(q, <<k, i>>) <=> c < k \/ (c = k /\ j < i)
      BY <3>1 DEF Earlier
    <3> QED
      BY <1>4, <3>1, <3>3, <3>4
  <2>2. \A q \in W : q \in Places
    <3>1. 1 .. i - 1 \subseteq 1 .. Len(fw.gtdt[k].timers)
      BY <1>2
    <3> QED
      BY <1>4, <3>1 DEF Places
  <2> QED
    BY <2>1, <2>2 DEF PlacesBefore
<1>6. IsFiniteSet(PlacesBefore(k)) /\ Cardinality(PlacesBefore(k)) \in Nat
  <2>1. k \in 1 .. Len(fw.gtdt) + 1 /\ k \in 1 .. Len(Padded) + 1 /\ Padded \in BlockLists
    BY <1>1, PaddedTyped
  <2> QED
    BY <2>1, PlacesAreSlots, SlotsFinite
<1>7. IsFiniteSet(W) /\ Cardinality(W) = i - 1
  <2>1. PICK n \in Nat : n = i - 1
    BY <1>2
  <2>2. IsFiniteSet(1 .. n) /\ Cardinality(1 .. n) = n
    <3>1. 1 \in Int /\ n \in Int /\ (IF 1 > n THEN 0 ELSE n - 1 + 1) = n
      OBVIOUS
    <3> QED
      BY <3>1, FS_Interval
  <2>3. IsFiniteSet({k}) /\ Cardinality({k}) = 1
    BY FS_Singleton
  <2>4. IsFiniteSet(W) /\ Cardinality(W) = Cardinality({k}) * Cardinality(1 .. n)
    BY <1>4, <2>1, <2>2, <2>3, FS_Product, Zenon
  <2> QED
    BY <2>1, <2>2, <2>3, <2>4
<1>8. PlacesBefore(k) \cap W = {}
  <2>1. \A q \in PlacesBefore(k) : q[1] < k
    BY DEF PlacesBefore
  <2>2. ~(k < k)
    BY <1>1
  <2> QED
    BY <1>4, <2>1, <2>2
<1>9. Cardinality(PlacesBefore(k) \cup W) = Cardinality(PlacesBefore(k)) + Cardinality(W) - Cardinality({})
  BY <1>6, <1>7, <1>8, FS_Union
<1>10. Cardinality(PlacesBefore(k) \cup W) = Cardinality(PlacesBefore(k)) + (i - 1)
  BY <1>2, <1>6, <1>7, <1>9, FS_EmptySet
<1> QED
  BY <1>3, <1>5, <1>6, <1>10 DEF Number

\* The table when the entries before n have been looked at.
Rank(k) == Cardinality(BlocksBefore(k)) + 1
Stored(t, n) ==
  /\ t.gt_info \in BlockLists /\ Len(t.gt_info) = Cardinality(BlocksBefore(n))
  /\ \A k \in BlocksBefore(n) :
       /\ t.gt_info[Rank(k)] = fw.gtdt[k].timers
       /\ Cardinality(Slots(t.gt_info, Rank(k))) = Cardinality(PlacesBefore(k))
  /\ t.num = Cardinality(PlacesBefore(n)) /\ Cardinality(Slots(t.gt_info, Rank(n))) = t.num

LEMMA BlocksNext ==
  ASSUME fw \in FirmwareTables, NEW n \in 1 .. Len(fw.gtdt) + 1
  PROVE  /\ IsFiniteSet(BlocksBefore(n)) /\ Cardinality(BlocksBefore(n)) \in Nat /\ n \notin BlocksBefore(n)
         /\ n \in Blocks => /\ BlocksBefore(n + 1) = BlocksBefore(n) \cup {n}
                            /\ Rank(n + 1) = Rank(n) + 1
         /\ n \notin Blocks => BlocksBefore(n + 1) = BlocksBefore(n)
         /\ \A k \in BlocksBefore(n) : Rank(k) \in Nat /\ Rank(k) + 1 <= Rank(n) /\ Rank(k) >= 1
                                       /\ k \in 1 .. Len(fw.gtdt) /\ k < n
<1>1. Blocks \subseteq 1 .. Len(fw.gtdt) /\ Len(fw.gtdt) \in Nat /\ n \in Nat
  BY PaddedTyped
<1>2. ASSUME NEW m PROVE IsFiniteSet(BlocksBefore(m)) /\ Cardinality(BlocksBefore(m)) \in Nat
  <2>1. IsFiniteSet(1 .. Len(fw.gtdt))
    <3>1. Len(fw.gtdt) \in Int /\ 1 \in Int
      BY <1>1
    <3> QED
      BY <3>1, FS_Interval, Zenon
  <2>2. BlocksBefore(m) \subseteq 1 .. Len(fw.gtdt)
    BY <1>1 DEF BlocksBefore
  <2> QED
    BY <2>1, <2>2, FS_Subset, FS_CardinalityType
<1>3. n \notin BlocksBefore(n)
  BY <1>1 DEF BlocksBefore
<1>4. \A k \in Blocks : k < n + 1 <=> k < n \/ k = n
  BY <1>1
<1>5. /\ n \in Blocks => BlocksBefore(n + 1) = BlocksBefore(n) \cup {n}
      /\ n \notin Blocks => BlocksBefore(n + 1) = BlocksBefore(n)
  BY <1>4 DEF BlocksBefore
<1>6. n \in Blocks => Rank(n + 1) = Rank(n) + 1
  <2>1. n \in Blocks => Cardinality(BlocksBefore(n + 1)) = Cardinality(BlocksBefore(n)) + 1
    BY <1>2, <1>3, <1>5, FS_AddElement
  <2> QED
    BY <1>2, <2>1 DEF Rank
<1>7. ASSUME NEW k \in BlocksBefore(n)
      PROVE  Rank(k) \in Nat /\ Rank(k) + 1 <= Rank(n) /\ Rank(k) >= 1 /\ k \in 1 .. Len(fw.gtdt) /\ k < n
  <2>0. k \in 1 .. Len(fw.gtdt) /\ k < n /\ ~(k < k)
    BY <1>1 DEF BlocksBefore
  <2>1. BlocksBefore(k) \subseteq BlocksBefore(n) /\ k \notin BlocksBefore(k)
    <3>1. \A j \in Blocks : j < k => j < n
      BY <1>1, <2>0
    <3> QED
      BY <2>0, <3>1 DEF BlocksBefore
  <2>2. Cardinality(BlocksBefore(k)) + 1 <= Cardinality(BlocksBefore(n))
    BY <1>2, <2>1, Fewer
  <2> QED
    BY <1>2, <2>0, <2>1, <2>2 DEF Rank
<1> QED
  BY <1>2, <1>3, <1>5, <1>6, <1>7

\* A block is stored behind those of before.
LEMMA StoreOne ==
  ASSUME fw \in FirmwareTables, NEW n \in Blocks, NEW t, Stored(t, n), NEW u,
         u.gt_info = Append(t.gt_info, fw.gtdt[n].timers), u.num = t.num + Len(fw.gtdt[n].timers)
  PROVE  Stored(u, n + 1)
<1>1. PICK list, e, more : list = t.gt_info /\ e = fw.gtdt[n].timers /\ more = Append(list, e)
  OBVIOUS
<1>2. n \in 1 .. Len(fw.gtdt) /\ e \in Seq(TimerFrame) /\ Padded[n] = e /\ Len(fw.gtdt) \in Nat
  BY <1>1, PaddedTyped
<1>3. list \in BlockLists /\ more \in BlockLists /\ Len(list) \in Nat /\ Len(more) = Len(list) + 1
      /\ more[Len(list) + 1] = e /\ \A c \in 1 .. Len(list) : more[c] = list[c]
  <2>1. list \in BlockLists
    BY <1>1 DEF Stored
  <2>2. PICK R : R = Seq(TimerFrame)
    OBVIOUS
  <2>3. list \in Seq(R) /\ e \in R
    BY <1>2, <2>1, <2>2 DEF BlockLists
  <2>4. more \in Seq(R) /\ Len(list) \in Nat /\ Len(more) = Len(list) + 1 /\ more[Len(list) + 1] = e
    BY <1>1, <2>3
  <2>5. \A c \in 1 .. Len(list) : more[c] = list[c]
    BY <1>1, <2>3
  <2> QED
    BY <2>1, <2>2, <2>4, <2>5 DEF BlockLists
<1>4. n \in 1 .. Len(fw.gtdt) + 1 /\ Len(list) = Cardinality(BlocksBefore(n)) /\ Rank(n) = Len(list) + 1
      /\ Rank(n + 1) = Len(list) + 2 /\ Len(more) = Cardinality(BlocksBefore(n + 1))
  <2>1. n \in 1 .. Len(fw.gtdt) + 1
    BY <1>2
  <2>2. Len(list) = Cardinality(BlocksBefore(n))
    BY <1>1 DEF Stored
  <2>3. Rank(n) = Len(list) + 1
    BY <2>2 DEF Rank
  <2>4. Rank(n + 1) = Len(list) + 2
    BY <1>3, <2>1, <2>3, BlocksNext
  <2>5. Cardinality(BlocksBefore(n + 1)) = Cardinality(BlocksBefore(n)) + 1
    <3>1. /\ IsFiniteSet(BlocksBefore(n)) /\ n \notin BlocksBefore(n)
          /\ BlocksBefore(n + 1) = BlocksBefore(n) \cup {n}
      BY <2>1, BlocksNext
    <3> QED
      BY <3>1, FS_AddElement
  <2> QED
    BY <1>3, <2>1, <2>2, <2>3, <2>4, <2>5
<1>5. ASSUME NEW b \in 1 .. Len(list) + 1 PROVE Slots(more, b) = Slots(list, b)
  <2>1. \A c \in 1 .. b - 1 : more[c] = list[c]
    BY <1>3
  <2> QED
    BY <2>1 DEF Slots
<1>6. /\ Cardinality(Slots(more, Rank(n))) = t.num /\ t.num = Cardinality(PlacesBefore(n))
      /\ IsFiniteSet(Slots(more, Rank(n))) /\ t.num \in Nat
  <2>1. Len(list) + 1 \in 1 .. Len(list) + 1
    BY <1>3
  <2>2. Cardinality(Slots(list, Rank(n))) = t.num /\ t.num = Cardinality(PlacesBefore(n))
    BY <1>1 DEF Stored
  <2>3. IsFiniteSet(Slots(list, Rank(n))) /\ Cardinality(Slots(list, Rank(n))) \in Nat
    BY <1>3, <1>4, <2>1, SlotsFinite
  <2> QED
    BY <1>4, <1>5, <2>1, <2>2, <2>3
<1>7. Cardinality(Slots(more, Rank(n + 1))) = t.num + Len(e)
  <2>1. PICK b : b = Len(list) + 1 /\ b \in 1 .. Len(more) /\ Rank(n) = b /\ Rank(n + 1) = b + 1 /\ more[b] = e
    BY <1>3, <1>4
  <2>2. Cardinality(Slots(more, b + 1)) = Cardinality(Slots(more, b)) + Len(more[b])
    BY <1>3, <1>6, <2>1, SlotsMore
  <2> QED
    BY <1>6, <2>1, <2>2
<1>8. Cardinality(PlacesBefore(n + 1)) = t.num + Len(e)
  <2>1. n \in 1 .. Len(Padded) /\ n \in 1 .. Len(Padded) + 1 /\ n + 1 \in 1 .. Len(fw.gtdt) + 1 /\ Padded \in BlockLists
    BY <1>2, PaddedTyped
  <2>2. PlacesBefore(n) = Slots(Padded, n) /\ PlacesBefore(n + 1) = Slots(Padded, n + 1)
    BY <1>4, <2>1, PlacesAreSlots
  <2>3. IsFiniteSet(Slots(Padded, n))
    BY <2>1, SlotsFinite
  <2>4. Cardinality(Slots(Padded, n + 1)) = Cardinality(Slots(Padded, n)) + Len(Padded[n])
    BY <2>1, <2>3, SlotsMore
  <2> QED
    BY <1>2, <1>6, <2>2, <2>4
<1>9. ASSUME NEW k \in BlocksBefore(n)
      PROVE  /\ more[Rank(k)] = fw.gtdt[k].timers
             /\ Cardinality(Slots(more, Rank(k))) = Cardinality(PlacesBefore(k))
  <2>1. Rank(k) \in 1 .. Len(list) /\ Rank(k) \in 1 .. Len(list) + 1
    BY <1>3, <1>4, BlocksNext
  <2> QED
    BY <1>1, <1>3, <1>5, <2>1 DEF Stored
<1>10. more[Rank(n)] = fw.gtdt[n].timers /\ Cardinality(Slots(more, Rank(n))) = Cardinality(PlacesBefore(n))
  BY <1>1, <1>3, <1>4, <1>6
<1>11. BlocksBefore(n + 1) = BlocksBefore(n) \cup {n}
  BY <1>4, BlocksNext
<1>12. u.gt_info = more /\ u.num = t.num + Len(e)
  BY <1>1
<1> QED
  BY <1>3, <1>4, <1>7, <1>8, <1>9, <1>10, <1>11, <1>12 DEF Stored

\* The look-up of a number that is not that of a later block's first timer.
LEMMA InfoOf ==
  ASSUME fw \in FirmwareTables, Stored(timer, Len(fw.gtdt) + 1), NEW k \in Blocks,
         NEW i \in 1 .. Len(fw.gtdt[k].timers), ~LaterFirst(<<k, i>>)
  PROVE  Info(Number(Places, <<k, i>>)) = fw.gtdt[k].timers[i]
<1>1. PICK list, ts, n, b : list = timer.gt_info /\ ts = fw.gtdt[k].timers /\ n = Len(fw.gtdt) + 1 /\ b = Rank(k)
  OBVIOUS
<1>2. /\ Len(fw.gtdt) \in Nat /\ k \in 1 .. Len(fw.gtdt) /\ n \in 1 .. Len(fw.gtdt) + 1
      /\ k \in BlocksBefore(n) /\ BlocksBefore(n) = Blocks
  <2>1. Len(fw.gtdt) \in Nat /\ Blocks \subseteq 1 .. Len(fw.gtdt)
    BY PaddedTyped
  <2>2. \A c \in Blocks : c < n
    BY <1>1, <2>1
  <2>3. BlocksBefore(n) = Blocks
    BY <2>2 DEF BlocksBefore
  <2>4. k \in 1 .. Len(fw.gtdt) /\ n \in 1 .. Len(fw.gtdt) + 1
    BY <1>1, <2>1
  <2> QED
    BY <2>1, <2>3, <2>4
<1>3. /\ list \in BlockLists /\ Len(list) = Cardinality(Blocks) /\ list[b] = ts
      /\ Cardinality(Slots(list, b)) = Cardinality(PlacesBefore(k))
  BY <1>1, <1>2 DEF Stored
<1>4. b \in 1 .. Len(list) /\ Len(list) \in Nat
  <2>1. b \in Nat /\ b + 1 <= Rank(n) /\ b >= 1
    BY <1>1, <1>2, BlocksNext
  <2>2. Rank(n) = Len(list) + 1 /\ Len(list) \in Nat
    BY <1>2, <1>3, ListTyped DEF Rank
  <2> QED
    BY <2>1, <2>2
<1>5. \A c : Before(c) = Cardinality(Slots(list, c))
  BY <1>1 DEF Before, Slots
<1>6. PICK index : index = Number(Places, <<k, i>>)
  OBVIOUS
<1>7. index = Before(b) + (i - 1) /\ Before(b) \in Nat /\ i \in Nat /\ i >= 1 /\ i <= Len(ts) /\ Len(ts) \in Nat
  <2>1. index = Before(b) + (i - 1) /\ Before(b) \in Nat
    BY <1>3, <1>5, <1>6, NumberOf
  <2>2. Len(ts) \in Nat
    BY <1>3, <1>4, ListTyped
  <2>3. i \in 1 .. Len(ts)
    BY <1>1
  <2> QED
    BY <2>1, <2>2, <2>3
<1>8. Before(b + 1) = Before(b) + Len(ts)
  <2>1. b \in 1 .. Len(list) + 1
    BY <1>4
  <2>2. IsFiniteSet(Slots(list, b))
    BY <1>3, <2>1, SlotsFinite
  <2> QED
    BY <1>3, <1>4, <1>5, <2>2, SlotsMore
<1>9. ASSUME NEW c \in 1 .. Len(list), index <= Before(c + 1) PROVE b <= c
  <2>1. SUFFICES ASSUME c < b PROVE FALSE
    BY <1>4
  <2>2. c + 1 \in 1 .. Len(list) + 1 /\ b \in 1 .. Len(list) + 1 /\ c + 1 <= b
    BY <1>4, <2>1
  <2>3. Before(c + 1) <= Before(b)
    BY <1>3, <1>5, <2>2, SlotsGrow
  <2>4. Before(c + 1) \in Nat
    BY <1>3, <1>5, <2>2, SlotsFinite
  <2>5. i = 1
    BY <1>7, <1>9, <2>3, <2>4
  <2>6. \A d \in Blocks : ~(d < k)
    BY <2>5 DEF LaterFirst
  <2>7. BlocksBefore(k) = {}
    BY <2>6 DEF BlocksBefore
  <2>8. b = 1
    BY <1>1, <2>7, FS_EmptySet DEF Rank
  <2> QED
    BY <2>1, <2>8
<1>10. PICK C : C = {c \in DOMAIN timer.gt_info : index <= Before(c + 1)}
  OBVIOUS
<1>11. b \in C /\ \A c \in C : b <= c
  <2>1. index <= Before(b + 1)
    BY <1>7, <1>8
  <2>2. DOMAIN timer.gt_info = 1 .. Len(list)
    BY <1>1, <1>3, ListTyped
  <2> QED
    BY <1>4, <1>9, <1>10, <2>1, <2>2
<1>12. Min(C) = b
  <2>1. \A c \in C : c \in Nat
    BY <1>1, <1>3, <1>10, ListTyped
  <2>2. \A c \in C : (\A d \in C : c <= d) => c = b
    BY <1>11, <2>1
  <2> QED
    BY <1>11, <2>2 DEF Min
<1>13. EntryIndex(index) = <<b, i - 1>>
  <2>1. index - Before(b) = i - 1
    BY <1>7
  <2> QED
    BY <1>10, <1>12, <2>1 DEF EntryIndex
<1>14. i - 1 < Len(ts) /\ (i - 1) + 1 = i
  BY <1>7
<1>15. Info(index) = ts[i]
  BY <1>1, <1>3, <1>13, <1>14 DEF Info
<1> QED
  BY <1>1, <1>6, <1>15

\* The places are numbered from 0 without a gap.
LEMMA Numbered ==
  ASSUME fw \in FirmwareTables
  PROVE  /\ IsFiniteSet(Places) /\ Cardinality(Places) \in Nat
         /\ \A p \in Places : \E k \in Blocks : \E i \in 1 .. Len(fw.gtdt[k].timers) : p = <<k, i>>
         /\ \A p \in Places : Number(Places, p) \in 0 .. Cardinality(Places) - 1
         /\ \A p, q \in Places : Earlier(q, p) => Number(Places, q) < Number(Places, p)
         /\ \A p, q \in Places : p = q \/ Earlier(p, q) \/ Earlier(q, p)
         /\ \A i \in 0 .. Cardinality(Places) - 1 : \E p \in Places : Number(Places, p) = i
<1>1. IsFiniteSet(Places) /\ Cardinality(Places) \in Nat
  <2>1. Len(fw.gtdt) + 1 \in 1 .. Len(Padded) + 1 /\ Padded \in BlockLists
    BY PaddedTyped
  <2> QED
    BY <2>1, PlacesAreSlots, SlotsFinite
<1>2. ASSUME NEW p \in Places
      PROVE  \E k \in Blocks : \E i \in 1 .. Len(fw.gtdt[k].timers) : p = <<k, i>> /\ k \in Nat /\ i \in Nat
  <2>1. PICK k \in Blocks : p \in {k} \X (1 .. Len(fw.gtdt[k].timers))
    BY DEF Places
  <2>2. k \in Nat /\ fw.gtdt[k].timers \in Seq(TimerFrame)
    BY PaddedTyped
  <2>3. Len(fw.gtdt[k].timers) \in Nat
    BY <2>2
  <2> QED
    BY <2>1, <2>2, <2>3
<1>3. ASSUME NEW p \in Places, NEW q \in Places
      PROVE  /\ p = q \/ Earlier(p, q) \/ Earlier(q, p)
             /\ ~Earlier(p, p)
             /\ Earlier(q, p) => \A r \in Places : Earlier(r, q) => Earlier(r, p)
  <2>1. PICK a, i : p = <<a, i>> /\ a \in Nat /\ i \in Nat
    BY <1>2
  <2>2. PICK b, j : q = <<b, j>> /\ b \in Nat /\ j \in Nat
    BY <1>2
  <2>3. ASSUME NEW r \in Places, Earlier(q, p), Earlier(r, q) PROVE Earlier(r, p)
    <3>1. PICK c, l : r = <<c, l>> /\ c \in Nat /\ l \in Nat
      BY <1>2
    <3>2. b < a \/ (b = a /\ j < i)
      BY <2>1, <2>2, <2>3 DEF Earlier
    <3>3. c < b \/ (c = b /\ l < j)
      BY <2>2, <2>3, <3>1 DEF Earlier
    <3>4. c < a \/ (c = a /\ l < i)
      BY <2>1, <2>2, <3>1, <3>2, <3>3
    <3> QED
      BY <2>1, <3>1, <3>4 DEF Earlier
  <2>4. ~Earlier(p, p)
    BY <2>1 DEF Earlier
  <2>5. p = q \/ Earlier(p, q) \/ Earlier(q, p)
    <3>1. (a = b /\ i = j) \/ (a < b \/ (a = b /\ i < j)) \/ (b < a \/ (b = a /\ j < i))
      BY <2>1, <2>2
    <3> QED
      BY <2>1, <2>2, <3>1 DEF Earlier
  <2> QED
    BY <2>3, <2>4, <2>5
<1>4. ASSUME NEW p \in Places PROVE Number(Places, p) \in Nat /\ Number(Places, p) + 1 <= Cardinality(Places)
  <2>1. {q \in Places : Earlier(q, p)} \subseteq Places /\ p \notin {q \in Places : Earlier(q, p)}
    BY <1>3
  <2> QED
    BY <1>1, <2>1, Fewer DEF Number
<1>5. \A p \in Places : Number(Places, p) \in 0 .. Cardinality(Places) - 1
  BY <1>1, <1>4
<1>6. ASSUME NEW p \in Places, NEW q \in Places, Earlier(q, p) PROVE Number(Places, q) < Number(Places, p)
  <2>1. PICK A, B : A = {r \in Places : Earlier(r, q)} /\ B = {r \in Places : Earlier(r, p)}
    OBVIOUS
  <2>2. A \subseteq B /\ q \in B /\ q \notin A /\ B \subseteq Places
    BY <1>3, <1>6, <2>1
  <2>3. IsFiniteSet(B)
    BY <1>1, <2>2, FS_Subset
  <2>4. Cardinality(A) \in Nat /\ Cardinality(B) \in Nat /\ Cardinality(A) + 1 <= Cardinality(B)
    BY <2>2, <2>3, Fewer
  <2>5. Cardinality(A) < Cardinality(B)
    BY <2>4
  <2> QED
    BY <2>1, <2>5 DEF Number
<1>7. \A i \in 0 .. Cardinality(Places) - 1 : \E p \in Places : Number(Places, p) = i
  <2>1. PICK N, T, f : N = Cardinality(Places) /\ T = 0 .. N - 1 /\ f = [p \in Places |-> Number(Places, p)]
    OBVIOUS
  <2>2. f \in [Places -> T]
    BY <1>5, <2>1
  <2>3. ASSUME NEW p \in Places, NEW q \in Places, f[p] = f[q] PROVE p = q
    <3>1. Number(Places, p) = Number(Places, q) /\ Number(Places, p) \in Nat
      BY <1>4, <2>1, <2>3
    <3>2. ~(Number(Places, p) < Number(Places, q)) /\ ~(Number(Places, q) < Number(Places, p))
      BY <3>1
    <3> QED
      BY <1>3, <1>6, <3>2
  <2>4. f \in Injection(Places, T)
    BY <2>2, <2>3 DEF Injection, IsInjective
  <2>5. IsFiniteSet(T) /\ Cardinality(T) = N
    <3>1. 0 \in Int /\ N - 1 \in Int /\ (IF 0 > N - 1 THEN 0 ELSE (N - 1) - 0 + 1) = N
      BY <1>1, <2>1
    <3> QED
      BY <2>1, <3>1, FS_Interval
  <2>6. f \in Surjection(Places, T)
    BY <2>1, <2>4, <2>5, FS_Injection
  <2>7. \A t \in T : \E p \in Places : f[p] = t
    BY <2>6 DEF Surjection
  <2> QED
    BY <2>1, <2>7
<1> QED
  BY <1>1, <1>2, <1>3, <1>5, <1>6, <1>7

TimerInv ==
  /\ fw \in FirmwareTables
  /\ pc \in Behind \cup {"gic", "event", "failed", "killed"}
  /\ pc \in {"gic", "event", "wd"} => timer = [gt_info |-> <<>>, num |-> 0]
  /\ pc = "timer" => pos \in 1 .. Len(fw.gtdt) + 1 /\ Stored(timer, pos)
  /\ pc = "ready" => Stored(timer, Len(fw.gtdt) + 1)
  /\ second \in {Unasked, SecondInterrupt} /\ (second # Unasked => pc = "ready")
  /\ armed \subseteq (IF second.status = "success" THEN {Info(second.index).base} ELSE {})

LEMMA SameAnswers ==
  ASSUME timer' = timer
  PROVE  SecondInterrupt' = SecondInterrupt /\ \A i : Info(i)' = Info(i)
<1>1. \A b : Before(b)' = Before(b)
  BY DEF Before
<1>2. \A i : EntryIndex(i)' = EntryIndex(i)
  BY <1>1 DEF EntryIndex
<1>3. \A i : Info(i)' = Info(i)
  BY <1>2 DEF Info
<1>4. SecondInterrupt' = SecondInterrupt
  BY <1>3 DEF SecondInterrupt
<1> QED
  BY <1>3, <1>4

LEMMA StoredStays ==
  ASSUME fw' = fw, NEW t, NEW n, Stored(t, n)
  PROVE  Stored(t, n)'
<1>1. Blocks' = Blocks /\ Places' = Places
  BY DEF Blocks, Places
<1>2. \A m : BlocksBefore(m)' = BlocksBefore(m) /\ PlacesBefore(m)' = PlacesBefore(m)
  BY <1>1 DEF BlocksBefore, PlacesBefore
<1>3. \A m : Rank(m)' = Rank(m)
  BY <1>2 DEF Rank
<1> QED
  BY <1>2, <1>3 DEF Stored

LEMMA TimerInit == Init => TimerInv
<1> SUFFICES ASSUME Init PROVE TimerInv
  OBVIOUS
<1>1. fw \in FirmwareTables /\ pc = "gic" /\ timer = [gt_info |-> <<>>, num |-> 0] /\ second = Unasked /\ armed = {}
  BY FirmwareAssumption DEF Init
<1> QED
  BY <1>1 DEF TimerInv

LEMMA TimerEntryKeeps ==
  ASSUME TimerInv, TimerEntry
  PROVE  TimerInv'
<1>1. /\ pc = "timer" /\ pos \in 1 .. Len(fw.gtdt) /\ Len(fw.gtdt) \in Nat /\ fw \in FirmwareTables
      /\ Stored(timer, pos) /\ second = Unasked /\ armed = {}
      /\ pos' = pos + 1 /\ UNCHANGED <<fw, pc, second, armed>>
  <2>1. pc = "timer" /\ second = Unasked /\ fw \in FirmwareTables /\ pos \in 1 .. Len(fw.gtdt) + 1
        /\ Stored(timer, pos) /\ pos <= Len(fw.gtdt) /\ pos' = pos + 1 /\ UNCHANGED <<fw, pc, second, armed>>
    BY DEF TimerInv, TimerEntry
  <2>2. armed = {}
    BY <2>1 DEF TimerInv, Unasked
  <2>3. Len(fw.gtdt) \in Nat
    BY <2>1, PaddedTyped
  <2> QED
    BY <2>1, <2>2, <2>3
<1>2. Stored(timer', pos + 1)
  <2>1. DOMAIN fw.gtdt = 1 .. Len(fw.gtdt)
    BY <1>1, GtdtTyped
  <2>2. CASE pos \in Blocks
    <3>1. timer' = [gt_info |-> Append(timer.gt_info, fw.gtdt[pos].timers),
                    num |-> timer.num + Len(fw.gtdt[pos].timers)]
      BY <2>2 DEF TimerEntry, Blocks
    <3>2. /\ timer'.gt_info = Append(timer.gt_info, fw.gtdt[pos].timers)
          /\ timer'.num = timer.num + Len(fw.gtdt[pos].timers)
      BY <3>1
    <3> QED
      BY <1>1, <2>2, <3>2, StoreOne
  <2>3. CASE pos \notin Blocks
    <3>1. timer' = timer
      BY <1>1, <2>1, <2>3 DEF TimerEntry, Blocks
    <3>2. pos \in 1 .. Len(fw.gtdt) + 1
      BY <1>1
    <3>3. BlocksBefore(pos + 1) = BlocksBefore(pos)
      BY <1>1, <2>3, <3>2, BlocksNext
    <3>4. PlacesBefore(pos + 1) = PlacesBefore(pos)
      <4>1. \A p \in Places : p[1] \in Blocks /\ p[1] \in Nat
        BY <1>1, Numbered, PaddedTyped
      <4>2. \A p \in Places : p[1] < pos + 1 <=> p[1] < pos
        <5>1. \A k \in Blocks : k \in Nat /\ k # pos => (k < pos + 1 <=> k < pos)
          BY <1>1
        <5> QED
          BY <2>3, <4>1, <5>1
      <4> QED
        BY <4>2 DEF PlacesBefore
    <3> QED
      BY <1>1, <3>1, <3>3, <3>4 DEF Stored, Rank
  <2> QED
    BY <2>2, <2>3
<1>3. PICK t, n : t = timer' /\ n = pos' /\ n = pos + 1
  BY <1>1
<1>4. Stored(t, n)'
  BY <1>1, <1>2, <1>3, StoredStays
<1>5. Stored(timer, pos)'
  BY <1>3, <1>4
<1> QED
  BY <1>1, <1>5 DEF TimerInv, Behind

LEMMA TimerNext == TimerInv /\ [Next]_vars => TimerInv'
<1> SUFFICES ASSUME TimerInv, [Next]_vars PROVE TimerInv'
  OBVIOUS
<1>1. fw \in FirmwareTables /\ Len(fw.gtdt) \in Nat
  BY PaddedTyped DEF TimerInv
<1>2. pc # "ready" => second = Unasked /\ armed = {}
  BY DEF TimerInv, Unasked
<1>3. \A n : (fw' = fw => BlocksBefore(n)' = BlocksBefore(n) /\ PlacesBefore(n)' = PlacesBefore(n))
  BY DEF BlocksBefore, PlacesBefore, Places, Blocks
<1>4. ASSUME UNCHANGED <<fw, timer, second, armed>>, pc \in {"gic", "event", "wd"},
             pc' \in {"gic", "event", "wd", "failed", "killed"}
      PROVE  TimerInv'
  BY <1>2, <1>4 DEF TimerInv, Behind, Unasked
<1>5. CASE GicEntry \/ GicPass \/ GicEnd
  <2>1. UNCHANGED <<fw, timer, second, armed>> /\ pc \in {"gic", "event", "wd"} /\ pc' \in {"gic", "event", "wd", "failed"}
    BY <1>5 DEF GicEntry, GicPass, GicEnd, Begin
  <2> QED
    BY <1>4, <2>1
<1>6. CASE NoHest \/ WildHest \/ NoGtdt \/ HestFound \/ EventEntry \/ EventEnd \/ WdEntry
  <2>1. UNCHANGED <<fw, timer, second, armed>> /\ pc \in {"gic", "event", "wd"}
        /\ pc' \in {"gic", "event", "wd", "failed", "killed"}
    BY <1>6 DEF NoHest, WildHest, NoGtdt, NoTable, HestFound, EventEntry, EventEnd, WdEntry, Begin
  <2> QED
    BY <1>4, <2>1
<1>7. CASE WdEnd
  <2>1. /\ pc = "wd" /\ pc' = "timer" /\ pos' = 1 /\ UNCHANGED <<fw, timer, second, armed>>
        /\ timer = [gt_info |-> <<>>, num |-> 0] /\ second = Unasked /\ armed = {}
    BY <1>2, <1>7 DEF WdEnd, Begin, TimerInv
  <2>2. BlocksBefore(1) = {}
    BY <1>1, PaddedTyped DEF BlocksBefore
  <2>3. PlacesBefore(1) = {}
    <3>1. \A p \in Places : ~(p[1] < 1)
      <4>1. \A p \in Places : p[1] \in Blocks
        BY <1>1, Numbered
      <4>2. \A k \in Blocks : ~(k < 1)
        BY <1>1, PaddedTyped
      <4> QED
        BY <4>1, <4>2
    <3> QED
      BY <3>1 DEF PlacesBefore
  <2>4. Cardinality({}) = 0
    BY FS_EmptySet
  <2>5. Slots(timer.gt_info, Rank(1)) = {} /\ <<>> \in BlockLists /\ Len(<<>>) = 0
    <3>1. Rank(1) = 1
      BY <2>2, <2>4 DEF Rank
    <3> QED
      BY <3>1 DEF Slots, BlockLists
  <2>6. Stored(timer, 1)
    BY <2>1, <2>2, <2>3, <2>4, <2>5 DEF Stored
  <2>7. Stored(timer, pos)'
    BY <2>1, <2>6 DEF Stored, Rank, BlocksBefore, PlacesBefore, Places, Blocks
  <2> QED
    BY <1>1, <2>1, <2>7 DEF TimerInv, Behind, Unasked
<1>8. CASE TimerEntry
  BY <1>8, TimerEntryKeeps
<1>9. CASE TimerEnd
  <2>1. /\ pc = "timer" /\ pc' = "ready" /\ UNCHANGED <<fw, timer, second, armed>> /\ Stored(timer, pos)
        /\ pos = Len(fw.gtdt) + 1 /\ second = Unasked /\ armed = {}
    BY <1>1, <1>2, <1>9 DEF TimerEnd, TimerInv
  <2>2. Stored(timer, Len(fw.gtdt) + 1)'
    <3>1. PICK t, n : t = timer /\ n = Len(fw.gtdt) + 1 /\ t = timer' /\ n = Len(fw'.gtdt) + 1 /\ n = pos
      BY <2>1
    <3>2. Stored(t, n)'
      BY <2>1, <3>1, StoredStays
    <3> QED
      BY <3>1, <3>2
  <2> QED
    BY <1>1, <2>1, <2>2 DEF TimerInv, Behind, Unasked
<1>10. ASSUME UNCHANGED <<fw, pc, pos, timer>> PROVE
         /\ pc = "timer" => pos' \in 1 .. Len(fw'.gtdt) + 1 /\ Stored(timer, pos)'
         /\ pc = "ready" => Stored(timer, Len(fw.gtdt) + 1)'
         /\ pc' \in {"gic", "event", "wd"} => timer' = [gt_info |-> <<>>, num |-> 0]
         /\ fw' \in FirmwareTables /\ pc' \in Behind \cup {"gic", "event", "failed", "killed"} /\ pc' = pc
  <2>1. PICK t, n, m : /\ t = timer /\ n = Len(fw.gtdt) + 1 /\ m = pos
                       /\ t = timer' /\ n = Len(fw'.gtdt) + 1 /\ m = pos'
    BY <1>10
  <2>2. pc = "timer" => Stored(timer, pos)'
    <3>1. pc = "timer" => Stored(t, m)'
      BY <1>10, <2>1, StoredStays DEF TimerInv
    <3> QED
      BY <2>1, <3>1
  <2>3. pc = "ready" => Stored(timer, Len(fw.gtdt) + 1)'
    <3>1. pc = "ready" => Stored(t, n)'
      BY <1>10, <2>1, StoredStays DEF TimerInv
    <3> QED
      BY <2>1, <3>1
  <2> QED
    BY <1>10, <2>2, <2>3 DEF TimerInv
<1>11. CASE ConfigureSecondInterrupt
  <2>1. /\ pc = "ready" /\ second = Unasked /\ second' = SecondInterrupt /\ UNCHANGED <<fw, pc, pos, timer, armed>>
    BY <1>11 DEF ConfigureSecondInterrupt
  <2>2. second' = SecondInterrupt' /\ armed' = {}
    <3>1. armed = {}
      BY <2>1 DEF TimerInv, Unasked
    <3> QED
      BY <2>1, <3>1, SameAnswers
  <2> QED
    BY <1>10, <2>1, <2>2 DEF TimerInv, Behind
<1>12. CASE GenerateSecondInterrupt \/ DisableSecondInterrupt
  <2>1. /\ UNCHANGED <<fw, pc, pos, timer, second>> /\ second.status = "success"
        /\ armed' \subseteq armed \cup {Info(second.index).base}
    BY <1>12 DEF GenerateSecondInterrupt, DisableSecondInterrupt
  <2>2. second' \in {Unasked, SecondInterrupt'} /\ (second' # Unasked => pc' = "ready")
    BY <2>1, SameAnswers DEF TimerInv
  <2>3. armed' \subseteq {Info(second.index).base} /\ Info(second.index)' = Info(second.index)
    <3>1. Info(second.index)' = Info(second.index)
      BY <2>1 DEF Info, EntryIndex, Before
    <3> QED
      BY <2>1, <3>1 DEF TimerInv
  <2> QED
    BY <1>10, <2>1, <2>2, <2>3 DEF TimerInv, Unasked
<1>13. CASE UNCHANGED vars
  <2>1. UNCHANGED <<fw, pc, pos, timer, second, armed>>
    BY <1>13 DEF vars
  <2>2. second' \in {Unasked, SecondInterrupt'} /\ (second' # Unasked => pc' = "ready")
    BY <2>1, SameAnswers DEF TimerInv
  <2>3. Info(second.index)' = Info(second.index)
    BY <2>1 DEF Info, EntryIndex, Before
  <2> QED
    BY <1>10, <2>1, <2>2, <2>3 DEF TimerInv, Unasked
<1> QED
  BY <1>5, <1>6, <1>7, <1>8, <1>9, <1>11, <1>12, <1>13 DEF Next

\* The number of every timer leads to it unless it is the first of a later block, and
\* without such timers the test is given, and enables, the last timer that is not
\* secure, for GTDTs of any length (pal_wd_timer.c:90-136, 168-197, 268-283).
THEOREM TimersAreRight == Spec => []TimersRight
<1>1. TimerInv => TimersRight
  <2> SUFFICES ASSUME TimerInv, pc = "ready" PROVE TimersRight
    BY DEF TimersRight
  <2> DEFINE free == {p \in Places : ~TimerAt(p).secure}
             idx == {i \in 0 .. timer.num - 1 : ~Info(i).secure}
  <2>1. fw \in FirmwareTables /\ Stored(timer, Len(fw.gtdt) + 1) /\ Len(fw.gtdt) \in Nat
    BY PaddedTyped DEF TimerInv
  <2>2. timer.num = Cardinality(Places) /\ timer.num \in Nat
    <3>1. PlacesBefore(Len(fw.gtdt) + 1) = Places
      <4>1. Len(fw.gtdt) + 1 \in 1 .. Len(fw.gtdt) + 1
        BY <2>1
      <4> QED
        BY <2>1, <4>1, PlacesAreSlots
    <3> QED
      BY <2>1, <3>1, Numbered DEF Stored
  <2>3. ASSUME NEW p \in Places, ~LaterFirst(p) PROVE Info(Number(Places, p)) = TimerAt(p)
    <3>1. PICK k \in Blocks : \E i \in 1 .. Len(fw.gtdt[k].timers) : p = <<k, i>>
      BY <2>1, Numbered
    <3>2. PICK i \in 1 .. Len(fw.gtdt[k].timers) : p = <<k, i>>
      BY <3>1
    <3> QED
      BY <2>1, <2>3, <3>2, InfoOf DEF TimerAt
  <2>4. ASSUME \A p \in Places : ~LaterFirst(p), second # Unasked
        PROVE  IF free = {}
               THEN second = Refused /\ armed = {}
               ELSE \E p \in free :
                      /\ \A q \in free : q = p \/ Earlier(q, p)
                      /\ second = [status |-> "success", index |-> Number(Places, p), int_id |-> TimerAt(p).gsiv]
                      /\ armed \subseteq {TimerAt(p).base}
    <3>1. second = SecondInterrupt
      BY <2>4 DEF TimerInv
    <3>2. \A i \in idx : \E p \in free : Number(Places, p) = i /\ Info(i) = TimerAt(p)
      <4>1. ASSUME NEW i \in idx PROVE \E p \in free : Number(Places, p) = i /\ Info(i) = TimerAt(p)
        <5>1. PICK p \in Places : Number(Places, p) = i
          BY <2>1, <2>2, Numbered
        <5>2. Info(i) = TimerAt(p)
          BY <2>3, <2>4, <5>1
        <5> QED
          BY <5>1, <5>2
      <4> QED
        BY <4>1
    <3>3. \A p \in free : Number(Places, p) \in idx
      BY <2>1, <2>2, <2>3, <2>4, Numbered
    <3>4. CASE free = {}
      <4>1. idx = {}
        BY <3>2, <3>4
      <4>2. second = Refused
        BY <3>1, <4>1 DEF SecondInterrupt
      <4>3. armed = {}
        BY <4>2 DEF TimerInv, Refused
      <4> QED
        BY <3>4, <4>2, <4>3
    <3>5. CASE free # {}
      <4>1. idx # {} /\ idx \subseteq 0 .. timer.num
        BY <2>2, <3>3, <3>5
      <4>2. PICK m : m = Max(idx)
        OBVIOUS
      <4>3. m \in idx /\ \A i \in idx : i <= m
        <5> HIDE DEF idx
        <5> QED
          BY <2>2, <4>1, <4>2, GreatestMember
      <4>4. PICK p \in free : Number(Places, p) = m /\ Info(m) = TimerAt(p)
        BY <3>2, <4>3
      <4>5. second = [status |-> "success", index |-> m, int_id |-> Info(m).gsiv]
        BY <3>1, <4>1, <4>2 DEF SecondInterrupt
      <4>6. armed \subseteq {TimerAt(p).base}
        BY <4>4, <4>5 DEF TimerInv
      <4>7. ASSUME NEW q \in free PROVE q = p \/ Earlier(q, p)
        <5>1. Number(Places, q) <= m /\ Number(Places, q) \in Nat /\ m \in Nat
          BY <2>2, <3>3, <4>3
        <5>2. ~(m < Number(Places, q))
          BY <5>1
        <5>3. ~Earlier(p, q)
          BY <2>1, <4>4, <5>2, Numbered
        <5> QED
          BY <2>1, <5>3, Numbered
      <4> QED
        BY <3>5, <4>4, <4>5, <4>6, <4>7
    <3> QED
      BY <3>4, <3>5
  <2> QED
    BY <2>2, <2>3, <2>4 DEF TimersRight
<1> QED
  BY <1>1, TimerInit, TimerNext, PTL DEF Spec
=============================================================================
