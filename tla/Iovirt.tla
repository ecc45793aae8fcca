------------------------------- MODULE Iovirt -------------------------------
(***************************************************************************)
(* The IO virtualisation table (pal_iovirt.c, the same in the BSA and the  *)
(* SBSA driver): pal_iovirt_create_info_table() turns the nodes of the     *)
(* ACPI IORT into blocks laid out one after the other, iovirt_add_block()  *)
(* recursing into every node another one refers to.                        *)
(*                                                                         *)
(* A position in `slots` stands for the address of a block: a block is     *)
(* followed by its own mappings and then by the next block, so that the    *)
(* n-th block is found by n - 1 applications of IOVIRT_NEXT_BLOCK.  An     *)
(* offset into the table is such a position, 0 being what find_block()     *)
(* returns for `not found'.  The recursion is an explicit stack of frames. *)
(***************************************************************************)
EXTENDS Integers, Sequences, FiniteSets

CONSTANTS
  Tables,   \* the IORTs to be parsed
  IdSpace   \* 2^32: the requester, stream and device IDs wrap around here

(***************************************************************************)
(* A node: its type, `id' for what identifies it (ITS identifiers, device  *)
(* name, segment, SMMU or PMCG base), its id mappings, the node a PMCG     *)
(* belongs to, and the context interrupts of an SMMUv2.                    *)
(* References are positions in the IORT.                                   *)
(***************************************************************************)
Its == "its"    Named == "named"  Rc == "rc"   Smmu == "smmu"
Smmu3 == "smmu3"  Pmcg == "pmcg"
Types == {Its, Named, Rc, Smmu, Smmu3, Pmcg}
PastEnd == "past the end"   \* not a node: the table ends before its node_count is reached
IsSmmu(t) == t \in {Smmu, Smmu3}

IortMap == [input_base : Nat, id_count : Nat, output_base : Nat, output_reference : Nat]
IortNode == [type : STRING, id : Nat, maps : Seq(IortMap), node_ref : Nat, ctx_int : Seq(Nat)]

\* The references of a table lead to nodes of it, and there is nothing behind its end.
WellFormed(t) ==
  \A n \in DOMAIN t :
    /\ t[n].type = Pmcg => t[n].node_ref \in DOMAIN t
    /\ \A j \in DOMAIN t[n].maps : t[n].maps[j].output_reference \in DOMAIN t
    /\ t[n].type = PastEnd => \A m \in DOMAIN t : n < m => t[m].type = PastEnd

\* As firmware lists the nodes: those referred to come first and are no root complexes
\* and PMCGs, no two of a type have one identity, and a root complex is behind SMMUs
\* with all of its mappings or with none.
Before(t, n, r) == r < n /\ t[r].type \in {Its, Named, Smmu, Smmu3}
Ordered(t) ==
  \A n \in DOMAIN t : t[n].type \in Types =>
    /\ \A m \in DOMAIN t : t[m].type = t[n].type /\ t[m].id = t[n].id => m = n
    /\ t[n].type = Pmcg => Before(t, n, t[n].node_ref)
    /\ t[n].type # Its => \A j \in DOMAIN t[n].maps : Before(t, n, t[n].maps[j].output_reference)
    /\ t[n].type = Rc => \A j, l \in DOMAIN t[n].maps :
         IsSmmu(t[t[n].maps[j].output_reference].type) => IsSmmu(t[t[n].maps[l].output_reference].type)

\* The output IDs of a mapping end before the IDs wrap around.
InSpace(t) ==
  \A n \in DOMAIN t : t[n].type # Its =>
    \A j \in DOMAIN t[n].maps : t[n].maps[j].output_base + t[n].maps[j].id_count <= IdSpace

\* The input IDs of a mapping end before the IDs wrap around; id_count is one less than
\* the IDs.
InputsFit(t) ==
  \A n \in DOMAIN t : t[n].type # Its =>
    \A j \in DOMAIN t[n].maps : t[n].maps[j].input_base + t[n].maps[j].id_count < IdSpace

\* A root complex maps a requester ID in one way.
InputsApart(t) ==
  \A n \in DOMAIN t : t[n].type = Rc => \A j, l \in DOMAIN t[n].maps :
    \/ j = l
    \/ t[n].maps[j].input_base + t[n].maps[j].id_count < t[n].maps[l].input_base
    \/ t[n].maps[l].input_base + t[n].maps[l].id_count < t[n].maps[j].input_base

ASSUME IovirtAssumption ==
  /\ IdSpace \in Nat \ {0}
  /\ Tables \subseteq Seq(IortNode)
  /\ \A t \in Tables : WellFormed(t)

\* Mutant: SMMUv3 blocks get a counter nobody reads.
CounterByType(t) == t

\* The counter of the table that a block's type is counted in.
Counter(t) == IF t = Smmu3 THEN Smmu ELSE t

Counters == {Counter(t) : t \in Types}

None == 0        \* no SMMU, no reference, no offset
Invalid == -1    \* what iovirt_add_block() returns for a type it does not know

VARIABLES
  iort,        \* the IORT: a sequence of nodes
  next_node,   \* the node pal_iovirt_create_info_table() adds next
  next_block,  \* its own next_block
  stack,       \* the activations of iovirt_add_block(), innermost last
  slots,       \* the blocks, by position
  num_blocks,
  count,       \* num_its_groups, num_pci_rcs, ...
  ret,         \* what the last activation returned
  checked      \* has check_mapping_overlap() run?

vars == <<iort, next_node, next_block, stack, slots, num_blocks, count, ret, checked>>

Top == stack[Len(stack)]
Pop == SubSeq(stack, 1, Len(stack) - 1)
SetTop(f) == [stack EXCEPT ![Len(stack)] = f]
Call(n, at) == [node |-> n, at |-> at, next |-> at, i |-> 0, pc |-> "fill"]

Put(p, b) == [q \in DOMAIN slots \cup {p} |-> IF q = p THEN b ELSE slots[q]]

-----------------------------------------------------------------------------
(***************************************************************************)
(* Filling a block, and looking it up.                                     *)
(***************************************************************************)

\* The fields that do not depend on other blocks. An ITS group has identifiers
\* where other blocks have mappings.
Filled(n) ==
  [type |-> n.type, id |-> n.id, num_data_map |-> Len(n.maps),
   smmu_base |-> None, node_ref |-> None, flags |-> {}, data_map |-> <<>>]

\* memcmp() up to the flags: type, number of mappings and identity, not the
\* mappings themselves.
SameBlock(a, b) ==
  /\ a.type = b.type /\ a.num_data_map = b.num_data_map
  /\ a.id = b.id /\ a.smmu_base = b.smmu_base /\ a.node_ref = b.node_ref

FindBlock(key) ==
  LET hits == {p \in 1 .. num_blocks : SameBlock(key, slots[p])}
  IN  IF hits = {} THEN None ELSE CHOOSE p \in hits : \A q \in hits : p <= q

\* The activation returns v; its caller's next_block becomes nxt.
Return(v, nxt) ==
  /\ ret' = v
  /\ IF Len(stack) = 1
     THEN stack' = <<>> /\ next_block' = nxt
     ELSE /\ stack' = [Pop EXCEPT ![Len(stack) - 1].next = nxt]
          /\ UNCHANGED next_block

-----------------------------------------------------------------------------
\* Mutant: the same node is added again and again.
AddNodeAgain ==
  /\ stack = <<>> /\ next_node <= Len(iort) /\ iort[next_node].type # PastEnd
  /\ stack' = <<Call(next_node, next_block)>>
  /\ UNCHANGED <<iort, next_node, next_block, slots, num_blocks, count, ret, checked>>

(***************************************************************************)
(* pal_iovirt_create_info_table: the next node of the IORT.                *)
(***************************************************************************)
AddNode ==
  /\ stack = <<>> /\ next_node <= Len(iort) /\ iort[next_node].type # PastEnd
  /\ stack' = <<Call(next_node, next_block)>>
  /\ next_node' = next_node + 1
  /\ UNCHANGED <<iort, next_block, slots, num_blocks, count, ret, checked>>

\* "Bad IORT table": the loop is left, and with it the function.
BadTable ==
  /\ stack = <<>> /\ next_node <= Len(iort) /\ iort[next_node].type = PastEnd
  /\ next_node' = Len(iort) + 1
  /\ UNCHANGED <<iort, next_block, stack, slots, num_blocks, count, ret, checked>>
Bad == \E n \in DOMAIN iort : iort[n].type = PastEnd

(***************************************************************************)
(* iovirt_add_block.                                                       *)
(***************************************************************************)
Active(pc) == stack # <<>> /\ Top.pc = pc
Node == iort[Top.node]
Block == slots[Top.at]

FillInvalid ==
  /\ Active("fill") /\ Node.type \notin Types
  /\ slots' = Put(Top.at, Filled(Node))
  /\ Return(Invalid, Top.at)
  /\ UNCHANGED <<iort, next_node, num_blocks, count, checked>>

Fill ==
  /\ Active("fill") /\ Node.type \in Types \ {Pmcg}
  /\ slots' = Put(Top.at, Filled(Node))
  /\ stack' = SetTop([Top EXCEPT !.pc = "find"])
  /\ UNCHANGED <<iort, next_node, next_block, num_blocks, count, ret, checked>>

\* A PMCG adds the node it belongs to first, behind itself.
FillPmcg ==
  /\ Active("fill") /\ Node.type = Pmcg
  /\ slots' = Put(Top.at, Filled(Node))
  /\ stack' = Append(SetTop([Top EXCEPT !.pc = "pmcg", !.next = Top.at + 1]),
                     Call(Node.node_ref, Top.at + 1))
  /\ UNCHANGED <<iort, next_node, next_block, num_blocks, count, ret, checked>>

PmcgAdded ==
  /\ Active("pmcg")
  /\ slots' = Put(Top.at, [Block EXCEPT !.node_ref = ret])
  /\ stack' = SetTop([Top EXCEPT !.pc = "find"])
  /\ UNCHANGED <<iort, next_node, next_block, num_blocks, count, ret, checked>>

Found ==
  /\ Active("find") /\ FindBlock(Block) # None
  /\ Return(FindBlock(Block), Top.at)
  /\ UNCHANGED <<iort, next_node, slots, num_blocks, count, checked>>

\* smmu_ctx_int_distinct
CtxIntDistinct(ctx_int) ==
  \A i, j \in DOMAIN ctx_int : i < j => ctx_int[i] # ctx_int[j]

NotFound ==
  /\ Active("find") /\ FindBlock(Block) = None
  /\ slots' = Put(Top.at, [Block EXCEPT !.flags =
                IF Node.type = Smmu /\ ~CtxIntDistinct(Node.ctx_int) THEN {"ctx"} ELSE {}])
  /\ stack' = SetTop([Top EXCEPT !.pc = "maps", !.next = Top.at + 1, !.i = 1])
  /\ UNCHANGED <<iort, next_node, next_block, num_blocks, count, ret, checked>>

\* Copy a mapping and add the node it leads to.
AddMapped ==
  /\ Active("maps") /\ Node.type # Its /\ Top.i <= Len(Node.maps)
  /\ LET m == Node.maps[Top.i] IN
       /\ slots' = Put(Top.at, [Block EXCEPT !.data_map = Append(@,
                     [input_base |-> m.input_base, id_count |-> m.id_count,
                      output_base |-> m.output_base, output_ref |-> None])])
       /\ stack' = Append(SetTop([Top EXCEPT !.pc = "mapped"]),
                          Call(m.output_reference, Top.next))
  /\ UNCHANGED <<iort, next_node, next_block, num_blocks, count, ret, checked>>

\* The block the offset `ret' stands for; an invalid one is no block.
BaseBehind(p) == IF p \in DOMAIN slots /\ IsSmmu(slots[p].type) THEN slots[p].id ELSE None

\* Mutant: a mapping refers to where the next block goes, not to the one found.
MappedToNext ==
  /\ Active("mapped")
  /\ slots' = Put(Top.at,
       [Block EXCEPT !.data_map[Top.i].output_ref = Top.next,
                     !.smmu_base = IF Block.type = Rc THEN BaseBehind(ret) ELSE @])
  /\ stack' = SetTop([Top EXCEPT !.pc = "maps", !.i = @ + 1])
  /\ UNCHANGED <<iort, next_node, next_block, num_blocks, count, ret, checked>>

Mapped ==
  /\ Active("mapped")
  /\ slots' = Put(Top.at,
       [Block EXCEPT !.data_map[Top.i].output_ref = ret,
                     !.smmu_base = IF Block.type = Rc THEN BaseBehind(ret) ELSE @])
  /\ stack' = SetTop([Top EXCEPT !.pc = "maps", !.i = @ + 1])
  /\ UNCHANGED <<iort, next_node, next_block, num_blocks, count, ret, checked>>

\* Mutant: the caller is not told where the next block goes.
AddedNoAdvance ==
  /\ Active("maps") /\ (Node.type = Its \/ Top.i > Len(Node.maps))
  /\ num_blocks' = num_blocks + 1
  /\ count' = [count EXCEPT ![Counter(Node.type)] = @ + 1]
  /\ Return(Top.at, Top.at)
  /\ UNCHANGED <<iort, next_node, slots, checked>>

Added ==
  /\ Active("maps") /\ (Node.type = Its \/ Top.i > Len(Node.maps))
  /\ num_blocks' = num_blocks + 1
  /\ count' = [count EXCEPT ![Counter(Node.type)] = @ + 1]
  /\ Return(Top.at, Top.next)
  /\ UNCHANGED <<iort, next_node, slots, checked>>

AddBlock ==
  \/ FillInvalid \/ Fill \/ FillPmcg \/ PmcgAdded \/ Found \/ NotFound
  \/ AddMapped \/ Mapped \/ Added

Built == stack = <<>> /\ next_node > Len(iort)

(***************************************************************************)
(* check_mapping_overlap: every mapping against those that follow it.      *)
(***************************************************************************)
\* Range ends as the code computes them, in unsigned arithmetic.
First(m) == m.output_base
Last(m)  == (m.output_base + m.id_count - 1) % IdSpace

Overlap(k, m) ==
  /\ m.output_ref = k.output_ref
  /\ \/ First(m) <= First(k) /\ First(k) <= Last(m)
     \/ First(m) <= Last(k) /\ Last(k) <= Last(m)
     \/ First(k) < First(m) /\ Last(m) < Last(k)

MapsOf(p) == IF slots[p].type = Its THEN {} ELSE DOMAIN slots[p].data_map

OverlapFlag(m) == IF slots[m.output_ref].type = Its THEN "devid" ELSE "strid"

\* The flags the pairs of mappings of blocks p and q leave on both.
PairFlags(p, q) ==
  {OverlapFlag(slots[p].data_map[j]) :
     j \in {k \in MapsOf(p) : \E l \in MapsOf(q) :
              /\ q > p \/ l > k
              /\ Overlap(slots[p].data_map[k], slots[q].data_map[l])}}

\* What block p is left with, as the later and as the earlier one of a pair.
Marks(p) ==
  {x \in {"devid", "strid"} : \/ \E q \in 1 .. p : x \in PairFlags(q, p)
                              \/ \E q \in p .. num_blocks : x \in PairFlags(p, q)}

\* In its own block a mapping is compared with as many entries as there are
\* other mappings, so all but the first also with what lies behind the block.
Beyond(p) == {OverlapFlag(slots[p].data_map[j]) : j \in MapsOf(p) \ {1}}

\* Mutant: only the later block of a pair is flagged.
CheckMappingOverlapOneSided ==
  /\ Built /\ ~Bad /\ ~checked
  /\ \E spill \in [1 .. num_blocks -> SUBSET {"devid", "strid"}] :
       /\ \A p \in 1 .. num_blocks : spill[p] \subseteq Beyond(p)
       /\ slots' = [p \in DOMAIN slots |->
            IF p > num_blocks THEN slots[p]
            ELSE [slots[p] EXCEPT !.flags = @ \cup spill[p]
                    \cup UNION {PairFlags(q, p) : q \in 1 .. p}]]
  /\ checked' = TRUE
  /\ UNCHANGED <<iort, next_node, next_block, stack, num_blocks, count, ret>>

\* `spill' is what the entries behind the blocks happen to contain.
CheckMappingOverlap ==
  /\ Built /\ ~Bad /\ ~checked
  /\ \E spill \in [1 .. num_blocks -> SUBSET {"devid", "strid"}] :
       /\ \A p \in 1 .. num_blocks : spill[p] \subseteq Beyond(p)
       /\ slots' = [p \in DOMAIN slots |->
            IF p > num_blocks THEN slots[p]
            ELSE [slots[p] EXCEPT !.flags = @ \cup spill[p] \cup Marks(p)]]
  /\ checked' = TRUE
  /\ UNCHANGED <<iort, next_node, next_block, stack, num_blocks, count, ret>>

-----------------------------------------------------------------------------
(***************************************************************************)
(* Queries on the finished table.                                          *)
(***************************************************************************)
UniqueCtxIntid(p) == "ctx" \notin slots[p].flags
UniqueRidStridMap(p) == "strid" \notin slots[p].flags

NotMapped == -1  \* 0xFFFFFFFF: no mapping for the requester ID

Lowest(S)  == CHOOSE x \in S : \A y \in S : x <= y
Highest(S) == CHOOSE x \in S : \A y \in S : y <= x

\* Mutant: the last ID of a range is taken for the first one after it.
CoveringShort(p, id) ==
  {j \in MapsOf(p) : LET m == slots[p].data_map[j] IN
     m.input_base <= id /\ id < (m.input_base + m.id_count) % IdSpace}

\* The mappings an input ID falls in; both ends belong to the range, whose end the code
\* computes in 32 bits.
Covering(p, id) ==
  {j \in MapsOf(p) : LET m == slots[p].data_map[j] IN
     m.input_base <= id /\ id <= (m.input_base + m.id_count) % IdSpace}

\* pal_iovirt_get_rc_smmu_base: the first mapping that covers rid in the last
\* root complex of the segment that has one.
GetRcSmmuBase(seg, rid) ==
  LET rcs == {p \in 1 .. num_blocks :
                slots[p].type = Rc /\ slots[p].id = seg /\ Covering(p, rid) # {}}
      p == Highest(rcs)
      m == slots[p].data_map[Lowest(Covering(p, rid))]
      sid == (rid - m.input_base + m.output_base) % IdSpace
      b == m.output_ref
  IN  CASE rcs = {} -> NotMapped
        [] rcs # {} /\ IsSmmu(slots[b].type) /\ Covering(b, sid) # {} -> slots[b].id
        [] OTHER -> None

-----------------------------------------------------------------------------
Init ==
  /\ iort \in Tables
  /\ next_node = 1 /\ next_block = 1
  /\ stack = <<>> /\ slots = <<>> /\ ret = None
  /\ num_blocks = 0 /\ count = [c \in Counters |-> 0]
  /\ checked = FALSE

Next == AddNode \/ BadTable \/ AddBlock \/ CheckMappingOverlap

Spec == Init /\ [][Next]_vars

\* The module's initialisation runs on by itself.
FairSpec == Spec /\ WF_vars(Next)

-----------------------------------------------------------------------------
(***************************************************************************)
(* Properties.                                                             *)
(***************************************************************************)
Nodes == {n \in DOMAIN iort : iort[n].type \in Types}
Represents(p, n) == slots[p].type = iort[n].type /\ slots[p].id = iort[n].id

\* Every block is counted once, and under its type: num_blocks is the sum of the
\* type counters at every step of the recursion (pal_iovirt.c:340-342).
Counted ==
  num_blocks = count[Its] + count[Named] + count[Rc] + count[Smmu] + count[Pmcg]

\* Every node of the IORT, of a bad one too, has become exactly one counted block, and
\* there is no other (pal_iovirt.c:284-288, 336-343): recursion into a node already added
\* neither repeats nor overwrites it.
OneBlockPerNode ==
  Built =>
    /\ num_blocks = Cardinality(Nodes)
    /\ \A n \in Nodes : \E p \in 1 .. num_blocks : Represents(p, n)

\* Two counted blocks are never the same one ("Have we already added this
\* block? If so, return the block offset", pal_iovirt.c:284-285).
NoDuplicates == \A p, q \in 1 .. num_blocks : p # q => ~SameBlock(slots[p], slots[q])

\* The SMMUs the mappings of a block go to.
SmmusBehind(p) ==
  {slots[slots[p].data_map[j].output_ref].id :
     j \in {k \in MapsOf(p) : IsSmmu(slots[slots[p].data_map[k].output_ref].type)}}

\* Every mapping and every PMCG refers to the counted block of the node the IORT
\* names, with the ranges of the IORT; an SMMU's context interrupts are reported
\* unique when they are; "If the RC is behind a SMMU, save SMMU base to RC structure.
\* Else save NULL pointer"; whatever was added or looked up in between
\* (pal_iovirt.c:271-274, 282-293, 303-334).
Resolved ==
  Built =>
    \A p \in 1 .. num_blocks : \E n \in Nodes :
      /\ Represents(p, n)
      /\ slots[p].type = Pmcg => /\ slots[p].node_ref \in 1 .. num_blocks
                                 /\ Represents(slots[p].node_ref, iort[n].node_ref)
      /\ slots[p].type = Smmu =>
           (UniqueCtxIntid(p) <=> Cardinality({iort[n].ctx_int[i] : i \in DOMAIN iort[n].ctx_int})
                                  = Len(iort[n].ctx_int))
      /\ slots[p].type = Rc =>
           slots[p].smmu_base \in (IF SmmusBehind(p) = {} THEN {None} ELSE SmmusBehind(p))
      /\ slots[p].type # Its => Len(slots[p].data_map) = Len(iort[n].maps)
      /\ \A j \in MapsOf(p) :
           LET m == slots[p].data_map[j]  o == iort[n].maps[j] IN
           /\ m.output_ref \in 1 .. num_blocks
           /\ Represents(m.output_ref, o.output_reference)
           /\ m.input_base = o.input_base /\ m.id_count = o.id_count
           /\ m.output_base = o.output_base

\* What the IORT itself says: the SMMU a requester ID of a segment goes through,
\* the range of a mapping holding id_count + 1 IDs.
InRange(m, id) == id \in m.input_base .. m.input_base + m.id_count
IortSmmu(seg, rid) ==
  LET ways == {w \in UNION {{n} \X DOMAIN iort[n].maps : n \in Nodes} :
                 /\ iort[w[1]].type = Rc /\ iort[w[1]].id = seg
                 /\ InRange(iort[w[1]].maps[w[2]], rid)}
      way == CHOOSE w \in ways : TRUE
      m == iort[way[1]].maps[way[2]]
      d == iort[m.output_reference]
      sid == (rid - m.input_base + m.output_base) % IdSpace
  IN  CASE ways = {} -> NotMapped
        [] ways # {} /\ IsSmmu(d.type) /\ (\E j \in DOMAIN d.maps : InRange(d.maps[j], sid)) -> d.id
        [] OTHER -> None

\* The table answers for every requester ID what the IORT says: "Search for root
\* complex block with same segment number, and in whose id mapping range 'rid'
\* falls" (pal_iovirt.c:438-439), builder and query together, in an IORT whose input
\* ranges end before the IDs wrap around.
LookupAgrees ==
  Built /\ InputsFit(iort) =>
    \A n \in Nodes : iort[n].type = Rc =>
      \A rid \in 0 .. IdSpace - 1 :
        GetRcSmmuBase(iort[n].id, rid) = IortSmmu(iort[n].id, rid)

\* The output IDs of a mapping, when it holds id_count of them.
Outputs(m) == m.output_base .. m.output_base + m.id_count - 1

\* Two mappings to one node that share an output ID leave the flag of that
\* node's kind on both their blocks (pal_iovirt.c:116-167).
OverlapFlagged ==
  checked =>
    \A p, q \in 1 .. num_blocks : \A j \in MapsOf(p), l \in MapsOf(q) :
      LET k == slots[p].data_map[j]  m == slots[q].data_map[l] IN
      /\ <<p, j>> # <<q, l>>
      /\ k.output_ref = m.output_ref
      /\ Outputs(k) \cap Outputs(m) # {}
      => OverlapFlag(k) \in slots[p].flags \cap slots[q].flags

\* "Check if given root complex node has unique requestor id to stream id
\* mapping" (pal_iovirt.c:413): when the answer is yes, no two requester IDs of
\* the root complex get the same stream ID of the same SMMU.
UniqueIsUnique ==
  checked =>
    \A p \in 1 .. num_blocks : slots[p].type = Rc /\ UniqueRidStridMap(p) =>
      \A j, l \in MapsOf(p) :
        LET k == slots[p].data_map[j]  m == slots[p].data_map[l]
            Sids(x) == x.output_base .. x.output_base + x.id_count
        IN  j # l /\ k.output_ref = m.output_ref /\ IsSmmu(slots[k.output_ref].type)
              => Sids(k) \cap Sids(m) = {}

\* Every acyclic IORT is parsed to its end, and checked if no node is missing.
Terminates == <>(IF Bad THEN Built ELSE checked)
=============================================================================
