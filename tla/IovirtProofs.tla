---------------------------- MODULE IovirtProofs ----------------------------
(***************************************************************************)
(* The IO virtualisation table. For every well-formed IORT its counters    *)
(* add up at every step of the recursion. Of an IORT that lists its nodes  *)
(* as firmware does (Ordered), every node becomes one block, every         *)
(* reference leads to the block of the node the IORT names, overlaps are   *)
(* flagged and requester IDs are looked up as the IORT says.               *)
(***************************************************************************)
EXTENDS Iovirt, FiniteSetTheorems, SequenceTheorems, TLAPS

PCs == {"fill", "pmcg", "find", "maps", "mapped"}
Frame == [node : Nat, at : Int, next : Int, i : Nat, pc : PCs]

\* An activation past its switch is for a type that has a counter.
FrameOK(f) ==
  /\ f.node \in 1 .. Len(iort)
  /\ f.pc # "fill" => iort[f.node].type \in Types
  /\ f.pc \in {"maps", "mapped"} => f.i # 0

Frames(s) == s \in Seq(Frame) /\ \A k \in 1 .. Len(s) : FrameOK(s[k])

FrameInv ==
  /\ iort \in Tables
  /\ next_node \in Nat \ {0} /\ next_block \in Int
  /\ Frames(stack)

CountInv ==
  /\ num_blocks \in Nat
  /\ count \in [Counters -> Nat]
  /\ Counted

IInv == FrameInv /\ CountInv

LEMMA CounterSet ==
  /\ Counters = {Its, Named, Rc, Smmu, Pmcg}
  /\ \A t \in Types : Counter(t) \in Counters
BY DEF Counters, Counter, Types, Its, Named, Rc, Smmu, Smmu3, Pmcg

LEMMA InitIInv == Init => IInv
<1> SUFFICES ASSUME Init PROVE IInv
  OBVIOUS
<1>1. FrameInv
  BY DEF Init, FrameInv, Frames
<1>2. CountInv
  BY CounterSet DEF Init, CountInv, Counted
<1> QED
  BY <1>1, <1>2 DEF IInv

\* A node of the IORT refers to nodes of it.
LEMMA References ==
  ASSUME iort \in Tables, NEW n \in 1 .. Len(iort)
  PROVE  /\ iort[n].type = Pmcg => iort[n].node_ref \in 1 .. Len(iort)
         /\ \A j \in 1 .. Len(iort[n].maps) :
              iort[n].maps[j].output_reference \in 1 .. Len(iort)
<1>1. iort \in Seq(IortNode) /\ WellFormed(iort)
  BY IovirtAssumption DEF IovirtAssumption
<1>2. DOMAIN iort = 1 .. Len(iort) /\ iort[n] \in IortNode
  BY <1>1
<1>3. DOMAIN iort[n].maps = 1 .. Len(iort[n].maps)
  BY <1>2 DEF IortNode
<1> QED
  BY <1>1, <1>2, <1>3 DEF WellFormed

\* A frame that has moved on is a frame for the same node.
LEMMA NewPc ==
  ASSUME NEW f \in Frame, NEW pc \in PCs
  PROVE  LET g == [f EXCEPT !.pc = pc]
         IN  g \in Frame /\ g.node = f.node /\ g.pc = pc /\ g.i = f.i
BY DEF Frame

LEMMA NewNext ==
  ASSUME NEW f \in Frame, NEW nxt \in Int
  PROVE  LET g == [f EXCEPT !.next = nxt]
         IN  g \in Frame /\ g.node = f.node /\ g.pc = f.pc /\ g.i = f.i
BY DEF Frame

\* The innermost frame replaced.
LEMMA SetTopFrames ==
  ASSUME FrameInv, stack # <<>>, NEW f \in Frame, FrameOK(f)
  PROVE  Frames(SetTop(f))
<1>1. stack \in Seq(Frame) /\ Len(stack) \in 1 .. Len(stack)
  BY DEF FrameInv, Frames
<1>2. /\ SetTop(f) \in Seq(Frame) /\ Len(SetTop(f)) = Len(stack)
      /\ \A k \in 1 .. Len(stack) : SetTop(f)[k] = IF k = Len(stack) THEN f ELSE stack[k]
  BY <1>1 DEF SetTop
<1> QED
  BY <1>2 DEF FrameInv, Frames

\* A call: a frame at its start on top of the others.
LEMMA CallFrames ==
  ASSUME NEW s, Frames(s), NEW n \in 1 .. Len(iort), NEW p \in Int
  PROVE  Frames(Append(s, Call(n, p)))
<1>1. Call(n, p) \in Frame /\ FrameOK(Call(n, p))
  BY DEF Call, Frame, PCs, FrameOK
<1>2. s \in Seq(Frame) /\ \A k \in 1 .. Len(s) : FrameOK(s[k])
  BY DEF Frames
<1>3. /\ Append(s, Call(n, p)) \in Seq(Frame) /\ Len(Append(s, Call(n, p))) = Len(s) + 1
      /\ \A k \in 1 .. Len(s) + 1 :
           Append(s, Call(n, p))[k] = IF k = Len(s) + 1 THEN Call(n, p) ELSE s[k]
  BY <1>1, <1>2
<1> QED
  BY <1>1, <1>2, <1>3 DEF Frames

\* A return: the caller's frame is innermost, with its next block set.
LEMMA ReturnFrames ==
  ASSUME FrameInv, stack # <<>>, NEW v, NEW nxt \in Int, Return(v, nxt)
  PROVE  Frames(stack') /\ next_block' \in Int
<1>1. stack \in Seq(Frame) /\ Len(stack) \in Nat \ {0} /\ next_block \in Int
  BY DEF FrameInv, Frames
<1>a. Len(stack) \in Int /\ Len(stack) >= 1
  BY DEF FrameInv, Frames
<1>2. CASE Len(stack) = 1
  BY <1>2 DEF Frames, Return
<1>3. CASE Len(stack) # 1
  <2> DEFINE k0 == Len(stack) - 1
  <2>0. k0 \in Int /\ 1 <= k0 /\ k0 + 1 = Len(stack)
    <3>1. \A n \in Int : n >= 1 /\ n # 1 => n - 1 \in Int /\ 1 <= n - 1 /\ n - 1 + 1 = n
      OBVIOUS
    <3> QED
      BY <1>a, <1>3, <3>1
  <2>1. k0 \in Int /\ 1 <= k0 /\ \A k \in 1 .. k0 : stack[k] \in Frame /\ FrameOK(stack[k])
    BY <1>1, <2>0 DEF FrameInv, Frames
  <2>a. 1 \in Int /\ \A k \in 1 .. k0 : stack[k] \in Frame
    BY <2>1
  <2>b. /\ SubSeq(stack, 1, k0) \in Seq(Frame) /\ Len(SubSeq(stack, 1, k0)) = k0 - 1 + 1
        /\ \A k \in 1 .. k0 - 1 + 1 : SubSeq(stack, 1, k0)[k] = stack[k + 1 - 1]
    <3> HIDE DEF k0
    <3>1. /\ SubSeq(stack, 1, k0) \in Seq(Frame)
          /\ Len(SubSeq(stack, 1, k0)) = IF 1 <= k0 THEN k0 - 1 + 1 ELSE 0
          /\ \A i \in 1 .. k0 - 1 + 1 : SubSeq(stack, 1, k0)[i] = stack[1 + i - 1]
      BY <2>a, <2>1, SubSeqProperties
    <3> QED
      BY <3>1, <2>1
  <2>2. /\ Pop \in Seq(Frame) /\ Len(Pop) = k0
        /\ \A k \in 1 .. k0 : Pop[k] = stack[k]
    BY <2>b, <2>0 DEF Pop
  <2> DEFINE f == [stack[k0] EXCEPT !.next = nxt]
  <2>3. f \in Frame /\ FrameOK(f)
    <3>1. stack[k0] \in Frame /\ FrameOK(stack[k0])
      BY <2>1
    <3>2. f \in Frame /\ f.node = stack[k0].node /\ f.pc = stack[k0].pc /\ f.i = stack[k0].i
      BY <3>1, NewNext
    <3> QED
      BY <3>1, <3>2 DEF FrameOK
  <2>4. stack' = [Pop EXCEPT ![k0] = f] /\ next_block' = next_block
    BY <1>3, <2>1, <2>2 DEF Return
  <2>5. /\ stack' \in Seq(Frame) /\ Len(stack') = k0
        /\ \A k \in 1 .. k0 : stack'[k] = IF k = k0 THEN f ELSE stack[k]
    BY <2>1, <2>2, <2>3, <2>4
  <2> QED
    BY <1>1, <2>1, <2>3, <2>4, <2>5 DEF Frames
<1> QED
  BY <1>2, <1>3

LEMMA NextFrameInv == FrameInv /\ [Next]_vars => FrameInv'
<1> SUFFICES ASSUME FrameInv, [Next]_vars PROVE FrameInv'
  OBVIOUS
<1> USE DEF FrameOK
<1>0. stack # <<>> => Top \in Frame /\ FrameOK(Top)
  BY DEF FrameInv, Frames, Top
<1>a. {"pmcg", "find", "maps", "mapped"} \subseteq PCs
  BY DEF PCs
<1>b. ASSUME Frames(stack)', iort' = iort, next_node' = next_node, next_block' \in Int
      PROVE  FrameInv'
  BY <1>b DEF FrameInv
<1>1. CASE AddNode
  <2>1. next_node \in 1 .. Len(iort) /\ next_block \in Int
    BY <1>1 DEF AddNode, FrameInv
  <2>2. Call(next_node, next_block) \in Frame /\ FrameOK(Call(next_node, next_block))
    BY <2>1 DEF Call, Frame, PCs
  <2>3. stack' = <<Call(next_node, next_block)>> /\ iort' = iort
    BY <1>1 DEF AddNode
  <2>4. Frames(stack)'
    BY <2>2, <2>3 DEF Frames
  <2> QED
    BY <1>1, <2>4 DEF AddNode, FrameInv
<1>2. CASE FillInvalid \/ Found
  <2>1. /\ stack # <<>> /\ iort' = iort /\ next_node' = next_node
        /\ \E v : Return(v, Top.at)
    BY <1>2 DEF FillInvalid, Found, Active
  <2>2. Top.at \in Int
    <3>1. Top \in Frame
      BY <1>0, <2>1
    <3> QED
      BY <3>1 DEF Frame
  <2>3. Frames(stack') /\ next_block' \in Int
    BY <2>1, <2>2, ReturnFrames
  <2> QED
    BY <1>b, <2>1, <2>3 DEF Frames
<1>3. CASE Added
  <2>1. /\ stack # <<>> /\ iort' = iort /\ next_node' = next_node
        /\ \E v : Return(v, Top.next)
    BY <1>3 DEF Added, Active
  <2>2. Top.next \in Int
    <3>1. Top \in Frame
      BY <1>0, <2>1
    <3> QED
      BY <3>1 DEF Frame
  <2>3. Frames(stack') /\ next_block' \in Int
    BY <2>1, <2>2, ReturnFrames
  <2> QED
    BY <1>b, <2>1, <2>3 DEF Frames
<1>4. CASE Fill \/ PmcgAdded
  <2> DEFINE f == [Top EXCEPT !.pc = "find"]
  <2>1. stack # <<>> /\ iort[Top.node].type \in Types
    BY <1>0, <1>4 DEF Fill, PmcgAdded, Active, Node
  <2>2. f \in Frame /\ FrameOK(f)
    <3>1. Top \in Frame /\ FrameOK(Top) /\ "find" \in PCs
      BY <1>0, <1>a, <2>1
    <3>2. f \in Frame /\ f.node = Top.node /\ f.pc = "find"
      BY <3>1, NewPc
    <3> QED
      BY <3>1, <3>2, <2>1
  <2>3. stack' = SetTop(f) /\ UNCHANGED <<iort, next_node, next_block>>
    BY <1>4 DEF Fill, PmcgAdded
  <2> HIDE DEF f
  <2>4. Frames(stack')
    BY <2>1, <2>2, <2>3, SetTopFrames
  <2> QED
    BY <2>3, <2>4 DEF FrameInv, Frames
<1>5. CASE FillPmcg
  <2> DEFINE f == [Top EXCEPT !.pc = "pmcg", !.next = Top.at + 1]
  <2>1. stack # <<>> /\ iort[Top.node].type = Pmcg
    BY <1>5 DEF FillPmcg, Active, Node
  <2>2. Top.at + 1 \in Int /\ Pmcg \in Types
    BY <1>0, <2>1 DEF Frame, Types
  <2>3. f \in Frame /\ FrameOK(f)
    <3>1. Top \in Frame /\ FrameOK(Top) /\ "pmcg" \in PCs
      BY <1>0, <1>a, <2>1
    <3>2. f \in Frame /\ f.node = Top.node /\ f.pc = "pmcg"
      BY <3>1, <2>2 DEF Frame
    <3> QED
      BY <3>1, <3>2, <2>1, <2>2
  <2>4. Node.node_ref \in 1 .. Len(iort)
    BY <1>0, <2>1, References DEF Node, FrameInv
  <2>5. /\ stack' = Append(SetTop(f), Call(Node.node_ref, Top.at + 1))
        /\ UNCHANGED <<iort, next_node, next_block>>
    BY <1>5 DEF FillPmcg
  <2> HIDE DEF f
  <2>6. Frames(stack')
    BY <2>1, <2>2, <2>3, <2>4, <2>5, SetTopFrames, CallFrames
  <2> QED
    BY <2>5, <2>6 DEF FrameInv, Frames
<1>6. CASE NotFound
  <2> DEFINE f == [Top EXCEPT !.pc = "maps", !.next = Top.at + 1, !.i = 1]
  <2>1. stack # <<>> /\ iort[Top.node].type \in Types
    BY <1>0, <1>6 DEF NotFound, Active
  <2>2. Top.at + 1 \in Int
    <3>1. Top \in Frame
      BY <1>0, <2>1
    <3> QED
      BY <3>1 DEF Frame
  <2>3. f \in Frame /\ FrameOK(f)
    <3>1. Top \in Frame /\ FrameOK(Top) /\ "maps" \in PCs
      BY <1>0, <1>a, <2>1
    <3>2. f \in Frame /\ f.node = Top.node /\ f.pc = "maps" /\ f.i = 1
      BY <3>1, <2>2 DEF Frame
    <3> QED
      BY <3>1, <3>2, <2>1, <2>2
  <2>4. stack' = SetTop(f) /\ UNCHANGED <<iort, next_node, next_block>>
    BY <1>6 DEF NotFound
  <2> HIDE DEF f
  <2>5. Frames(stack')
    BY <2>1, <2>3, <2>4, SetTopFrames
  <2> QED
    BY <2>4, <2>5 DEF FrameInv, Frames
<1>7. CASE AddMapped
  <2> DEFINE f == [Top EXCEPT !.pc = "mapped"]
  <2>1. stack # <<>> /\ iort[Top.node].type \in Types /\ Top.next \in Int /\ Top.i \in Nat \ {0}
    BY <1>0, <1>7 DEF AddMapped, Active, Frame
  <2>2. f \in Frame /\ FrameOK(f)
    <3>1. Top \in Frame /\ FrameOK(Top) /\ "mapped" \in PCs
      BY <1>0, <1>a, <2>1
    <3>2. f \in Frame /\ f.node = Top.node /\ f.pc = "mapped" /\ f.i = Top.i
      BY <3>1, NewPc
    <3> QED
      BY <3>1, <3>2, <2>1
  <2> DEFINE o == Node.maps[Top.i].output_reference
  <2>3. Top.i <= Len(iort[Top.node].maps)
    BY <1>7 DEF AddMapped, Node
  <2>4. /\ stack' = Append(SetTop(f), Call(o, Top.next))
        /\ UNCHANGED <<iort, next_node, next_block>>
    BY <1>7 DEF AddMapped
  <2>5. o \in 1 .. Len(iort)
    <3>1. Top.i \in 1 .. Len(iort[Top.node].maps)
      BY <1>0, <1>7, <2>1, <2>3 DEF AddMapped, Active
    <3> QED
      BY <1>0, <2>1, <3>1, References DEF Node, FrameInv
  <2> HIDE DEF f
  <2>6. Frames(stack')
    BY <2>1, <2>2, <2>4, <2>5, SetTopFrames, CallFrames
  <2> QED
    BY <2>4, <2>6 DEF FrameInv, Frames
<1>8. CASE Mapped
  <2> DEFINE f == [Top EXCEPT !.pc = "maps", !.i = Top.i + 1]
  <2>1. stack # <<>> /\ iort[Top.node].type \in Types
    BY <1>0, <1>8 DEF Mapped, Active
  <2>2. Top.i + 1 \in Nat /\ Top.i + 1 # 0
    <3>1. Top \in Frame
      BY <1>0, <2>1
    <3> QED
      BY <3>1 DEF Frame
  <2>3. f \in Frame /\ FrameOK(f)
    <3>1. Top \in Frame /\ FrameOK(Top) /\ "maps" \in PCs
      BY <1>0, <1>a, <2>1
    <3>2. f \in Frame /\ f.node = Top.node /\ f.pc = "maps" /\ f.i = Top.i + 1
      BY <3>1, <2>2 DEF Frame
    <3> QED
      BY <3>1, <3>2, <2>1, <2>2
  <2>4. stack' = SetTop(f) /\ UNCHANGED <<iort, next_node, next_block>>
    BY <1>8 DEF Mapped
  <2> HIDE DEF f
  <2>5. Frames(stack')
    BY <2>1, <2>3, <2>4, SetTopFrames
  <2> QED
    BY <2>4, <2>5 DEF FrameInv, Frames
<1>9. CASE CheckMappingOverlap \/ UNCHANGED vars
  BY <1>9 DEF CheckMappingOverlap, Built, vars, FrameInv, Frames
<1>10. CASE BadTable
  <2>1. /\ stack' = stack /\ iort' = iort /\ next_block' = next_block
        /\ next_node' = Len(iort) + 1
    BY <1>10 DEF BadTable
  <2>2. Len(iort) + 1 \in Nat \ {0}
    BY IovirtAssumption DEF FrameInv
  <2> QED
    BY <2>1, <2>2 DEF FrameInv, Frames
<1> QED
  BY <1>1, <1>2, <1>3, <1>4, <1>5, <1>6, <1>7, <1>8, <1>9, <1>10 DEF Next, AddBlock

LEMMA NextCountInv == IInv /\ [Next]_vars => CountInv'
<1> SUFFICES ASSUME IInv, [Next]_vars PROVE CountInv'
  OBVIOUS
<1> USE DEF IInv
<1>1. CASE Added
  <2>1. stack # <<>> /\ Top.pc = "maps"
    BY <1>1 DEF Added, Active
  <2>2. FrameOK(Top)
    BY <2>1 DEF FrameInv, Frames, Top
  <2>3. Node.type \in Types
    BY <2>1, <2>2 DEF FrameOK, Node
  <2> DEFINE c == Counter(Node.type)
  <2>4. c \in Counters
    BY <2>3, CounterSet
  <2>5. /\ num_blocks' = num_blocks + 1
        /\ count' = [count EXCEPT ![c] = count[c] + 1]
    BY <1>1 DEF Added
  <2> HIDE DEF c
  <2>6. num_blocks' \in Nat /\ count' \in [Counters -> Nat]
    BY <2>4, <2>5 DEF CountInv
  <2>7. Counted'
    BY <2>4, <2>5, CounterSet DEF CountInv, Counted, Its, Named, Rc, Smmu, Pmcg
  <2> QED
    BY <2>6, <2>7 DEF CountInv
<1>2. CASE UNCHANGED <<num_blocks, count>>
  BY <1>2 DEF CountInv, Counted
<1> QED
  BY <1>1, <1>2 DEF Next, AddNode, BadTable, AddBlock, FillInvalid, Fill, FillPmcg, PmcgAdded,
     Found, NotFound, AddMapped, Mapped, CheckMappingOverlap, vars

THEOREM Invariance == Spec => []IInv
<1>1. IInv /\ [Next]_vars => IInv'
  BY NextFrameInv, NextCountInv DEF IInv
<1> QED
  BY <1>1, InitIInv, PTL DEF Spec

\* Whatever well-formed IORT is parsed, and however deep the recursion is, the
\* type counters add up to num_blocks: no block is counted twice, under another
\* type or not at all (pal_iovirt.c:336-343).
THEOREM CountersAddUp == Spec => []Counted
<1>1. IInv => Counted
  BY DEF IInv, CountInv
<1> QED
  BY <1>1, Invariance, PTL

-----------------------------------------------------------------------------
(***************************************************************************)
(* Tables in the order firmware lists them.  A node that is referred to    *)
(* has its block already, so that the recursion is one call deep.          *)
(***************************************************************************)
Flags == {"ctx", "devid", "strid"}
DataMap == [input_base : Nat, id_count : Nat, output_base : Nat, output_ref : Int]
BlockType == [type : STRING, id : Nat, num_data_map : Nat, smmu_base : Nat, node_ref : Int,
              flags : SUBSET Flags, data_map : Seq(DataMap)]

\* The counted block p is that of node r.
Home(p, r) == p \in 1 .. num_blocks /\ slots[p].type = iort[r].type /\ slots[p].id = iort[r].id
BaseOf(r) == IF IsSmmu(iort[r].type) THEN iort[r].id ELSE None

\* Block b of node n: what is filled in before the mappings, each mapping, the base
\* after i of them, and the whole.
Begun(b, n) ==
  /\ b \in BlockType
  /\ b.type = iort[n].type /\ b.id = iort[n].id /\ b.num_data_map = Len(iort[n].maps)
  /\ IF iort[n].type = Pmcg THEN Home(b.node_ref, iort[n].node_ref) ELSE b.node_ref = None
SameRange(e, o) == e.input_base = o.input_base /\ e.id_count = o.id_count /\ e.output_base = o.output_base
MapRight(b, n, j) ==
  /\ Home(b.data_map[j].output_ref, iort[n].maps[j].output_reference)
  /\ SameRange(b.data_map[j], iort[n].maps[j])
Based(b, n, i) ==
  b.smmu_base = IF iort[n].type = Rc /\ i > 0 THEN BaseOf(iort[n].maps[i].output_reference) ELSE None
MappedTo(b, n, i) == Based(b, n, i) /\ \A j \in 1 .. i : MapRight(b, n, j)
Flagged(b, n) == "ctx" \in b.flags <=> iort[n].type = Smmu /\ ~CtxIntDistinct(iort[n].ctx_int)
Copies(n) == IF iort[n].type = Its THEN 0 ELSE Len(iort[n].maps)
Done(b, n) == Begun(b, n) /\ Len(b.data_map) = Copies(n) /\ MappedTo(b, n, Copies(n)) /\ Flagged(b, n)

\* The first c nodes, and just they, have their blocks.
Known(c) == {n \in 1 .. c : iort[n].type \in Types}
Apart == \A p, q \in 1 .. num_blocks : slots[p].type = slots[q].type /\ slots[p].id = slots[q].id => p = q
Core(c) ==
  /\ iort \in Tables /\ c \in 0 .. Len(iort)
  /\ num_blocks = Cardinality(Known(c)) /\ 1 .. num_blocks \subseteq DOMAIN slots
  /\ \A p \in 1 .. num_blocks : \E n \in Known(c) : Done(slots[p], n)
  /\ \A n \in Known(c) : \E p \in 1 .. num_blocks : Done(slots[p], n)
  /\ Apart

\* The activation f that adds node n, by where it is.
Ref(f, n) == IF f.pc = "pmcg" THEN iort[n].node_ref ELSE iort[n].maps[f.i].output_reference
Block1(b, f, n) ==
  /\ f.pc = "pmcg" => b = Filled(iort[n]) /\ iort[n].type = Pmcg
  /\ f.pc = "find" => Begun(b, n) /\ b.data_map = <<>> /\ b.smmu_base = None
  /\ f.pc \in {"maps", "mapped"} => Begun(b, n) /\ Flagged(b, n) /\ MappedTo(b, n, f.i - 1)
  /\ f.pc = "maps" => Len(b.data_map) = f.i - 1 /\ f.i - 1 <= Copies(n)
  /\ f.pc = "mapped" => /\ Len(b.data_map) = f.i /\ f.i <= Copies(n)
                        /\ SameRange(b.data_map[f.i], iort[n].maps[f.i])
Outer(f, n) ==
  /\ f.node = n /\ f.at = num_blocks + 1
  /\ f.pc \in {"pmcg", "maps", "mapped"} => f.next = num_blocks + 2
  /\ f.pc # "fill" => f.at \in DOMAIN slots /\ Block1(slots[f.at], f, n)
\* The activation that finds the block of the node referred to.
Inner(g, f, n) ==
  /\ f.pc \in {"pmcg", "mapped"} /\ g.node = Ref(f, n) /\ g.at = num_blocks + 2
  /\ g.pc \in {"fill", "find"}
  /\ g.pc = "find" => g.at \in DOMAIN slots /\ slots[g.at] = Filled(iort[g.node])

Adding(n) ==
  \/ /\ Len(stack) = 1 /\ Outer(stack[1], n)
     /\ stack[1].pc \in {"pmcg", "mapped"} => Home(ret, Ref(stack[1], n))
  \/ Len(stack) = 2 /\ Outer(stack[1], n) /\ Inner(stack[2], stack[1], n)

OrderInv ==
  /\ next_block = num_blocks + 1 /\ num_blocks \in Nat
  /\ stack = <<>> => Core(next_node - 1)
  /\ stack # <<>> => Core(next_node - 2) /\ Adding(next_node - 1)
  /\ checked => stack = <<>> /\ next_node > Len(iort)

LEMMA NodeTypes ==
  ASSUME iort \in Tables, NEW n \in 1 .. Len(iort)
  PROVE  /\ iort[n] \in IortNode /\ iort[n].type \in STRING /\ iort[n].id \in Nat /\ iort[n].node_ref \in Nat
         /\ iort[n].maps \in Seq(IortMap) /\ Len(iort[n].maps) \in Nat
         /\ DOMAIN iort[n].maps = 1 .. Len(iort[n].maps)
         /\ \A j \in 1 .. Len(iort[n].maps) : iort[n].maps[j] \in IortMap
<1>1. iort \in Seq(IortNode)
  BY IovirtAssumption
<1>2. iort[n] \in IortNode
  BY <1>1
<1>3. /\ iort[n].type \in STRING /\ iort[n].id \in Nat /\ iort[n].node_ref \in Nat
      /\ iort[n].maps \in Seq(IortMap)
  BY <1>2 DEF IortNode
<1>4. /\ Len(iort[n].maps) \in Nat /\ DOMAIN iort[n].maps = 1 .. Len(iort[n].maps)
      /\ \A j \in 1 .. Len(iort[n].maps) : iort[n].maps[j] \in IortMap
  BY <1>3
<1> QED
  BY <1>2, <1>3, <1>4

Leaf(r) == iort[r].type \in {Its, Named, Smmu, Smmu3}
AllOrdered == \A t \in Tables : Ordered(t)

\* What the order of the nodes says of one of them.
LEMMA OrderOf ==
  ASSUME AllOrdered, iort \in Tables, NEW n \in 1 .. Len(iort), iort[n].type \in Types
  PROVE  /\ \A m \in 1 .. Len(iort) : iort[m].type = iort[n].type /\ iort[m].id = iort[n].id => m = n
         /\ iort[n].type = Pmcg => iort[n].node_ref \in 1 .. n - 1 /\ Leaf(iort[n].node_ref)
         /\ iort[n].type # Its => \A j \in 1 .. Len(iort[n].maps) :
              iort[n].maps[j].output_reference \in 1 .. n - 1 /\ Leaf(iort[n].maps[j].output_reference)
         /\ iort[n].type = Rc => \A j, l \in 1 .. Len(iort[n].maps) :
              IsSmmu(iort[iort[n].maps[j].output_reference].type)
              => IsSmmu(iort[iort[n].maps[l].output_reference].type)
<1>1. DOMAIN iort = 1 .. Len(iort)
  <2>1. iort \in Seq(IortNode)
    BY IovirtAssumption
  <2> QED
    BY <2>1
<1>2. DOMAIN iort[n].maps = 1 .. Len(iort[n].maps)
  BY NodeTypes
<1>3. /\ \A m \in 1 .. Len(iort) : iort[m].type = iort[n].type /\ iort[m].id = iort[n].id => m = n
      /\ iort[n].type = Pmcg => Before(iort, n, iort[n].node_ref)
      /\ iort[n].type # Its => \A j \in 1 .. Len(iort[n].maps) : Before(iort, n, iort[n].maps[j].output_reference)
      /\ iort[n].type = Rc => \A j, l \in 1 .. Len(iort[n].maps) :
           IsSmmu(iort[iort[n].maps[j].output_reference].type)
           => IsSmmu(iort[iort[n].maps[l].output_reference].type)
  BY <1>1, <1>2 DEF AllOrdered, Ordered
<1>4. \A r \in 1 .. Len(iort) : Before(iort, n, r) => r \in 1 .. n - 1 /\ Leaf(r)
  BY DEF Before, Leaf
<1> QED
  BY <1>3, <1>4, References

LEMMA LeafTypes == \A r : Leaf(r) => iort[r].type \in Types /\ iort[r].type \notin {Rc, Pmcg}
  BY DEF Leaf, Types, Its, Named, Rc, Smmu, Smmu3, Pmcg

\* A step that does not touch the counted blocks.
Same ==
  /\ iort' = iort /\ num_blocks' = num_blocks /\ 1 .. num_blocks \subseteq DOMAIN slots'
  /\ \A p \in 1 .. num_blocks : slots'[p] = slots[p]

\* All that is asked of the others is that their nodes can be recognised.
Alike ==
  /\ iort' = iort /\ num_blocks' = num_blocks
  /\ \A p \in 1 .. num_blocks : slots'[p].type = slots[p].type /\ slots'[p].id = slots[p].id

LEMMA SameAlike == Same => Alike
  BY DEF Same, Alike

LEMMA HomeSame ==
  ASSUME Alike
  PROVE  /\ \A p, r : Home(p, r)' <=> Home(p, r)
         /\ \A b, n : Begun(b, n)' <=> Begun(b, n)
         /\ \A b, n, i : MappedTo(b, n, i)' <=> MappedTo(b, n, i)
         /\ \A b, n : Flagged(b, n)' <=> Flagged(b, n)
         /\ \A b, n : Done(b, n)' <=> Done(b, n)
<1>1. \A p, r : Home(p, r)' <=> Home(p, r)
  BY DEF Alike, Home
<1>2. \A b, n : Begun(b, n)' <=> Begun(b, n)
  BY <1>1 DEF Alike, Begun
<1>3. \A b, n, j : MapRight(b, n, j)' <=> MapRight(b, n, j)
  BY <1>1 DEF Alike, MapRight
<1>4. \A b, n, i : Based(b, n, i)' <=> Based(b, n, i)
  BY DEF Alike, Based, BaseOf
<1>5. \A b, n, i : MappedTo(b, n, i)' <=> MappedTo(b, n, i)
  BY <1>3, <1>4 DEF MappedTo
<1>6. \A b, n : Flagged(b, n)' <=> Flagged(b, n)
  BY DEF Alike, Flagged
<1>7. \A n : Copies(n)' = Copies(n)
  BY DEF Alike, Copies
<1>8. \A b, n : Done(b, n)' <=> Done(b, n)
  BY <1>2, <1>5, <1>6, <1>7 DEF Done
<1> QED
  BY <1>1, <1>2, <1>5, <1>6, <1>8

LEMMA CoreSame ==
  ASSUME NEW c, Core(c), Same
  PROVE  Core(c)'
<1>1. Known(c)' = Known(c)
  BY DEF Same, Known
<1>2. \A p \in 1 .. num_blocks : \A n : Done(slots[p], n)' <=> Done(slots[p], n)
  BY HomeSame, SameAlike DEF Same
<1>3. Apart'
  BY DEF Core, Apart, Same
<1>4. iort' \in Tables /\ c \in 0 .. Len(iort') /\ num_blocks' = Cardinality(Known(c)')
      /\ 1 .. num_blocks' \subseteq DOMAIN slots'
  BY <1>1 DEF Core, Same
<1>5. \A p \in 1 .. num_blocks : \E n \in Known(c) : Done(slots[p], n)'
  BY <1>2 DEF Core
<1>6. \A n \in Known(c) : \E p \in 1 .. num_blocks : Done(slots[p], n)'
  BY <1>2 DEF Core
<1>7. num_blocks' = num_blocks
  BY DEF Same
<1> QED
  BY <1>1, <1>3, <1>4, <1>5, <1>6, <1>7 DEF Core

LEMMA PutFacts ==
  ASSUME NEW p, NEW b
  PROVE  /\ DOMAIN Put(p, b) = DOMAIN slots \cup {p} /\ Put(p, b)[p] = b
         /\ \A q \in DOMAIN slots : q # p => Put(p, b)[q] = slots[q]
  BY DEF Put

\* Writing behind the counted blocks.
LEMMA PutSame ==
  ASSUME num_blocks \in Nat, 1 .. num_blocks \subseteq DOMAIN slots,
         NEW p, p \notin 1 .. num_blocks, NEW b, slots' = Put(p, b), iort' = iort, num_blocks' = num_blocks
  PROVE  Same
<1>1. DOMAIN slots' = DOMAIN slots \cup {p} /\ \A q \in DOMAIN slots : q # p => slots'[q] = slots[q]
  BY DEF Put
<1> QED
  BY <1>1 DEF Same

LEMMA FilledFacts ==
  ASSUME iort \in Tables, NEW n \in 1 .. Len(iort)
  PROVE  LET b == Filled(iort[n]) IN
         /\ b \in BlockType /\ b.type = iort[n].type /\ b.id = iort[n].id
         /\ b.num_data_map = Len(iort[n].maps) /\ b.smmu_base = None /\ b.node_ref = None
         /\ b.data_map = <<>>
<1>1. Filled(iort[n]) = [type |-> iort[n].type, id |-> iort[n].id, num_data_map |-> Len(iort[n].maps),
        smmu_base |-> 0, node_ref |-> 0, flags |-> {}, data_map |-> <<>>]
  BY DEF Filled, None
<1>2. <<>> \in Seq(DataMap) /\ {} \in SUBSET Flags
  OBVIOUS
<1> QED
  BY <1>1, <1>2, NodeTypes DEF BlockType, None

\* A node referred to is found where its block is.
LEMMA LeafFound ==
  ASSUME NEW c, Core(c), NEW r \in 1 .. c, Leaf(r)
  PROVE  FindBlock(Filled(iort[r])) \in 1 .. num_blocks /\ Home(FindBlock(Filled(iort[r])), r)
<1>1. iort \in Tables /\ r \in 1 .. Len(iort) /\ c \in Nat
  BY DEF Core
<1>2. PICK k : k = Filled(iort[r])
  OBVIOUS
<1>3. /\ k.type = iort[r].type /\ k.id = iort[r].id
      /\ k.num_data_map = Len(iort[r].maps) /\ k.smmu_base = None /\ k.node_ref = None
  BY <1>1, <1>2, FilledFacts
<1>4. r \in Known(c)
  BY LeafTypes DEF Known
<1>5. PICK q \in 1 .. num_blocks : Done(slots[q], r)
  BY <1>4 DEF Core
<1>6. SameBlock(k, slots[q])
  BY <1>3, <1>5, LeafTypes DEF SameBlock, Done, Begun, MappedTo, Based
<1>7. \A p \in 1 .. num_blocks : SameBlock(k, slots[p]) => p = q
  BY <1>3, <1>5 DEF SameBlock, Core, Apart, Done, Begun
<1>8. {p \in 1 .. num_blocks : SameBlock(k, slots[p])} = {q}
  BY <1>6, <1>7
<1>9. FindBlock(k) = CHOOSE p \in {q} : \A x \in {q} : p <= x
  BY <1>8 DEF FindBlock
<1>10. FindBlock(k) = q
  <2>1. q <= q
    BY <1>5
  <2> QED
    BY <1>9, <2>1
<1> QED
  BY <1>2, <1>5, <1>10 DEF Home, Done, Begun

\* No block is found for a node that has none.
LEMMA NotYet ==
  ASSUME AllOrdered, NEW c, Core(c), c + 1 \in 1 .. Len(iort), iort[c + 1].type \in Types,
         NEW b, b.type = iort[c + 1].type, b.id = iort[c + 1].id
  PROVE  /\ FindBlock(b) = None
         /\ \A p \in 1 .. num_blocks : ~(slots[p].type = b.type /\ slots[p].id = b.id)
<1>1. ASSUME NEW p \in 1 .. num_blocks PROVE ~(slots[p].type = b.type /\ slots[p].id = b.id)
  <2>1. PICK n \in Known(c) : Done(slots[p], n)
    BY DEF Core
  <2>2. n \in 1 .. c /\ n \in 1 .. Len(iort) /\ c \in Nat
    BY DEF Core, Known
  <2>3. slots[p].type = iort[n].type /\ slots[p].id = iort[n].id
    BY <2>1 DEF Done, Begun
  <2>4. slots[p].type = b.type /\ slots[p].id = b.id => n = c + 1
    BY <2>2, <2>3, OrderOf DEF Core
  <2> QED
    BY <2>2, <2>4
<1>2. {p \in 1 .. num_blocks : SameBlock(b, slots[p])} = {}
  BY <1>1 DEF SameBlock
<1> QED
  BY <1>1, <1>2 DEF FindBlock

LEMMA KnownGrows ==
  ASSUME NEW c \in Nat
  PROVE  /\ IsFiniteSet(Known(c)) /\ c + 1 \notin Known(c)
         /\ Known(c + 1) = IF iort[c + 1].type \in Types THEN Known(c) \cup {c + 1} ELSE Known(c)
<1>1. 1 .. c + 1 = (1 .. c) \cup {c + 1} /\ c + 1 \notin 1 .. c
  OBVIOUS
<1>2. IsFiniteSet(1 .. c) /\ Known(c) \subseteq 1 .. c
  BY FS_Interval DEF Known
<1>3. IsFiniteSet(Known(c))
  BY <1>2, FS_Subset
<1> QED
  BY <1>1, <1>3 DEF Known

LEMMA CoreGrows ==
  ASSUME AllOrdered, NEW c, Core(c), c + 1 \in 1 .. Len(iort), iort[c + 1].type \in Types,
         num_blocks \in Nat, num_blocks + 1 \in DOMAIN slots, Done(slots[num_blocks + 1], c + 1),
         iort' = iort, slots' = slots, num_blocks' = num_blocks + 1
  PROVE  Core(c + 1)'
<1>1. c \in Nat /\ c + 1 \in 0 .. Len(iort) /\ iort \in Tables
  BY DEF Core
<1>2. 1 .. num_blocks + 1 = (1 .. num_blocks) \cup {num_blocks + 1}
  OBVIOUS
<1>3. \A p, r : Home(p, r) => Home(p, r)'
  BY <1>2 DEF Home
<1>4. \A b, n : Done(b, n) => Done(b, n)'
  <2>1. \A b, n : Begun(b, n) => Begun(b, n)'
    BY <1>3 DEF Begun
  <2>2. \A b, n, j : MapRight(b, n, j) => MapRight(b, n, j)'
    BY <1>3 DEF MapRight
  <2>3. \A b, n, i : MappedTo(b, n, i) => MappedTo(b, n, i)'
    BY <2>2 DEF MappedTo, Based, BaseOf
  <2>4. \A n : Copies(n)' = Copies(n)
    BY DEF Copies
  <2> QED
    BY <2>1, <2>3, <2>4 DEF Done, Flagged
<1>5. Known(c + 1)' = Known(c + 1) /\ Known(c + 1) = Known(c) \cup {c + 1}
  BY <1>1, KnownGrows DEF Known
<1>6. num_blocks' = Cardinality(Known(c + 1))
  <2>1. Cardinality(Known(c) \cup {c + 1}) = Cardinality(Known(c)) + 1
    BY <1>1, KnownGrows, FS_AddElement
  <2> QED
    BY <1>5, <2>1 DEF Core
<1>7. \A p \in 1 .. num_blocks : \E n \in Known(c) : Done(slots[p], n)'
  BY <1>4 DEF Core
<1>8. \A n \in Known(c) : \E p \in 1 .. num_blocks : Done(slots[p], n)'
  BY <1>4 DEF Core
<1>9. PICK k : k = num_blocks + 1 /\ Done(slots[k], c + 1)'
  <2>1. PICK k, b : k = num_blocks + 1 /\ b = slots[k]
    OBVIOUS
  <2>2. Done(b, c + 1)' /\ b = slots'[k]
    BY <1>4, <2>1
  <2> QED
    BY <2>1, <2>2
<1>10. Apart'
  <2>1. slots[num_blocks + 1].type = iort[c + 1].type /\ slots[num_blocks + 1].id = iort[c + 1].id
    BY DEF Done, Begun
  <2>2. \A p \in 1 .. num_blocks :
          ~(slots[p].type = slots[num_blocks + 1].type /\ slots[p].id = slots[num_blocks + 1].id)
    BY <2>1, NotYet
  <2>3. Apart
    BY DEF Core
  <2>4. k = num_blocks + 1
    BY <1>9
  <2>5. ASSUME NEW p \in 1 .. k, NEW q \in 1 .. k,
               slots[p].type = slots[q].type, slots[p].id = slots[q].id
        PROVE  p = q
    <3>1. (p \in 1 .. num_blocks \/ p = k) /\ (q \in 1 .. num_blocks \/ q = k)
      BY <1>2, <2>4
    <3>2. CASE p = k /\ q = k
      BY <3>2
    <3>3. CASE p \in 1 .. num_blocks /\ q = k
      BY <2>2, <2>4, <2>5, <3>3
    <3>4. CASE q \in 1 .. num_blocks /\ p = k
      BY <2>2, <2>4, <2>5, <3>4
    <3>5. CASE p \in 1 .. num_blocks /\ q \in 1 .. num_blocks
      BY <2>3, <2>5, <3>5 DEF Apart
    <3> QED
      BY <3>1, <3>2, <3>3, <3>4, <3>5
  <2> QED
    BY <2>4, <2>5 DEF Apart
<1>11. \A p \in 1 .. num_blocks + 1 : \E n \in Known(c) \cup {c + 1} : Done(slots[p], n)'
  BY <1>2, <1>7, <1>9
<1>12. \A n \in Known(c) \cup {c + 1} : \E p \in 1 .. num_blocks + 1 : Done(slots[p], n)'
  BY <1>2, <1>8, <1>9
<1>13. 1 .. num_blocks + 1 \subseteq DOMAIN slots
  BY <1>2 DEF Core
<1> QED
  BY <1>1, <1>5, <1>6, <1>10, <1>11, <1>12, <1>13 DEF Core

\* In the middle of adding node n.
Here(n) ==
  /\ iort \in Tables /\ n \in 1 .. Len(iort) /\ next_node \in Int /\ n = next_node - 1
  /\ Core(n - 1) /\ num_blocks \in Nat /\ next_block = num_blocks + 1 /\ ~checked
  /\ stack \in Seq(Frame)

LEMMA HereIs ==
  ASSUME FrameInv, OrderInv, stack # <<>>
  PROVE  \E n : Here(n) /\ Adding(n)
<1> DEFINE n == next_node - 1
<1>1. Adding(n) /\ Core(next_node - 2) /\ next_node \in Int
  BY DEF OrderInv, FrameInv
<1>2. n - 1 = next_node - 2
  BY <1>1
<1>3. stack \in Seq(Frame) /\ Len(stack) >= 1
  BY DEF FrameInv, Frames
<1>4. FrameOK(stack[1]) /\ stack[1].node = n
  BY <1>1, <1>3 DEF FrameInv, Frames, Adding, Outer
<1>5. n \in 1 .. Len(iort)
  BY <1>4 DEF FrameOK
<1> QED
  BY <1>1, <1>2, <1>3, <1>5 DEF Here, OrderInv, Core

LEMMA BlockSame ==
  ASSUME Same
  PROVE  /\ \A f, n : Ref(f, n)' = Ref(f, n)
         /\ \A b, f, n : Block1(b, f, n)' <=> Block1(b, f, n)
<1>1. \A f, n : Ref(f, n)' = Ref(f, n)
  BY DEF Same, Ref
<1>2. \A n : Copies(n)' = Copies(n)
  BY DEF Same, Copies
<1>3. \A b, f, n : (f.pc = "pmcg" => b = Filled(iort[n]) /\ iort[n].type = Pmcg)'
                   <=> (f.pc = "pmcg" => b = Filled(iort[n]) /\ iort[n].type = Pmcg)
  BY DEF Same, Filled
<1> QED
  BY <1>1, <1>2, <1>3, HomeSame, SameAlike DEF Same, Block1

\* What is left to show of a step within the addition of a node.
LEMMA StaysOuter ==
  ASSUME NEW n, Here(n), Same, UNCHANGED <<next_node, next_block, checked>>,
         Len(stack') = 1, NEW f, f = stack'[1],
         f.node = n, f.at = num_blocks + 1, f.pc \in {"pmcg", "maps", "mapped"} => f.next = num_blocks + 2,
         NEW b, f.pc # "fill" => f.at \in DOMAIN slots' /\ b = slots'[f.at] /\ Block1(b, f, n),
         f.pc \in {"pmcg", "mapped"} => \E q : ret' = q /\ Home(q, Ref(f, n))
  PROVE  OrderInv'
<1>1. Core(n - 1)'
  <2>1. PICK c : c = n - 1
    OBVIOUS
  <2>2. Core(c)'
    BY <2>1, CoreSame DEF Here
  <2> QED
    BY <2>1, <2>2
<1>2. stack' # <<>> /\ n - 1 = next_node - 2 /\ n = next_node - 1
  <2>1. Len(<<>>) = 0
    OBVIOUS
  <2>2. stack' # <<>>
    BY <2>1
  <2> QED
    BY <2>2 DEF Here
<1>3. f.pc # "fill" => Block1(slots[f.at], f, n)'
  <2>1. f.pc # "fill" => Block1(b, f, n)'
    BY BlockSame
  <2> QED
    BY <2>1
<1>4. Outer(stack[1], n)'
  BY <1>3 DEF Outer, Same
<1>5. f.pc \in {"pmcg", "mapped"} => Home(ret, Ref(stack[1], n))'
  BY HomeSame, SameAlike, BlockSame
<1>6. Adding(n)'
  BY <1>4, <1>5 DEF Adding
<1> QED
  BY <1>1, <1>2, <1>6 DEF OrderInv, Here, Same

LEMMA StaysInner ==
  ASSUME NEW n, Here(n), Same, UNCHANGED <<next_node, next_block, checked>>,
         Len(stack') = 2, NEW f, f = stack'[1], NEW g, g = stack'[2],
         f.node = n, f.at = num_blocks + 1, f.pc \in {"pmcg", "mapped"}, f.next = num_blocks + 2,
         NEW b, f.at \in DOMAIN slots', b = slots'[f.at], Block1(b, f, n),
         g.node = Ref(f, n), g.at = num_blocks + 2, g.pc \in {"fill", "find"},
         g.pc = "find" => g.at \in DOMAIN slots' /\ slots'[g.at] = Filled(iort[g.node])
  PROVE  OrderInv'
<1>1. Core(n - 1)'
  <2>1. PICK c : c = n - 1
    OBVIOUS
  <2>2. Core(c)'
    BY <2>1, CoreSame DEF Here
  <2> QED
    BY <2>1, <2>2
<1>2. stack' # <<>> /\ n - 1 = next_node - 2 /\ n = next_node - 1
  <2>1. Len(<<>>) # 2
    OBVIOUS
  <2>2. stack' # <<>>
    BY <2>1
  <2> QED
    BY <2>2 DEF Here
<1>3. Block1(slots[f.at], f, n)'
  <2>1. Block1(b, f, n)'
    BY BlockSame
  <2> QED
    BY <2>1
<1>4. Outer(stack[1], n)'
  BY <1>3 DEF Outer, Same
<1>5. Inner(stack[2], stack[1], n)'
  BY BlockSame DEF Inner, Same, Filled
<1>6. Adding(n)'
  BY <1>4, <1>5 DEF Adding
<1> QED
  BY <1>1, <1>2, <1>6 DEF OrderInv, Here, Same

\* The innermost activation is the only one, or the second.
LEMMA Alone ==
  ASSUME FrameInv, NEW n, Here(n), Adding(n), Len(stack) = 1
  PROVE  /\ Top = stack[1] /\ Top \in Frame /\ FrameOK(Top) /\ Outer(Top, n) /\ stack # <<>>
         /\ Top.pc \in {"pmcg", "mapped"} => Home(ret, Ref(Top, n))
         /\ \A x : Len(SetTop(x)) = 1 /\ SetTop(x)[1] = x
         /\ \A x, y : Len(Append(SetTop(x), y)) = 2 /\ Append(SetTop(x), y)[1] = x
                      /\ Append(SetTop(x), y)[2] = y
<1>1. Top = stack[1] /\ stack \in Seq(Frame)
  BY DEF Top, Here
<1>2. Outer(Top, n) /\ (Top.pc \in {"pmcg", "mapped"} => Home(ret, Ref(Top, n)))
  BY <1>1 DEF Adding
<1>3. Top \in Frame /\ FrameOK(Top) /\ stack # <<>>
  BY <1>1 DEF FrameInv, Frames
<1>4. DOMAIN stack = 1 .. 1
  BY <1>1
<1>5. \A x : SetTop(x) = <<x>>
  <2>1. ASSUME NEW x PROVE SetTop(x) = <<x>>
    <3>1. SetTop(x) = [k \in 1 .. 1 |-> IF k = 1 THEN x ELSE stack[k]]
      BY <1>4 DEF SetTop
    <3>2. SetTop(x) = [k \in 1 .. 1 |-> x]
      BY <3>1
    <3> QED
      BY <3>2
  <2> QED
    BY <2>1
<1>6. \A x, y : Len(Append(<<x>>, y)) = 2 /\ Append(<<x>>, y)[1] = x /\ Append(<<x>>, y)[2] = y
  OBVIOUS
<1> QED
  BY <1>1, <1>2, <1>3, <1>5, <1>6

\* Frames that have moved on.
LEMMA FrameMoves ==
  ASSUME NEW f \in Frame
  PROVE  /\ \A pc : LET g == [f EXCEPT !.pc = pc]
                    IN  g.node = f.node /\ g.at = f.at /\ g.next = f.next /\ g.i = f.i /\ g.pc = pc
         /\ \A pc, x : LET g == [f EXCEPT !.pc = pc, !.next = x]
                       IN  g.node = f.node /\ g.at = f.at /\ g.next = x /\ g.i = f.i /\ g.pc = pc
         /\ \A pc, x, i : LET g == [f EXCEPT !.pc = pc, !.next = x, !.i = i]
                          IN  g.node = f.node /\ g.at = f.at /\ g.next = x /\ g.i = i /\ g.pc = pc
         /\ \A pc, i : LET g == [f EXCEPT !.pc = pc, !.i = i]
                       IN  g.node = f.node /\ g.at = f.at /\ g.next = f.next /\ g.i = i /\ g.pc = pc
         /\ \A x : LET g == [f EXCEPT !.next = x]
                   IN  g.node = f.node /\ g.at = f.at /\ g.next = x /\ g.i = f.i /\ g.pc = f.pc
  BY DEF Frame

LEMMA CallFacts ==
  \A n, p : Call(n, p).node = n /\ Call(n, p).at = p /\ Call(n, p).pc = "fill"
  BY DEF Call

LEMMA Behind ==
  ASSUME NEW n, Here(n), NEW b, NEW p \in {num_blocks + 1, num_blocks + 2}, slots' = Put(p, b),
         iort' = iort, num_blocks' = num_blocks
  PROVE  Same /\ p \in DOMAIN slots' /\ slots'[p] = b
<1>1. p \notin 1 .. num_blocks
  BY DEF Here
<1>2. Same
  BY <1>1, PutSame DEF Here, Core
<1> QED
  BY <1>2 DEF Put

\* A node of a type that has no counter gets no block.
LEMMA OuterFillInvalid ==
  ASSUME FrameInv, NEW n, Here(n), Adding(n), Len(stack) = 1, FillInvalid
  PROVE  OrderInv'
<1>1. Top = stack[1] /\ Outer(Top, n)
  BY Alone
<1>2. Top.at = num_blocks + 1 /\ Top.node = n
  BY <1>1 DEF Outer
<1>3. iort[n].type \notin Types /\ stack' = <<>> /\ next_block' = num_blocks + 1
  BY <1>2 DEF FillInvalid, Node, Return
<1>4. Same
  BY <1>2, Behind DEF FillInvalid
<1>5. PICK c \in Nat : c = n - 1 /\ c + 1 = n
  BY DEF Here
<1>6. Core(c)'
  BY <1>4, <1>5, CoreSame DEF Here
<1>7. Known(c + 1)' = Known(c)'
  BY <1>3, <1>4, <1>5, KnownGrows DEF Known, Same
<1>8. Core(c + 1)'
  <2>1. c + 1 \in 0 .. Len(iort')
    BY <1>4, <1>5 DEF Here, Same
  <2> QED
    BY <1>6, <1>7, <2>1 DEF Core
<1>9. next_node' - 1 = c + 1 /\ num_blocks' = num_blocks /\ checked' = checked
  BY <1>5 DEF FillInvalid, Here
<1>10. Core(next_node - 1)'
  BY <1>8, <1>9
<1> QED
  BY <1>3, <1>9, <1>10 DEF OrderInv, Here

LEMMA OuterFill ==
  ASSUME FrameInv, NEW n, Here(n), Adding(n), Len(stack) = 1, Fill
  PROVE  OrderInv'
<1>1. /\ Top \in Frame /\ Top.at = num_blocks + 1 /\ Top.node = n /\ stack # <<>>
      /\ \A x : Len(SetTop(x)) = 1 /\ SetTop(x)[1] = x
  BY Alone DEF Outer
<1>2. PICK f : f = [Top EXCEPT !.pc = "find"]
  OBVIOUS
<1>3. PICK b : b = Filled(iort[n])
  OBVIOUS
<1>4. /\ iort[n].type # Pmcg /\ stack' = SetTop(f) /\ slots' = Put(num_blocks + 1, b)
      /\ iort' = iort /\ num_blocks' = num_blocks /\ UNCHANGED <<next_node, next_block, checked>>
  BY <1>1, <1>2, <1>3 DEF Fill, Node
<1>5. Same /\ num_blocks + 1 \in DOMAIN slots' /\ slots'[num_blocks + 1] = b
  BY <1>4, Behind
<1>6. f.node = n /\ f.at = num_blocks + 1 /\ f.pc = "find"
  BY <1>1, <1>2, FrameMoves
<1>7. Block1(b, f, n)
  <2>1. Begun(b, n) /\ b.data_map = <<>> /\ b.smmu_base = None
    BY <1>3, <1>4, FilledFacts DEF Begun, Here
  <2> QED
    BY <1>6, <2>1 DEF Block1
<1>8. Len(stack') = 1 /\ f = stack'[1]
  BY <1>1, <1>4
<1> QED
  BY <1>4, <1>5, <1>6, <1>7, <1>8, StaysOuter

LEMMA OuterFillPmcg ==
  ASSUME FrameInv, NEW n, Here(n), Adding(n), Len(stack) = 1, FillPmcg
  PROVE  OrderInv'
<1>1. /\ Top \in Frame /\ Top.at = num_blocks + 1 /\ Top.node = n /\ stack # <<>>
      /\ \A x, y : Len(Append(SetTop(x), y)) = 2 /\ Append(SetTop(x), y)[1] = x
                   /\ Append(SetTop(x), y)[2] = y
  BY Alone DEF Outer
<1>2. PICK f : f = [Top EXCEPT !.pc = "pmcg", !.next = Top.at + 1]
  OBVIOUS
<1>3. PICK b : b = Filled(iort[n])
  OBVIOUS
<1>4. PICK g : g = Call(iort[n].node_ref, Top.at + 1)
  OBVIOUS
<1>5. /\ iort[n].type = Pmcg /\ stack' = Append(SetTop(f), g) /\ slots' = Put(num_blocks + 1, b)
      /\ iort' = iort /\ num_blocks' = num_blocks /\ UNCHANGED <<next_node, next_block, checked>>
  BY <1>1, <1>2, <1>3, <1>4 DEF FillPmcg, Node
<1>6. Same /\ num_blocks + 1 \in DOMAIN slots' /\ slots'[num_blocks + 1] = b
  BY <1>5, Behind
<1>7. Top.at + 1 = num_blocks + 2
  BY <1>1 DEF Here
<1>8. f.node = n /\ f.at = num_blocks + 1 /\ f.pc = "pmcg" /\ f.next = num_blocks + 2
  BY <1>1, <1>2, <1>7, FrameMoves
<1>9. Block1(b, f, n)
  BY <1>3, <1>5, <1>8 DEF Block1
<1>10. g.node = Ref(f, n) /\ g.at = num_blocks + 2 /\ g.pc = "fill"
  BY <1>4, <1>7, <1>8, CallFacts DEF Ref
<1>11. Len(stack') = 2 /\ f = stack'[1] /\ g = stack'[2]
  BY <1>1, <1>5
<1> QED
  BY <1>5, <1>6, <1>8, <1>9, <1>10, <1>11, StaysInner

LEMMA OuterPmcgAdded ==
  ASSUME FrameInv, NEW n, Here(n), Adding(n), Len(stack) = 1, PmcgAdded
  PROVE  OrderInv'
<1>1. /\ Top \in Frame /\ Top.at = num_blocks + 1 /\ Top.node = n /\ stack # <<>> /\ Top.pc = "pmcg"
      /\ Block1(slots[num_blocks + 1], Top, n) /\ Home(ret, Ref(Top, n))
      /\ \A x : Len(SetTop(x)) = 1 /\ SetTop(x)[1] = x
  BY Alone DEF Outer, PmcgAdded, Active
<1>2. PICK f : f = [Top EXCEPT !.pc = "find"]
  OBVIOUS
<1>3. PICK a, b : a = Filled(iort[n]) /\ b = [a EXCEPT !.node_ref = ret]
  OBVIOUS
<1>4. iort[n].type = Pmcg /\ slots[num_blocks + 1] = a /\ Home(ret, iort[n].node_ref)
  BY <1>1, <1>3 DEF Block1, Ref
<1>5. /\ stack' = SetTop(f) /\ slots' = Put(num_blocks + 1, b)
      /\ iort' = iort /\ num_blocks' = num_blocks /\ UNCHANGED <<next_node, next_block, checked>>
  BY <1>1, <1>2, <1>3, <1>4 DEF PmcgAdded, Block
<1>6. Same /\ num_blocks + 1 \in DOMAIN slots' /\ slots'[num_blocks + 1] = b
  BY <1>5, Behind
<1>7. f.node = n /\ f.at = num_blocks + 1 /\ f.pc = "find"
  BY <1>1, <1>2, FrameMoves
<1>8. Block1(b, f, n)
  <2>1. /\ a \in BlockType /\ a.type = iort[n].type /\ a.id = iort[n].id
        /\ a.num_data_map = Len(iort[n].maps) /\ a.smmu_base = None /\ a.data_map = <<>>
    BY <1>3, FilledFacts DEF Here
  <2>2. ret \in Int
    BY <1>4 DEF Home
  <2>3. /\ b \in BlockType /\ b.type = a.type /\ b.id = a.id /\ b.num_data_map = a.num_data_map
        /\ b.smmu_base = a.smmu_base /\ b.data_map = a.data_map /\ b.node_ref = ret
    BY <1>3, <2>1, <2>2 DEF BlockType
  <2>4. Begun(b, n)
    BY <1>4, <2>1, <2>3 DEF Begun
  <2> QED
    BY <1>7, <2>1, <2>3, <2>4 DEF Block1
<1>9. Len(stack') = 1 /\ f = stack'[1]
  BY <1>1, <1>5
<1> QED
  BY <1>5, <1>6, <1>7, <1>8, <1>9, StaysOuter

LEMMA OuterNotFound ==
  ASSUME FrameInv, NEW n, Here(n), Adding(n), Len(stack) = 1, NotFound
  PROVE  OrderInv'
<1>1. /\ Top \in Frame /\ Top.at = num_blocks + 1 /\ Top.node = n /\ stack # <<>> /\ Top.pc = "find"
      /\ Block1(slots[num_blocks + 1], Top, n)
      /\ \A x : Len(SetTop(x)) = 1 /\ SetTop(x)[1] = x
  BY Alone DEF Outer, NotFound, Active
<1>2. PICK f : f = [Top EXCEPT !.pc = "maps", !.next = Top.at + 1, !.i = 1]
  OBVIOUS
<1>3. PICK flags : flags = IF iort[n].type = Smmu /\ ~CtxIntDistinct(iort[n].ctx_int) THEN {"ctx"} ELSE {}
  OBVIOUS
<1>4. PICK a, b : a = slots[num_blocks + 1] /\ b = [a EXCEPT !.flags = flags]
  OBVIOUS
<1>5. Begun(a, n) /\ a.data_map = <<>> /\ a.smmu_base = None
  BY <1>1, <1>4 DEF Block1
<1>6. /\ stack' = SetTop(f) /\ slots' = Put(num_blocks + 1, b)
      /\ iort' = iort /\ num_blocks' = num_blocks /\ UNCHANGED <<next_node, next_block, checked>>
  BY <1>1, <1>2, <1>3, <1>4 DEF NotFound, Block, Node
<1>7. Same /\ num_blocks + 1 \in DOMAIN slots' /\ slots'[num_blocks + 1] = b
  BY <1>6, Behind
<1>8. Top.at + 1 = num_blocks + 2
  BY <1>1 DEF Here
<1>9. f.node = n /\ f.at = num_blocks + 1 /\ f.pc = "maps" /\ f.i = 1 /\ f.next = num_blocks + 2
  BY <1>1, <1>2, <1>8, FrameMoves
<1>10. Block1(b, f, n)
  <2>1. flags \in SUBSET Flags /\ a \in BlockType
    <3>1. flags \subseteq Flags
      BY <1>3 DEF Flags
    <3> QED
      BY <1>5, <3>1 DEF Begun
  <2>2. /\ b \in BlockType /\ b.type = a.type /\ b.id = a.id /\ b.num_data_map = a.num_data_map
        /\ b.smmu_base = a.smmu_base /\ b.data_map = a.data_map /\ b.node_ref = a.node_ref /\ b.flags = flags
    BY <1>4, <2>1 DEF BlockType
  <2>3. Begun(b, n)
    BY <1>5, <2>2 DEF Begun
  <2>4. Flagged(b, n)
    BY <1>3, <2>2 DEF Flagged
  <2>5. MappedTo(b, n, 0)
    <3>1. 1 .. 0 = {} /\ ~(0 > 0)
      OBVIOUS
    <3> QED
      BY <1>5, <2>2, <3>1 DEF MappedTo, Based
  <2>6. f.i - 1 = 0 /\ Len(b.data_map) = 0
    BY <1>5, <1>9, <2>2
  <2>7. 0 <= Copies(n)
    BY NodeTypes DEF Copies, Here
  <2> QED
    BY <1>9, <2>3, <2>4, <2>5, <2>6, <2>7 DEF Block1
<1>11. Len(stack') = 1 /\ f = stack'[1]
  BY <1>1, <1>6
<1> QED
  BY <1>6, <1>7, <1>9, <1>10, <1>11, StaysOuter

\* A block is not found while its node is being added for the first time.
LEMMA OuterFound ==
  ASSUME AllOrdered, FrameInv, NEW n, Here(n), Adding(n), Len(stack) = 1
  PROVE  ~Found
<1> SUFFICES ASSUME Found PROVE FALSE
  OBVIOUS
<1>1. /\ Top.at = num_blocks + 1 /\ Top.node = n /\ Top.pc = "find"
      /\ Block1(slots[num_blocks + 1], Top, n) /\ FrameOK(Top)
  BY Alone DEF Outer, Found, Active
<1>2. iort[n].type \in Types
  BY <1>1 DEF FrameOK
<1>3. PICK b : b = slots[num_blocks + 1]
  OBVIOUS
<1>4. b.type = iort[n].type /\ b.id = iort[n].id
  BY <1>1, <1>3 DEF Block1, Begun
<1>5. PICK c : c = n - 1 /\ c + 1 = n
  BY DEF Here
<1>6. FindBlock(b) = None
  BY <1>2, <1>4, <1>5, NotYet DEF Here
<1> QED
  BY <1>1, <1>3, <1>6 DEF Found, Block

\* One more mapping copied.
LEMMA Copied ==
  ASSUME NEW b \in BlockType, NEW o \in IortMap
  PROVE  LET e == [input_base |-> o.input_base, id_count |-> o.id_count,
                   output_base |-> o.output_base, output_ref |-> None]
             c == [b EXCEPT !.data_map = Append(@, e)]
         IN  /\ c \in BlockType /\ c.type = b.type /\ c.id = b.id /\ c.num_data_map = b.num_data_map
             /\ c.smmu_base = b.smmu_base /\ c.node_ref = b.node_ref /\ c.flags = b.flags
             /\ Len(b.data_map) \in Nat /\ Len(c.data_map) = Len(b.data_map) + 1
             /\ \A j \in 1 .. Len(b.data_map) : c.data_map[j] = b.data_map[j]
             /\ SameRange(c.data_map[Len(b.data_map) + 1], o)
<1>1. PICK e : e = [input_base |-> o.input_base, id_count |-> o.id_count,
                    output_base |-> o.output_base, output_ref |-> None]
  OBVIOUS
<1>2. e \in DataMap /\ SameRange(e, o)
  BY <1>1 DEF DataMap, IortMap, SameRange, None
<1>3. PICK m, a : m = b.data_map /\ a = Append(m, e)
  OBVIOUS
<1>4. m \in Seq(DataMap)
  BY <1>3 DEF BlockType
<1>5. a \in Seq(DataMap)
  BY <1>2, <1>3, <1>4
<1>6. Len(m) \in Nat /\ Len(a) = Len(m) + 1 /\ (\A j \in 1 .. Len(m) : a[j] = m[j]) /\ a[Len(m) + 1] = e
  BY <1>3, <1>4
<1>7. PICK c : c = [b EXCEPT !.data_map = a]
  OBVIOUS
<1>8. /\ c \in BlockType /\ c.type = b.type /\ c.id = b.id /\ c.num_data_map = b.num_data_map
      /\ c.smmu_base = b.smmu_base /\ c.node_ref = b.node_ref /\ c.flags = b.flags /\ c.data_map = a
  BY <1>5, <1>7 DEF BlockType
<1> QED
  BY <1>1, <1>2, <1>3, <1>6, <1>7, <1>8

LEMMA OuterAddMapped ==
  ASSUME FrameInv, NEW n, Here(n), Adding(n), Len(stack) = 1, AddMapped
  PROVE  OrderInv'
<1>1. /\ Top \in Frame /\ Top.at = num_blocks + 1 /\ Top.node = n /\ stack # <<>> /\ Top.pc = "maps"
      /\ Top.next = num_blocks + 2
      /\ Block1(slots[num_blocks + 1], Top, n) /\ FrameOK(Top)
      /\ \A x, y : Len(Append(SetTop(x), y)) = 2 /\ Append(SetTop(x), y)[1] = x
                   /\ Append(SetTop(x), y)[2] = y
  BY Alone DEF Outer, AddMapped, Active
<1>2. PICK i \in Nat \ {0} : i = Top.i
  BY <1>1 DEF Frame, FrameOK
<1>3. PICK f : f = [Top EXCEPT !.pc = "mapped"]
  OBVIOUS
<1>4. f.node = n /\ f.at = num_blocks + 1 /\ f.pc = "mapped" /\ f.i = i /\ f.next = num_blocks + 2
  BY <1>1, <1>2, <1>3, FrameMoves
<1>5. PICK o : o = iort[n].maps[i]
  OBVIOUS
<1>6. PICK a, b : /\ a = slots[num_blocks + 1]
                  /\ b = [a EXCEPT !.data_map = Append(@, [input_base |-> o.input_base, id_count |-> o.id_count,
                                                           output_base |-> o.output_base, output_ref |-> None])]
  OBVIOUS
<1>7. PICK g : g = Call(o.output_reference, num_blocks + 2)
  OBVIOUS
<1>8. /\ iort[n].type # Its /\ i <= Len(iort[n].maps)
      /\ stack' = Append(SetTop(f), g) /\ slots' = Put(num_blocks + 1, b)
      /\ iort' = iort /\ num_blocks' = num_blocks /\ UNCHANGED <<next_node, next_block, checked>>
  BY <1>1, <1>2, <1>3, <1>5, <1>6, <1>7 DEF AddMapped, Node, Block
<1>9. Same /\ num_blocks + 1 \in DOMAIN slots' /\ slots'[num_blocks + 1] = b
  BY <1>8, Behind
<1>10. Begun(a, n) /\ Flagged(a, n) /\ MappedTo(a, n, i - 1) /\ Len(a.data_map) = i - 1
  BY <1>1, <1>2, <1>6 DEF Block1
<1>11. o \in IortMap
  <2>1. i \in 1 .. Len(iort[n].maps)
    BY <1>2, <1>8
  <2>2. iort \in Tables /\ n \in 1 .. Len(iort)
    BY DEF Here
  <2>3. \A j \in 1 .. Len(iort[n].maps) : iort[n].maps[j] \in IortMap
    BY <2>2, NodeTypes, Zenon
  <2> QED
    BY <1>5, <2>1, <2>3, Zenon
<1>12. /\ b \in BlockType /\ b.type = a.type /\ b.id = a.id /\ b.num_data_map = a.num_data_map
       /\ b.smmu_base = a.smmu_base /\ b.node_ref = a.node_ref /\ b.flags = a.flags
       /\ Len(b.data_map) = Len(a.data_map) + 1
       /\ \A j \in 1 .. Len(a.data_map) : b.data_map[j] = a.data_map[j]
       /\ SameRange(b.data_map[Len(a.data_map) + 1], o)
  <2>1. a \in BlockType
    BY <1>10 DEF Begun
  <2>2. PICK e : e = [input_base |-> o.input_base, id_count |-> o.id_count,
                      output_base |-> o.output_base, output_ref |-> None]
    OBVIOUS
  <2>3. b = [a EXCEPT !.data_map = Append(@, e)]
    BY <1>6, <2>2
  <2>4. LET c == [a EXCEPT !.data_map = Append(@, e)]
        IN  /\ c \in BlockType /\ c.type = a.type /\ c.id = a.id /\ c.num_data_map = a.num_data_map
            /\ c.smmu_base = a.smmu_base /\ c.node_ref = a.node_ref /\ c.flags = a.flags
            /\ Len(c.data_map) = Len(a.data_map) + 1
            /\ \A j \in 1 .. Len(a.data_map) : c.data_map[j] = a.data_map[j]
            /\ SameRange(c.data_map[Len(a.data_map) + 1], o)
    BY <1>11, <2>1, <2>2, Copied
  <2> QED
    BY <2>3, <2>4
<1>13. Len(a.data_map) + 1 = i
  BY <1>10
<1>14. Block1(b, f, n)
  <2>1. Begun(b, n) /\ Flagged(b, n)
    BY <1>10, <1>12 DEF Begun, Flagged
  <2>2. \A j \in 1 .. i - 1 : b.data_map[j] = a.data_map[j]
    BY <1>10, <1>12
  <2>3. MappedTo(b, n, i - 1)
    BY <1>10, <1>12, <2>2 DEF MappedTo, Based, MapRight
  <2>4. Len(b.data_map) = i /\ i <= Copies(n) /\ SameRange(b.data_map[i], iort[n].maps[i])
    BY <1>5, <1>8, <1>12, <1>13 DEF Copies
  <2> QED
    BY <1>4, <2>1, <2>3, <2>4 DEF Block1
<1>15. g.node = Ref(f, n) /\ g.at = num_blocks + 2 /\ g.pc = "fill"
  BY <1>4, <1>5, <1>7, CallFacts DEF Ref
<1>16. Len(stack') = 2 /\ f = stack'[1] /\ g = stack'[2]
  <2>1. stack' = Append(SetTop(f), g)
    BY <1>8
  <2> QED
    BY <1>1, <2>1, Zenon
<1> QED
  BY <1>4, <1>8, <1>9, <1>14, <1>15, <1>16, StaysInner

\* A mapping led to the block of its node.
Linked(b, i, r, base) == [b EXCEPT !.data_map[i].output_ref = r, !.smmu_base = base]
LEMMA Referred ==
  ASSUME NEW b \in BlockType, NEW i \in 1 .. Len(b.data_map), NEW r \in Int, NEW base \in Nat,
         NEW c, c = Linked(b, i, r, base)
  PROVE  /\ c \in BlockType /\ c.type = b.type /\ c.id = b.id /\ c.num_data_map = b.num_data_map
         /\ c.smmu_base = base /\ c.node_ref = b.node_ref /\ c.flags = b.flags
         /\ Len(c.data_map) = Len(b.data_map)
         /\ \A j \in 1 .. Len(b.data_map) : j # i => c.data_map[j] = b.data_map[j]
         /\ c.data_map[i].output_ref = r /\ c.data_map[i].input_base = b.data_map[i].input_base
         /\ c.data_map[i].id_count = b.data_map[i].id_count
         /\ c.data_map[i].output_base = b.data_map[i].output_base
<1>1. PICK m, e : m = b.data_map /\ e = [m[i] EXCEPT !.output_ref = r]
  OBVIOUS
<1>2. PICK a : a = [m EXCEPT ![i] = e]
  OBVIOUS
<1>3. m \in Seq(DataMap)
  BY <1>1 DEF BlockType
<1>4. PICK l \in Nat : l = Len(m) /\ DOMAIN m = 1 .. l
  BY <1>3
<1>5. m[i] \in DataMap
  BY <1>1, <1>3, <1>4
<1>6. /\ e \in DataMap /\ e.output_ref = r /\ e.input_base = m[i].input_base
      /\ e.id_count = m[i].id_count /\ e.output_base = m[i].output_base
  BY <1>1, <1>5 DEF DataMap
<1>7. m \in [1 .. l -> DataMap]
  BY <1>3, <1>4
<1>8. a \in [1 .. l -> DataMap] /\ (\A j \in 1 .. l : j # i => a[j] = m[j]) /\ a[i] = e
  BY <1>1, <1>2, <1>4, <1>6, <1>7
<1>9. a \in Seq(DataMap) /\ Len(a) = l
  BY <1>8
<1>11. c = [[b EXCEPT !.data_map = a] EXCEPT !.smmu_base = base]
  BY <1>1, <1>2 DEF Linked
<1>12. /\ c \in BlockType /\ c.type = b.type /\ c.id = b.id /\ c.num_data_map = b.num_data_map
       /\ c.smmu_base = base /\ c.node_ref = b.node_ref /\ c.flags = b.flags /\ c.data_map = a
  BY <1>9, <1>11 DEF BlockType
<1> QED
  BY <1>1, <1>4, <1>6, <1>8, <1>9, <1>12

LEMMA OuterMapped ==
  ASSUME AllOrdered, FrameInv, NEW n, Here(n), Adding(n), Len(stack) = 1, Mapped
  PROVE  OrderInv'
<1>1. /\ Top \in Frame /\ Top.at = num_blocks + 1 /\ Top.node = n /\ stack # <<>> /\ Top.pc = "mapped"
      /\ Top.next = num_blocks + 2
      /\ Block1(slots[num_blocks + 1], Top, n) /\ FrameOK(Top) /\ Home(ret, Ref(Top, n))
      /\ \A x : Len(SetTop(x)) = 1 /\ SetTop(x)[1] = x
  BY Alone DEF Outer, Mapped, Active
<1>2. PICK i \in Nat \ {0} : i = Top.i
  BY <1>1 DEF Frame, FrameOK
<1>3. PICK f : f = [Top EXCEPT !.pc = "maps", !.i = i + 1]
  OBVIOUS
<1>4. f.node = n /\ f.at = num_blocks + 1 /\ f.pc = "maps" /\ f.i = i + 1 /\ f.next = num_blocks + 2
  BY <1>1, <1>2, <1>3, FrameMoves
<1>5. PICK a, q : a = slots[num_blocks + 1] /\ q = ret
  OBVIOUS
<1>6. PICK r : r = iort[n].maps[i].output_reference
  OBVIOUS
<1>7. Home(q, r)
  BY <1>1, <1>2, <1>5, <1>6 DEF Ref
<1>8. /\ Begun(a, n) /\ Flagged(a, n) /\ MappedTo(a, n, i - 1) /\ Len(a.data_map) = i /\ i <= Copies(n)
      /\ SameRange(a.data_map[i], iort[n].maps[i])
  BY <1>1, <1>2, <1>5 DEF Block1
<1>9. iort[n].type \in Types /\ iort[n].type # Its /\ i \in 1 .. Len(iort[n].maps)
  BY <1>1, <1>2, <1>8 DEF FrameOK, Copies
<1>10. r \in 1 .. Len(iort) /\ iort[r].id \in Nat
  BY <1>6, <1>9, NodeTypes, References DEF Here
<1>11. BaseBehind(q) = BaseOf(r)
  BY <1>7 DEF BaseBehind, BaseOf, Home, Here, Core
<1>12. PICK base \in Nat : base = IF iort[n].type = Rc THEN BaseOf(r) ELSE a.smmu_base
  BY <1>8, <1>10 DEF BaseOf, None, Begun, BlockType
<1>13. PICK b : b = Linked(a, i, q, base)
  OBVIOUS
<1>14. /\ stack' = SetTop(f) /\ iort' = iort /\ num_blocks' = num_blocks
       /\ UNCHANGED <<next_node, next_block, checked>> /\ ret' = ret
  BY <1>1, <1>2, <1>3 DEF Mapped
<1>15. slots' = Put(num_blocks + 1, b)
  <2>1. a.type = iort[n].type /\ a \in BlockType
    BY <1>8 DEF Begun
  <2>2. slots' = Put(Top.at, [Block EXCEPT !.data_map[Top.i].output_ref = ret,
                                           !.smmu_base = IF Block.type = Rc THEN BaseBehind(ret) ELSE @])
    BY DEF Mapped
  <2>3. Block = a
    BY <1>1, <1>5 DEF Block
  <2>4. slots' = Put(num_blocks + 1, [a EXCEPT !.data_map[i].output_ref = q,
                                           !.smmu_base = IF a.type = Rc THEN BaseBehind(q) ELSE @])
    BY <1>1, <1>2, <1>5, <2>2, <2>3
  <2>5. [a EXCEPT !.data_map[i].output_ref = q, !.smmu_base = IF a.type = Rc THEN BaseBehind(q) ELSE @] = b
    <3>1. CASE iort[n].type = Rc
      BY <1>11, <1>12, <1>13, <2>1, <3>1 DEF Linked
    <3>2. CASE iort[n].type # Rc
      BY <1>12, <1>13, <2>1, <3>2 DEF BlockType, Linked
    <3> QED
      BY <3>1, <3>2
  <2> QED
    BY <2>4, <2>5
<1>16. Same /\ num_blocks + 1 \in DOMAIN slots' /\ slots'[num_blocks + 1] = b
  BY <1>14, <1>15, Behind
<1>17. /\ b \in BlockType /\ b.type = a.type /\ b.id = a.id /\ b.num_data_map = a.num_data_map
       /\ b.smmu_base = base /\ b.node_ref = a.node_ref /\ b.flags = a.flags
       /\ Len(b.data_map) = Len(a.data_map)
       /\ \A j \in 1 .. Len(a.data_map) : j # i => b.data_map[j] = a.data_map[j]
       /\ b.data_map[i].output_ref = q /\ b.data_map[i].input_base = a.data_map[i].input_base
       /\ b.data_map[i].id_count = a.data_map[i].id_count
       /\ b.data_map[i].output_base = a.data_map[i].output_base
  <2>1. a \in BlockType /\ i \in 1 .. Len(a.data_map) /\ q \in Int
    BY <1>2, <1>7, <1>8 DEF Begun, Home
  <2> QED
    BY <1>13, <2>1, Referred
<1>18. Block1(b, f, n)
  <2>1. Begun(b, n) /\ Flagged(b, n)
    BY <1>8, <1>17 DEF Begun, Flagged
  <2>2. \A j \in 1 .. i - 1 : b.data_map[j] = a.data_map[j]
    BY <1>8, <1>17
  <2>3. \A j \in 1 .. i - 1 : MapRight(b, n, j)
    BY <1>8, <2>2 DEF MappedTo, MapRight
  <2>4. MapRight(b, n, i)
    BY <1>6, <1>7, <1>8, <1>17 DEF MapRight, SameRange
  <2>5. Based(b, n, i)
    <3>1. iort[n].type # Rc => a.smmu_base = None
      BY <1>8 DEF MappedTo, Based
    <3> QED
      BY <1>2, <1>6, <1>12, <1>17, <3>1 DEF Based
  <2>6. \A j \in 1 .. i : j \in 1 .. i - 1 \/ j = i
    BY <1>2
  <2>7. MappedTo(b, n, i)
    BY <2>3, <2>4, <2>5, <2>6 DEF MappedTo
  <2>8. f.i - 1 = i
    BY <1>2, <1>4
  <2> QED
    BY <1>4, <1>8, <1>17, <2>1, <2>7, <2>8 DEF Block1
<1>19. Len(stack') = 1 /\ f = stack'[1]
  BY <1>1, <1>14
<1> QED
  BY <1>4, <1>14, <1>16, <1>18, <1>19, StaysOuter

LEMMA OuterAdded ==
  ASSUME AllOrdered, FrameInv, NEW n, Here(n), Adding(n), Len(stack) = 1, Added
  PROVE  OrderInv'
<1>1. /\ Top \in Frame /\ Top.at = num_blocks + 1 /\ Top.node = n /\ stack # <<>> /\ Top.pc = "maps"
      /\ Top.next = num_blocks + 2 /\ num_blocks + 1 \in DOMAIN slots
      /\ Block1(slots[num_blocks + 1], Top, n) /\ FrameOK(Top)
  BY Alone DEF Outer, Added, Active
<1>2. PICK i \in Nat \ {0} : i = Top.i
  BY <1>1 DEF Frame, FrameOK
<1>3. /\ iort[n].type \in Types
      /\ Begun(slots[num_blocks + 1], n) /\ Flagged(slots[num_blocks + 1], n)
      /\ MappedTo(slots[num_blocks + 1], n, i - 1)
      /\ Len(slots[num_blocks + 1].data_map) = i - 1 /\ i - 1 <= Copies(n)
  BY <1>1, <1>2 DEF FrameOK, Block1
<1>4. /\ iort[n].type = Its \/ i > Len(iort[n].maps)
      /\ stack' = <<>> /\ next_block' = num_blocks + 2 /\ num_blocks' = num_blocks + 1
      /\ UNCHANGED <<iort, next_node, slots, checked>>
  BY <1>1, <1>2 DEF Added, Node, Return
<1>5. i - 1 = Copies(n)
  <2>1. Len(iort[n].maps) \in Nat
    BY NodeTypes DEF Here
  <2> QED
    BY <1>2, <1>3, <1>4, <2>1 DEF Copies
<1>6. Done(slots[num_blocks + 1], n)
  BY <1>3, <1>5 DEF Done
<1>7. PICK c : c = n - 1 /\ c + 1 = n
  BY DEF Here
<1>8. Core(c + 1)'
  BY <1>1, <1>3, <1>4, <1>6, <1>7, CoreGrows DEF Here
<1>9. c + 1 = next_node' - 1
  BY <1>4, <1>7 DEF Here
<1>10. Core(next_node - 1)'
  BY <1>8, <1>9
<1>11. num_blocks + 2 = num_blocks + 1 + 1 /\ num_blocks + 1 \in Nat
  BY DEF Here
<1> QED
  BY <1>4, <1>10, <1>11 DEF OrderInv, Here

\* The node referred to comes before node n and is found.
LEMMA RefLeaf ==
  ASSUME AllOrdered, FrameInv, NEW n, Here(n), Outer(stack[1], n), stack # <<>>,
         stack[1].pc \in {"pmcg", "mapped"}
  PROVE  Ref(stack[1], n) \in 1 .. n - 1 /\ Leaf(Ref(stack[1], n))
<1>1. PICK f : f = stack[1]
  OBVIOUS
<1>2. f \in Frame /\ FrameOK(f)
  BY <1>1 DEF FrameInv, Frames, Here
<1>3. PICK b : b = slots[f.at]
  OBVIOUS
<1>4. f.node = n /\ Block1(b, f, n)
  BY <1>1, <1>3 DEF Outer
<1>5. CASE f.pc = "pmcg"
  <2>1. iort[n].type = Pmcg /\ Pmcg \in Types
    BY <1>4, <1>5 DEF Block1, Types
  <2> QED
    BY <1>1, <1>5, <2>1, OrderOf DEF Ref, Here
<1>6. CASE f.pc = "mapped"
  <2>1. f.i <= Copies(n) /\ iort[n].type \in Types /\ f.i \in Nat \ {0}
    BY <1>2, <1>4, <1>6 DEF Block1, FrameOK, Frame
  <2>2. iort[n].type # Its /\ f.i \in 1 .. Len(iort[n].maps)
    <3>1. Len(iort[n].maps) \in Nat
      BY NodeTypes DEF Here
    <3> QED
      BY <2>1, <3>1 DEF Copies
  <2>3. iort[n].maps[f.i].output_reference \in 1 .. n - 1 /\ Leaf(iort[n].maps[f.i].output_reference)
    BY <2>1, <2>2, OrderOf DEF Here
  <2>4. Ref(f, n) = iort[n].maps[f.i].output_reference
    BY <1>6 DEF Ref
  <2> QED
    BY <1>1, <2>3, <2>4
<1> QED
  BY <1>1, <1>5, <1>6

LEMMA Second ==
  ASSUME AllOrdered, FrameInv, NEW n, Here(n), Adding(n), Len(stack) = 2
  PROVE  /\ Top = stack[2] /\ Top \in Frame /\ stack[1] \in Frame /\ stack # <<>>
         /\ Outer(stack[1], n) /\ Inner(Top, stack[1], n)
         /\ Top.node \in 1 .. n - 1 /\ Leaf(Top.node)
         /\ \A x : Len(SetTop(x)) = 2 /\ SetTop(x)[1] = stack[1] /\ SetTop(x)[2] = x
<1>1. Top = stack[2] /\ stack \in Seq(Frame)
  BY DEF Top, Here
<1>2. Outer(stack[1], n) /\ Inner(Top, stack[1], n)
  BY <1>1 DEF Adding
<1>3. Top \in Frame /\ stack[1] \in Frame /\ stack # <<>>
  BY <1>1
<1>4. Top.node = Ref(stack[1], n) /\ stack[1].pc \in {"pmcg", "mapped"}
  BY <1>2 DEF Inner
<1>5. Top.node \in 1 .. n - 1 /\ Leaf(Top.node)
  BY <1>2, <1>3, <1>4, RefLeaf
<1>6. \A x : Len(SetTop(x)) = 2 /\ SetTop(x)[1] = stack[1] /\ SetTop(x)[2] = x
  BY <1>1 DEF SetTop
<1> QED
  BY <1>1, <1>2, <1>3, <1>5, <1>6

LEMMA InnerFill ==
  ASSUME AllOrdered, FrameInv, NEW n, Here(n), Adding(n), Len(stack) = 2, Fill
  PROVE  OrderInv'
<1>1. PICK f : f = stack[1]
  OBVIOUS
<1>2. /\ Top \in Frame /\ f \in Frame /\ stack # <<>> /\ Outer(f, n) /\ Inner(Top, f, n)
      /\ \A x : Len(SetTop(x)) = 2 /\ SetTop(x)[1] = f /\ SetTop(x)[2] = x
  BY <1>1, Second
<1>3. PICK g : g = [Top EXCEPT !.pc = "find"]
  OBVIOUS
<1>4. PICK b, a : b = slots[f.at] /\ a = Filled(iort[Top.node])
  OBVIOUS
<1>5. /\ f.pc \in {"pmcg", "mapped"} /\ f.node = n /\ f.at = num_blocks + 1 /\ f.next = num_blocks + 2
      /\ f.at \in DOMAIN slots /\ Block1(b, f, n) /\ Top.node = Ref(f, n) /\ Top.at = num_blocks + 2
  BY <1>2, <1>4 DEF Outer, Inner
<1>6. /\ stack' = SetTop(g) /\ slots' = Put(num_blocks + 2, a) /\ iort' = iort
      /\ num_blocks' = num_blocks /\ UNCHANGED <<next_node, next_block, checked>>
  BY <1>3, <1>4, <1>5 DEF Fill, Node
<1>7. Same /\ num_blocks + 2 \in DOMAIN slots' /\ slots'[num_blocks + 2] = a
  BY <1>6, Behind
<1>8. f.at \in DOMAIN slots' /\ slots'[f.at] = b
  <2>1. num_blocks + 1 # num_blocks + 2
    BY DEF Here
  <2> QED
    BY <1>4, <1>5, <1>6, <2>1 DEF Put
<1>9. g.node = Ref(f, n) /\ g.at = num_blocks + 2 /\ g.pc = "find" /\ g.node = Top.node
  BY <1>2, <1>3, <1>5, FrameMoves
<1>10. Len(stack') = 2 /\ f = stack'[1] /\ g = stack'[2]
  BY <1>2, <1>6
<1>11. g.at \in DOMAIN slots' /\ slots'[g.at] = Filled(iort[g.node])
  BY <1>4, <1>7, <1>9
<1> QED
  BY <1>5, <1>6, <1>7, <1>8, <1>9, <1>10, <1>11, StaysInner

LEMMA InnerFound ==
  ASSUME AllOrdered, FrameInv, NEW n, Here(n), Adding(n), Len(stack) = 2, Found
  PROVE  OrderInv'
<1>1. PICK f : f = stack[1]
  OBVIOUS
<1>2. /\ f \in Frame /\ stack # <<>> /\ Outer(f, n) /\ Inner(Top, f, n)
      /\ Top.node \in 1 .. n - 1 /\ Leaf(Top.node) /\ Top.pc = "find"
  BY <1>1, Second DEF Found, Active
<1>3. PICK h : h = [f EXCEPT !.next = num_blocks + 2]
  OBVIOUS
<1>4. PICK b : b = slots[f.at]
  OBVIOUS
<1>5. /\ f.pc \in {"pmcg", "mapped"} /\ f.node = n /\ f.at = num_blocks + 1
      /\ f.at \in DOMAIN slots /\ Block1(b, f, n) /\ Top.node = Ref(f, n) /\ Top.at = num_blocks + 2
      /\ slots[Top.at] = Filled(iort[Top.node])
  BY <1>2, <1>4 DEF Outer, Inner
<1>6. h.node = n /\ h.at = num_blocks + 1 /\ h.pc = f.pc /\ h.i = f.i /\ h.next = num_blocks + 2
  BY <1>2, <1>3, <1>5, FrameMoves
<1>7. PICK q : q = FindBlock(Filled(iort[Top.node]))
  OBVIOUS
<1>8. Home(q, Top.node)
  <2>1. PICK c, r : c = n - 1 /\ r = Top.node
    OBVIOUS
  <2>2. Core(c) /\ r \in 1 .. c /\ Leaf(r)
    BY <1>2, <2>1 DEF Here
  <2> QED
    BY <1>7, <2>1, <2>2, LeafFound
<1>9. /\ ret' = q /\ UNCHANGED <<iort, next_node, next_block, slots, num_blocks, checked>>
      /\ stack' = [Pop EXCEPT ![1].next = num_blocks + 2]
  <2>1. Len(stack) # 1 /\ Len(stack) - 1 = 1
    OBVIOUS
  <2> QED
    BY <1>5, <1>7, <2>1 DEF Found, Block, Return
<1>10. Len(Pop) = 1 /\ Pop[1] = f /\ DOMAIN Pop = 1 .. 1
  <2>1. stack \in Seq(Frame) /\ Len(stack) - 1 = 1
    BY DEF Here
  <2>2. Pop = SubSeq(stack, 1, 1)
    BY <2>1 DEF Pop
  <2>3. \A k \in 1 .. 1 : stack[k] \in Frame
    BY <1>1, <1>2
  <2>4. /\ SubSeq(stack, 1, 1) \in Seq(Frame) /\ Len(SubSeq(stack, 1, 1)) = 1
        /\ SubSeq(stack, 1, 1)[1] = stack[1]
    BY <2>3, SubSeqProperties
  <2> QED
    BY <1>1, <2>2, <2>4
<1>11. Len(stack') = 1 /\ h = stack'[1]
  <2>1. stack' = [k \in 1 .. 1 |-> IF k = 1 THEN [Pop[1] EXCEPT !.next = num_blocks + 2] ELSE Pop[k]]
    BY <1>9, <1>10
  <2>2. stack' = [k \in 1 .. 1 |-> h]
    BY <1>3, <1>10, <2>1
  <2> QED
    BY <2>2
<1>12. Same
  BY <1>9 DEF Same, Here, Core
<1>13. Block1(b, h, n) /\ Ref(h, n) = Ref(f, n)
  BY <1>5, <1>6 DEF Block1, Ref
<1>14. h.at \in DOMAIN slots' /\ b = slots'[h.at]
  BY <1>4, <1>5, <1>6, <1>9
<1> QED
  BY <1>5, <1>6, <1>8, <1>9, <1>11, <1>12, <1>13, <1>14, StaysOuter

\* The recursion goes no deeper.
LEMMA InnerOnly ==
  ASSUME AllOrdered, FrameInv, NEW n, Here(n), Adding(n), Len(stack) = 2, AddBlock
  PROVE  Fill \/ Found
<1>1. PICK f, g : f = stack[1] /\ g = Top
  OBVIOUS
<1>2. Inner(g, f, n) /\ g.node \in 1 .. n - 1 /\ Leaf(g.node)
  BY <1>1, Second
<1>3. /\ g.pc \in {"fill", "find"} /\ iort[g.node].type \in Types /\ iort[g.node].type # Pmcg
      /\ g.pc = "find" => slots[g.at] = Filled(iort[g.node])
  BY <1>2, LeafTypes DEF Inner
<1>4. ~FillInvalid /\ ~FillPmcg /\ ~PmcgAdded /\ ~AddMapped /\ ~Mapped /\ ~Added
  BY <1>1, <1>3 DEF FillInvalid, FillPmcg, PmcgAdded, AddMapped, Mapped, Added, Active, Node
<1>5. ~NotFound
  <2> SUFFICES ASSUME NotFound PROVE FALSE
    OBVIOUS
  <2>1. FindBlock(Filled(iort[g.node])) = None
    BY <1>1, <1>3 DEF NotFound, Active, Block
  <2>2. PICK c, r : c = n - 1 /\ r = g.node
    OBVIOUS
  <2>3. Core(c) /\ r \in 1 .. c /\ Leaf(r)
    BY <1>2, <2>2 DEF Here
  <2>4. FindBlock(Filled(iort[r])) \in 1 .. num_blocks
    BY <2>3, LeafFound
  <2> QED
    BY <2>1, <2>2, <2>4 DEF None, Here
<1> QED
  BY <1>4, <1>5 DEF AddBlock

LEMMA AddBlockOrder ==
  ASSUME AllOrdered, FrameInv, OrderInv, AddBlock
  PROVE  OrderInv'
<1>1. stack # <<>>
  BY DEF AddBlock, FillInvalid, Fill, FillPmcg, PmcgAdded, Found, NotFound, AddMapped, Mapped, Added, Active
<1>2. PICK n : Here(n) /\ Adding(n)
  BY <1>1, HereIs
<1>3. CASE Len(stack) = 1
  BY <1>2, <1>3, OuterFillInvalid, OuterFill, OuterFillPmcg, OuterPmcgAdded, OuterFound, OuterNotFound,
     OuterAddMapped, OuterMapped, OuterAdded DEF AddBlock
<1>4. CASE Len(stack) = 2
  BY <1>2, <1>4, InnerOnly, InnerFill, InnerFound
<1> QED
  BY <1>2, <1>3, <1>4 DEF Adding

LEMMA AddNodeOrder ==
  ASSUME FrameInv, OrderInv, AddNode
  PROVE  OrderInv'
<1>1. PICK n : n = next_node
  OBVIOUS
<1>2. /\ n \in 1 .. Len(iort) /\ next_node' = n + 1 /\ stack' = <<Call(n, num_blocks + 1)>>
      /\ UNCHANGED <<iort, next_block, slots, num_blocks, count, ret, checked>>
      /\ stack = <<>> /\ Core(n - 1) /\ num_blocks \in Nat /\ ~checked
  BY <1>1 DEF AddNode, OrderInv, FrameInv
<1>3. Same
  BY <1>2 DEF Same, Core
<1>4. PICK c : c = n - 1 /\ c = n + 1 - 2 /\ n = n + 1 - 1
  BY <1>2
<1>5. Core(c)'
  BY <1>2, <1>3, <1>4, CoreSame
<1>6. Len(stack') = 1 /\ stack'[1] = Call(n, num_blocks + 1) /\ stack' # <<>>
  BY <1>2
<1>7. Adding(n)'
  BY <1>2, <1>6, CallFacts DEF Adding, Outer
<1>8. Core(next_node - 2)' /\ Adding(next_node - 1)'
  BY <1>2, <1>4, <1>5, <1>7
<1> QED
  BY <1>2, <1>6, <1>8 DEF OrderInv

\* What the overlap check leaves of a block: everything but the two overlap flags.
Checks(b, c) ==
  /\ c \in BlockType /\ \A x \in Flags : x = "ctx" => (x \in c.flags <=> x \in b.flags)
  /\ c.type = b.type /\ c.id = b.id /\ c.num_data_map = b.num_data_map /\ c.smmu_base = b.smmu_base
  /\ c.node_ref = b.node_ref /\ c.data_map = b.data_map

LEMMA CheckKeeps ==
  ASSUME OrderInv, CheckMappingOverlap
  PROVE  /\ \A p \in 1 .. num_blocks : slots[p] \in BlockType /\ Checks(slots[p], slots'[p])
         /\ DOMAIN slots' = DOMAIN slots
<1>1. /\ stack = <<>> /\ Core(next_node - 1) /\ num_blocks \in Nat
  BY DEF OrderInv, CheckMappingOverlap, Built
<1>2. PICK spill \in [1 .. num_blocks -> SUBSET {"devid", "strid"}] :
        slots' = [p \in DOMAIN slots |->
            IF p > num_blocks THEN slots[p]
            ELSE [slots[p] EXCEPT !.flags = @ \cup spill[p] \cup Marks(p)]]
  BY DEF CheckMappingOverlap
<1>3. \A p : Marks(p) \subseteq {"devid", "strid"}
  BY DEF Marks
<1>4. ASSUME NEW p \in 1 .. num_blocks PROVE slots[p] \in BlockType /\ Checks(slots[p], slots'[p])
  <2>1. p \in DOMAIN slots /\ ~(p > num_blocks) /\ slots[p] \in BlockType
    <3>1. 1 .. num_blocks \subseteq DOMAIN slots
      BY <1>1 DEF Core
    <3>2. PICK n : Done(slots[p], n)
      BY <1>1 DEF Core
    <3>3. slots[p] \in BlockType
      BY <3>2 DEF Done, Begun
    <3>4. ~(p > num_blocks)
      BY <1>1
    <3> QED
      BY <3>1, <3>3, <3>4
  <2>2. PICK X : X = slots[p].flags \cup spill[p] \cup Marks(p)
    OBVIOUS
  <2>3. slots'[p] = [slots[p] EXCEPT !.flags = X]
    BY <1>2, <2>1, <2>2
  <2>4. Marks(p) \subseteq {"devid", "strid"} /\ spill[p] \subseteq {"devid", "strid"}
    BY <1>2, <1>3
  <2>5. slots[p].flags \subseteq Flags
    BY <2>1 DEF BlockType
  <2>6. X \subseteq Flags /\ \A x \in Flags : x = "ctx" => (x \in X <=> x \in slots[p].flags)
    BY <2>2, <2>4, <2>5 DEF Flags
  <2>7. PICK c : c = slots[p]
    OBVIOUS
  <2>8. PICK d : d = [c EXCEPT !.flags = X]
    OBVIOUS
  <2>9. /\ d \in BlockType /\ d.flags = X /\ d.type = c.type /\ d.id = c.id /\ d.num_data_map = c.num_data_map
        /\ d.smmu_base = c.smmu_base /\ d.node_ref = c.node_ref /\ d.data_map = c.data_map
    BY <2>1, <2>6, <2>7, <2>8 DEF BlockType
  <2> QED
    BY <2>1, <2>3, <2>6, <2>7, <2>8, <2>9 DEF Checks
<1> QED
  BY <1>2, <1>4

LEMMA CheckOrder ==
  ASSUME FrameInv, OrderInv, CheckMappingOverlap
  PROVE  OrderInv'
<1>1. /\ stack = <<>> /\ Core(next_node - 1) /\ num_blocks \in Nat /\ next_node > Len(iort)
      /\ UNCHANGED <<iort, next_node, next_block, stack, num_blocks>>
  BY DEF OrderInv, CheckMappingOverlap, Built
<1>2. \A p \in 1 .. num_blocks : Checks(slots[p], slots'[p])
  BY CheckKeeps
<1>3. Alike
  BY <1>1, <1>2 DEF Alike, Checks
<1>4. PICK c : c = next_node - 1
  OBVIOUS
<1>5. Known(c)' = Known(c)
  BY <1>1 DEF Known
<1>6. \A b, d, n : Checks(b, d) /\ Done(b, n) => Done(d, n)'
  <2>1. ASSUME NEW b, NEW d, NEW n, Checks(b, d), Done(b, n) PROVE Done(d, n)
    <3>1. "ctx" \in d.flags <=> "ctx" \in b.flags
      BY <2>1 DEF Checks, Flags
    <3>2. Begun(d, n) /\ Flagged(d, n)
      BY <2>1, <3>1 DEF Done, Begun, Flagged, Checks
    <3>3. MappedTo(d, n, Copies(n)) /\ Len(d.data_map) = Copies(n)
      BY <2>1 DEF Done, MappedTo, MapRight, Based, Checks
    <3> QED
      BY <3>2, <3>3 DEF Done
  <2> QED
    BY <1>3, <2>1, HomeSame
<1>7. \A p \in 1 .. num_blocks : \E n \in Known(c) : Done(slots[p], n)'
  BY <1>1, <1>2, <1>4, <1>6 DEF Core
<1>8. \A n \in Known(c) : \E p \in 1 .. num_blocks : Done(slots[p], n)'
  BY <1>1, <1>2, <1>4, <1>6 DEF Core
<1>9. Apart'
  BY <1>1, <1>3 DEF Core, Apart, Alike
<1>10. Core(c)'
  BY <1>1, <1>4, <1>5, <1>7, <1>8, <1>9, CheckKeeps DEF Core
<1>11. Core(next_node - 1)'
  BY <1>1, <1>4, <1>10
<1> QED
  BY <1>1, <1>11 DEF OrderInv

LEMMA OrderInit ==
  ASSUME Init
  PROVE  OrderInv
<1>1. iort \in Tables /\ next_node = 1 /\ next_block = 1 /\ stack = <<>> /\ num_blocks = 0 /\ ~checked
  BY DEF Init
<1>2. Len(iort) \in Nat
  BY <1>1, IovirtAssumption
<1>3. Known(0) = {} /\ 1 .. 0 = {} /\ Cardinality({}) = 0
  BY FS_EmptySet DEF Known
<1>4. Core(0)
  BY <1>1, <1>2, <1>3 DEF Core, Apart
<1> QED
  BY <1>1, <1>4 DEF OrderInv

\* A table that ends before its nodes do has no block to add for the rest.
LEMMA BadOrder ==
  ASSUME FrameInv, OrderInv, BadTable
  PROVE  OrderInv' /\ ~checked'
<1>1. PICK c, l \in Nat : c = next_node - 1 /\ l = Len(iort) /\ DOMAIN iort = 1 .. l
  <2>1. iort \in Seq(IortNode) /\ next_node \in Nat \ {0}
    BY IovirtAssumption DEF FrameInv
  <2> QED
    BY <2>1
<1>2. /\ stack = <<>> /\ Core(c) /\ iort[c + 1].type = PastEnd /\ c + 1 \in 1 .. l
      /\ next_node' = l + 1 /\ num_blocks \in Nat /\ next_block = num_blocks + 1
      /\ UNCHANGED <<iort, next_block, stack, slots, num_blocks, checked>> /\ ~checked
  BY <1>1 DEF BadTable, OrderInv, FrameInv
<1>3. ASSUME NEW n \in 1 .. l, n > c PROVE iort[n].type \notin Types
  <2>1. WellFormed(iort)
    BY IovirtAssumption DEF FrameInv
  <2>2. n = c + 1 \/ c + 1 < n
    BY <1>3
  <2>3. iort[n].type = PastEnd
    BY <1>1, <1>2, <2>1, <2>2 DEF WellFormed
  <2> QED
    BY <2>3 DEF PastEnd, Types, Its, Named, Rc, Smmu, Smmu3, Pmcg
<1>4. Known(l) = Known(c)
  BY <1>2, <1>3 DEF Known
<1>5. Core(l)
  BY <1>1, <1>2, <1>4 DEF Core
<1>6. Same
  BY <1>2, <1>5 DEF Same, Core
<1>7. Core(l)'
  BY <1>5, <1>6, CoreSame
<1>8. next_node' - 1 = l
  BY <1>2
<1>9. Core(next_node - 1)'
  BY <1>1, <1>7, <1>8
<1> QED
  BY <1>2, <1>9 DEF OrderInv

LEMMA OrderNext ==
  ASSUME AllOrdered, FrameInv, OrderInv, [Next]_vars
  PROVE  OrderInv'
<1>1. CASE UNCHANGED vars
  <2>1. iort' = iort /\ slots' = slots /\ num_blocks' = num_blocks /\ stack' = stack /\ ret' = ret
        /\ next_node' = next_node /\ next_block' = next_block /\ checked' = checked
    BY <1>1 DEF vars
  <2>2. stack = <<>> => Same
    BY <2>1 DEF OrderInv, Same, Core
  <2>3. stack # <<>> => Same
    BY <2>1 DEF OrderInv, Same, Core
  <2>4. PICK c, d, n : c = next_node - 1 /\ d = next_node - 2 /\ n = next_node - 1
    OBVIOUS
  <2>5. (Core(c) => Core(c)') /\ (Core(d) => Core(d)')
    BY <2>2, <2>3, CoreSame
  <2>6. Adding(n)' <=> Adding(n)
    BY <2>1, <2>2, <2>3, BlockSame, HomeSame DEF Adding, Outer, Inner, Same, Filled, Alike
  <2> QED
    BY <2>1, <2>4, <2>5, <2>6 DEF OrderInv
<1> QED
  BY <1>1, AddNodeOrder, BadOrder, AddBlockOrder, CheckOrder DEF Next

\* Whatever table is built from nodes in order, at every step.
LEMMA OrderHolds ==
  ASSUME AllOrdered
  PROVE  Spec => [](IInv /\ OrderInv)
<1>1. Init => IInv /\ OrderInv
  BY InitIInv, OrderInit
<1>2. IInv /\ OrderInv /\ [Next]_vars => (IInv /\ OrderInv)'
  BY OrderNext, NextFrameInv, NextCountInv DEF IInv
<1> QED
  BY <1>1, <1>2, PTL DEF Spec

LEMMA BuiltCore ==
  ASSUME IInv, OrderInv, Built
  PROVE  /\ Core(Len(iort)) /\ Known(Len(iort)) = Nodes /\ iort \in Tables /\ num_blocks \in Nat
         /\ DOMAIN iort = 1 .. Len(iort)
<1>1. iort \in Tables /\ next_node \in Nat /\ num_blocks \in Nat
  BY DEF IInv, FrameInv, CountInv
<1>2. PICK c : c = next_node - 1
  OBVIOUS
<1>3. Core(c) /\ next_node > Len(iort)
  BY <1>2 DEF OrderInv, Built
<1>4. iort \in Seq(IortNode)
  BY <1>1, IovirtAssumption
<1>5. DOMAIN iort = 1 .. Len(iort) /\ Len(iort) \in Nat
  BY <1>4
<1>6. c = Len(iort)
  BY <1>1, <1>2, <1>3, <1>5 DEF Core
<1> QED
  BY <1>1, <1>3, <1>5, <1>6 DEF Known, Nodes

\* As many different interrupts as there are, exactly when no two are the same.
LEMMA DistinctCount ==
  ASSUME NEW s \in Seq(Nat)
  PROVE  CtxIntDistinct(s) <=> Cardinality({s[i] : i \in DOMAIN s}) = Len(s)
<1>1. PICK k \in Nat : k = Len(s) /\ DOMAIN s = 1 .. k
  OBVIOUS
<1>2. PICK S : S = {s[i] : i \in 1 .. k}
  OBVIOUS
<1>3. s \in Surjection(1 .. k, S)
  <2>1. s \in [1 .. k -> S]
    BY <1>1, <1>2
  <2> QED
    BY <1>2, <2>1 DEF Surjection
<1>4. IsFiniteSet(1 .. k) /\ Cardinality(1 .. k) = k
  BY FS_Interval
<1>5. ASSUME CtxIntDistinct(s) PROVE Cardinality(S) = k
  <2>1. \A i, j \in 1 .. k : s[i] = s[j] => i = j
    BY <1>1, <1>5 DEF CtxIntDistinct
  <2>2. s \in Injection(1 .. k, S)
    BY <1>3, <2>1 DEF Injection, Surjection, IsInjective
  <2>3. s \in Bijection(1 .. k, S)
    BY <1>3, <2>2 DEF Bijection
  <2> QED
    BY <1>4, <2>3, FS_Bijection DEF ExistsBijection
<1>6. ASSUME Cardinality(S) = k PROVE CtxIntDistinct(s)
  <2>1. s \in Injection(1 .. k, S)
    BY <1>3, <1>4, <1>6, FS_SurjSameCardinalityImpliesInj
  <2> QED
    BY <1>1, <2>1 DEF Injection, IsInjective, CtxIntDistinct
<1> QED
  BY <1>1, <1>2, <1>5, <1>6

\* Every node of a table in order becomes exactly one counted block, and there is no
\* other: recursion into a node already added neither repeats nor overwrites it
\* (pal_iovirt.c:284-288, 336-343).
THEOREM OneBlockForEachNode ==
  ASSUME AllOrdered
  PROVE  Spec => []OneBlockPerNode
<1>1. IInv /\ OrderInv => OneBlockPerNode
  <2> SUFFICES ASSUME IInv, OrderInv, Built
               PROVE  /\ num_blocks = Cardinality(Nodes)
                      /\ \A n \in Nodes : \E p \in 1 .. num_blocks : Represents(p, n)
    BY DEF OneBlockPerNode
  <2>1. num_blocks = Cardinality(Nodes) /\ \A n \in Nodes : \E p \in 1 .. num_blocks : Done(slots[p], n)
    BY BuiltCore DEF Core
  <2> QED
    BY <2>1 DEF Done, Begun, Represents
<1> QED
  BY <1>1, OrderHolds, PTL

\* An RC behind SMMUs has the base of one of them, another one none.
LEMMA BaseOfRc ==
  ASSUME AllOrdered, iort \in Tables, NEW n \in 1 .. Len(iort), iort[n].type = Rc,
         NEW p, Done(slots[p], n)
  PROVE  slots[p].smmu_base \in (IF SmmusBehind(p) = {} THEN {None} ELSE SmmusBehind(p))
<1>1. PICK b : b = slots[p]
  OBVIOUS
<1>2. PICK l \in Nat : l = Len(iort[n].maps)
  BY NodeTypes
<1>3. Copies(n) = l /\ Rc \in Types /\ Rc # Its
  BY <1>2 DEF Copies, Rc, Its, Types
<1>4. b.type = Rc /\ b \in BlockType /\ Len(b.data_map) = l /\ Based(b, n, l) /\ \A j \in 1 .. l : MapRight(b, n, j)
  BY <1>1, <1>3 DEF Done, Begun, MappedTo
<1>5. b.data_map \in Seq(DataMap)
  BY <1>4 DEF BlockType
<1>6. MapsOf(p) = 1 .. l
  <2>1. DOMAIN b.data_map = 1 .. l
    BY <1>4, <1>5
  <2> QED
    BY <1>1, <1>3, <1>4, <2>1 DEF MapsOf
<1> DEFINE R(j) == iort[n].maps[j].output_reference
           S(j) == slots[b.data_map[j].output_ref]
<1>7. \A j \in 1 .. l : S(j).type = iort[R(j)].type /\ S(j).id = iort[R(j)].id
  BY <1>4 DEF MapRight, Home
<1>8. SmmusBehind(p) = {S(j).id : j \in {k \in 1 .. l : IsSmmu(S(k).type)}}
  BY <1>1, <1>6 DEF SmmusBehind
<1>9. \A j, k \in 1 .. l : IsSmmu(iort[R(j)].type) => IsSmmu(iort[R(k)].type)
  BY <1>2, <1>3, OrderOf
<1>10. CASE l = 0
  <2>1. b.smmu_base = None
    BY <1>4, <1>10 DEF Based
  <2>2. SmmusBehind(p) = {}
    <3> HIDE DEF S
    <3> QED
      BY <1>8, <1>10
  <2> QED
    BY <1>1, <2>1, <2>2
<1>11. CASE l > 0
  <2>1. b.smmu_base = BaseOf(R(l)) /\ l \in 1 .. l
    BY <1>2, <1>4, <1>11 DEF Based
  <2>2. CASE IsSmmu(iort[R(l)].type)
    <3>1. b.smmu_base = S(l).id /\ IsSmmu(S(l).type)
      BY <1>7, <2>1, <2>2 DEF BaseOf
    <3>2. b.smmu_base \in SmmusBehind(p)
      <4> HIDE DEF S, R
      <4> QED
        BY <1>8, <2>1, <3>1
    <3> QED
      BY <1>1, <3>2
  <2>3. CASE ~IsSmmu(iort[R(l)].type)
    <3>1. b.smmu_base = None
      BY <2>1, <2>3 DEF BaseOf
    <3>2. \A k \in 1 .. l : ~IsSmmu(S(k).type)
      BY <1>7, <1>9, <2>1, <2>3
    <3>3. SmmusBehind(p) = {}
      <4> HIDE DEF S, R
      <4> QED
        BY <1>8, <3>2
    <3> QED
      BY <1>1, <3>1, <3>3
  <2> QED
    BY <2>2, <2>3
<1> QED
  BY <1>2, <1>10, <1>11

\* Every mapping and every PMCG of a table in order refers to the counted block of the
\* node the IORT names, with the ranges of the IORT; context interrupts are reported
\* unique when they are, and a root complex has the base of an SMMU it is behind
\* (pal_iovirt.c:271-274, 282-293, 303-334).
THEOREM ReferencesResolved ==
  ASSUME AllOrdered
  PROVE  Spec => []Resolved
<1>1. IInv /\ OrderInv => Resolved
  <2> SUFFICES ASSUME IInv, OrderInv, Built, NEW p \in 1 .. num_blocks
               PROVE  \E n \in Nodes :
      /\ Represents(p, n)
      /\ slots[p].type = Pmcg => /\ slots[p].node_ref \in 1 .. num_blocks
                                 /\ Represents(slots[p].node_ref, iort[n].node_ref)
      /\ slots[p].type = Smmu =>
           (UniqueCtxIntid(p) <=> Cardinality({iort[n].ctx_int[i] : i \in DOMAIN iort[n].ctx_int})
                                  = Len(iort[n].ctx_int))
      /\ slots[p].type = Rc =>
           slots[p].smmu_base \in (IF SmmusBehind(p) = {} THEN {None} ELSE SmmusBehind(p))
      /\ slots[p].type # Its => Len(slots[p].data_map) = Len(iort[n].maps)
      /\ \A j \in MapsOf(p) :
           LET m == slots[p].data_map[j]  o == iort[n].maps[j] IN
           /\ m.output_ref \in 1 .. num_blocks
           /\ Represents(m.output_ref, o.output_reference)
           /\ m.input_base = o.input_base /\ m.id_count = o.id_count
           /\ m.output_base = o.output_base
    BY DEF Resolved
  <2>1. PICK n \in Nodes : Done(slots[p], n)
    BY BuiltCore DEF Core
  <2>2. iort \in Tables /\ n \in 1 .. Len(iort) /\ iort[n].type \in Types
    BY <2>1, BuiltCore DEF Nodes
  <2>3. slots[p] \in BlockType /\ slots[p].type = iort[n].type /\ slots[p].id = iort[n].id
    BY <2>1 DEF Done, Begun
  <2>4. Represents(p, n)
    BY <2>3 DEF Represents
  <2>5. slots[p].type = Pmcg => /\ slots[p].node_ref \in 1 .. num_blocks
                                /\ Represents(slots[p].node_ref, iort[n].node_ref)
    BY <2>1, <2>3 DEF Done, Begun, Home, Represents
  <2>6. slots[p].type = Smmu =>
          (UniqueCtxIntid(p) <=> Cardinality({iort[n].ctx_int[i] : i \in DOMAIN iort[n].ctx_int})
                                 = Len(iort[n].ctx_int))
    <3>1. iort[n].ctx_int \in Seq(Nat)
      BY <2>2, NodeTypes DEF IortNode
    <3>2. iort[n].type = Smmu => (UniqueCtxIntid(p) <=> CtxIntDistinct(iort[n].ctx_int))
      BY <2>1 DEF Done, Flagged, UniqueCtxIntid
    <3> QED
      BY <2>3, <3>1, <3>2, DistinctCount
  <2>7. slots[p].type = Rc =>
          slots[p].smmu_base \in (IF SmmusBehind(p) = {} THEN {None} ELSE SmmusBehind(p))
    BY <2>1, <2>2, <2>3, BaseOfRc
  <2>8. Len(slots[p].data_map) = Copies(n) /\ \A j \in 1 .. Copies(n) : MapRight(slots[p], n, j)
    BY <2>1 DEF Done, MappedTo
  <2>9. slots[p].type # Its => Len(slots[p].data_map) = Len(iort[n].maps)
    BY <2>3, <2>8 DEF Copies
  <2>10. MapsOf(p) \subseteq 1 .. Copies(n)
    <3>1. slots[p].data_map \in Seq(DataMap)
      BY <2>3 DEF BlockType
    <3>2. DOMAIN slots[p].data_map = 1 .. Copies(n)
      BY <2>8, <3>1
    <3> QED
      BY <3>2 DEF MapsOf
  <2>11. \A j \in MapsOf(p) :
           LET m == slots[p].data_map[j]  o == iort[n].maps[j] IN
           /\ m.output_ref \in 1 .. num_blocks
           /\ Represents(m.output_ref, o.output_reference)
           /\ m.input_base = o.input_base /\ m.id_count = o.id_count
           /\ m.output_base = o.output_base
    BY <2>8, <2>10 DEF MapRight, Home, Represents, SameRange
  <2> QED
    BY <2>4, <2>5, <2>6, <2>7, <2>9, <2>11
<1> QED
  BY <1>1, OrderHolds, PTL

-----------------------------------------------------------------------------
(***************************************************************************)
(* The overlap check on such a table.                                      *)
(***************************************************************************)
AllInSpace == \A t \in Tables : InSpace(t)
Fits(m) == m.output_base + m.id_count <= IdSpace

\* Two ranges that share an ID are seen to overlap when none wraps around.
LEMMA OverlapSeen ==
  ASSUME NEW k \in DataMap, NEW m \in DataMap, k.output_ref = m.output_ref,
         Fits(k), Fits(m), Outputs(k) \cap Outputs(m) # {}
  PROVE  Overlap(k, m)
<1>1. PICK a, b, c, d \in Nat : /\ a = k.output_base /\ b = k.id_count
                                /\ c = m.output_base /\ d = m.id_count
  BY DEF DataMap
<1>2. a + b <= IdSpace /\ c + d <= IdSpace /\ IdSpace \in Nat \ {0}
  BY <1>1, IovirtAssumption DEF Fits
<1>3. PICK x \in Int : a <= x /\ x <= a + b - 1 /\ c <= x /\ x <= c + d - 1
  BY <1>1 DEF Outputs
<1>4. \A y \in Nat : y < IdSpace => y % IdSpace = y
  BY <1>2
<1>5. a + b - 1 \in Nat /\ a + b - 1 < IdSpace /\ c + d - 1 \in Nat /\ c + d - 1 < IdSpace
  BY <1>2, <1>3
<1>6. First(k) = a /\ Last(k) = a + b - 1 /\ First(m) = c /\ Last(m) = c + d - 1
  BY <1>1, <1>4, <1>5 DEF First, Last
<1>7. \/ c <= a /\ a <= c + d - 1
      \/ c <= a + b - 1 /\ a + b - 1 <= c + d - 1
      \/ a < c /\ c + d - 1 < a + b - 1
  BY <1>1, <1>3
<1> QED
  BY <1>6, <1>7 DEF Overlap

\* A pair that overlaps marks both of its blocks.
LEMMA PairMarks ==
  ASSUME num_blocks \in Nat, NEW p \in 1 .. num_blocks, NEW q \in 1 .. num_blocks,
         NEW j \in MapsOf(p), NEW l \in MapsOf(q), q > p \/ (q = p /\ l > j),
         Overlap(slots[p].data_map[j], slots[q].data_map[l])
  PROVE  OverlapFlag(slots[p].data_map[j]) \in Marks(p) \cap Marks(q)
<1>1. PICK x : x = OverlapFlag(slots[p].data_map[j])
  OBVIOUS
<1>2. x \in {"devid", "strid"}
  BY <1>1 DEF OverlapFlag
<1>3. x \in PairFlags(p, q)
  BY <1>1 DEF PairFlags
<1>4. q \in p .. num_blocks /\ p \in 1 .. q
  OBVIOUS
<1>5. x \in Marks(p)
  BY <1>2, <1>3, <1>4 DEF Marks
<1>6. x \in Marks(q)
  BY <1>2, <1>3, <1>4 DEF Marks
<1> QED
  BY <1>1, <1>5, <1>6

\* The mappings of a counted block.
LEMMA MapsRight ==
  ASSUME AllOrdered, AllInSpace, IInv, OrderInv, stack = <<>>,
         NEW p \in 1 .. num_blocks, NEW j \in MapsOf(p)
  PROVE  /\ slots[p].data_map[j] \in DataMap /\ j \in Nat
         /\ slots[p].data_map[j].output_ref \in 1 .. num_blocks
         /\ Fits(slots[p].data_map[j])
<1>1. PICK c : c = next_node - 1
  OBVIOUS
<1>2. Core(c)
  BY <1>1 DEF OrderInv
<1>3. PICK n \in Known(c) : Done(slots[p], n)
  BY <1>2 DEF Core
<1>4. iort \in Tables /\ n \in 1 .. Len(iort) /\ Len(iort) \in Nat
  <2>1. iort \in Tables /\ c \in 0 .. Len(iort) /\ n \in 1 .. c
    BY <1>2, <1>3 DEF Core, Known
  <2>2. iort \in Seq(IortNode)
    BY <2>1, IovirtAssumption
  <2> QED
    BY <2>1, <2>2
<1>5. PICK b : b = slots[p]
  OBVIOUS
<1>6. b \in BlockType /\ b.type = iort[n].type /\ Len(b.data_map) = Copies(n)
      /\ \A i \in 1 .. Copies(n) : MapRight(b, n, i)
  BY <1>3, <1>5 DEF Done, Begun, MappedTo
<1>7. b.type # Its /\ j \in DOMAIN b.data_map
  BY <1>5 DEF MapsOf
<1>8. b.data_map \in Seq(DataMap)
  BY <1>6 DEF BlockType
<1>9. j \in 1 .. Copies(n) /\ b.data_map[j] \in DataMap
  BY <1>6, <1>7, <1>8
<1>10. MapRight(b, n, j)
  BY <1>6, <1>9
<1>11. j \in DOMAIN iort[n].maps /\ n \in DOMAIN iort /\ iort[n].type # Its
  <2>1. DOMAIN iort[n].maps = 1 .. Len(iort[n].maps)
    BY <1>4, NodeTypes
  <2>2. iort \in Seq(IortNode)
    BY <1>4, IovirtAssumption
  <2>3. n \in DOMAIN iort
    BY <1>4, <2>2
  <2> QED
    BY <1>6, <1>7, <1>9, <2>1, <2>3 DEF Copies
<1>12. iort[n].maps[j].output_base + iort[n].maps[j].id_count <= IdSpace
  BY <1>4, <1>11 DEF AllInSpace, InSpace
<1>13. Fits(b.data_map[j])
  BY <1>10, <1>12 DEF MapRight, SameRange, Fits
<1> QED
  BY <1>5, <1>9, <1>10, <1>13 DEF MapRight, Home

\* Two mappings to one block that share an ID, in either order, mark both blocks.
LEMMA SharedMarks ==
  ASSUME AllOrdered, AllInSpace, IInv, OrderInv, stack = <<>>,
         NEW p \in 1 .. num_blocks, NEW q \in 1 .. num_blocks,
         NEW j \in MapsOf(p), NEW l \in MapsOf(q), <<p, j>> # <<q, l>>,
         NEW k, k = slots[p].data_map[j], NEW m, m = slots[q].data_map[l],
         k.output_ref = m.output_ref, Outputs(k) \cap Outputs(m) # {}
  PROVE  OverlapFlag(k) \in Marks(p) \cap Marks(q)
<1>1. k \in DataMap /\ m \in DataMap /\ Fits(k) /\ Fits(m) /\ j \in Nat /\ l \in Nat
  BY MapsRight
<1>2. Outputs(m) \cap Outputs(k) # {} /\ m.output_ref = k.output_ref
  OBVIOUS
<1>3. Overlap(k, m) /\ Overlap(m, k)
  BY <1>1, <1>2, OverlapSeen
<1>4. OverlapFlag(m) = OverlapFlag(k)
  BY DEF OverlapFlag
<1>5. num_blocks \in Nat
  BY DEF IInv, CountInv
<1>6. \/ q > p \/ (q = p /\ l > j)
      \/ p > q \/ (p = q /\ j > l)
  BY <1>1, <1>5
<1>7. CASE q > p \/ (q = p /\ l > j)
  BY <1>3, <1>5, <1>7, PairMarks
<1>8. CASE p > q \/ (p = q /\ j > l)
  <2>1. OverlapFlag(m) \in Marks(q) \cap Marks(p)
    BY <1>3, <1>5, <1>8, PairMarks
  <2> QED
    BY <1>4, <2>1
<1> QED
  BY <1>6, <1>7, <1>8

LEMMA CheckMarks ==
  ASSUME OrderInv, CheckMappingOverlap, NEW p \in 1 .. num_blocks
  PROVE  Marks(p) \subseteq slots'[p].flags
<1>1. stack = <<>> /\ Core(next_node - 1) /\ num_blocks \in Nat
  BY DEF OrderInv, CheckMappingOverlap, Built
<1>2. PICK spill \in [1 .. num_blocks -> SUBSET {"devid", "strid"}] :
        slots' = [i \in DOMAIN slots |->
            IF i > num_blocks THEN slots[i]
            ELSE [slots[i] EXCEPT !.flags = @ \cup spill[i] \cup Marks(i)]]
  BY DEF CheckMappingOverlap
<1>3. p \in DOMAIN slots /\ ~(p > num_blocks)
  BY <1>1 DEF Core
<1>4. slots[p] \in BlockType
  BY <1>1 DEF Core, Done, Begun
<1>5. PICK X, c : X = slots[p].flags \cup spill[p] \cup Marks(p) /\ c = slots[p]
  OBVIOUS
<1>6. slots'[p] = [c EXCEPT !.flags = X]
  BY <1>2, <1>3, <1>5
<1>7. slots'[p].flags = X
  BY <1>4, <1>5, <1>6 DEF BlockType
<1> QED
  BY <1>5, <1>7

LEMMA CheckFlags ==
  ASSUME AllOrdered, AllInSpace, IInv, OrderInv, CheckMappingOverlap
  PROVE  OverlapFlagged'
<1>1. stack = <<>> /\ num_blocks' = num_blocks /\ num_blocks \in Nat
  BY DEF OrderInv, CheckMappingOverlap, Built
<1>2. \A p \in 1 .. num_blocks : Checks(slots[p], slots'[p])
  BY CheckKeeps
<1>3. ASSUME NEW p \in 1 .. num_blocks
      PROVE  MapsOf(p)' = MapsOf(p) /\ slots'[p].data_map = slots[p].data_map
             /\ slots'[p].type = slots[p].type
  BY <1>2 DEF Checks, MapsOf
<1>4. ASSUME NEW p \in 1 .. num_blocks, NEW q \in 1 .. num_blocks, NEW j \in MapsOf(p), NEW l \in MapsOf(q),
             NEW k, k = slots[p].data_map[j], NEW m, m = slots[q].data_map[l],
             <<p, j>> # <<q, l>>, k.output_ref = m.output_ref, Outputs(k) \cap Outputs(m) # {}
      PROVE  OverlapFlag(k)' \in slots'[p].flags \cap slots'[q].flags
  <2>1. OverlapFlag(k) \in Marks(p) \cap Marks(q)
    BY <1>1, <1>4, SharedMarks
  <2>2. k.output_ref \in 1 .. num_blocks
    BY <1>1, <1>4, MapsRight
  <2>3. slots'[k.output_ref].type = slots[k.output_ref].type
    BY <1>3, <2>2
  <2>4. OverlapFlag(k)' = OverlapFlag(k)
    BY <2>3 DEF OverlapFlag
  <2>5. Marks(p) \subseteq slots'[p].flags /\ Marks(q) \subseteq slots'[q].flags
    BY CheckMarks
  <2> QED
    BY <2>1, <2>4, <2>5
<1>5. \A p, q \in 1 .. num_blocks' : \A j \in MapsOf(p)', l \in MapsOf(q)' :
        LET k == slots'[p].data_map[j]  m == slots'[q].data_map[l] IN
        /\ <<p, j>> # <<q, l>>
        /\ k.output_ref = m.output_ref
        /\ Outputs(k) \cap Outputs(m) # {}
        => (IF slots'[k.output_ref].type = Its THEN "devid" ELSE "strid")
           \in slots'[p].flags \cap slots'[q].flags
  <2> SUFFICES ASSUME NEW p \in 1 .. num_blocks', NEW q \in 1 .. num_blocks', NEW j \in MapsOf(p)',
                      NEW l \in MapsOf(q)', NEW k, k = slots'[p].data_map[j], NEW m,
                      m = slots'[q].data_map[l], <<p, j>> # <<q, l>>, k.output_ref = m.output_ref,
                      Outputs(k) \cap Outputs(m) # {}
               PROVE  (IF slots'[k.output_ref].type = Its THEN "devid" ELSE "strid")
                      \in slots'[p].flags \cap slots'[q].flags
    OBVIOUS
  <2>1. p \in 1 .. num_blocks /\ q \in 1 .. num_blocks
    BY <1>1
  <2>2. j \in MapsOf(p) /\ l \in MapsOf(q) /\ k = slots[p].data_map[j] /\ m = slots[q].data_map[l]
    BY <1>3, <2>1
  <2>3. OverlapFlag(k)' \in slots'[p].flags \cap slots'[q].flags
    BY <1>4, <2>1, <2>2
  <2> QED
    BY <2>3 DEF OverlapFlag
<1> QED
  BY <1>5 DEF OverlapFlagged, OverlapFlag

\* Two mappings to one node that share an output ID leave the flag of that node's kind
\* on both their blocks, whatever lies behind the blocks, if no range of the table wraps
\* around (pal_iovirt.c:116-167).
THEOREM OverlapsAreFlagged ==
  ASSUME AllOrdered, AllInSpace
  PROVE  Spec => []OverlapFlagged
<1>1. Init => OverlapFlagged
  BY DEF Init, OverlapFlagged
<1>2. ASSUME IInv, OrderInv, OverlapFlagged, [Next]_vars PROVE OverlapFlagged'
  <2>1. CASE UNCHANGED vars
    BY <1>2, <2>1 DEF vars, OverlapFlagged, OverlapFlag, MapsOf
  <2>2. CASE CheckMappingOverlap
    BY <1>2, <2>2, CheckFlags
  <2>3. CASE AddNode
    <3>1. next_node \in Int /\ Len(iort) \in Int /\ next_node <= Len(iort) /\ checked' = checked
      <4>1. iort \in Seq(IortNode)
        BY <1>2, IovirtAssumption DEF IInv, FrameInv
      <4> QED
        BY <1>2, <2>3, <4>1 DEF AddNode, IInv, FrameInv
    <3>2. ~checked'
      BY <1>2, <3>1 DEF OrderInv
    <3> QED
      BY <3>2 DEF OverlapFlagged
  <2>4. CASE AddBlock
    <3>1. stack # <<>> /\ checked' = checked
      BY <2>4 DEF AddBlock, FillInvalid, Fill, FillPmcg, PmcgAdded, Found, NotFound, AddMapped, Mapped,
         Added, Active
    <3>2. ~checked'
      BY <1>2, <3>1 DEF OrderInv
    <3> QED
      BY <3>2 DEF OverlapFlagged
  <2>5. CASE BadTable
    BY <1>2, <2>5, BadOrder DEF OverlapFlagged, IInv
  <2> QED
    BY <1>2, <2>1, <2>2, <2>3, <2>4, <2>5 DEF Next
<1>3. OverlapFlagged /\ IInv /\ OrderInv /\ [Next]_vars => OverlapFlagged'
  BY <1>2
<1> QED
  BY <1>1, <1>3, OrderHolds, PTL DEF Spec

-----------------------------------------------------------------------------
(***************************************************************************)
(* The look-up of a requester ID in such a table.                          *)
(***************************************************************************)
AllApart == \A t \in Tables : InputsApart(t)
Ways(n, id) == {j \in DOMAIN iort[n].maps : InRange(iort[n].maps[j], id)}

\* The block of a node covers the IDs the node maps.
LEMMA CoveringIs ==
  ASSUME iort \in Tables, InputsFit(iort), NEW n \in 1 .. Len(iort), iort[n].type # Its,
         NEW p, Done(slots[p], n), NEW id \in Int
  PROVE  Covering(p, id) = Ways(n, id)
<1>1. PICK b : b = slots[p]
  OBVIOUS
<1>2. PICK l \in Nat : l = Len(iort[n].maps) /\ DOMAIN iort[n].maps = 1 .. l
  BY NodeTypes
<1>3. Copies(n) = l
  BY <1>2 DEF Copies
<1>4. b \in BlockType /\ b.type # Its /\ Len(b.data_map) = l /\ \A j \in 1 .. l : MapRight(b, n, j)
  BY <1>1, <1>3 DEF Done, Begun, MappedTo
<1>5. DOMAIN b.data_map = 1 .. l
  <2>1. b.data_map \in Seq(DataMap)
    BY <1>4 DEF BlockType
  <2> QED
    BY <1>4, <2>1
<1>6. MapsOf(p) = 1 .. l
  BY <1>1, <1>4, <1>5 DEF MapsOf
<1>7. ASSUME NEW j \in 1 .. l
      PROVE  (/\ b.data_map[j].input_base <= id
              /\ id <= (b.data_map[j].input_base + b.data_map[j].id_count) % IdSpace)
             <=> InRange(iort[n].maps[j], id)
  <2>1. SameRange(b.data_map[j], iort[n].maps[j])
    BY <1>4, <1>7 DEF MapRight
  <2>2. PICK x, y \in Nat : x = iort[n].maps[j].input_base /\ y = iort[n].maps[j].id_count
    <3>1. iort[n].maps[j] \in IortMap
      BY <1>2, <1>7, NodeTypes
    <3> QED
      BY <3>1 DEF IortMap
  <2>3. id \in x .. x + y <=> x <= id /\ id <= x + y
    OBVIOUS
  <2>4. x + y < IdSpace
    <3>1. n \in DOMAIN iort
      <4>1. iort \in Seq(IortNode)
        BY IovirtAssumption
      <4> QED
        BY <4>1
    <3> QED
      BY <1>2, <1>7, <2>2, <3>1 DEF InputsFit
  <2>5. (x + y) % IdSpace = x + y
    <3>1. PICK s \in Nat : s = x + y
      OBVIOUS
    <3>2. s % IdSpace = s
      BY <2>4, <3>1, IovirtAssumption
    <3> QED
      BY <3>1, <3>2
  <2>6. /\ b.data_map[j].input_base = x
        /\ (b.data_map[j].input_base + b.data_map[j].id_count) % IdSpace = x + y
    BY <2>1, <2>2, <2>5 DEF SameRange
  <2> QED
    BY <2>2, <2>3, <2>6 DEF InRange
<1> QED
  BY <1>1, <1>2, <1>6, <1>7 DEF Covering, Ways

\* The one block of a node.
LEMMA BlockOf ==
  ASSUME IInv, OrderInv, Built, NEW n \in Nodes
  PROVE  \E p \in 1 .. num_blocks : /\ Done(slots[p], n)
                                    /\ \A q \in 1 .. num_blocks : Represents(q, n) => q = p
<1>1. PICK p \in 1 .. num_blocks : Done(slots[p], n)
  BY BuiltCore DEF Core
<1>2. \A q \in 1 .. num_blocks : Represents(q, n) => q = p
  BY <1>1, BuiltCore DEF Core, Apart, Done, Begun, Represents
<1> QED
  BY <1>1, <1>2

\* A requester ID is mapped in one way at most.
LEMMA OneWay ==
  ASSUME AllApart, iort \in Tables, NEW n \in 1 .. Len(iort), iort[n].type = Rc, NEW id \in Int,
         NEW j \in Ways(n, id)
  PROVE  Ways(n, id) = {j}
<1>1. n \in DOMAIN iort
  <2>1. iort \in Seq(IortNode)
    BY IovirtAssumption
  <2> QED
    BY <2>1
<1>2. ASSUME NEW l \in Ways(n, id) PROVE l = j
  <2>1. j \in DOMAIN iort[n].maps /\ l \in DOMAIN iort[n].maps
    BY <1>2 DEF Ways
  <2>2. PICK o, u \in IortMap : o = iort[n].maps[j] /\ u = iort[n].maps[l]
    BY <2>1, NodeTypes
  <2>3. PICK a, b, c, d \in Nat : a = o.input_base /\ b = o.id_count /\ c = u.input_base /\ d = u.id_count
    BY DEF IortMap
  <2>4. a <= id /\ id <= a + b /\ c <= id /\ id <= c + d
    BY <1>2, <2>2, <2>3 DEF Ways, InRange
  <2>5. ~(a + b < c) /\ ~(c + d < a)
    BY <2>4
  <2>6. InputsApart(iort)
    BY DEF AllApart
  <2> QED
    BY <1>1, <2>1, <2>2, <2>3, <2>5, <2>6 DEF InputsApart
<1> QED
  BY <1>2

\* The highest and the lowest of one number.
LEMMA OnlyOne ==
  ASSUME NEW x \in Int
  PROVE  Highest({x}) = x /\ Lowest({x}) = x
BY DEF Highest, Lowest

LEMMA RcsOf ==
  ASSUME InputsFit(iort), IInv, OrderInv, Built, NEW n \in Nodes, iort[n].type = Rc, NEW rid \in Int,
         NEW p \in 1 .. num_blocks, Done(slots[p], n),
         \A q \in 1 .. num_blocks : Represents(q, n) => q = p
  PROVE  {q \in 1 .. num_blocks :
            slots[q].type = Rc /\ slots[q].id = iort[n].id /\ Covering(q, rid) # {}}
         = IF Ways(n, rid) = {} THEN {} ELSE {p}
<1>1. Represents(p, n)
  BY DEF Done, Begun, Represents
<1>2. Covering(p, rid) = Ways(n, rid)
  <2>1. n \in 1 .. Len(iort) /\ iort \in Tables /\ Rc # Its
    BY BuiltCore DEF Nodes, Rc, Its
  <2> QED
    BY <2>1, CoveringIs
<1>3. \A q \in 1 .. num_blocks : slots[q].type = Rc /\ slots[q].id = iort[n].id <=> q = p
  BY <1>1 DEF Represents
<1> QED
  BY <1>2, <1>3

LEMMA WaysOf ==
  ASSUME AllOrdered, IInv, OrderInv, Built, NEW n \in Nodes, iort[n].type = Rc, NEW rid \in Int
  PROVE  {w \in UNION {{m} \X DOMAIN iort[m].maps : m \in Nodes} :
            /\ iort[w[1]].type = Rc /\ iort[w[1]].id = iort[n].id
            /\ InRange(iort[w[1]].maps[w[2]], rid)}
         = {<<n, j>> : j \in Ways(n, rid)}
<1>1. iort \in Tables /\ \A m \in Nodes : m \in 1 .. Len(iort) /\ iort[m].type \in Types
  BY BuiltCore DEF Nodes
<1>2. \A m \in Nodes : iort[m].type = Rc /\ iort[m].id = iort[n].id => m = n
  BY <1>1, OrderOf
<1>3. ASSUME NEW w \in UNION {{m} \X DOMAIN iort[m].maps : m \in Nodes},
             iort[w[1]].type = Rc, iort[w[1]].id = iort[n].id, InRange(iort[w[1]].maps[w[2]], rid)
      PROVE  w \in {<<n, j>> : j \in Ways(n, rid)}
  <2>1. PICK m \in Nodes : w \in {m} \X DOMAIN iort[m].maps
    BY <1>3
  <2>2. w = <<m, w[2]>> /\ w[2] \in DOMAIN iort[m].maps /\ w[1] = m
    BY <2>1
  <2>3. m = n
    BY <1>2, <1>3, <2>2
  <2>4. w[2] \in Ways(n, rid)
    BY <1>3, <2>2, <2>3 DEF Ways
  <2> QED
    BY <2>2, <2>3, <2>4
<1>4. ASSUME NEW j \in Ways(n, rid)
      PROVE  /\ <<n, j>> \in UNION {{m} \X DOMAIN iort[m].maps : m \in Nodes}
             /\ InRange(iort[n].maps[j], rid)
  <2>1. <<n, j>> \in {n} \X DOMAIN iort[n].maps
    BY <1>4 DEF Ways
  <2> QED
    BY <1>4, <2>1 DEF Ways
<1> HIDE DEF Ways
<1> QED
  BY <1>3, <1>4

LEMMA LookupRight ==
  ASSUME AllOrdered, AllApart, InputsFit(iort), IInv, OrderInv, Built,
         NEW n \in Nodes, iort[n].type = Rc, NEW rid \in Int
  PROVE  GetRcSmmuBase(iort[n].id, rid) = IortSmmu(iort[n].id, rid)
<1>1. PICK seg : seg = iort[n].id
  OBVIOUS
<1>2. PICK p \in 1 .. num_blocks : /\ Done(slots[p], n)
                                   /\ \A q \in 1 .. num_blocks : Represents(q, n) => q = p
  BY BlockOf
<1>3. PICK R : R = {q \in 1 .. num_blocks :
                     slots[q].type = Rc /\ slots[q].id = seg /\ Covering(q, rid) # {}}
  OBVIOUS
<1>4. PICK W : W = {w \in UNION {{m} \X DOMAIN iort[m].maps : m \in Nodes} :
                     /\ iort[w[1]].type = Rc /\ iort[w[1]].id = seg
                     /\ InRange(iort[w[1]].maps[w[2]], rid)}
  OBVIOUS
<1>5. R = IF Ways(n, rid) = {} THEN {} ELSE {p}
  BY <1>1, <1>2, <1>3, RcsOf
<1>6. W = {<<n, j>> : j \in Ways(n, rid)}
  BY <1>1, <1>4, WaysOf
<1>7. CASE Ways(n, rid) = {}
  <2>1. R = {} /\ W = {}
    BY <1>5, <1>6, <1>7
  <2>2. GetRcSmmuBase(seg, rid) = NotMapped
    BY <1>3, <2>1 DEF GetRcSmmuBase
  <2>3. IortSmmu(seg, rid) = NotMapped
    BY <1>4, <2>1 DEF IortSmmu
  <2> QED
    BY <1>1, <2>2, <2>3
<1>8. CASE Ways(n, rid) # {}
  <2>1. PICK j \in Ways(n, rid) : TRUE
    BY <1>8
  <2>2. iort \in Tables /\ n \in 1 .. Len(iort) /\ iort[n].type \in Types /\ num_blocks \in Nat
    BY BuiltCore DEF Nodes
  <2>3. Ways(n, rid) = {j}
    BY <2>1, <2>2, OneWay
  <2>4. Covering(p, rid) = {j}
    BY <1>2, <2>2, <2>3, CoveringIs DEF Rc, Its
  <2>5. j \in DOMAIN iort[n].maps /\ j \in 1 .. Len(iort[n].maps) /\ j \in Int
    BY <2>1, <2>2, NodeTypes DEF Ways
  <2>6. PICK o : o = iort[n].maps[j]
    OBVIOUS
  <2>7. PICK k : k = slots[p].data_map[j]
    OBVIOUS
  <2>8. Home(k.output_ref, o.output_reference) /\ SameRange(k, o)
    <3>1. Copies(n) = Len(iort[n].maps)
      BY DEF Copies, Rc, Its
    <3> QED
      BY <1>2, <2>5, <2>6, <2>7, <3>1 DEF Done, MappedTo, MapRight
  <2>9. PICK r, b : r = o.output_reference /\ b = k.output_ref
    OBVIOUS
  <2>10. r \in Nodes /\ r \in 1 .. Len(iort) /\ r \in DOMAIN iort
    <3>1. r \in 1 .. n - 1 /\ Leaf(r)
      BY <2>2, <2>5, <2>6, <2>9, OrderOf DEF Rc, Its
    <3>2. DOMAIN iort = 1 .. Len(iort) /\ Len(iort) \in Nat
      <4>1. iort \in Seq(IortNode)
        BY <2>2, IovirtAssumption
      <4> QED
        BY <4>1
    <3> QED
      BY <2>2, <3>1, <3>2 DEF Nodes, Leaf, Types
  <2>11. b \in 1 .. num_blocks /\ Done(slots[b], r) /\ slots[b].type = iort[r].type /\ slots[b].id = iort[r].id
    <3>1. b \in 1 .. num_blocks /\ Represents(b, r)
      BY <2>8, <2>9 DEF Home, Represents
    <3>2. PICK q \in 1 .. num_blocks : Done(slots[q], r) /\ (Represents(b, r) => b = q)
      BY <2>10, <3>1, BlockOf
    <3> QED
      BY <3>1, <3>2 DEF Represents
  <2>12. PICK sid : sid = (rid - o.input_base + o.output_base) % IdSpace
    OBVIOUS
  <2>13. sid \in Int /\ sid = (rid - k.input_base + k.output_base) % IdSpace
    <3>1. o \in IortMap
      BY <2>2, <2>5, <2>6, NodeTypes
    <3>2. o.input_base \in Nat /\ o.output_base \in Nat
      BY <3>1 DEF IortMap
    <3>3. PICK s \in Int : s = rid - o.input_base + o.output_base
      BY <3>2
    <3>4. s % IdSpace \in Int
      BY <3>3, IovirtAssumption
    <3> QED
      BY <2>8, <2>12, <3>3, <3>4 DEF SameRange
  <2>14. IsSmmu(iort[r].type) => Covering(b, sid) = Ways(r, sid)
    <3>1. IsSmmu(iort[r].type) => iort[r].type # Its
      BY DEF IsSmmu, Smmu, Smmu3, Its
    <3> QED
      BY <2>2, <2>10, <2>11, <2>13, <3>1, CoveringIs
  <2>15. R = {p} /\ W = {<<n, j>>}
    BY <1>5, <1>6, <1>8, <2>3
  <2>16. Highest(R) = p /\ Lowest(Covering(p, rid)) = j
    <3>1. p \in Int
      BY <2>2
    <3>2. Highest({p}) = p
      BY <3>1, OnlyOne
    <3>3. Lowest({j}) = j
      BY <2>5, OnlyOne
    <3> QED
      BY <2>4, <2>15, <3>2, <3>3
  <2>17. GetRcSmmuBase(seg, rid)
         = IF IsSmmu(slots[b].type) /\ Covering(b, sid) # {} THEN slots[b].id ELSE None
    <3>1. R # {}
      BY <2>15
    <3> QED
      BY <1>3, <2>7, <2>9, <2>13, <2>16, <3>1 DEF GetRcSmmuBase
  <2>18. (CHOOSE w \in W : TRUE) = <<n, j>>
    BY <2>15
  <2>19. IortSmmu(seg, rid)
         = IF IsSmmu(iort[r].type) /\ (\E i \in DOMAIN iort[r].maps : InRange(iort[r].maps[i], sid))
           THEN iort[r].id ELSE None
    <3>1. W # {}
      BY <2>15
    <3>2. IortSmmu(seg, rid)
          = LET way == CHOOSE w \in W : TRUE
                m == iort[way[1]].maps[way[2]]
                d == iort[m.output_reference]
                s == (rid - m.input_base + m.output_base) % IdSpace
            IN  IF IsSmmu(d.type) /\ (\E i \in DOMAIN d.maps : InRange(d.maps[i], s))
                THEN d.id ELSE None
      <4>1. IortSmmu(seg, rid)
            = LET way == CHOOSE w \in W : TRUE
                  m == iort[way[1]].maps[way[2]]
                  d == iort[m.output_reference]
                  s == (rid - m.input_base + m.output_base) % IdSpace
              IN  CASE W = {} -> NotMapped
                    [] W # {} /\ IsSmmu(d.type) /\ (\E i \in DOMAIN d.maps : InRange(d.maps[i], s)) -> d.id
                    [] OTHER -> None
        BY <1>4, Zenon DEF IortSmmu
      <4>2. \A X, A, i : (CASE X = {} -> NotMapped [] X # {} /\ A -> i [] OTHER -> None)
                        = IF X = {} THEN NotMapped ELSE IF A THEN i ELSE None
        OBVIOUS
      <4> QED
        BY <3>1, <4>1, <4>2
    <3>3. <<n, j>>[1] = n /\ <<n, j>>[2] = j
      OBVIOUS
    <3>4. IortSmmu(seg, rid)
          = LET m == iort[n].maps[j]
                d == iort[m.output_reference]
                s == (rid - m.input_base + m.output_base) % IdSpace
            IN  IF IsSmmu(d.type) /\ (\E i \in DOMAIN d.maps : InRange(d.maps[i], s))
                THEN d.id ELSE None
      BY <2>18, <3>2, <3>3
    <3> QED
      BY <2>6, <2>9, <2>12, <3>4
  <2>20. Ways(r, sid) # {} <=> \E i \in DOMAIN iort[r].maps : InRange(iort[r].maps[i], sid)
    BY DEF Ways
  <2> QED
    BY <1>1, <2>11, <2>14, <2>17, <2>19, <2>20
<1> QED
  BY <1>7, <1>8

\* The table answers for every requester ID what the IORT says, when the IORT maps it in
\* one way at most and its input ranges end before the IDs wrap around, as LookupAgrees
\* asks; stream IDs may wrap: the search for the root complex "in whose id mapping range
\* 'rid' falls" finds the SMMU it is behind (pal_iovirt.c:438-439, 448-479).
THEOREM LookupIsRight ==
  ASSUME AllOrdered, AllApart
  PROVE  Spec => []LookupAgrees
<1>1. IInv /\ OrderInv => LookupAgrees
  <2>1. \A rid \in 0 .. IdSpace - 1 : rid \in Int
    BY IovirtAssumption
  <2> QED
    BY <2>1, LookupRight DEF LookupAgrees
<1> QED
  BY <1>1, OrderHolds, PTL
=============================================================================
