------------------------------ MODULE MCIovirt ------------------------------
(* Families of small IORTs.  The n-th node has identity n unless said      *)
(* otherwise; `earlier' families name nodes before the ones that refer to  *)
(* them, the order in which firmware usually lists them.                   *)
EXTENDS Iovirt

NodeOf(t, id, maps, ref) ==
  [type |-> t, id |-> id, maps |-> maps, node_ref |-> ref, ctx_int |-> <<>>]

To(d, in, n, out) ==
  [input_base |-> in, id_count |-> n, output_base |-> out, output_reference |-> d]

Of(t, ts) == {n \in DOMAIN t : t[n].type \in ts}

\* Lists of one or two mappings to the nodes D; a second one starts at ID 2.
MapLists(D) ==
  {<<To(d, 0, 1, 0)>> : d \in D} \cup
  {<<To(d, 0, 1, 0), To(e, 2, 1, 2)>> : d, e \in D}

Extend(S, Choices(_)) == UNION {{Append(t, n) : n \in Choices(t)} : t \in S}

\* What may follow the nodes of t: all its references go back.
Later(t) ==
  LET id == Len(t) + 1 IN
  {NodeOf(Its, id, <<>>, 0), NodeOf("bad", id, <<>>, 0)}
  \cup {[NodeOf(Smmu, id, <<>>, 0) EXCEPT !.ctx_int = s] : s \in {<<7, 8, 9>>, <<7, 8, 7>>}}
  \cup {NodeOf(Smmu3, id, ms, 0) : ms \in MapLists(Of(t, {Its}))}
  \cup {NodeOf(Named, id, ms, 0) : ms \in MapLists(Of(t, {Its, Smmu3}))}
  \cup {NodeOf(Rc, id, ms, 0) :
          ms \in MapLists(Of(t, {Its})) \cup MapLists(Of(t, {Smmu, Smmu3}))}
  \cup {NodeOf(Pmcg, id, <<>>, r) : r \in Of(t, {Its, Named, Smmu, Smmu3})}

OrderedTables ==
  Extend(Extend(Extend({<<NodeOf(Its, 1, <<>>, 0)>>}, Later), Later), Later)

\* An SMMU may map to two ITS groups, a root complex may be listed before them.
RcFirstTables ==
  {<<NodeOf(Rc, 1, ms, 0), NodeOf(Smmu3, 2, <<To(3, 0, 3, 0)>>, 0), NodeOf(Its, 3, <<>>, 0)>> :
     ms \in MapLists({2, 3})}

\* Any order, every node with at most one reference, to a node after it or to
\* the first one.
AnyOrderTables ==
  {<<a, b, c>> :
     a \in {NodeOf(Its, 1, <<>>, 0)},
     b \in {NodeOf(t, 2, <<To(d, 0, 1, 0)>>, 0) : t \in {Rc, Named, Smmu3}, d \in {1, 3}},
     c \in {NodeOf(Smmu3, 3, ms, 0) : ms \in {<<>>} \cup MapLists({1})}}

\* Root complexes with two ranges each, of two to four IDs, behind one SMMU or
\* one ITS group, the output ranges overlapping or not.
Ranges(d) ==
  {<<To(d, 0, c1, o1), To(d, 4, c2, o2)>> : c1 \in {1, 2}, c2 \in {1, 3}, o1 \in {0, 2}, o2 \in {0, 2, 4}}

Front == <<NodeOf(Its, 1, <<>>, 0), NodeOf(Smmu3, 2, <<To(1, 0, 3, 0), To(1, 5, 1, 4)>>, 0)>>

RangeTables ==
  {Append(Append(Front, NodeOf(Rc, 3, ms, 0)), NodeOf(t, 4, ns, 0)) :
     t \in {Rc, Named}, ms \in Ranges(1) \cup Ranges(2),
     ns \in {<<To(d, 0, 2, o)>> : d \in {1, 2}, o \in {0, 3}}}

\* Tables that end one or two nodes too early.
Missing == NodeOf(PastEnd, 0, <<>>, 0)
BadTables ==
  {Append(t, Missing) : t \in Extend({<<NodeOf(Its, 1, <<>>, 0)>>}, Later)}
  \cup {<<NodeOf(Its, 1, <<>>, 0), Missing, Missing>>, <<Missing>>}

\* The tables the theorems are about.
ASSUME OrderedAssumption ==
  \A t \in OrderedTables \cup RangeTables \cup BadTables :
    Ordered(t) /\ InSpace(t) /\ InputsFit(t) /\ InputsApart(t)

\* What the main run parses.
SoundTables == OrderedTables \cup AnyOrderTables \cup RangeTables \cup BadTables
=============================================================================
