------------------------ MODULE PlatformTablesProofs ------------------------
(***************************************************************************)
(* The tables of processors, PCIe regions and device-tree SMMUs are those  *)
(* of the firmware, for firmware tables of any length.                     *)
(*                                                                         *)
(* Every loop is a walk that takes an entry over, passes it over or ends;  *)
(* what a table holds after each entry is shown once for all walks.        *)
(***************************************************************************)
EXTENDS PlatformTables, FiniteSetTheorems, TLAPS

LEMMA LeastMember ==
  ASSUME NEW S, S \subseteq Nat, S # {}
  PROVE  \E d \in S : \A e \in S : d <= e
<1>1. PICK d \in S : \A e \in S : ~ (<<e, d>> \in OpToRel(<, Nat))
  BY NatLessThanWellFounded, WFMin
<1>2. \A e \in S : ~ (e < d)
  BY <1>1 DEF OpToRel
<1> QED
  BY <1>2

Solution(f, n, S, s, step) ==
  f \in [0 .. n -> S] /\ f[0] = s /\ \A k \in 1 .. n : f[k] = step[<<f[k - 1], k>>]

LEMMA Recursion ==
  ASSUME NEW N \in Nat, NEW S, NEW s \in S, NEW step \in [S \X (1 .. N) -> S]
  PROVE  \E f : Solution(f, N, S, s, step)
<1> USE DEF Solution
<1> DEFINE Sol(f, n) == Solution(f, n, S, s, step)
           T == {n \in 0 .. N : ~\E f : Sol(f, n)}
<1>1. ASSUME T # {} PROVE FALSE
  <2>1. PICK n \in T : \A m \in T : n <= m
    <3>1. T \subseteq Nat
      OBVIOUS
    <3> HIDE DEF T
    <3> QED
      BY <1>1, <3>1, LeastMember
  <2>2. CASE n = 0
    <3>1. Sol([i \in 0 .. 0 |-> s], 0)
      OBVIOUS
    <3> QED
      BY <2>1, <2>2, <3>1
  <2>3. CASE n # 0
    <3>1. n \in 1 .. N /\ n - 1 \in 0 .. N /\ n - 1 \notin T
      BY <2>1, <2>3
    <3>2. PICK f : Sol(f, n - 1)
      BY <3>1
    <3> DEFINE g == [i \in 0 .. n |-> IF i < n THEN f[i] ELSE step[<<f[n - 1], n>>]]
    <3>3. f[n - 1] \in S /\ step[<<f[n - 1], n>>] \in S
      BY <3>1, <3>2
    <3>4. g \in [0 .. n -> S] /\ g[0] = s
      BY <3>1, <3>2, <3>3
    <3>5. ASSUME NEW k \in 1 .. n PROVE g[k] = step[<<g[k - 1], k>>]
      <4>1. k - 1 \in 0 .. n /\ k \in 0 .. n /\ k - 1 < n /\ g[k - 1] = f[k - 1]
        BY <3>1
      <4>2. CASE k = n
        BY <4>1, <4>2
      <4>3. CASE k # n
        <5>1. k < n /\ k \in 1 .. n - 1
          BY <4>3, <3>1
        <5>2. g[k] = f[k] /\ f[k] = step[<<f[k - 1], k>>]
          BY <3>2, <4>1, <5>1
        <5> QED
          BY <4>1, <5>2
      <4> QED
        BY <4>2, <4>3
    <3> QED
      BY <2>1, <3>4, <3>5
  <2> QED
    BY <2>2, <2>3
<1>2. N \notin T
  BY <1>1
<1>3. N \in 0 .. N
  OBVIOUS
<1>4. \E f : Sol(f, N)
  BY <1>2, <1>3
<1> HIDE DEF T
<1> QED
  BY <1>4

\* One turn of a walk: it takes the entry over, passes it over, or ends.
Acts == {"add", "skip", "stop"}
Tab(V, B) == {t \in [count : Nat, entries : Seq(V), stop : BOOLEAN] : t.stop => B}
Act(t, act, v) ==
  IF t.stop \/ act = "skip" THEN t ELSE IF act = "stop" THEN [t EXCEPT !.stop = TRUE] ELSE Added(t, v)

Sel(act, k) == {i \in 1 .. k : act[i] = "add"}
Rank(act, i) == Cardinality(Sel(act, i - 1))

LEMMA SelMore ==
  ASSUME NEW act, NEW k \in Nat
  PROVE  /\ Cardinality(Sel(act, k)) \in Nat /\ IsFiniteSet(Sel(act, k))
         /\ Cardinality(Sel(act, 0)) = 0
         /\ act[k + 1] = "add" => Cardinality(Sel(act, k + 1)) = Cardinality(Sel(act, k)) + 1
         /\ act[k + 1] # "add" => Sel(act, k + 1) = Sel(act, k)
<1>1. IsFiniteSet(1 .. k) /\ Sel(act, k) \subseteq 1 .. k
  <2>1. IsFiniteSet(1 .. k)
    BY FS_Interval
  <2> QED
    BY <2>1 DEF Sel
<1>2. Cardinality(Sel(act, k)) \in Nat /\ IsFiniteSet(Sel(act, k))
  <2>1. IsFiniteSet(Sel(act, k))
    BY <1>1, FS_Subset
  <2> QED
    BY <2>1, FS_CardinalityType
<1>3. Cardinality(Sel(act, 0)) = 0
  <2>1. Sel(act, 0) = {}
    BY DEF Sel
  <2> QED
    BY <2>1, FS_EmptySet
<1>4. ASSUME act[k + 1] = "add" PROVE Cardinality(Sel(act, k + 1)) = Cardinality(Sel(act, k)) + 1
  <2>1. Sel(act, k + 1) = Sel(act, k) \cup {k + 1} /\ k + 1 \notin Sel(act, k)
    BY <1>4 DEF Sel
  <2> QED
    BY <1>2, <2>1, FS_AddElement
<1>5. ASSUME act[k + 1] # "add" PROVE Sel(act, k + 1) = Sel(act, k)
  BY <1>5 DEF Sel
<1> QED
  BY <1>2, <1>3, <1>4, <1>5

LEMMA SelGrows ==
  ASSUME NEW act, NEW k \in Nat, NEW n \in Nat, k <= n
  PROVE  Cardinality(Sel(act, k)) <= Cardinality(Sel(act, n))
<1>1. Sel(act, k) \subseteq Sel(act, n)
  BY DEF Sel
<1>2. IsFiniteSet(Sel(act, n))
  BY SelMore
<1> QED
  BY <1>1, <1>2, FS_Subset

\* What a table holds when the first n entries were dealt with, and the k-th was passed.
ReachedBy(n, k, s, act, val, t) ==
  /\ \A i \in 1 .. n : act[i] # "stop"
  /\ s.stop => n = 0
  /\ t.stop <=> (s.stop \/ n < k)
  /\ n < k => s.stop \/ act[n + 1] = "stop"
  /\ t.count = s.count + Cardinality(Sel(act, n))
  /\ Len(t.entries) = Len(s.entries) + Cardinality(Sel(act, n))
  /\ \A i \in 1 .. Len(s.entries) : t.entries[i] = s.entries[i]
  /\ \A i \in Sel(act, n) :
       t.entries[Len(s.entries) + Rank(act, i) + 1] = val[<<s.count + Rank(act, i), i>>]
Reached(k, s, act, val, t) == \E n \in 0 .. k : ReachedBy(n, k, s, act, val, t)

LEMMA ActTyped ==
  ASSUME NEW V, NEW B \in BOOLEAN, NEW t \in Tab(V, B), NEW a \in Acts, NEW v \in V,
         B \/ a # "stop"
  PROVE  /\ Act(t, a, v) \in Tab(V, B)
         /\ t.stop \/ a = "skip" => Act(t, a, v) = t
         /\ ~t.stop /\ a = "stop" => Act(t, a, v) = [count |-> t.count, entries |-> t.entries, stop |-> TRUE]
         /\ ~t.stop /\ a = "add" =>
              Act(t, a, v) = [count |-> t.count + 1, entries |-> Append(t.entries, v), stop |-> t.stop]
<1>1. PICK c \in Nat, es \in Seq(V), b \in BOOLEAN : (b => B) /\ t = [count |-> c, entries |-> es, stop |-> b]
  BY DEF Tab
<1>2. Append(es, v) \in Seq(V) /\ c + 1 \in Nat
  OBVIOUS
<1>a. t.count = c /\ t.entries = es /\ t.stop = b
  BY <1>1
<1>3. CASE b \/ a = "skip"
  BY <1>1, <1>3 DEF Act, Acts
<1>4. CASE ~b /\ a = "stop"
  <2>1. Act(t, a, v) = [count |-> c, entries |-> es, stop |-> TRUE]
    BY <1>1, <1>4 DEF Act
  <2>2. [count |-> c, entries |-> es, stop |-> TRUE] \in Tab(V, B)
    BY <1>1, <1>4 DEF Tab
  <2>3. ~(a = "skip") /\ ~(a = "add")
    BY <1>4
  <2> QED
    BY <1>4, <1>a, <2>1, <2>2, <2>3
<1>5. CASE ~b /\ a = "add"
  <2>1. Act(t, a, v) = [count |-> c + 1, entries |-> Append(es, v), stop |-> b]
    BY <1>1, <1>5 DEF Act, Added
  <2> QED
    BY <1>1, <1>2, <1>5, <2>1 DEF Tab
<1> QED
  BY <1>1, <1>3, <1>4, <1>5 DEF Acts

\* The entries of a walk: what is done on each, and what is taken over.
IsWalk(N, V, B, s, act, val) ==
  /\ N \in Nat /\ B \in BOOLEAN /\ s \in Tab(V, B)
  /\ act \in [1 .. N -> Acts] /\ val \in [Nat \X (1 .. N) -> V]
  /\ B \/ \A k \in 1 .. N : act[k] # "stop"

LEMMA TurnReaches ==
  ASSUME NEW N, NEW V, NEW B, NEW s, NEW act, NEW val, IsWalk(N, V, B, s, act, val),
         NEW k \in 1 .. N, NEW t, t \in Tab(V, B), Reached(k - 1, s, act, val, t)
  PROVE  LET u == Act(t, act[k], val[<<t.count, k>>])
         IN  u \in Tab(V, B) /\ Reached(k, s, act, val, u)
<1> DEFINE u == Act(t, act[k], val[<<t.count, k>>])
<1> SUFFICES u \in Tab(V, B) /\ Reached(k, s, act, val, u)
  OBVIOUS
<1>0. N \in Nat /\ B \in BOOLEAN /\ s \in Tab(V, B) /\ act \in [1 .. N -> Acts]
      /\ val \in [Nat \X (1 .. N) -> V] /\ (B \/ act[k] # "stop")
  BY DEF IsWalk
<1>1. PICK a \in Acts, v \in V : a = act[k] /\ v = val[<<t.count, k>>]
  <2>1. t.count \in Nat
    BY DEF Tab
  <2>2. <<t.count, k>> \in Nat \X (1 .. N)
    BY <2>1
  <2>3. act[k] \in Acts
    BY <1>0
  <2> QED
    BY <1>0, <2>2, <2>3
<1>2. u = Act(t, a, v) /\ (B \/ a # "stop")
  BY <1>0, <1>1
<1> HIDE DEF u
<1>3. /\ u \in Tab(V, B)
      /\ t.stop \/ a = "skip" => u = t
      /\ ~t.stop /\ a = "stop" => u = [count |-> t.count, entries |-> t.entries, stop |-> TRUE]
      /\ ~t.stop /\ a = "add" => u = [count |-> t.count + 1, entries |-> Append(t.entries, v), stop |-> t.stop]
  BY <1>0, <1>2, ActTyped
<1>4. PICK n \in 0 .. k - 1 : ReachedBy(n, k - 1, s, act, val, t)
  BY DEF Reached
<1>5. k \in Nat /\ k - 1 \in Nat /\ k - 1 + 1 = k /\ n \in Nat /\ n \in 0 .. k
  BY <1>0
<1>6. s.stop \in BOOLEAN /\ t.stop \in BOOLEAN /\ t.entries \in Seq(V) /\ s.entries \in Seq(V)
      /\ s.count \in Nat
  BY <1>0 DEF Tab
<1>7. CASE t.stop
  <2>1. s.stop \/ n < k - 1
    BY <1>4, <1>7 DEF ReachedBy
  <2>2. n < k /\ (s.stop \/ act[n + 1] = "stop")
    BY <1>4, <1>5, <2>1 DEF ReachedBy
  <2>3. ReachedBy(n, k, s, act, val, t)
    BY <1>4, <1>7, <2>2 DEF ReachedBy
  <2> QED
    BY <1>3, <1>5, <1>7, <2>3 DEF Reached
<1>8. CASE ~t.stop
  <2>1. n = k - 1 /\ ~s.stop
    BY <1>4, <1>5, <1>8 DEF ReachedBy
  <2>2. CASE a = "stop"
    <3>1. u.stop /\ u.count = t.count /\ u.entries = t.entries
      BY <1>3, <1>8, <2>2
    <3>2. n < k /\ act[n + 1] = "stop"
      <4>1. n < k /\ n + 1 = k
        BY <1>5, <2>1
      <4> QED
        BY <1>1, <2>2, <4>1
    <3>3. ReachedBy(n, k, s, act, val, u)
      BY <1>4, <2>1, <3>1, <3>2 DEF ReachedBy
    <3> QED
      BY <1>3, <1>5, <3>3 DEF Reached
  <2>3. CASE a = "skip"
    <3>1. u = t /\ Sel(act, k) = Sel(act, n) /\ act[k] # "stop"
      <4>1. act[n + 1] # "add" /\ n + 1 = k
        BY <1>1, <1>5, <2>1, <2>3
      <4>2. Sel(act, n + 1) = Sel(act, n)
        BY <1>5, <4>1, SelMore
      <4> QED
        BY <1>1, <1>3, <2>3, <4>1, <4>2
    <3>2. \A i \in 1 .. k : act[i] # "stop"
      BY <1>4, <1>5, <2>1, <3>1 DEF ReachedBy
    <3>a. (s.stop => k = 0) /\ (t.stop <=> (s.stop \/ k < k)) /\ (k < k => s.stop \/ act[k + 1] = "stop")
      BY <1>5, <1>8, <2>1
    <3>3. ReachedBy(k, k, s, act, val, u)
      BY <1>4, <3>1, <3>2, <3>a DEF ReachedBy
    <3>4. k \in 0 .. k
      BY <1>5
    <3> QED
      BY <1>3, <3>3, <3>4 DEF Reached
  <2>4. CASE a = "add"
    <3>1. u.stop = t.stop /\ u.count = t.count + 1 /\ u.entries = Append(t.entries, v)
      <4>1. u = [count |-> t.count + 1, entries |-> Append(t.entries, v), stop |-> t.stop]
        BY <1>3, <1>8, <2>4
      <4> QED
        BY <4>1
    <3>2. PICK c \in Nat : c = Cardinality(Sel(act, n)) /\ Cardinality(Sel(act, k)) = c + 1
      <4>1. act[n + 1] = "add" /\ n + 1 = k
        BY <1>1, <1>5, <2>1, <2>4
      <4> QED
        BY <1>5, <4>1, SelMore
    <3>3. PICK l \in Nat : l = Len(s.entries)
      BY <1>6
    <3>4. Len(t.entries) = l + c /\ t.count = s.count + c
      BY <1>4, <3>2, <3>3 DEF ReachedBy
    <3>5. /\ Len(u.entries) = l + (c + 1)
          /\ \A i \in 1 .. l + c : u.entries[i] = t.entries[i]
          /\ u.entries[l + c + 1] = v
      <4>1. PICK es \in Seq(V) : es = t.entries
        BY <1>6
      <4>2. Len(es) = l + c /\ u.entries = Append(es, v)
        BY <3>1, <3>4, <4>1
      <4>3. /\ Len(Append(es, v)) = Len(es) + 1
            /\ \A i \in 1 .. Len(es) : Append(es, v)[i] = es[i]
            /\ Append(es, v)[Len(es) + 1] = v
        OBVIOUS
      <4>a. l + c \in Nat
        OBVIOUS
      <4>4. PICK m \in Nat : m = l + c
        BY <4>a
      <4>b. m + 1 = l + (c + 1) /\ m = Len(es)
        BY <4>2, <4>4
      <4>5. PICK us : us = u.entries
        OBVIOUS
      <4>6. Len(us) = m + 1 /\ (\A i \in 1 .. m : us[i] = es[i]) /\ us[m + 1] = v
        BY <4>2, <4>3, <4>b, <4>5
      <4> QED
        BY <4>1, <4>4, <4>5, <4>6, <4>b
    <3>6. \A i \in 1 .. k : act[i] # "stop"
      <4>1. \A i \in 1 .. n : act[i] # "stop"
        BY <1>4 DEF ReachedBy
      <4>2. act[k] # "stop"
        BY <1>1, <2>4
      <4> QED
        BY <1>5, <2>1, <4>1, <4>2
    <3>7. \A i \in 1 .. l : u.entries[i] = s.entries[i]
      <4>1. \A i \in 1 .. l : t.entries[i] = s.entries[i]
        BY <1>4, <3>3 DEF ReachedBy
      <4>2. \A i \in 1 .. l : i \in 1 .. l + c
        BY <3>2, <3>3
      <4> QED
        BY <3>5, <4>1, <4>2
    <3>8. ASSUME NEW i \in Sel(act, k)
          PROVE  u.entries[l + Rank(act, i) + 1] = val[<<s.count + Rank(act, i), i>>]
      <4>1. CASE i = k
        <5>1. Rank(act, i) = c
          BY <2>1, <3>2, <4>1 DEF Rank
        <5> QED
          BY <1>1, <3>4, <3>5, <4>1, <5>1
      <4>2. CASE i # k
        <5>1. i \in 1 .. n /\ i \in Sel(act, n)
          BY <1>5, <2>1, <4>2 DEF Sel
        <5>2. t.entries[l + Rank(act, i) + 1] = val[<<s.count + Rank(act, i), i>>]
          BY <1>4, <3>3, <5>1 DEF ReachedBy
        <5>3. Rank(act, i) \in Nat /\ Rank(act, i) < c
          <6>1. i - 1 \in Nat /\ i \in Nat /\ i <= n /\ act[i - 1 + 1] = "add" /\ i - 1 + 1 = i
            BY <1>5, <5>1 DEF Sel
          <6>2. Cardinality(Sel(act, i - 1)) \in Nat
                /\ Cardinality(Sel(act, i)) = Cardinality(Sel(act, i - 1)) + 1
            BY <6>1, SelMore
          <6>3. Cardinality(Sel(act, i)) <= c
            BY <1>5, <3>2, <6>1, SelGrows
          <6> QED
            BY <3>2, <6>2, <6>3 DEF Rank
        <5>4. l + Rank(act, i) + 1 \in 1 .. l + c
          BY <3>2, <3>3, <5>3
        <5> QED
          BY <3>5, <5>2, <5>4
      <4> QED
        BY <4>1, <4>2
    <3>9. u.count = s.count + (c + 1)
      <4>1. PICK d \in Nat : d = s.count
        BY <1>6
      <4>2. t.count = d + c /\ u.count = t.count + 1
        BY <3>1, <3>4, <4>1
      <4> QED
        BY <3>2, <4>1, <4>2
    <3>a. (s.stop => k = 0) /\ (u.stop <=> (s.stop \/ k < k)) /\ (k < k => s.stop \/ act[k + 1] = "stop")
      BY <1>5, <1>8, <2>1, <3>1
    <3>b. Len(u.entries) = Len(s.entries) + Cardinality(Sel(act, k)) /\ u.count = s.count + Cardinality(Sel(act, k))
      BY <3>2, <3>3, <3>5, <3>9
    <3>10. ReachedBy(k, k, s, act, val, u)
      BY <3>3, <3>6, <3>7, <3>8, <3>a, <3>b DEF ReachedBy
    <3>11. k \in 0 .. k
      BY <1>5
    <3> QED
      BY <1>3, <3>10, <3>11 DEF Reached
  <2> QED
    BY <2>2, <2>3, <2>4 DEF Acts
<1> QED
  BY <1>6, <1>7, <1>8

LEMMA WalkReaches ==
  ASSUME NEW N, NEW V, NEW B, NEW s, NEW act, NEW val, IsWalk(N, V, B, s, act, val),
         NEW f, f[0] = s,
         \A k \in 1 .. N : f[k - 1] \in Tab(V, B) => f[k] = Act(f[k - 1], act[k], val[<<f[k - 1].count, k>>])
  PROVE  f[N] \in Tab(V, B) /\ Reached(N, s, act, val, f[N])
<1>0. N \in Nat /\ s \in Tab(V, B)
  BY DEF IsWalk
<1> DEFINE bad == {k \in 0 .. N : ~(f[k] \in Tab(V, B) /\ Reached(k, s, act, val, f[k]))}
<1>1. Reached(0, s, act, val, s)
  <2>1. Cardinality(Sel(act, 0)) = 0 /\ Sel(act, 0) = {}
    <3>1. Cardinality(Sel(act, 0)) = 0
      BY SelMore
    <3>2. Sel(act, 0) = {}
      BY DEF Sel
    <3> QED
      BY <3>1, <3>2
  <2>2. s.count \in Nat /\ Len(s.entries) \in Nat /\ s.stop \in BOOLEAN
    BY <1>0 DEF Tab
  <2>3. ReachedBy(0, 0, s, act, val, s)
    BY <2>1, <2>2 DEF ReachedBy
  <2>4. 0 \in 0 .. 0
    OBVIOUS
  <2> QED
    BY <2>3, <2>4 DEF Reached
<1>2. ASSUME bad # {} PROVE FALSE
  <2>1. PICK k \in bad : \A m \in bad : k <= m
    <3>1. bad \subseteq Nat
      OBVIOUS
    <3> HIDE DEF bad
    <3> QED
      BY <1>2, <3>1, LeastMember
  <2>2. k \in 0 .. N /\ ~(f[k] \in Tab(V, B) /\ Reached(k, s, act, val, f[k]))
    OBVIOUS
  <2>3. k # 0
    BY <1>0, <1>1, <2>2
  <2>4. k \in 1 .. N /\ k - 1 \in 0 .. N /\ k - 1 < k
    BY <1>0, <2>2, <2>3
  <2>5. f[k - 1] \in Tab(V, B) /\ Reached(k - 1, s, act, val, f[k - 1])
    BY <2>1, <2>4
  <2>6. f[k] = Act(f[k - 1], act[k], val[<<f[k - 1].count, k>>])
    BY <2>4, <2>5
  <2>7. f[k] \in Tab(V, B) /\ Reached(k, s, act, val, f[k])
    BY <2>4, <2>5, <2>6, TurnReaches
  <2> QED
    BY <2>2, <2>7
<1>3. N \in 0 .. N
  BY <1>0
<1> QED
  BY <1>2, <1>3

LEMMA WalkEnds ==
  ASSUME NEW N, NEW V, NEW B, NEW s, NEW act, NEW val, IsWalk(N, V, B, s, act, val)
  PROVE  \E f \in [0 .. N -> Tab(V, B)] :
           f[0] = s /\ \A k \in 1 .. N : f[k] = Act(f[k - 1], act[k], val[<<f[k - 1].count, k>>])
<1> DEFINE T == Tab(V, B)
           step == [x \in T \X (1 .. N) |-> Act(x[1], act[x[2]], val[<<x[1].count, x[2]>>])]
<1>0. /\ N \in Nat /\ B \in BOOLEAN /\ s \in Tab(V, B)
      /\ act \in [1 .. N -> Acts] /\ val \in [Nat \X (1 .. N) -> V]
      /\ B \/ \A k \in 1 .. N : act[k] # "stop"
  BY DEF IsWalk
<1>1. ASSUME NEW t \in T, NEW k \in 1 .. N PROVE Act(t, act[k], val[<<t.count, k>>]) \in T
  <2>1. t.count \in Nat
    BY DEF Tab
  <2>2. val[<<t.count, k>>] \in V /\ act[k] \in Acts /\ (B \/ act[k] # "stop")
    BY <1>0, <2>1
  <2> QED
    BY <1>0, <2>2, ActTyped
<1>2. step \in [T \X (1 .. N) -> T]
  <2>1. ASSUME NEW x \in T \X (1 .. N) PROVE Act(x[1], act[x[2]], val[<<x[1].count, x[2]>>]) \in T
    <3>1. x[1] \in T /\ x[2] \in 1 .. N
      OBVIOUS
    <3> HIDE DEF T
    <3> QED
      BY <1>1, <3>1
  <2> HIDE DEF T
  <2> QED
    BY <2>1
<1>3. \E f : Solution(f, N, T, s, step)
  <2> HIDE DEF step
  <2> QED
    BY <1>0, <1>2, Recursion
<1>4. PICK f : f \in [0 .. N -> T] /\ f[0] = s /\ \A k \in 1 .. N : f[k] = step[<<f[k - 1], k>>]
  <2> HIDE DEF step, T
  <2> QED
    BY <1>3 DEF Solution
<1>5. ASSUME NEW k \in 1 .. N PROVE f[k] = Act(f[k - 1], act[k], val[<<f[k - 1].count, k>>])
  <2>1. f[k - 1] \in T
    <3>1. k - 1 \in 0 .. N
      BY <1>0
    <3> HIDE DEF T, step
    <3> QED
      BY <1>4, <3>1
  <2>2. <<f[k - 1], k>> \in T \X (1 .. N)
    BY <2>1
  <2> HIDE DEF T
  <2> QED
    BY <1>4, <2>2
<1> HIDE DEF step
<1> QED
  BY <1>4, <1>5

\* So each of the loops is such a walk.
LEMMA GiccWalk ==
  ASSUME NEW entries, NEW V, NEW B, NEW s, NEW act, NEW val,
         IsWalk(Len(entries), V, B, s, act, val),
         \A t \in Tab(V, B), k \in 1 .. Len(entries) :
           Gicc(t, entries[k]) = Act(t, act[k], val[<<t.count, k>>])
  PROVE  LET t == Loop(Gicc, s, entries)
         IN  t \in Tab(V, B) /\ Reached(Len(entries), s, act, val, t)
<1> DEFINE N == Len(entries)
           after[k \in 0 .. Len(entries)] == IF k = 0 THEN s ELSE Gicc(after[k - 1], entries[k])
<1>1. N \in Nat
  BY DEF IsWalk
<1>2. PICK f \in [0 .. N -> Tab(V, B)] :
        f[0] = s /\ \A k \in 1 .. N : f[k] = Act(f[k - 1], act[k], val[<<f[k - 1].count, k>>])
  BY WalkEnds
<1>3. \A k \in 1 .. N : f[k] = Gicc(f[k - 1], entries[k])
  <2>1. \A k \in 1 .. N : k - 1 \in 0 .. N
    BY <1>1
  <2> QED
    BY <1>2, <2>1
<1>4. f = [k \in 0 .. N |-> IF k = 0 THEN s ELSE Gicc(f[k - 1], entries[k])]
  BY <1>1, <1>2, <1>3
<1>5. after = [k \in 0 .. N |-> IF k = 0 THEN s ELSE Gicc(after[k - 1], entries[k])]
  BY <1>4
<1>6. Loop(Gicc, s, entries) = after[N]
  BY DEF Loop
<1> HIDE DEF after
<1>7. after[0] = s /\ \A k \in 1 .. N : after[k] = Gicc(after[k - 1], entries[k])
  <2> HIDE DEF N
  <2> QED
    BY <1>1, <1>5
<1>8. after[N] \in Tab(V, B) /\ Reached(N, s, act, val, after[N])
  BY <1>7, WalkReaches
<1> QED
  BY <1>6, <1>8

LEMMA CpuNodeWalk ==
  ASSUME NEW entries, NEW V, NEW B, NEW s, NEW act, NEW val,
         IsWalk(Len(entries), V, B, s, act, val),
         \A t \in Tab(V, B), k \in 1 .. Len(entries) :
           CpuNode(t, entries[k]) = Act(t, act[k], val[<<t.count, k>>])
  PROVE  LET t == Loop(CpuNode, s, entries)
         IN  t \in Tab(V, B) /\ Reached(Len(entries), s, act, val, t)
<1> DEFINE N == Len(entries)
           after[k \in 0 .. Len(entries)] == IF k = 0 THEN s ELSE CpuNode(after[k - 1], entries[k])
<1>1. N \in Nat
  BY DEF IsWalk
<1>2. PICK f \in [0 .. N -> Tab(V, B)] :
        f[0] = s /\ \A k \in 1 .. N : f[k] = Act(f[k - 1], act[k], val[<<f[k - 1].count, k>>])
  BY WalkEnds
<1>3. \A k \in 1 .. N : f[k] = CpuNode(f[k - 1], entries[k])
  <2>1. \A k \in 1 .. N : k - 1 \in 0 .. N
    BY <1>1
  <2> QED
    BY <1>2, <2>1
<1>4. f = [k \in 0 .. N |-> IF k = 0 THEN s ELSE CpuNode(f[k - 1], entries[k])]
  BY <1>1, <1>2, <1>3
<1>5. after = [k \in 0 .. N |-> IF k = 0 THEN s ELSE CpuNode(after[k - 1], entries[k])]
  BY <1>4
<1>6. Loop(CpuNode, s, entries) = after[N]
  BY DEF Loop
<1> HIDE DEF after
<1>7. after[0] = s /\ \A k \in 1 .. N : after[k] = CpuNode(after[k - 1], entries[k])
  <2> HIDE DEF N
  <2> QED
    BY <1>1, <1>5
<1>8. after[N] \in Tab(V, B) /\ Reached(N, s, act, val, after[N])
  BY <1>7, WalkReaches
<1> QED
  BY <1>6, <1>8

LEMMA EcamWalk ==
  ASSUME NEW entries, NEW V, NEW B, NEW s, NEW act, NEW val,
         IsWalk(Len(entries), V, B, s, act, val),
         \A t \in Tab(V, B), k \in 1 .. Len(entries) :
           Ecam(t, entries[k]) = Act(t, act[k], val[<<t.count, k>>])
  PROVE  LET t == Loop(Ecam, s, entries)
         IN  t \in Tab(V, B) /\ Reached(Len(entries), s, act, val, t)
<1> DEFINE N == Len(entries)
           after[k \in 0 .. Len(entries)] == IF k = 0 THEN s ELSE Ecam(after[k - 1], entries[k])
<1>1. N \in Nat
  BY DEF IsWalk
<1>2. PICK f \in [0 .. N -> Tab(V, B)] :
        f[0] = s /\ \A k \in 1 .. N : f[k] = Act(f[k - 1], act[k], val[<<f[k - 1].count, k>>])
  BY WalkEnds
<1>3. \A k \in 1 .. N : f[k] = Ecam(f[k - 1], entries[k])
  <2>1. \A k \in 1 .. N : k - 1 \in 0 .. N
    BY <1>1
  <2> QED
    BY <1>2, <2>1
<1>4. f = [k \in 0 .. N |-> IF k = 0 THEN s ELSE Ecam(f[k - 1], entries[k])]
  BY <1>1, <1>2, <1>3
<1>5. after = [k \in 0 .. N |-> IF k = 0 THEN s ELSE Ecam(after[k - 1], entries[k])]
  BY <1>4
<1>6. Loop(Ecam, s, entries) = after[N]
  BY DEF Loop
<1> HIDE DEF after
<1>7. after[0] = s /\ \A k \in 1 .. N : after[k] = Ecam(after[k - 1], entries[k])
  <2> HIDE DEF N
  <2> QED
    BY <1>1, <1>5
<1>8. after[N] \in Tab(V, B) /\ Reached(N, s, act, val, after[N])
  BY <1>7, WalkReaches
<1> QED
  BY <1>6, <1>8

LEMMA EcamNodeWalk ==
  ASSUME NEW entries, NEW V, NEW B, NEW s, NEW act, NEW val,
         IsWalk(Len(entries), V, B, s, act, val),
         \A t \in Tab(V, B), k \in 1 .. Len(entries) :
           EcamNode(t, entries[k]) = Act(t, act[k], val[<<t.count, k>>])
  PROVE  LET t == Loop(EcamNode, s, entries)
         IN  t \in Tab(V, B) /\ Reached(Len(entries), s, act, val, t)
<1> DEFINE N == Len(entries)
           after[k \in 0 .. Len(entries)] == IF k = 0 THEN s ELSE EcamNode(after[k - 1], entries[k])
<1>1. N \in Nat
  BY DEF IsWalk
<1>2. PICK f \in [0 .. N -> Tab(V, B)] :
        f[0] = s /\ \A k \in 1 .. N : f[k] = Act(f[k - 1], act[k], val[<<f[k - 1].count, k>>])
  BY WalkEnds
<1>3. \A k \in 1 .. N : f[k] = EcamNode(f[k - 1], entries[k])
  <2>1. \A k \in 1 .. N : k - 1 \in 0 .. N
    BY <1>1
  <2> QED
    BY <1>2, <2>1
<1>4. f = [k \in 0 .. N |-> IF k = 0 THEN s ELSE EcamNode(f[k - 1], entries[k])]
  BY <1>1, <1>2, <1>3
<1>5. after = [k \in 0 .. N |-> IF k = 0 THEN s ELSE EcamNode(after[k - 1], entries[k])]
  BY <1>4
<1>6. Loop(EcamNode, s, entries) = after[N]
  BY DEF Loop
<1> HIDE DEF after
<1>7. after[0] = s /\ \A k \in 1 .. N : after[k] = EcamNode(after[k - 1], entries[k])
  <2> HIDE DEF N
  <2> QED
    BY <1>1, <1>5
<1>8. after[N] \in Tab(V, B) /\ Reached(N, s, act, val, after[N])
  BY <1>7, WalkReaches
<1> QED
  BY <1>6, <1>8

LEMMA SmmuWalk ==
  ASSUME NEW entries, NEW V, NEW B, NEW s, NEW act, NEW val, NEW version,
         IsWalk(Len(entries), V, B, s, act, val),
         \A t \in Tab(V, B), k \in 1 .. Len(entries) :
           SmmuNode(t, entries[k], version) = Act(t, act[k], val[<<t.count, k>>])
  PROVE  LET t == SmmusOf(version, s, entries)
         IN  t \in Tab(V, B) /\ Reached(Len(entries), s, act, val, t)
<1> DEFINE N == Len(entries)
           after[k \in 0 .. Len(entries)] == IF k = 0 THEN s ELSE SmmuNode(after[k - 1], entries[k], version)
<1>1. N \in Nat
  BY DEF IsWalk
<1>2. PICK f \in [0 .. N -> Tab(V, B)] :
        f[0] = s /\ \A k \in 1 .. N : f[k] = Act(f[k - 1], act[k], val[<<f[k - 1].count, k>>])
  BY WalkEnds
<1>3. \A k \in 1 .. N : f[k] = SmmuNode(f[k - 1], entries[k], version)
  <2>1. \A k \in 1 .. N : k - 1 \in 0 .. N
    BY <1>1
  <2> QED
    BY <1>2, <2>1
<1>4. f = [k \in 0 .. N |-> IF k = 0 THEN s ELSE SmmuNode(f[k - 1], entries[k], version)]
  BY <1>1, <1>2, <1>3
<1>5. after = [k \in 0 .. N |-> IF k = 0 THEN s ELSE SmmuNode(after[k - 1], entries[k], version)]
  BY <1>4
<1>6. SmmusOf(version, s, entries) = after[N]
  BY DEF SmmusOf
<1> HIDE DEF after
<1>7. after[0] = s /\ \A k \in 1 .. N : after[k] = SmmuNode(after[k - 1], entries[k], version)
  <2> HIDE DEF N
  <2> QED
    BY <1>1, <1>5
<1>8. after[N] \in Tab(V, B) /\ Reached(N, s, act, val, after[N])
  BY <1>7, WalkReaches
<1> QED
  BY <1>6, <1>8

LEMMA EmptyTab ==
  /\ Empty.count = 0 /\ Empty.entries = <<>> /\ Len(Empty.entries) = 0 /\ Empty.stop = FALSE
  /\ \A V, B : Empty \in Tab(V, B)
<1>1. \A V : <<>> \in Seq(V)
  OBVIOUS
<1> QED
  BY <1>1 DEF Empty, Tab

\* The first n entries are taken over when none is passed over.
LEMMA SelAll ==
  ASSUME NEW n \in Nat, NEW act, \A i \in 1 .. n : act[i] = "add"
  PROVE  Sel(act, n) = 1 .. n /\ Cardinality(Sel(act, n)) = n /\ \A i \in 1 .. n : Rank(act, i) = i - 1
<1>1. \A m \in 0 .. n : Sel(act, m) = 1 .. m
  BY DEF Sel
<1>2. \A m \in 0 .. n : Cardinality(1 .. m) = m
  <2>1. ASSUME NEW m \in 0 .. n PROVE Cardinality(1 .. m) = m
    <3>1. m \in Nat /\ 1 \in Int /\ m \in Int
      OBVIOUS
    <3>2. Cardinality(1 .. m) = IF 1 > m THEN 0 ELSE m - 1 + 1
      BY <3>1, FS_Interval
    <3> QED
      BY <3>1, <3>2
  <2> QED
    BY <2>1
<1>3. \A i \in 1 .. n : i - 1 \in 0 .. n
  OBVIOUS
<1>4. n \in 0 .. n
  OBVIOUS
<1> QED
  BY <1>1, <1>2, <1>3, <1>4 DEF Rank

\* A walk from an empty table that passes nothing over.
LEMMA TakenUntil ==
  ASSUME NEW N, NEW V, NEW B, NEW act, NEW val, IsWalk(N, V, B, Empty, act, val),
         \A k \in 1 .. N : act[k] # "skip", NEW t, Reached(N, Empty, act, val, t)
  PROVE  /\ t.count \in 0 .. N /\ Len(t.entries) = t.count
         /\ \A i \in 1 .. t.count : act[i] = "add" /\ t.entries[i] = val[<<i - 1, i>>]
         /\ t.count < N => act[t.count + 1] = "stop"
<1>0. N \in Nat /\ act \in [1 .. N -> Acts]
  BY DEF IsWalk
<1>1. PICK n \in 0 .. N : ReachedBy(n, N, Empty, act, val, t)
  BY DEF Reached
<1>2. \A i \in 1 .. n : act[i] = "add"
  <2>1. \A i \in 1 .. n : i \in 1 .. N /\ act[i] # "stop"
    BY <1>0, <1>1 DEF ReachedBy
  <2> QED
    BY <1>0, <2>1 DEF Acts
<1>3. Sel(act, n) = 1 .. n /\ Cardinality(Sel(act, n)) = n /\ \A i \in 1 .. n : Rank(act, i) = i - 1
  BY <1>0, <1>2, SelAll
<1>4. t.count = 0 + n /\ Len(t.entries) = 0 + n
  BY <1>1, <1>3, EmptyTab DEF ReachedBy
<1>5. t.count = n /\ Len(t.entries) = n
  BY <1>0, <1>4
<1>6. ASSUME NEW i \in 1 .. n PROVE t.entries[i] = val[<<i - 1, i>>]
  <2>1. t.entries[0 + Rank(act, i) + 1] = val[<<0 + Rank(act, i), i>>]
    BY <1>1, <1>3, EmptyTab DEF ReachedBy
  <2>2. 0 + (i - 1) + 1 = i /\ 0 + (i - 1) = i - 1
    BY <1>0
  <2> QED
    BY <1>3, <2>1, <2>2
<1>7. n < N => act[n + 1] = "stop"
  BY <1>1, EmptyTab DEF ReachedBy
<1> QED
  BY <1>2, <1>5, <1>6, <1>7

LEMMA SeqParts ==
  \A S, s : s \in Seq(S) => Len(s) \in Nat /\ DOMAIN s = 1 .. Len(s) /\ \A k \in 1 .. Len(s) : s[k] \in S
  OBVIOUS

\* The processors of a MADT.
LEMMA ProcessorsListed ==
  ASSUME NEW madt \in Seq(MadtEntry)
  PROVE  LET t == Loop(Gicc, Empty, madt) IN IsPeTable(t, madt) /\ t # OOPS
<1> DEFINE N == Len(madt)
           V == [mpidr : Nat, pe_num : Nat, pmu_gsiv : Nat]
           act == [k \in 1 .. N |-> IF madt[k].type = "GICC" THEN "add" ELSE "skip"]
           val == [x \in Nat \X (1 .. N) |->
                     [mpidr |-> madt[x[2]].mpidr, pe_num |-> x[1], pmu_gsiv |-> madt[x[2]].pmu]]
           t == Loop(Gicc, Empty, madt)
<1>1. N \in Nat /\ DOMAIN madt = 1 .. N /\ \A k \in 1 .. N : madt[k] \in MadtEntry
  BY SeqParts
<1>2. \A k \in 1 .. N : madt[k].mpidr \in Nat /\ madt[k].pmu \in Nat
  BY <1>1 DEF MadtEntry
<1>3. IsWalk(N, V, FALSE, Empty, act, val)
  <2>1. act \in [1 .. N -> Acts] /\ \A k \in 1 .. N : act[k] # "stop"
    BY DEF Acts
  <2>2. val \in [Nat \X (1 .. N) -> V]
    BY <1>2
  <2>3. Empty \in Tab(V, FALSE)
    BY EmptyTab
  <2> HIDE DEF act, val, V, N
  <2> QED
    BY <1>1, <2>1, <2>2, <2>3 DEF IsWalk
<1>4. ASSUME NEW tab \in Tab(V, FALSE), NEW k \in 1 .. N
      PROVE  Gicc(tab, madt[k]) = Act(tab, act[k], val[<<tab.count, k>>])
  <2>1. ~tab.stop /\ tab.count \in Nat
    BY DEF Tab
  <2>2. val[<<tab.count, k>>] = [mpidr |-> madt[k].mpidr, pe_num |-> tab.count, pmu_gsiv |-> madt[k].pmu]
    BY <2>1
  <2>3. act[k] = IF madt[k].type = "GICC" THEN "add" ELSE "skip"
    OBVIOUS
  <2> HIDE DEF act, val, V, N
  <2> QED
    BY <2>1, <2>2, <2>3 DEF Gicc, Act
<1>5. t \in Tab(V, FALSE) /\ Reached(N, Empty, act, val, t)
  <2> HIDE DEF act, val, V
  <2> QED
    BY <1>3, <1>4, GiccWalk
<1>a. \A k \in 1 .. N : act[k] = IF madt[k].type = "GICC" THEN "add" ELSE "skip"
  OBVIOUS
<1>b. \A c \in Nat, k \in 1 .. N :
        val[<<c, k>>] = [mpidr |-> madt[k].mpidr, pe_num |-> c, pmu_gsiv |-> madt[k].pmu]
  OBVIOUS
<1>c. \A k \in 1 .. N : act[k] # "stop"
  BY <1>a
<1> HIDE DEF act, val, V, t
<1>6. ReachedBy(N, N, Empty, act, val, t)
  <2>1. PICK n \in 0 .. N : ReachedBy(n, N, Empty, act, val, t)
    BY <1>5 DEF Reached
  <2>2. n < N => n + 1 \in 1 .. N
    BY <1>1
  <2>3. ~(n < N)
    BY <1>c, <2>1, <2>2, EmptyTab DEF ReachedBy
  <2>4. n = N
    <3> HIDE DEF N
    <3> QED
      BY <1>1, <2>1, <2>3
  <2> QED
    BY <2>1, <2>4
<1> DEFINE giccs == {i \in DOMAIN madt : madt[i].type = "GICC"}
<1>7. giccs = Sel(act, N)
  BY <1>1, <1>a DEF Sel
<1>8. ASSUME NEW i \in giccs PROVE {j \in giccs : j < i} = Sel(act, i - 1)
  BY <1>1, <1>a DEF Sel
<1>9. Cardinality(Sel(act, N)) \in Nat
  BY <1>1, SelMore
<1>10. t.count = Cardinality(giccs) /\ Len(t.entries) = Cardinality(giccs)
  <2>1. t.count = 0 + Cardinality(Sel(act, N)) /\ Len(t.entries) = 0 + Cardinality(Sel(act, N))
    BY <1>6, EmptyTab DEF ReachedBy
  <2> HIDE DEF giccs, N
  <2> QED
    BY <1>7, <1>9, <2>1
<1>11. ASSUME NEW i \in giccs
       PROVE  LET n == Cardinality({j \in giccs : j < i})
              IN  t.entries[n + 1] = [mpidr |-> madt[i].mpidr, pe_num |-> n, pmu_gsiv |-> madt[i].pmu]
  <2>1. i \in 1 .. N /\ i \in Sel(act, N) /\ i - 1 \in Nat
    BY <1>1, <1>7
  <2>2. PICK n \in Nat : n = Cardinality({j \in giccs : j < i}) /\ n = Rank(act, i)
    <3>1. Cardinality(Sel(act, i - 1)) \in Nat
      BY <2>1, SelMore
    <3> HIDE DEF giccs, N
    <3> QED
      BY <1>8, <3>1 DEF Rank
  <2>3. t.entries[0 + n + 1] = val[<<0 + n, i>>]
    BY <1>6, <2>1, <2>2, EmptyTab DEF ReachedBy
  <2>4. 0 + n = n
    OBVIOUS
  <2>5. t.entries[n + 1] = [mpidr |-> madt[i].mpidr, pe_num |-> n, pmu_gsiv |-> madt[i].pmu]
    BY <1>b, <2>1, <2>3, <2>4
  <2> HIDE DEF giccs, N
  <2> QED
    BY <2>2, <2>5
<1>12. t # OOPS
  BY <1>5 DEF Tab, OOPS
<1>13. IsPeTable(t, madt)
  <2> HIDE DEF N
  <2> QED
    BY <1>10, <1>11 DEF IsPeTable, Whole
<1> QED
  BY <1>12, <1>13 DEF t

\* The processors of the device tree.
LEMMA ProcessorNodesListed ==
  ASSUME NEW cpus \in Seq(CpuNodes)
  PROVE  LET t == Loop(CpuNode, Empty, cpus)
             numbered == {i \in DOMAIN cpus : cpus[i].reg # <<>> /\ ReadNumber(cpus[i]) \in Affinities}
         IN  /\ t # OOPS /\ Whole(t) /\ StopsAt(t.count, cpus, numbered)
             /\ \A i \in 1 .. t.count : t.entries[i].mpidr = ReadNumber(cpus[i])
<1> DEFINE N == Len(cpus)
           V == [mpidr : Int, pe_num : Nat, pmu_gsiv : Nat]
           id(k) == GetCpuMpidr(cpus[k])
           act == [k \in 1 .. N |-> IF id(k) = INVALID_HWID THEN "stop" ELSE "add"]
           val == [x \in Nat \X (1 .. N) |-> [mpidr |-> id(x[2]), pe_num |-> x[1], pmu_gsiv |-> 0]]
           t == Loop(CpuNode, Empty, cpus)
           numbered == {i \in DOMAIN cpus : cpus[i].reg # <<>> /\ ReadNumber(cpus[i]) \in Affinities}
<1>1. N \in Nat /\ DOMAIN cpus = 1 .. N /\ \A k \in 1 .. N : cpus[k] \in CpuNodes
  BY SeqParts
<1>2. ASSUME NEW k \in 1 .. N
      PROVE  /\ id(k) \in Int
             /\ id(k) # INVALID_HWID <=> k \in numbered
             /\ k \in numbered => id(k) = ReadNumber(cpus[k])
  <2>1. \A n \in Affinities : n # INVALID_HWID /\ n \in Int
    BY DEF Affinities, INVALID_HWID
  <2>2. INVALID_HWID \in Int
    BY DEF INVALID_HWID
  <2> HIDE DEF N
  <2> QED
    BY <1>1, <2>1, <2>2 DEF GetCpuMpidr
<1>3. IsWalk(N, V, TRUE, Empty, act, val)
  <2>1. act \in [1 .. N -> Acts]
    BY DEF Acts
  <2>2. val \in [Nat \X (1 .. N) -> V]
    <3> HIDE DEF id, N
    <3> QED
      BY <1>2
  <2>3. Empty \in Tab(V, TRUE)
    BY EmptyTab
  <2> HIDE DEF act, val, V, N
  <2> QED
    BY <1>1, <2>1, <2>2, <2>3 DEF IsWalk
<1>4. ASSUME NEW tab \in Tab(V, TRUE), NEW k \in 1 .. N
      PROVE  CpuNode(tab, cpus[k]) = Act(tab, act[k], val[<<tab.count, k>>])
  <2>1. tab.count \in Nat
    BY DEF Tab
  <2>2. val[<<tab.count, k>>] = [mpidr |-> GetCpuMpidr(cpus[k]), pe_num |-> tab.count, pmu_gsiv |-> 0]
    BY <2>1
  <2>3. act[k] = IF GetCpuMpidr(cpus[k]) = INVALID_HWID THEN "stop" ELSE "add"
    OBVIOUS
  <2>4. tab.stop => [tab EXCEPT !.stop = TRUE] = tab
    BY DEF Tab
  <2> HIDE DEF act, val, V, N
  <2> QED
    BY <2>2, <2>3, <2>4 DEF CpuNode, Act
<1>5. t \in Tab(V, TRUE) /\ Reached(N, Empty, act, val, t)
  <2> HIDE DEF act, val, V, id
  <2> QED
    BY <1>3, <1>4, CpuNodeWalk
<1>a. \A k \in 1 .. N : (act[k] = "stop" <=> id(k) = INVALID_HWID) /\ (act[k] = "add" <=> id(k) # INVALID_HWID)
                        /\ act[k] # "skip"
  <2> HIDE DEF id
  <2> QED
    OBVIOUS
<1>b. \A c \in Nat, k \in 1 .. N : val[<<c, k>>].mpidr = id(k)
  <2> HIDE DEF id
  <2> QED
    OBVIOUS
<1> HIDE DEF act, val, V, t, id, numbered
<1>6. /\ t.count \in 0 .. N /\ Len(t.entries) = t.count
      /\ \A i \in 1 .. t.count : act[i] = "add" /\ t.entries[i] = val[<<i - 1, i>>]
      /\ t.count < N => act[t.count + 1] = "stop"
  <2> HIDE DEF N
  <2> QED
    BY <1>3, <1>5, <1>a, TakenUntil
<1>7. \A i \in 1 .. t.count : i \in 1 .. N /\ i - 1 \in Nat
  <2> HIDE DEF N
  <2> QED
    BY <1>1, <1>6
<1>8. 1 .. t.count \subseteq numbered
  <2> HIDE DEF N
  <2> QED
    BY <1>2, <1>6, <1>7, <1>a
<1>9. t.count < N => t.count + 1 \notin numbered
  <2>1. t.count < N => t.count + 1 \in 1 .. N
    <3> HIDE DEF N
    <3> QED
      BY <1>1, <1>6
  <2> HIDE DEF N
  <2> QED
    BY <1>2, <1>6, <1>a, <2>1
<1>10. \A i \in 1 .. t.count : t.entries[i].mpidr = ReadNumber(cpus[i])
  <2> SUFFICES ASSUME NEW i \in 1 .. t.count PROVE t.entries[i].mpidr = ReadNumber(cpus[i])
    OBVIOUS
  <2> HIDE DEF N
  <2>1. i \in 1 .. N /\ i - 1 \in Nat /\ i \in numbered
    BY <1>7, <1>8
  <2>2. t.entries[i] = val[<<i - 1, i>>]
    BY <1>6
  <2>3. val[<<i - 1, i>>].mpidr = id(i)
    BY <1>b, <2>1
  <2> QED
    BY <1>2, <2>1, <2>2, <2>3
<1>11. t # OOPS
  BY <1>5 DEF Tab, OOPS
<1>12. Whole(t) /\ StopsAt(t.count, cpus, numbered)
  BY <1>6, <1>8, <1>9 DEF Whole, StopsAt
<1> QED
  BY <1>10, <1>11, <1>12 DEF t, numbered

\* The regions of the device tree.
LEMMA RegionNodesListed ==
  ASSUME NEW ecams \in Seq(EcamNodes)
  PROVE  LET t == Loop(EcamNode, Empty, ecams)
         IN  /\ Whole(t) /\ StopsAt(t.count, ecams, {i \in DOMAIN ecams : Complete(ecams[i])})
             /\ \A i \in 1 .. t.count : t.entries[i].base = ReadNumber(ecams[i])
<1> DEFINE N == Len(ecams)
           V == {EcamOf(node) : node \in EcamNodes}
           act == [k \in 1 .. N |-> IF Complete(ecams[k]) THEN "add" ELSE "stop"]
           val == [x \in Nat \X (1 .. N) |-> EcamOf(ecams[x[2]])]
           t == Loop(EcamNode, Empty, ecams)
           complete == {i \in DOMAIN ecams : Complete(ecams[i])}
<1>1. N \in Nat /\ DOMAIN ecams = 1 .. N /\ \A k \in 1 .. N : ecams[k] \in EcamNodes
  BY SeqParts
<1>2. \A k \in 1 .. N : EcamOf(ecams[k]) \in V
  BY <1>1
<1>3. IsWalk(N, V, TRUE, Empty, act, val)
  <2>1. act \in [1 .. N -> Acts]
    BY DEF Acts
  <2>2. val \in [Nat \X (1 .. N) -> V]
    <3> HIDE DEF V, N
    <3> QED
      BY <1>2
  <2>3. Empty \in Tab(V, TRUE)
    BY EmptyTab
  <2> HIDE DEF act, val, V, N
  <2> QED
    BY <1>1, <2>1, <2>2, <2>3 DEF IsWalk
<1>4. ASSUME NEW tab \in Tab(V, TRUE), NEW k \in 1 .. N
      PROVE  EcamNode(tab, ecams[k]) = Act(tab, act[k], val[<<tab.count, k>>])
  <2>1. tab.count \in Nat
    BY DEF Tab
  <2>2. val[<<tab.count, k>>] = EcamOf(ecams[k])
    BY <2>1
  <2>3. act[k] = IF Complete(ecams[k]) THEN "add" ELSE "stop"
    OBVIOUS
  <2>4. tab.stop => [tab EXCEPT !.stop = TRUE] = tab
    BY DEF Tab
  <2> HIDE DEF act, val, V, N
  <2> QED
    BY <2>2, <2>3, <2>4 DEF EcamNode, Act
<1>5. Reached(N, Empty, act, val, t)
  <2> HIDE DEF act, val, V
  <2> QED
    BY <1>3, <1>4, EcamNodeWalk
<1>a. \A k \in 1 .. N : act[k] # "skip" /\ act[k] = IF Complete(ecams[k]) THEN "add" ELSE "stop"
  OBVIOUS
<1>b. \A c \in Nat, k \in 1 .. N : val[<<c, k>>].base = ReadNumber(ecams[k])
  BY DEF EcamOf
<1> HIDE DEF act, val, V, t, N
<1>6. /\ t.count \in 0 .. N /\ Len(t.entries) = t.count
      /\ \A i \in 1 .. t.count : act[i] = "add" /\ t.entries[i] = val[<<i - 1, i>>]
      /\ t.count < N => act[t.count + 1] = "stop"
  BY <1>3, <1>5, <1>a, TakenUntil
<1>7. \A i \in 1 .. t.count : i \in 1 .. N /\ i - 1 \in Nat
  BY <1>1, <1>6
<1>8. 1 .. t.count \subseteq complete
  BY <1>1, <1>6, <1>7, <1>a
<1>9. t.count < N => t.count + 1 \notin complete
  <2>1. t.count < N => t.count + 1 \in 1 .. N
    BY <1>1, <1>6
  <2> QED
    BY <1>1, <1>6, <1>a, <2>1
<1>10. \A i \in 1 .. t.count : t.entries[i].base = ReadNumber(ecams[i])
  BY <1>6, <1>7, <1>b
<1>11. Whole(t) /\ StopsAt(t.count, ecams, complete)
  BY <1>6, <1>8, <1>9 DEF Whole, StopsAt, N
<1> QED
  BY <1>10, <1>11 DEF t

\* The regions of an MCFG.
LEMMA RegionsListed ==
  ASSUME NEW S, NEW mcfg \in Seq(S)
  PROVE  LET t == Loop(Ecam, Empty, mcfg) IN t.entries = mcfg /\ Whole(t)
<1> DEFINE N == Len(mcfg)
           act == [k \in 1 .. N |-> "add"]
           val == [x \in Nat \X (1 .. N) |-> mcfg[x[2]]]
           t == Loop(Ecam, Empty, mcfg)
<1>1. N \in Nat /\ \A k \in 1 .. N : mcfg[k] \in S
  BY SeqParts
<1>3. IsWalk(N, S, FALSE, Empty, act, val)
  <2>1. act \in [1 .. N -> Acts] /\ \A k \in 1 .. N : act[k] # "stop"
    BY DEF Acts
  <2>2. val \in [Nat \X (1 .. N) -> S]
    BY <1>1
  <2>3. Empty \in Tab(S, FALSE)
    BY EmptyTab
  <2> HIDE DEF act, val, N
  <2> QED
    BY <1>1, <2>1, <2>2, <2>3 DEF IsWalk
<1>4. ASSUME NEW tab \in Tab(S, FALSE), NEW k \in 1 .. N
      PROVE  Ecam(tab, mcfg[k]) = Act(tab, act[k], val[<<tab.count, k>>])
  <2>1. ~tab.stop /\ tab.count \in Nat
    BY DEF Tab
  <2>2. val[<<tab.count, k>>] = mcfg[k] /\ act[k] = "add"
    BY <2>1
  <2> HIDE DEF act, val, N
  <2> QED
    BY <2>1, <2>2 DEF Ecam, Act
<1>5. Reached(N, Empty, act, val, t) /\ t \in Tab(S, FALSE)
  <2>1. t = Loop(Ecam, Empty, mcfg)
    OBVIOUS
  <2> HIDE DEF act, val
  <2>2. Loop(Ecam, Empty, mcfg) \in Tab(S, FALSE) /\ Reached(N, Empty, act, val, Loop(Ecam, Empty, mcfg))
    BY <1>3, <1>4, EcamWalk
  <2> HIDE DEF t
  <2> QED
    BY <2>1, <2>2
<1>a. \A k \in 1 .. N : act[k] # "skip" /\ act[k] = "add"
  OBVIOUS
<1>b. \A c \in Nat, k \in 1 .. N : val[<<c, k>>] = mcfg[k]
  OBVIOUS
<1> HIDE DEF act, val, t, N
<1>6. /\ t.count \in 0 .. N /\ Len(t.entries) = t.count
      /\ \A i \in 1 .. t.count : act[i] = "add" /\ t.entries[i] = val[<<i - 1, i>>]
      /\ t.count < N => act[t.count + 1] = "stop"
  BY <1>3, <1>5, <1>a, TakenUntil
<1>7. t.count = N
  <2>1. t.count < N => t.count + 1 \in 1 .. N
    BY <1>1, <1>6
  <2> QED
    BY <1>1, <1>6, <1>a, <2>1
<1>8. \A i \in 1 .. N : t.entries[i] = mcfg[i]
  <2>1. \A i \in 1 .. N : i - 1 \in Nat
    BY <1>1
  <2> QED
    BY <1>6, <1>7, <1>b, <2>1
<1>9. t.entries \in Seq(S)
  BY <1>5 DEF Tab
<1>10. t.entries = mcfg
  <2>1. PICK es \in Seq(S) : es = t.entries
    BY <1>9
  <2>2. Len(es) = Len(mcfg) /\ \A i \in 1 .. Len(mcfg) : es[i] = mcfg[i]
    BY <1>6, <1>7, <1>8, <2>1 DEF N
  <2>3. es = mcfg
    BY <2>2
  <2> QED
    BY <2>1, <2>3
<1> QED
  BY <1>6, <1>10 DEF t, Whole

Smmu == {[type |-> ty, rev |-> v, base |-> FirstCell(node)] : ty \in {"SMMU_V3", "SMMU"}, v \in 1 .. 3, node \in SmmuNodes}
Of(nodes, v) == {j \in DOMAIN nodes : nodes[j].version = v}
UpTo(nodes, v, i) == {j \in Of(nodes, v) : j <= i}

\* The first cell is the address, or its part above the last cell.
LEMMA EntryOfFirstCell ==
  ASSUME NEW node \in SmmuNodes, Len(node.reg) >= 2, NEW e, e.rev = node.version, e.base = FirstCell(node)
  PROVE  IsEntryOf(e, node)
<1>1. node.reg \in Seq(0 .. CELL - 1) /\ CELL \in Nat \ {0}
  BY FirmwaresAssumption DEF SmmuNodes, Reg
<1>2. PICK a, b \in 0 .. CELL - 1 : a = node.reg[1] /\ b = node.reg[2]
  BY <1>1
<1>3. a * CELL <= a * CELL + b /\ a * CELL + b < (a + 1) * CELL
  <2>1. a \in Nat /\ b \in Nat /\ b < CELL /\ a * CELL \in Nat /\ (a + 1) * CELL = a * CELL + CELL
    BY <1>1
  <2> QED
    BY <1>1, <2>1
<1> QED
  BY <1>2, <1>3 DEF IsEntryOf, FirstCell, ReadNumber

LEMMA OfFinite ==
  ASSUME NEW nodes \in Seq(SmmuNodes), NEW v, NEW i
  PROVE  /\ IsFiniteSet(Of(nodes, v)) /\ Cardinality(Of(nodes, v)) \in Nat
         /\ IsFiniteSet(UpTo(nodes, v, i)) /\ Cardinality(UpTo(nodes, v, i)) \in Nat
         /\ Cardinality(UpTo(nodes, v, i)) <= Cardinality(Of(nodes, v))
<1>1. Len(nodes) \in Nat /\ DOMAIN nodes = 1 .. Len(nodes)
  BY SeqParts
<1>2. IsFiniteSet(1 .. Len(nodes))
  BY <1>1, FS_Interval
<1>3. Of(nodes, v) \subseteq 1 .. Len(nodes) /\ UpTo(nodes, v, i) \subseteq Of(nodes, v)
  BY <1>1 DEF Of, UpTo
<1>4. IsFiniteSet(Of(nodes, v))
  BY <1>2, <1>3, FS_Subset
<1>5. IsFiniteSet(UpTo(nodes, v, i)) /\ Cardinality(UpTo(nodes, v, i)) <= Cardinality(Of(nodes, v))
  BY <1>3, <1>4, FS_Subset
<1> QED
  BY <1>4, <1>5, FS_CardinalityType

LEMMA Apart ==
  ASSUME NEW S, NEW T, IsFiniteSet(S), IsFiniteSet(T), S \cap T = {}
  PROVE  IsFiniteSet(S \cup T) /\ Cardinality(S \cup T) = Cardinality(S) + Cardinality(T)
<1>1. /\ IsFiniteSet(S \cup T)
      /\ Cardinality(S \cup T) = Cardinality(S) + Cardinality(T) - Cardinality({})
  BY FS_Union
<1>2. Cardinality(S) \in Nat /\ Cardinality(T) \in Nat /\ Cardinality({}) = 0
  BY FS_CardinalityType, FS_EmptySet
<1> QED
  BY <1>1, <1>2

\* One walk over the nodes, for the SMMUs of one version.
LEMMA VersionListed ==
  ASSUME NEW nodes \in Seq(SmmuNodes), NEW v \in 1 .. 3, NEW s \in Tab(Smmu, TRUE)
  PROVE  LET t == SmmusOf(v, s, nodes) IN
         /\ t \in Tab(Smmu, TRUE)
         /\ Whole(s) => Whole(t)
         /\ ~s.stop /\ (\A i \in DOMAIN nodes : Len(nodes[i].reg) >= 2) =>
              /\ ~t.stop
              /\ t.count = s.count + Cardinality(Of(nodes, v))
              /\ \A i \in 1 .. Len(s.entries) : t.entries[i] = s.entries[i]
              /\ \A i \in Of(nodes, v) :
                   LET e == t.entries[Len(s.entries) + Cardinality(UpTo(nodes, v, i))]
                   IN  e.rev = v /\ e.base = FirstCell(nodes[i])
<1> DEFINE N == Len(nodes)
           act == [k \in 1 .. N |-> IF nodes[k].version # v THEN "skip"
                                    ELSE IF Len(nodes[k].reg) >= 2 THEN "add" ELSE "stop"]
           val == [x \in Nat \X (1 .. N) |-> [type |-> IF v = 3 THEN "SMMU_V3" ELSE "SMMU", rev |-> v,
                                              base |-> FirstCell(nodes[x[2]])]]
           t == SmmusOf(v, s, nodes)
<1>1. N \in Nat /\ DOMAIN nodes = 1 .. N /\ \A k \in 1 .. N : nodes[k] \in SmmuNodes
  BY SeqParts
<1>2. \A k \in 1 .. N : [type |-> IF v = 3 THEN "SMMU_V3" ELSE "SMMU", rev |-> v, base |-> FirstCell(nodes[k])] \in Smmu
  BY <1>1 DEF Smmu
<1>3. IsWalk(N, Smmu, TRUE, s, act, val)
  <2>1. act \in [1 .. N -> Acts]
    BY DEF Acts
  <2>2. val \in [Nat \X (1 .. N) -> Smmu]
    BY <1>2
  <2> HIDE DEF act, val, N
  <2> QED
    BY <1>1, <2>1, <2>2 DEF IsWalk
<1>4. ASSUME NEW tab \in Tab(Smmu, TRUE), NEW k \in 1 .. N
      PROVE  SmmuNode(tab, nodes[k], v) = Act(tab, act[k], val[<<tab.count, k>>])
  <2>1. tab.count \in Nat
    BY DEF Tab
  <2>2. val[<<tab.count, k>>] = [type |-> IF v = 3 THEN "SMMU_V3" ELSE "SMMU", rev |-> v,
                                 base |-> FirstCell(nodes[k])]
    BY <2>1
  <2>3. act[k] = IF nodes[k].version # v THEN "skip" ELSE IF Len(nodes[k].reg) >= 2 THEN "add" ELSE "stop"
    OBVIOUS
  <2>4. nodes[k].reg \in Seq(0 .. CELL - 1)
    BY <1>1 DEF SmmuNodes, Reg
  <2> HIDE DEF act, val, N
  <2> QED
    BY <2>2, <2>3, <2>4 DEF SmmuNode, Act
<1>5. t \in Tab(Smmu, TRUE) /\ Reached(N, s, act, val, t)
  <2> HIDE DEF act, val
  <2> QED
    BY <1>3, <1>4, SmmuWalk
<1>a. \A k \in 1 .. N : act[k] = IF nodes[k].version # v THEN "skip"
                                 ELSE IF Len(nodes[k].reg) >= 2 THEN "add" ELSE "stop"
  OBVIOUS
<1>b. \A c \in Nat, k \in 1 .. N : val[<<c, k>>].rev = v /\ val[<<c, k>>].base = FirstCell(nodes[k])
  OBVIOUS
<1> HIDE DEF act, val, t, N
<1>6. PICK n \in 0 .. N : ReachedBy(n, N, s, act, val, t)
  BY <1>5 DEF Reached
<1>7. s.count \in Nat /\ Len(s.entries) \in Nat /\ t.stop \in BOOLEAN /\ s.stop \in BOOLEAN
  BY <1>5 DEF Tab
<1>8. Whole(s) => Whole(t)
  <2>1. t.count = s.count + Cardinality(Sel(act, n)) /\ Len(t.entries) = Len(s.entries) + Cardinality(Sel(act, n))
    BY <1>6 DEF ReachedBy
  <2> QED
    BY <2>1 DEF Whole
<1>9. ASSUME ~s.stop, \A i \in DOMAIN nodes : Len(nodes[i].reg) >= 2
      PROVE  /\ ~t.stop
             /\ t.count = s.count + Cardinality(Of(nodes, v))
             /\ \A i \in 1 .. Len(s.entries) : t.entries[i] = s.entries[i]
             /\ \A i \in Of(nodes, v) :
                  LET e == t.entries[Len(s.entries) + Cardinality(UpTo(nodes, v, i))]
                  IN  e.rev = v /\ e.base = FirstCell(nodes[i])
  <2>1. n = N
    <3>1. n < N => n + 1 \in 1 .. N
      BY <1>1
    <3>2. \A k \in 1 .. N : act[k] # "stop"
      BY <1>1, <1>9, <1>a
    <3>3. ~(n < N)
      BY <1>6, <1>9, <3>1, <3>2 DEF ReachedBy
    <3> QED
      BY <1>1, <3>3
  <2>2. ~t.stop
    BY <1>1, <1>6, <1>7, <1>9, <2>1 DEF ReachedBy
  <2>3. Sel(act, N) = Of(nodes, v)
    BY <1>1, <1>9, <1>a DEF Sel, Of
  <2>4. t.count = s.count + Cardinality(Of(nodes, v)) /\ \A i \in 1 .. Len(s.entries) : t.entries[i] = s.entries[i]
    BY <1>6, <2>1, <2>3 DEF ReachedBy
  <2>5. ASSUME NEW i \in Of(nodes, v)
        PROVE  LET e == t.entries[Len(s.entries) + Cardinality(UpTo(nodes, v, i))]
               IN  e.rev = v /\ e.base = FirstCell(nodes[i])
    <3>1. i \in Nat /\ i \in 1 .. N /\ i - 1 \in Nat /\ i - 1 + 1 = i /\ act[i] = "add"
      BY <1>1, <1>9, <1>a DEF Of
    <3>2. UpTo(nodes, v, i) = Sel(act, i)
      BY <1>1, <1>9, <1>a, <3>1 DEF UpTo, Of, Sel
    <3>3. PICK r \in Nat : r = Rank(act, i) /\ Cardinality(UpTo(nodes, v, i)) = r + 1
      <4>1. Cardinality(Sel(act, i - 1)) \in Nat
            /\ Cardinality(Sel(act, i - 1 + 1)) = Cardinality(Sel(act, i - 1)) + 1
        BY <3>1, SelMore
      <4> QED
        BY <3>1, <3>2, <4>1 DEF Rank
    <3>4. t.entries[Len(s.entries) + r + 1] = val[<<s.count + r, i>>]
      BY <1>6, <2>1, <2>3, <3>3 DEF ReachedBy
    <3>5. Len(s.entries) + r + 1 = Len(s.entries) + Cardinality(UpTo(nodes, v, i)) /\ s.count + r \in Nat
      BY <1>7, <3>3
    <3> QED
      BY <1>b, <3>1, <3>4, <3>5
  <2> QED
    BY <2>2, <2>4, <2>5
<1> QED
  BY <1>5, <1>8, <1>9 DEF t

\* The three walks.
LEMMA SmmusListed ==
  ASSUME NEW fw, fw.smmus \in Seq(SmmuNodes)
  PROVE  LET t == IovirtTableDt(fw) IN
         /\ Whole(t)
         /\ (\A i \in DOMAIN fw.smmus : Len(fw.smmus[i].reg) >= 2) =>
              /\ t.count = Len(fw.smmus)
              /\ \A i \in DOMAIN fw.smmus :
                   IsEntryOf(t.entries[Place(fw.smmus, i)], fw.smmus[i])
<1>1. PICK nodes \in Seq(SmmuNodes) : nodes = fw.smmus
  OBVIOUS
<1>2. PICK s1 : s1 = SmmusOf(1, Empty, nodes)
  OBVIOUS
<1>3. PICK s2 : s2 = SmmusOf(2, s1, nodes)
  OBVIOUS
<1>4. PICK s3 : s3 = SmmusOf(3, s2, nodes)
  OBVIOUS
<1>5. s3 = IovirtTableDt(fw)
  BY <1>1, <1>2, <1>3, <1>4 DEF IovirtTableDt
<1> DEFINE Next1(v, s, t) ==
             /\ t \in Tab(Smmu, TRUE)
             /\ Whole(s) => Whole(t)
             /\ ~s.stop /\ (\A i \in DOMAIN nodes : Len(nodes[i].reg) >= 2) =>
                  /\ ~t.stop
                  /\ t.count = s.count + Cardinality(Of(nodes, v))
                  /\ \A i \in 1 .. Len(s.entries) : t.entries[i] = s.entries[i]
                  /\ \A i \in Of(nodes, v) :
                       LET e == t.entries[Len(s.entries) + Cardinality(UpTo(nodes, v, i))]
                       IN  e.rev = v /\ e.base = FirstCell(nodes[i])
<1>6. \A v \in 1 .. 3, s \in Tab(Smmu, TRUE) : Next1(v, s, SmmusOf(v, s, nodes))
  BY VersionListed
<1>7. Next1(1, Empty, s1) /\ Next1(2, s1, s2) /\ Next1(3, s2, s3)
  <2>0. 1 \in 1 .. 3 /\ 2 \in 1 .. 3 /\ 3 \in 1 .. 3
    OBVIOUS
  <2>1. Next1(1, Empty, s1)
    <3>1. Empty \in Tab(Smmu, TRUE)
      BY EmptyTab
    <3> HIDE DEF Next1
    <3> QED
      BY <1>2, <1>6, <2>0, <3>1
  <2>2. s1 \in Tab(Smmu, TRUE)
    BY <2>1
  <2>3. Next1(2, s1, s2)
    <3> HIDE DEF Next1
    <3> QED
      BY <1>3, <1>6, <2>0, <2>2
  <2>4. s2 \in Tab(Smmu, TRUE)
    BY <2>3
  <2>5. Next1(3, s2, s3)
    <3> HIDE DEF Next1
    <3> QED
      BY <1>4, <1>6, <2>0, <2>4
  <2> QED
    BY <2>1, <2>3, <2>5
<1>8. Whole(s1) /\ Whole(s2) /\ Whole(s3)
  BY <1>7, EmptyTab DEF Whole
<1>9. ASSUME \A i \in DOMAIN nodes : Len(nodes[i].reg) >= 2
      PROVE  /\ s3.count = Len(nodes)
             /\ \A i \in DOMAIN nodes :
                  LET e == s3.entries[Place(nodes, i)]
                  IN  e.rev = nodes[i].version /\ e.base = FirstCell(nodes[i])
  <2>1. PICK c1 \in Nat : c1 = Cardinality(Of(nodes, 1))
    BY OfFinite
  <2>2. PICK c2 \in Nat : c2 = Cardinality(Of(nodes, 2))
    BY OfFinite
  <2>3. PICK c3 \in Nat : c3 = Cardinality(Of(nodes, 3))
    BY OfFinite
  <2>4. ~s1.stop /\ s1.count = c1 /\ Len(s1.entries) = c1
    <3>1. ~s1.stop /\ s1.count = 0 + c1
      BY <1>7, <1>9, <2>1, EmptyTab
    <3> QED
      BY <1>8, <3>1 DEF Whole
  <2>5. ~s2.stop /\ s2.count = c1 + c2 /\ Len(s2.entries) = c1 + c2
    <3>1. ~s2.stop /\ s2.count = c1 + c2
      BY <1>7, <1>9, <2>2, <2>4
    <3> QED
      BY <1>8, <3>1 DEF Whole
  <2>6. s3.count = c1 + c2 + c3
    BY <1>7, <1>9, <2>3, <2>5
  <2>7. Len(nodes) \in Nat /\ DOMAIN nodes = 1 .. Len(nodes) /\ \A i \in DOMAIN nodes : nodes[i].version \in 1 .. 3
    <3>1. \A i \in 1 .. Len(nodes) : nodes[i] \in SmmuNodes
      BY SeqParts
    <3>2. Len(nodes) \in Nat /\ DOMAIN nodes = 1 .. Len(nodes)
      BY SeqParts
    <3> QED
      BY <3>1, <3>2 DEF SmmuNodes
  <2>8. /\ IsFiniteSet(Of(nodes, 1) \cup Of(nodes, 2))
        /\ Cardinality(Of(nodes, 1) \cup Of(nodes, 2)) = c1 + c2
    <3>1. Of(nodes, 1) \cap Of(nodes, 2) = {}
      BY DEF Of
    <3> QED
      BY <2>1, <2>2, <3>1, OfFinite, Apart
  <2>9. Len(nodes) = c1 + c2 + c3
    <3>1. (Of(nodes, 1) \cup Of(nodes, 2)) \cap Of(nodes, 3) = {}
      BY DEF Of
    <3>2. Cardinality((Of(nodes, 1) \cup Of(nodes, 2)) \cup Of(nodes, 3)) = c1 + c2 + c3
      BY <2>3, <2>8, <3>1, OfFinite, Apart
    <3>3. (Of(nodes, 1) \cup Of(nodes, 2)) \cup Of(nodes, 3) = 1 .. Len(nodes)
      BY <2>7 DEF Of
    <3>4. Cardinality(1 .. Len(nodes)) = IF 1 > Len(nodes) THEN 0 ELSE Len(nodes) - 1 + 1
      <4>1. 1 \in Int /\ Len(nodes) \in Int
        BY <2>7
      <4> QED
        BY <4>1, FS_Interval
    <3>5. Cardinality(1 .. Len(nodes)) = Len(nodes)
      BY <2>7, <3>4
    <3> QED
      BY <3>2, <3>3, <3>5
  <2>10. ASSUME NEW i \in DOMAIN nodes
         PROVE  LET e == s3.entries[Place(nodes, i)]
                IN  e.rev = nodes[i].version /\ e.base = FirstCell(nodes[i])
    <3>0. i \in Nat /\ \A v : IsFiniteSet(UpTo(nodes, v, i)) /\ Cardinality(UpTo(nodes, v, i)) \in Nat
                             /\ Cardinality(UpTo(nodes, v, i)) <= Cardinality(Of(nodes, v))
      BY <2>7, OfFinite
    <3>a. \A v : nodes[i].version = v => i \in Of(nodes, v) /\ i \in UpTo(nodes, v, i)
      BY <3>0 DEF Of, UpTo
    <3>b. \A v : nodes[i].version = v => Cardinality(UpTo(nodes, v, i)) >= 1
      <4>1. ASSUME NEW v, nodes[i].version = v PROVE Cardinality(UpTo(nodes, v, i)) >= 1
        <5>1. i \in UpTo(nodes, v, i) /\ IsFiniteSet(UpTo(nodes, v, i)) /\ Cardinality(UpTo(nodes, v, i)) \in Nat
          BY <3>0, <3>a, <4>1
        <5>2. Cardinality(UpTo(nodes, v, i)) # 0
          BY <5>1, FS_EmptySet
        <5> QED
          BY <5>1, <5>2
      <4> QED
        BY <4>1
    <3>1. CASE nodes[i].version = 1
      <4>1. Place(nodes, i) = Cardinality(UpTo(nodes, 1, i))
        <5>1. {j \in DOMAIN nodes : \/ nodes[j].version < nodes[i].version
                                    \/ nodes[j].version = nodes[i].version /\ j <= i} = UpTo(nodes, 1, i)
          BY <2>7, <3>1 DEF UpTo, Of
        <5> QED
          BY <5>1 DEF Place
      <4>2. PICK p \in Nat : p = Cardinality(UpTo(nodes, 1, i)) /\ p >= 1 /\ p <= c1
        BY <2>1, <3>0, <3>1, <3>b
      <4>3. s1.entries[0 + p].rev = 1 /\ s1.entries[0 + p].base = FirstCell(nodes[i])
        BY <1>7, <1>9, <3>1, <3>a, <4>2, EmptyTab
      <4>4. 0 + p = p /\ p \in 1 .. c1 /\ p \in 1 .. c1 + c2
        BY <4>2
      <4>5. s2.entries[p] = s1.entries[p] /\ s3.entries[p] = s2.entries[p]
        BY <1>7, <1>9, <2>4, <2>5, <4>4
      <4> QED
        BY <3>1, <4>1, <4>2, <4>3, <4>4, <4>5
    <3>2. CASE nodes[i].version = 2
      <4>1. Place(nodes, i) = c1 + Cardinality(UpTo(nodes, 2, i))
        <5>1. {j \in DOMAIN nodes : \/ nodes[j].version < nodes[i].version
                                    \/ nodes[j].version = nodes[i].version /\ j <= i}
              = Of(nodes, 1) \cup UpTo(nodes, 2, i)
          BY <2>7, <3>2 DEF UpTo, Of
        <5>2. Of(nodes, 1) \cap UpTo(nodes, 2, i) = {}
          BY DEF UpTo, Of
        <5> QED
          BY <2>1, <3>0, <5>1, <5>2, OfFinite, Apart DEF Place
      <4>2. PICK p \in Nat : p = Cardinality(UpTo(nodes, 2, i)) /\ p >= 1 /\ p <= c2
        BY <2>2, <3>0, <3>2, <3>b
      <4>3. s2.entries[c1 + p].rev = 2 /\ s2.entries[c1 + p].base = FirstCell(nodes[i])
        BY <1>7, <1>9, <2>4, <3>2, <3>a, <4>2
      <4>4. c1 + p \in 1 .. c1 + c2
        BY <4>2
      <4>5. s3.entries[c1 + p] = s2.entries[c1 + p]
        BY <1>7, <1>9, <2>5, <4>4
      <4> QED
        BY <3>2, <4>1, <4>2, <4>3, <4>5
    <3>3. CASE nodes[i].version = 3
      <4>1. Place(nodes, i) = c1 + c2 + Cardinality(UpTo(nodes, 3, i))
        <5>1. {j \in DOMAIN nodes : \/ nodes[j].version < nodes[i].version
                                    \/ nodes[j].version = nodes[i].version /\ j <= i}
              = (Of(nodes, 1) \cup Of(nodes, 2)) \cup UpTo(nodes, 3, i)
          BY <2>7, <3>3 DEF UpTo, Of
        <5>2. (Of(nodes, 1) \cup Of(nodes, 2)) \cap UpTo(nodes, 3, i) = {}
          BY DEF UpTo, Of
        <5> QED
          BY <2>8, <3>0, <5>1, <5>2, Apart DEF Place
      <4>2. PICK p \in Nat : p = Cardinality(UpTo(nodes, 3, i))
        BY <3>0
      <4>3. s3.entries[c1 + c2 + p].rev = 3 /\ s3.entries[c1 + c2 + p].base = FirstCell(nodes[i])
        BY <1>7, <1>9, <2>5, <3>3, <3>a, <4>2
      <4> QED
        BY <3>3, <4>1, <4>2, <4>3
    <3> QED
      BY <2>7, <3>1, <3>2, <3>3
  <2> QED
    BY <2>6, <2>9, <2>10
<1>10. ASSUME \A i \in DOMAIN nodes : Len(nodes[i].reg) >= 2, NEW i \in DOMAIN nodes
       PROVE  IsEntryOf(s3.entries[Place(nodes, i)], nodes[i])
  <2>1. nodes[i] \in SmmuNodes
    BY SeqParts
  <2> QED
    BY <1>9, <1>10, <2>1, EntryOfFirstCell
<1> HIDE DEF Next1
<1> QED
  BY <1>1, <1>5, <1>8, <1>9, <1>10

\* What the pointers are, with an ACPI table and without.
LEMMA Pointers ==
  /\ \A table, clears : table # MISSING => BsaTable(table, clears) = table /\ SbsaTable(table, clears) = table
                                           /\ SdeiTable(table, clears) = table
  /\ \A clears : BsaTable(MISSING, clears) = NO_TABLE
  /\ \A clears \in BOOLEAN : SbsaTable(MISSING, clears) = (IF clears THEN NO_TABLE ELSE WILD)
                             /\ SdeiTable(MISSING, clears) = (IF clears THEN NO_TABLE ELSE WILD)
  /\ NO_TABLE # WILD
<1>1. NO_TABLE # WILD
  <2>1. NO_TABLE[1].type = "NULL" /\ WILD[1].type = "wild"
    BY DEF NO_TABLE, WILD
  <2> QED
    BY <2>1
<1> QED
  BY <1>1 DEF BsaTable, SbsaTable, SdeiTable, AcpiGetTable

\* A table of the firmware is at none of them.
LEMMA RealTable ==
  ASSUME NEW S, NEW table \in Seq(S), \A e \in S : e.type \notin {"NULL", "wild"}
  PROVE  table # NO_TABLE /\ table # WILD
<1>1. ASSUME table = NO_TABLE \/ table = WILD PROVE FALSE
  <2>1. Len(table) = 1 /\ table[1].type \in {"NULL", "wild"}
    BY <1>1 DEF NO_TABLE, WILD
  <2>2. table[1] \in S
    BY <2>1, SeqParts
  <2> QED
    BY <2>1, <2>2
<1> QED
  BY <1>1

LEMMA TablesFaithful ==
  ASSUME NEW fw \in FirmwareTables, NEW clears \in BOOLEAN, NEW inlined \in BOOLEAN
  PROVE  Faithful([fw |-> fw, clears |-> clears, inlined |-> inlined, tables |-> Tables(fw, clears, inlined)])
<1> DEFINE t == Tables(fw, clears, inlined)
           m == [fw |-> fw, clears |-> clears, inlined |-> inlined, tables |-> t]
           madt == AtLeastOne(fw.madt, fw.behind.madt)
           mcfg == AtLeastOne(fw.mcfg, fw.behind.mcfg)
           numbered == {i \in DOMAIN fw.cpus : fw.cpus[i].reg # <<>> /\ ReadNumber(fw.cpus[i]) \in Affinities}
           complete == {i \in DOMAIN fw.ecams : Complete(fw.ecams[i])}
<1>1. /\ fw.madt \in {MISSING} \cup Seq(MadtEntry)
      /\ fw.mcfg \in {MISSING} \cup Seq(McfgEntry)
      /\ fw.behind.madt \in MadtEntry /\ fw.behind.mcfg \in McfgEntry
      /\ fw.cpus \in Seq(CpuNodes) /\ fw.ecams \in Seq(EcamNodes) /\ fw.smmus \in Seq(SmmuNodes)
  BY DEF FirmwareTables
<1>2. /\ t.bsa_pe = BsaPeTable(fw, BsaTable(fw.madt, clears), inlined)
      /\ t.sbsa_pe = SbsaPeTable(fw, SbsaTable(fw.madt, clears))
      /\ t.sdei_pe = SdeiPeTable(fw, SdeiTable(fw.madt, clears))
      /\ t.bsa_pcie = BsaPcieTable(fw, BsaTable(fw.mcfg, clears))
      /\ t.sbsa_pcie = SbsaPcieTable(fw, SbsaTable(fw.mcfg, clears))
      /\ t.bsa_iovirt = IovirtTableDt(fw)
      /\ t.bsa_ecam = McfgEcam(fw, BsaTable(fw.mcfg, clears))
  BY DEF Tables
<1>3. m.fw = fw /\ m.clears = clears /\ m.inlined = inlined /\ m.tables = t
  OBVIOUS
<1> HIDE DEF t, m
<1>4. ASSUME fw.madt # MISSING
      PROVE  IsPeTable(t.bsa_pe, madt) /\ IsPeTable(t.sbsa_pe, madt) /\ IsPeTable(t.sdei_pe, madt)
  <2>1. fw.madt \in Seq(MadtEntry) /\ madt \in Seq(MadtEntry)
    BY <1>1, <1>4 DEF AtLeastOne
  <2>2. fw.madt # NO_TABLE /\ fw.madt # WILD
    <3>1. \A e \in MadtEntry : e.type \notin {"NULL", "wild"}
      BY DEF MadtEntry
    <3> QED
      BY <2>1, <3>1, RealTable
  <2>3. LET l == Loop(Gicc, Empty, madt) IN t.bsa_pe = l /\ t.sbsa_pe = l /\ t.sdei_pe = l
    BY <1>2, <1>4, <2>2, Pointers DEF BsaPeTable, SbsaPeTable, SdeiPeTable, Processors
  <2> HIDE DEF madt
  <2> QED
    BY <2>1, <2>3, ProcessorsListed
<1>5. ASSUME fw.madt = MISSING
      PROVE  /\ IF t.bsa_pe = OOPS THEN ~inlined
                ELSE /\ Whole(t.bsa_pe) /\ StopsAt(t.bsa_pe.count, fw.cpus, numbered)
                     /\ \A i \in 1 .. t.bsa_pe.count : t.bsa_pe.entries[i].mpidr = ReadNumber(fw.cpus[i])
             /\ t.sbsa_pe # OOPS => clears /\ t.sbsa_pe = Untouched
             /\ t.sdei_pe # OOPS => clears /\ t.sdei_pe = Empty
  <2>1. t.bsa_pe = IF fw.cpus # <<>> /\ ~inlined THEN OOPS ELSE Loop(CpuNode, Empty, fw.cpus)
    <3>1. t.bsa_pe = PeTableDt(fw, inlined)
      BY <1>2, <1>5, Pointers DEF BsaPeTable
    <3> QED
      BY <3>1 DEF PeTableDt
  <2>2. /\ Loop(CpuNode, Empty, fw.cpus) # OOPS
        /\ Whole(Loop(CpuNode, Empty, fw.cpus))
        /\ StopsAt(Loop(CpuNode, Empty, fw.cpus).count, fw.cpus, numbered)
        /\ \A i \in 1 .. Loop(CpuNode, Empty, fw.cpus).count :
             Loop(CpuNode, Empty, fw.cpus).entries[i].mpidr = ReadNumber(fw.cpus[i])
    BY <1>1, ProcessorNodesListed
  <2>3. t.sbsa_pe # OOPS => clears /\ t.sbsa_pe = Untouched
    BY <1>2, <1>5, Pointers DEF SbsaPeTable
  <2>4. t.sdei_pe # OOPS => clears /\ t.sdei_pe = Empty
    BY <1>2, <1>5, Pointers DEF SdeiPeTable
  <2>5. CASE fw.cpus # <<>> /\ ~inlined
    BY <2>1, <2>3, <2>4, <2>5
  <2>6. CASE ~(fw.cpus # <<>> /\ ~inlined)
    <3>1. PICK l : l = Loop(CpuNode, Empty, fw.cpus)
      OBVIOUS
    <3>2. t.bsa_pe = l
      BY <2>1, <2>6, <3>1
    <3> HIDE DEF numbered
    <3>3. l # OOPS /\ Whole(l) /\ StopsAt(l.count, fw.cpus, numbered)
          /\ \A i \in 1 .. l.count : l.entries[i].mpidr = ReadNumber(fw.cpus[i])
      BY <2>2, <3>1
    <3> QED
      BY <2>3, <2>4, <3>2, <3>3
  <2> QED
    BY <2>5, <2>6
<1>6. ASSUME fw.mcfg # MISSING
      PROVE  /\ t.bsa_pcie.entries = mcfg /\ Whole(t.bsa_pcie) /\ t.sbsa_pcie = t.bsa_pcie
             /\ t.bsa_ecam = mcfg[1]
  <2>1. fw.mcfg \in Seq(McfgEntry) /\ mcfg \in Seq(McfgEntry)
    BY <1>1, <1>6 DEF AtLeastOne
  <2>2. fw.mcfg # NO_TABLE /\ fw.mcfg # WILD
    <3>1. \A e \in McfgEntry : e.type \notin {"NULL", "wild"}
      BY DEF McfgEntry
    <3> QED
      BY <2>1, <3>1, RealTable
  <2>3. LET l == Loop(Ecam, Empty, mcfg) IN t.bsa_pcie = l /\ t.sbsa_pcie = l /\ t.bsa_ecam = mcfg[1]
    BY <1>2, <1>6, <2>2, Pointers DEF BsaPcieTable, SbsaPcieTable, McfgEcam, Ecams
  <2> HIDE DEF mcfg
  <2> QED
    BY <2>1, <2>3, RegionsListed
<1>7. ASSUME fw.mcfg = MISSING
      PROVE  /\ Whole(t.bsa_pcie) /\ StopsAt(t.bsa_pcie.count, fw.ecams, complete)
             /\ \A i \in 1 .. t.bsa_pcie.count : t.bsa_pcie.entries[i].base = ReadNumber(fw.ecams[i])
  <2>1. t.bsa_pcie = Loop(EcamNode, Empty, fw.ecams)
    BY <1>2, <1>7, Pointers DEF BsaPcieTable, PcieTableDt
  <2> QED
    BY <1>1, <2>1, RegionNodesListed
<1>8. /\ Whole(t.bsa_iovirt)
      /\ (\A i \in DOMAIN fw.smmus : Len(fw.smmus[i].reg) >= 2) =>
           /\ t.bsa_iovirt.count = Len(fw.smmus)
           /\ \A i \in DOMAIN fw.smmus :
                IsEntryOf(t.bsa_iovirt.entries[Place(fw.smmus, i)], fw.smmus[i])
  BY <1>1, <1>2, SmmusListed
<1>9. Faithful(m)
  BY <1>3, <1>4, <1>5, <1>6, <1>7, <1>8 DEF Faithful
<1> QED
  BY <1>9 DEF m, t

\* The tables of processors, PCIe regions and SMMUs the three layers fill hold, in order,
\* what the ACPI tables or the device tree list, for firmware of any size; an entry is
\* missing only behind an incomplete node, one that is not listed is there only for an
\* empty ACPI table, and an SMMU's base is the high half of its address where addresses
\* have two cells (pal_pe.c:38-75, pal_pcie.c:190-221, pal_dt.c:27-178).
THEOREM TablesAreFaithful == TablesSpec => []TablesMatchFirmware
<1>1. TablesInit => TablesMatchFirmware
  BY DEF TablesInit, TablesMatchFirmware
<1>2. TablesMatchFirmware /\ [TablesNext]_tablesVars => TablesMatchFirmware'
  <2> SUFFICES ASSUME TablesMatchFirmware, [TablesNext]_tablesVars PROVE TablesMatchFirmware'
    OBVIOUS
  <2>1. CASE UNCHANGED tablesVars
    BY <2>1 DEF tablesVars, TablesMatchFirmware
  <2>2. CASE TablesNext
    <3>1. PICK fw \in Firmwares, clears, inlined \in BOOLEAN :
            made' = {[fw |-> fw, clears |-> clears, inlined |-> inlined, tables |-> Tables(fw, clears, inlined)]}
      BY <2>2 DEF TablesNext
    <3>2. fw \in FirmwareTables
      BY FirmwaresAssumption
    <3>3. Faithful([fw |-> fw, clears |-> clears, inlined |-> inlined, tables |-> Tables(fw, clears, inlined)])
      BY <3>2, TablesFaithful
    <3> QED
      BY <3>1, <3>3 DEF TablesMatchFirmware
  <2> QED
    BY <2>1, <2>2
<1> QED
  BY <1>1, <1>2, PTL DEF TablesSpec
=============================================================================
