----------------------------- MODULE SdeiProofs -----------------------------
(***************************************************************************)
(* Proofs about the SDEI message log, for any number of readers, any size  *)
(* of the first buffer and either answer of kmalloc(); and about what the  *)
(* driver keeps of its memory and of its log from one run to the next, for *)
(* any number of runs, of lines and of readers.                            *)
(***************************************************************************)
EXTENDS SdeiDriver, TLAPS

\* How the buffer, its size and its tail go together at each point of
\* pal_print(): what makes PrintInBounds inductive.
PrintInv ==
  /\ live <=> ~Missing /\ print # "freed"
  /\ Missing => print \in {"idle", "check", "store", "killed"}
  /\ print = "killed" => Missing
  /\ ~Missing /\ print \in {"idle", "check", "grown", "store", "stored"} =>
       Slots(g_num_msg) \subseteq DOMAIN g_msg_buf
  /\ print = "grown" => Slots(2 * g_num_msg) \subseteq DOMAIN tmp
  /\ print \in {"sized", "freed"} => Slots(g_num_msg) \subseteq DOMAIN tmp
  /\ g_tail_msg <= g_num_msg
  /\ print \in {"sized", "freed", "store", "stored"} => g_tail_msg < g_num_msg
  /\ print \notin {"idle", "stored"} => printed < MaxPrints

IInv == TypeOK /\ PrintInv

LEMMA NullIsEmpty ==
  ASSUME NEW S, NEW f, f = NULL
  PROVE  f \in [DOMAIN f -> S] /\ DOMAIN f = {}
  BY DEF NULL

LEMMA InitRest ==
  ASSUME Init, g_msg_buf \in [DOMAIN g_msg_buf -> Content], live \in BOOLEAN
  PROVE  TypeOK
  <1> USE LogAssumption
  <1>1. /\ g_tail_msg = 0 /\ g_num_msg = MinNum /\ print = "idle" /\ tmp = <<>> /\ printed = 0
        /\ read = [r \in Readers |-> "idle"] /\ want = [r \in Readers |-> FALSE]
        /\ offset = [r \in Readers |-> 0] /\ got = [r \in Readers |-> Blank]
        /\ seen = {} /\ wrapped = FALSE /\ overlapped = FALSE /\ underrun = FALSE
    BY DEF Init
  <1>2. tmp \in [DOMAIN tmp -> Content]
    BY <1>1, NullIsEmpty DEF NULL
  <1>3. print \in PrintPCs /\ read \in [Readers -> ReadPCs] /\ want \in [Readers -> BOOLEAN]
    BY <1>1 DEF PrintPCs, ReadPCs
  <1>4. offset \in [Readers -> Nat] /\ got \in [Readers -> Messages \cup {Blank}] /\ seen \subseteq Messages
    BY <1>1
  <1>5. g_num_msg \in Nat \ {0} /\ g_tail_msg \in Nat /\ printed \in 0 .. MaxPrints
    BY <1>1
  <1>6. wrapped \in BOOLEAN /\ overlapped \in BOOLEAN /\ underrun \in BOOLEAN
    BY <1>1, Zenon
  <1> QED
    BY <1>2, <1>3, <1>4, <1>5, <1>6 DEF TypeOK

LEMMA InitIInv == Init => IInv
  <1> SUFFICES ASSUME Init PROVE IInv
    OBVIOUS
  <1>1. CASE g_msg_buf = NULL /\ live = FALSE
    <2>1. g_msg_buf \in [DOMAIN g_msg_buf -> Content] /\ DOMAIN g_msg_buf = {}
      BY <1>1, NullIsEmpty
    <2>2. TypeOK
      BY <1>1, <2>1, InitRest
    <2>3. PrintInv
      BY <1>1, <2>1, LogAssumption DEF Init, PrintInv, Missing
    <2> QED
      BY <2>2, <2>3 DEF IInv
  <1>2. CASE g_msg_buf = [i \in Slots(MinNum) |-> Uninit] /\ live = TRUE
    <2>1. g_msg_buf \in [DOMAIN g_msg_buf -> Content] /\ DOMAIN g_msg_buf = Slots(MinNum)
      BY <1>2 DEF Content
    <2>2. 0 \in Slots(MinNum)
      BY LogAssumption DEF Slots
    <2>3. TypeOK
      BY <1>2, <2>1, InitRest
    <2>4. /\ live /\ g_tail_msg = 0 /\ g_num_msg = MinNum /\ print = "idle" /\ ~Missing
          /\ Slots(g_num_msg) \subseteq DOMAIN g_msg_buf
      BY <1>2, <2>1, <2>2 DEF Init, Missing
    <2>5. PrintInv
      BY <2>4, LogAssumption DEF PrintInv
    <2> QED
      BY <2>3, <2>5 DEF IInv
  <1> QED
    BY <1>1, <1>2 DEF Init

LEMMA NextIInv == IInv /\ [Next]_vars => IInv'
  <1> SUFFICES ASSUME IInv, [Next]_vars PROVE IInv'
    OBVIOUS
  <1> USE LogAssumption DEF IInv, TypeOK, PrintInv, Missing, Slots, PrintPCs, ReadPCs, history
  <1>1. CASE CallPrint
    BY <1>1 DEF CallPrint, bufVars, readVars
  <1>2. CASE Room
    BY <1>2 DEF Room, bufVars, readVars
  <1>3. CASE Grow
    <2>1. \A i \in 0 .. g_num_msg - 1 : g_msg_buf[i] \in Content
      BY <1>3 DEF Grow
    <2>2. tmp' \in [DOMAIN tmp' -> Content]
      BY <1>3, <2>1 DEF Grow, Content
    <2>3. QED
      BY <1>3, <2>2 DEF Grow, bufVars, readVars
  <1>4. CASE Wrap
    <2>1. g_tail_msg % g_num_msg \in 0 .. g_num_msg - 1
      BY <1>4 DEF Wrap
    <2>2. QED
      BY <1>4, <2>1 DEF Wrap, readVars
  <1>5. CASE DoubleNum
    BY <1>5 DEF DoubleNum, readVars
  <1>6. CASE FreeOld
    BY <1>6 DEF FreeOld, readVars
  <1>7. CASE Swap
    <2>1. 0 \in DOMAIN tmp
      BY <1>7 DEF Swap
    <2> QED
      BY <1>7, <2>1 DEF Swap, readVars
  <1>7a. CASE PrintFaults
    BY <1>7a DEF PrintFaults, bufVars, readVars
  <1>8. CASE Store
    <2>1. printed' \in Content
      BY <1>8 DEF Store, Content, Messages
    <2>2. g_msg_buf' \in [DOMAIN g_msg_buf' -> Content] /\ DOMAIN g_msg_buf' = DOMAIN g_msg_buf
      BY <1>8, <2>1 DEF Store
    <2>3. QED
      BY <1>8, <2>2 DEF Store, readVars
  <1>9. CASE Advance
    BY <1>9 DEF Advance, readVars
  <1>10. ASSUME NEW r \in Readers, OpenFile(r)
         PROVE  IInv'
    BY <1>10 DEF OpenFile, bufVars, printVars
  <1>11. ASSUME NEW r \in Readers, StartRead(r)
         PROVE  IInv'
    BY <1>11 DEF StartRead, bufVars, printVars
  <1>12. ASSUME NEW r \in Readers, ReadNothing(r)
         PROVE  IInv'
    BY <1>12 DEF ReadNothing, bufVars, printVars
  <1>13. ASSUME NEW r \in Readers, CopyOut(r)
         PROVE  IInv'
    <2>1. got' \in [Readers -> Messages \cup {Blank}]
      BY <1>13 DEF CopyOut
    <2>2. QED
      BY <1>13, <2>1 DEF CopyOut, bufVars, printVars
  <1>14. ASSUME NEW r \in Readers, CopyFault(r)
         PROVE  IInv'
    BY <1>14 DEF CopyFault, bufVars, printVars
  <1>15. ASSUME NEW r \in Readers, Clear(r)
         PROVE  IInv'
    <2>1. DOMAIN g_msg_buf' = DOMAIN g_msg_buf
      BY <1>15 DEF Clear, ClearSlot
    <2>2. g_msg_buf' \in [DOMAIN g_msg_buf' -> Content]
      BY <1>15 DEF Clear, ClearSlot, Content
    <2>3. QED
      BY <1>15, <2>1, <2>2 DEF Clear, ClearSlot, printVars
  <1>16. CASE UNCHANGED vars
    BY <1>16 DEF vars, bufVars, printVars, readVars
  <1>17. QED
    BY <1>1, <1>2, <1>3, <1>4, <1>5, <1>6, <1>7, <1>7a, <1>8, <1>9, <1>10, <1>11, <1>12,
       <1>13, <1>14, <1>15, <1>16 DEF Next, Printing, Reading

\* Types and the printing invariant hold in every reachable state.
THEOREM Invariance == Spec => []IInv
  BY InitIInv, NextIInv, PTL DEF Spec

\* The log's variables keep their types.
THEOREM TypeCorrect == Spec => []TypeOK
  <1>1. IInv => TypeOK
    BY DEF IInv
  <1>2. QED
    BY Invariance, <1>1, PTL

\* Files are not beyond the size, which never shrinks; a copy took them past the first
\* slot. Without a buffer nothing is stored, and nothing read.
FileInv ==
  /\ \A r \in Readers : offset[r] <= g_num_msg /\ (read[r] = "clear" => offset[r] > 0)
  /\ underrun \/ (\E r \in Readers : read[r] = "faulted") => Faults
  /\ Missing => /\ printed = 0 /\ g_tail_msg = 0
                /\ \A r \in Readers : offset[r] = 0 /\ (read[r] = "copy" => ~want[r])

LEMMA InitFileInv == Init => FileInv
  BY LogAssumption DEF Init, FileInv, Missing, Slots, NULL

LEMMA NextFileInv == IInv /\ FileInv /\ [Next]_vars => FileInv'
  <1> SUFFICES ASSUME IInv, FileInv, [Next]_vars PROVE FileInv'
    OBVIOUS
  <1> USE LogAssumption DEF IInv, TypeOK, PrintInv, FileInv, Missing, Slots, history
  <1>1. CASE CallPrint \/ Room \/ Grow \/ DoubleNum \/ FreeOld \/ Advance \/ PrintFaults
    BY <1>1 DEF CallPrint, Room, Grow, DoubleNum, FreeOld, Advance, PrintFaults, bufVars, readVars
  <1>2. CASE Wrap
    <2>1. ~Missing
      BY <1>2 DEF Wrap
    <2> QED
      BY <1>2, <2>1 DEF Wrap, readVars
  <1>3. CASE Swap
    <2>1. 0 \in DOMAIN tmp
      BY <1>3 DEF Swap
    <2> QED
      BY <1>3, <2>1 DEF Swap, readVars
  <1>4. CASE Store
    <2>1. DOMAIN g_msg_buf' = DOMAIN g_msg_buf
      BY <1>4 DEF Store
    <2> QED
      BY <1>4, <2>1 DEF Store, readVars
  <1>5. ASSUME NEW r \in Readers, OpenFile(r) \/ StartRead(r) \/ ReadNothing(r)
        PROVE  FileInv'
    BY <1>5 DEF OpenFile, StartRead, ReadNothing, bufVars, printVars
  <1>6. ASSUME NEW r \in Readers, CopyOut(r) \/ CopyFault(r)
        PROVE  FileInv'
    BY <1>6 DEF CopyOut, CopyFault, HasSlot, bufVars, printVars
  <1>7. ASSUME NEW r \in Readers, Clear(r)
        PROVE  FileInv'
    <2>1. DOMAIN g_msg_buf' = DOMAIN g_msg_buf
      BY <1>7 DEF Clear, ClearSlot
    <2>2. underrun' => underrun \/ read[r] = "faulted"
      BY <1>7 DEF Clear, ClearSlot
    <2> QED
      BY <1>7, <2>1, <2>2 DEF Clear, ClearSlot, printVars
  <1>8. CASE UNCHANGED vars
    BY <1>8 DEF vars, bufVars, printVars, readVars
  <1>9. QED
    BY <1>1, <1>2, <1>3, <1>4, <1>5, <1>6, <1>7, <1>8 DEF Next, Printing, Reading

LEMMA Files == Spec => []FileInv
  BY Invariance, InitFileInv, NextFileInv, PTL DEF Spec

\* pal_print() never leaves the live allocation, for every initial size, every
\* number of concurrent readers and every outcome of kmalloc() and of the copies
\* to user space; where there is no allocation it is killed before it has stored anything.
THEOREM PrintSafe == Spec => []PrintInBounds
  <1>1. IInv /\ FileInv => PrintInBounds
    BY DEF IInv, TypeOK, PrintInv, FileInv, PrintInBounds, Slots
  <1>2. QED
    BY Invariance, Files, <1>1, PTL

-----------------------------------------------------------------------------
(***************************************************************************)
(* Reads against a growing buffer.  Until the first wrap-around a file is  *)
(* never past the tail, and the tail never past the allocation; until the  *)
(* first overlap reads and prints exclude each other.                      *)
(***************************************************************************)
ReadInv ==
  /\ ~Missing => Slots(g_tail_msg) \subseteq DOMAIN g_msg_buf
  /\ \A r \in Readers :
       /\ offset[r] <= g_tail_msg
       /\ read[r] = "copy" /\ want[r] => offset[r] < g_tail_msg

Exclusive == \A r \in Readers : read[r] # "idle" => print = "idle"

OrderInv ==
  /\ ~wrapped => ReadInv
  /\ ~overlapped => Exclusive

LEMMA NextReadInv ==
  ASSUME IInv, ~wrapped => ReadInv, [Next]_vars, ~wrapped'
  PROVE  ReadInv'
  <1> USE LogAssumption DEF IInv, TypeOK, PrintInv, ReadInv, Missing, Slots, history
  <1>1. CASE CallPrint \/ Room \/ DoubleNum \/ FreeOld \/ Grow \/ PrintFaults
    BY <1>1 DEF CallPrint, Room, DoubleNum, FreeOld, Grow, PrintFaults, bufVars, readVars
  <1>2. CASE Wrap
    BY <1>2 DEF Wrap
  <1>3. CASE Swap
    BY <1>3 DEF Swap, readVars
  <1>4. CASE Store
    BY <1>4 DEF Store, readVars
  <1>5. CASE Advance
    BY <1>5 DEF Advance, readVars
  <1>6. ASSUME NEW r \in Readers, OpenFile(r) \/ StartRead(r) \/ ReadNothing(r) \/ CopyFault(r)
        PROVE  ReadInv'
    <2>1. CASE OpenFile(r)
      BY <2>1 DEF OpenFile, bufVars, printVars
    <2>2. CASE StartRead(r)
      BY <2>2 DEF StartRead, bufVars, printVars
    <2>3. CASE ReadNothing(r) \/ CopyFault(r)
      BY <2>3 DEF ReadNothing, CopyFault, bufVars, printVars
    <2>4. QED
      BY <1>6, <2>1, <2>2, <2>3
  <1>7. ASSUME NEW r \in Readers, CopyOut(r)
        PROVE  ReadInv'
    BY <1>7 DEF CopyOut, HasSlot, bufVars, printVars
  <1>8. ASSUME NEW r \in Readers, Clear(r)
        PROVE  ReadInv'
    BY <1>8 DEF Clear, ClearSlot, printVars
  <1>9. CASE UNCHANGED vars
    BY <1>9 DEF vars, bufVars, printVars, readVars
  <1>10. QED
    BY <1>1, <1>2, <1>3, <1>4, <1>5, <1>6, <1>7, <1>8, <1>9 DEF Next, Printing, Reading

LEMMA NextExclusive ==
  ASSUME IInv, ~overlapped => Exclusive, [Next]_vars, ~overlapped'
  PROVE  Exclusive'
  <1> USE DEF IInv, TypeOK, Exclusive, history
  <1>1. CASE CallPrint
    BY <1>1 DEF CallPrint, readVars
  <1>2. CASE Printing
    BY <1>2 DEF Printing, Room, Grow, Wrap, DoubleNum, FreeOld, Swap, Store, Advance, PrintFaults, readVars
  <1>3. ASSUME NEW r \in Readers, OpenFile(r) \/ Reading(r)
        PROVE  Exclusive'
    BY <1>3 DEF OpenFile, Reading, StartRead, ReadNothing, CopyOut, CopyFault, Clear, ClearSlot, printVars
  <1>4. CASE UNCHANGED vars
    BY <1>4 DEF vars, printVars, readVars
  <1>5. QED
    BY <1>1, <1>2, <1>3, <1>4 DEF Next

LEMMA InitOrderInv == Init => OrderInv
  BY LogAssumption DEF Init, OrderInv, ReadInv, Exclusive, Missing, Slots

LEMMA NextOrderInv == IInv /\ OrderInv /\ [Next]_vars => OrderInv'
  BY NextReadInv, NextExclusive DEF OrderInv

\* A read call never asks for a slot the buffer does not have: not when it
\* overlaps a print that is doubling the buffer, at any step of it, and not after
\* a wrap-around either, unless both have happened.
THEOREM ReadSafe == Spec => []ReadInBounds
  <1>1. IInv /\ FileInv /\ OrderInv => ReadInBounds
    <2> SUFFICES ASSUME IInv, FileInv, OrderInv, ~(wrapped /\ overlapped), NEW r \in Readers
                 PROVE  /\ Copying(r) => Within(offset[r])
                        /\ read[r] = "clear" => Within(offset[r] - 1)
                        /\ read[r] = "faulted" => offset[r] = 0 \/ Within(offset[r] - 1)
      BY DEF ReadInBounds, FileInv
    <2> USE DEF IInv, TypeOK, PrintInv, FileInv, Slots
    <2>1. CASE Missing
      BY <2>1 DEF Copying, HasSlot
    <2>2. CASE ~Missing /\ ~overlapped /\ read[r] # "idle"
      <3>1. print = "idle" /\ live /\ Slots(g_num_msg) \subseteq DOMAIN g_msg_buf
        BY <2>2 DEF OrderInv, Exclusive
      <3> QED
        BY <3>1 DEF Copying, HasSlot, Within
    <2>3. CASE ~Missing /\ ~wrapped /\ overlapped
      <3>1. Slots(g_tail_msg) \subseteq DOMAIN g_msg_buf /\ offset[r] <= g_tail_msg
            /\ (read[r] = "copy" /\ want[r] => offset[r] < g_tail_msg)
        BY <2>3 DEF OrderInv, ReadInv
      <3> QED
        BY <2>3, <3>1 DEF Copying, HasSlot, Within
    <2> QED
      BY <2>1, <2>2, <2>3 DEF Copying
  <1>2. QED
    BY Invariance, Files, InitOrderInv, NextOrderInv, <1>1, PTL DEF Spec

-----------------------------------------------------------------------------
(***************************************************************************)
(* Up to the first wrap-around or overlap no message is lost and the log   *)
(* is the abstract one.  What has to be known besides Kept: a slot before  *)
(* the tail holds its message or a blank, the larger buffer keeps what the *)
(* old one kept, and a file has gone over delivered messages only.         *)
(***************************************************************************)
Holds(b, k) == k - 1 \in DOMAIN b /\ (b[k - 1] = k \/ (b[k - 1] = Blank /\ k \in seen))

KeptInv ==
  /\ \A k \in 1 .. g_tail_msg : Holds(g_msg_buf, k)
  /\ print \in {"grown", "sized", "freed"} =>
       \A k \in 1 .. g_tail_msg : k - 1 \in DOMAIN tmp /\ tmp[k - 1] = g_msg_buf[k - 1]
  /\ printed = IF print = "stored" THEN g_tail_msg + 1 ELSE g_tail_msg
  /\ print = "stored" => g_msg_buf[g_tail_msg] = printed
  /\ \A r \in Readers : \A k \in 1 .. offset[r] : k \in seen

Serial == ~wrapped /\ ~overlapped

LEMMA HistoryStays == TypeOK /\ [Next]_vars /\ Serial' => Serial
  <1> USE DEF TypeOK, Serial, history
  <1>1. ASSUME TypeOK, CallPrint \/ Printing, Serial'
        PROVE  Serial
    BY <1>1 DEF CallPrint, Printing, Room, Grow, Wrap, DoubleNum, FreeOld, Swap, Store, Advance, PrintFaults
  <1>2. ASSUME TypeOK, NEW r \in Readers, OpenFile(r) \/ Reading(r), Serial'
        PROVE  Serial
    BY <1>2 DEF OpenFile, Reading, StartRead, ReadNothing, CopyOut, CopyFault, Clear, ClearSlot
  <1>3. QED
    BY <1>1, <1>2 DEF Next, vars

LEMMA NextKeptInv ==
  ASSUME IInv, OrderInv, Serial => KeptInv, [Next]_vars, Serial'
  PROVE  KeptInv'
  <1>0. Serial /\ KeptInv /\ ReadInv /\ Exclusive
    BY HistoryStays DEF IInv, OrderInv, Serial
  <1> USE <1>0, LogAssumption
      DEF IInv, TypeOK, PrintInv, ReadInv, Exclusive, KeptInv, Slots, Holds, history
  <1>1. CASE CallPrint \/ PrintFaults
    BY <1>1 DEF CallPrint, PrintFaults, bufVars, readVars
  <1>2. CASE Room \/ DoubleNum \/ FreeOld
    BY <1>2 DEF Room, DoubleNum, FreeOld, bufVars, readVars
  <1>3. CASE Grow
    BY <1>3 DEF Grow, bufVars, readVars
  <1>4. CASE Wrap
    BY <1>4 DEF Wrap, Serial
  <1>5. CASE Swap
    BY <1>5 DEF Swap, readVars
  <1>6. CASE Store
    BY <1>6 DEF Store, readVars
  <1>7. CASE Advance
    <2>1. ASSUME NEW k \in 1 .. g_tail_msg' PROVE Holds(g_msg_buf, k)'
      BY <1>7 DEF Advance, readVars
    <2>2. QED
      BY <1>7, <2>1 DEF Advance, readVars
  <1>8. ASSUME NEW r \in Readers,
               OpenFile(r) \/ StartRead(r) \/ ReadNothing(r) \/ CopyFault(r)
        PROVE  KeptInv'
    <2>1. UNCHANGED <<bufVars, printVars, seen>>
      BY <1>8 DEF OpenFile, StartRead, ReadNothing, CopyFault, printVars
    <2>2. ASSUME NEW q \in Readers, NEW k \in 1 .. offset'[q] PROVE k \in seen'
      <3>1. offset'[q] = offset[q] \/ offset'[q] = 0
        BY <1>8 DEF OpenFile, StartRead, ReadNothing, CopyFault
      <3>2. QED
        BY <2>1, <3>1
    <2>3. \A k \in 1 .. g_tail_msg : Holds(g_msg_buf, k)'
      BY <2>1 DEF bufVars
    <2>4. QED
      BY <2>1, <2>2, <2>3 DEF bufVars, printVars
  <1>9. ASSUME NEW r \in Readers, CopyOut(r)
        PROVE  KeptInv'
    <2> DEFINE k == offset[r] + 1
    <2>1. k \in 1 .. g_tail_msg
      BY <1>9 DEF CopyOut, HasSlot
    <2>2. k \in seen'
      <3>1. live /\ k \in Messages
        BY <1>9, <2>1 DEF CopyOut, Messages
      <3>2. CASE k \in seen
        BY <1>9, <3>2 DEF CopyOut
      <3>3. CASE k - 1 \in DOMAIN g_msg_buf /\ g_msg_buf[k - 1] = k
        BY <1>9, <3>1, <3>3 DEF CopyOut, SlotAt
      <3>4. QED
        BY <2>1, <3>2, <3>3
    <2>3. seen \subseteq seen'
      BY <1>9 DEF CopyOut
    <2>4. QED
      BY <1>9, <2>2, <2>3 DEF CopyOut, bufVars, printVars
  <1>10. ASSUME NEW r \in Readers, Clear(r)
         PROVE  KeptInv'
    <2>1. print = "idle"
      BY <1>10 DEF Clear, ClearSlot
    <2>2. ASSUME NEW k \in 1 .. g_tail_msg PROVE Holds(g_msg_buf, k)'
      BY <1>10 DEF Clear, ClearSlot
    <2>3. QED
      BY <1>10, <2>1, <2>2 DEF Clear, ClearSlot, printVars
  <1>11. CASE UNCHANGED vars
    BY <1>11 DEF vars, bufVars, printVars, readVars
  <1>12. QED
    BY <1>1, <1>2, <1>3, <1>4, <1>5, <1>6, <1>7, <1>8, <1>9, <1>10, <1>11
       DEF Next, Printing, Reading

LEMMA InitKeptInv == Init => KeptInv
  BY LogAssumption DEF Init, KeptInv, Slots, NULL

LEMMA SerialKept ==
  ASSUME IInv, OrderInv, Serial => KeptInv, [Next]_vars
  PROVE  (Serial => KeptInv)'
  BY NextKeptInv

\* An application that reads between prints gets every message, as long as the
\* buffer can grow: until some file has received it a message stays in its slot,
\* through any number of growths, failed copies and re-opened files.
THEOREM NothingDropped == Spec => []Kept
  <1>1. KeptInv => Kept
    BY DEF KeptInv, Kept, Holds
  <1>2. (Serial => KeptInv) => Kept
    BY <1>1 DEF Serial, Kept
  <1>3. QED
    BY Invariance, InitOrderInv, NextOrderInv, InitKeptInv, SerialKept, <1>2, PTL DEF Spec

-----------------------------------------------------------------------------
(***************************************************************************)
(* The refinement, step by step.                                           *)
(***************************************************************************)
Log == [k \in 1 .. g_tail_msg |-> g_msg_buf[k - 1]]

LEMMA FunctionIsSeq ==
  ASSUME NEW S, NEW n \in Nat, NEW f \in [1 .. n -> S]
  PROVE  f \in Seq(S) /\ Len(f) = n
  OBVIOUS

LEMMA LogType ==
  ASSUME IInv, KeptInv
  PROVE  /\ Log \in Seq(Content) /\ Len(Log) = g_tail_msg
         /\ DOMAIN Log = 1 .. g_tail_msg
         /\ \A k \in 1 .. g_tail_msg : k - 1 \in DOMAIN g_msg_buf /\ Log[k] = g_msg_buf[k - 1]
  <1> USE DEF IInv, TypeOK
  <1>1. ASSUME NEW k \in 1 .. g_tail_msg
        PROVE  k - 1 \in DOMAIN g_msg_buf /\ g_msg_buf[k - 1] \in Content
    BY DEF KeptInv, Holds
  <1>2. Log \in [1 .. g_tail_msg -> Content]
    BY <1>1 DEF Log
  <1>3. g_tail_msg \in Nat
    OBVIOUS
  <1> HIDE DEF IInv, TypeOK
  <1>4. Log \in Seq(Content) /\ Len(Log) = g_tail_msg
    BY <1>2, <1>3, FunctionIsSeq
  <1>5. QED
    BY <1>1, <1>4 DEF Log

LEMMA StepRefines ==
  ASSUME IInv, OrderInv, Serial => KeptInv, [Next]_vars
  PROVE  [wrapped' \/ overlapped' \/ Abstract!Next]_(Abstract!vars)
  <1> SUFFICES ASSUME Serial'
               PROVE  Abstract!Next \/ UNCHANGED Abstract!vars
    BY NextIInv DEF Serial, IInv, TypeOK
  <1>0. Serial /\ KeptInv /\ ReadInv /\ Exclusive
    BY HistoryStays DEF IInv, OrderInv, Serial
  <1> USE LogAssumption DEF IInv, TypeOK, Slots
  <1>a. ASSUME UNCHANGED <<offset, seen>>, g_tail_msg' = g_tail_msg,
               \A k \in 1 .. g_tail_msg : g_msg_buf'[k - 1] = g_msg_buf[k - 1]
        PROVE  UNCHANGED Abstract!vars
    BY <1>a DEF Abstract!vars
  <1>1. CASE CallPrint \/ Room \/ Grow \/ DoubleNum \/ FreeOld \/ PrintFaults
    BY <1>1, <1>a DEF CallPrint, Room, Grow, DoubleNum, FreeOld, PrintFaults, bufVars, readVars
  <1>2. CASE Wrap
    BY <1>2 DEF Wrap, Serial
  <1>3. CASE Swap
    BY <1>0, <1>3, <1>a DEF Swap, KeptInv, readVars
  <1>4. CASE Store
    BY <1>4, <1>a DEF Store, readVars
  <1>5. CASE Advance
    <2>1. g_msg_buf[g_tail_msg] = g_tail_msg + 1
      BY <1>0, <1>5 DEF KeptInv, Advance
    <2>2. Log \in Seq(Content) /\ Len(Log) = g_tail_msg
      BY <1>0, LogType
    <2>3. Log' = Append(Log, Len(Log) + 1)
      BY <1>5, <2>1, <2>2 DEF Log, Advance
    <2>4. Abstract!Append1
      BY <1>5, <2>3 DEF Abstract!Append1, Log, Advance, readVars
    <2>5. QED
      BY <2>4 DEF Abstract!Next
  <1>6. ASSUME NEW r \in Readers, OpenFile(r)
        PROVE  Abstract!Next
    <2>1. Abstract!Rewind(r)
      BY <1>6 DEF Abstract!Rewind, OpenFile, bufVars
    <2>2. QED
      BY <2>1 DEF Abstract!Next
  <1>7. ASSUME NEW r \in Readers, StartRead(r) \/ ReadNothing(r) \/ CopyFault(r)
        PROVE  UNCHANGED Abstract!vars
    BY <1>7, <1>a DEF StartRead, ReadNothing, CopyFault, bufVars
  <1>8. ASSUME NEW r \in Readers, CopyOut(r)
        PROVE  Abstract!Next
    <2>1. Log \in Seq(Content) /\ Len(Log) = g_tail_msg
      BY <1>0, LogType
    <2>2. offset[r] < g_tail_msg /\ live
      BY <1>0, <1>8 DEF ReadInv, PrintInv, Exclusive, CopyOut, HasSlot
    <2>3. Log[offset[r] + 1] = SlotAt(offset[r]) /\ SlotAt(offset[r]) \in Messages \cup {Blank}
      <3> DEFINE k == offset[r] + 1
      <3>1. k \in 1 .. g_tail_msg /\ k - 1 = offset[r] /\ k \in Messages
        BY <1>0, <2>2 DEF KeptInv, Messages
      <3>2. offset[r] \in DOMAIN g_msg_buf /\ Log[k] = g_msg_buf[offset[r]]
        BY <1>0, <3>1, LogType
      <3>3. g_msg_buf[offset[r]] \in {k, Blank}
        BY <1>0, <3>1 DEF KeptInv, Holds
      <3>4. QED
        BY <2>2, <3>1, <3>2, <3>3 DEF SlotAt
    <2>4. Abstract!Deliver(r)
      BY <1>8, <2>1, <2>2, <2>3
         DEF Abstract!Deliver, Abstract!Blank, Log, CopyOut, bufVars, Messages, Blank
    <2>5. QED
      BY <2>4 DEF Abstract!Next
  <1>9. ASSUME NEW r \in Readers, Clear(r)
        PROVE  Abstract!Next \/ UNCHANGED Abstract!vars
    <2> DEFINE k == offset[r]
    <2>1. CASE k = 0 \/ g_msg_buf[k - 1] = Blank
      <3>1. ASSUME NEW i \in 1 .. g_tail_msg
            PROVE  g_msg_buf'[i - 1] = g_msg_buf[i - 1]
        <4>1. i - 1 \in DOMAIN g_msg_buf
          BY <1>0, LogType
        <4>2. QED
          BY <1>9, <2>1, <4>1 DEF Clear, ClearSlot
      <3>2. QED
        BY <1>9, <1>a, <3>1 DEF Clear, ClearSlot
    <2>2. CASE k # 0 /\ g_msg_buf[k - 1] # Blank
      <3>1. k \in 1 .. g_tail_msg /\ g_msg_buf[k - 1] \in seen
        BY <1>0, <2>2 DEF ReadInv, KeptInv, Holds
      <3>2. Log' = [Log EXCEPT ![k] = Blank]
        <4>1. ASSUME NEW i \in 1 .. g_tail_msg
              PROVE  g_msg_buf'[i - 1] = IF i = k THEN Blank ELSE g_msg_buf[i - 1]
          <5>1. i - 1 \in DOMAIN g_msg_buf
            BY <1>0, LogType
          <5>2. QED
            BY <1>9, <5>1, <3>1 DEF Clear, ClearSlot
        <4>2. g_tail_msg' = g_tail_msg
          BY <1>9 DEF Clear, ClearSlot
        <4>3. QED
          BY <3>1, <4>1, <4>2 DEF Log
      <3>3. Abstract!Erase(k) /\ k \in DOMAIN Log
        BY <1>9, <3>1, <3>2 DEF Abstract!Erase, Abstract!Blank, Blank, Log, Clear, ClearSlot
      <3>4. \E i \in DOMAIN Log : Abstract!Erase(i)
        BY <3>3 DEF Abstract!Erase
      <3>5. Abstract!Next
        BY <3>4 DEF Abstract!Next, Log
      <3>6. QED
        BY <3>5
    <2>3. QED
      BY <1>0, <2>1, <2>2
  <1>10. CASE UNCHANGED vars
    BY <1>10, <1>a DEF vars, bufVars, readVars
  <1>11. QED
    BY <1>1, <1>2, <1>3, <1>4, <1>5, <1>6, <1>7, <1>8, <1>9, <1>10 DEF Next, Printing, Reading

\* Growth, its copies and its free are invisible: the log of pal_print() and
\* sdei_msg_proc_read() is the unbounded one of MessageLog until it wraps around
\* or a read overlaps a print, for every number of files.
THEOREM Refines == Spec => RefinesMessageLog
  <1>1. Init => Abstract!Init
    BY DEF Init, Abstract!Init
  <1>2. QED
    BY Invariance, InitOrderInv, NextOrderInv, InitKeptInv, SerialKept, StepRefines, <1>1, PTL
       DEF Spec, RefinesMessageLog
-----------------------------------------------------------------------------
(***************************************************************************)
(* The order of messages.  Until the first wrap-around it is in the places *)
(* of the messages; after it, as long as reads and prints exclude each     *)
(* other, the slots before the tail hold the newer messages and those from *)
(* the tail on the older ones, each in order, and a file stops at the tail. *)
(***************************************************************************)
Placed(b) == \A k \in 1 .. g_tail_msg : k - 1 \in DOMAIN b /\ b[k - 1] \in {k, Blank}

PlacedInv ==
  /\ Placed(g_msg_buf)
  /\ print \in {"grown", "sized", "freed"} => Placed(tmp)
  /\ printed = IF print = "stored" THEN g_tail_msg + 1 ELSE g_tail_msg
  /\ print = "stored" => g_msg_buf[g_tail_msg] = printed
  /\ \A r \in Readers : got[r] <= offset[r]

\* The buffer the log goes on in, and the end of its newer slots.
Growing == print \in {"grown", "sized", "freed"}
Current == IF Growing THEN tmp ELSE g_msg_buf
Newer == IF print = "stored" THEN g_tail_msg + 1 ELSE g_tail_msg

\* Slots written up to n hold messages up to p, in order before n and from there on.
SortedTo(b, p, n) ==
  /\ \A i \in DOMAIN b : b[i] <= p /\ (i < n => b[i] # Uninit)
  /\ \A i, j \in DOMAIN b : i < j /\ (j < n \/ i >= n) /\ b[j] > 0 => b[i] < b[j]
Sorted(b) == SortedTo(b, printed, Newer)

\* What the file has still to go over is newer than what it got.
Ahead(b, r) ==
  \A j \in DOMAIN b : j >= offset[r] /\ (offset[r] <= g_tail_msg => j < Newer) /\ b[j] > 0 => b[j] > got[r]

SortedInv ==
  /\ ~Missing /\ print \notin {"sized", "freed"} => DOMAIN g_msg_buf = Slots(g_num_msg)
  /\ Growing => DOMAIN tmp = Slots(IF print = "grown" THEN 2 * g_num_msg ELSE g_num_msg)
  /\ Sorted(Current)
  /\ (\A r \in Readers : offset[r] <= g_tail_msg) \/ (\A i \in DOMAIN Current : Current[i] # Uninit)
  /\ \A r \in Readers :
       /\ offset[r] <= g_num_msg /\ got[r] <= printed
       /\ read[r] = "copy" /\ want[r] => offset[r] # g_tail_msg
       /\ Ahead(Current, r)

SequenceInv ==
  /\ ~wrapped => PlacedInv
  /\ ~overlapped => SortedInv

LEMMA InitSequenceInv == Init => SequenceInv
  BY LogAssumption
  DEF Init, SequenceInv, PlacedInv, Placed, SortedInv, Sorted, SortedTo, Ahead, Growing, Current, Newer, Slots,
      Blank, Uninit, Missing, NULL

LEMMA HistoryOnly == TypeOK /\ [Next]_vars => (~wrapped' => ~wrapped) /\ (~overlapped' => ~overlapped)
  <1> USE DEF TypeOK, history
  <1>1. ASSUME TypeOK, CallPrint \/ Printing
        PROVE  (~wrapped' => ~wrapped) /\ (~overlapped' => ~overlapped)
    BY <1>1 DEF CallPrint, Printing, Room, Grow, Wrap, DoubleNum, FreeOld, Swap, Store, Advance, PrintFaults
  <1>2. ASSUME TypeOK, NEW r \in Readers, OpenFile(r) \/ Reading(r)
        PROVE  (~wrapped' => ~wrapped) /\ (~overlapped' => ~overlapped)
    BY <1>2 DEF OpenFile, Reading, StartRead, ReadNothing, CopyOut, CopyFault, Clear, ClearSlot
  <1>3. QED
    BY <1>1, <1>2 DEF Next, vars

LEMMA PlacedAt ==
  ASSUME NEW b, Placed(b), g_tail_msg \in Nat, NEW i \in Nat, i < g_tail_msg
  PROVE  i \in DOMAIN b /\ b[i] \in {i + 1, Blank}
  <1>1. i + 1 \in 1 .. g_tail_msg /\ (i + 1) - 1 = i
    OBVIOUS
  <1>2. QED
    BY <1>1 DEF Placed

LEMMA NextPlacedInv ==
  ASSUME IInv, OrderInv, ~wrapped => PlacedInv, [Next]_vars, ~wrapped'
  PROVE  PlacedInv'
  <1>0. ~wrapped /\ PlacedInv /\ ReadInv
    BY HistoryOnly DEF IInv, OrderInv
  <1> USE <1>0, LogAssumption
      DEF IInv, TypeOK, PrintInv, ReadInv, PlacedInv, Placed, Slots, history
  <1>1. CASE CallPrint \/ PrintFaults
    BY <1>1 DEF CallPrint, PrintFaults, bufVars, readVars
  <1>2. CASE Room \/ DoubleNum \/ FreeOld
    BY <1>2 DEF Room, DoubleNum, FreeOld, bufVars, readVars
  <1>3. CASE Grow
    BY <1>3 DEF Grow, bufVars, readVars
  <1>4. CASE Wrap
    BY <1>4 DEF Wrap
  <1>5. CASE Swap
    BY <1>5 DEF Swap, readVars
  <1>6. CASE Store
    BY <1>6 DEF Store, readVars
  <1>7. CASE Advance
    BY <1>7 DEF Advance, readVars
  <1>8. ASSUME NEW r \in Readers,
               OpenFile(r) \/ StartRead(r) \/ ReadNothing(r) \/ CopyFault(r)
        PROVE  PlacedInv'
    <2>1. UNCHANGED <<bufVars, printVars>>
      BY <1>8 DEF OpenFile, StartRead, ReadNothing, CopyFault, printVars
    <2>2. ASSUME NEW q \in Readers PROVE got'[q] <= offset'[q]
      BY <1>8 DEF OpenFile, StartRead, ReadNothing, CopyFault, Blank
    <2>3. QED
      BY <2>1, <2>2 DEF bufVars, printVars
  <1>9. ASSUME NEW r \in Readers, CopyOut(r)
        PROVE  PlacedInv'
    <2>1. ASSUME live, SlotAt(offset[r]) \in Messages PROVE SlotAt(offset[r]) <= offset[r] + 1
      <3>1. offset[r] \in Nat /\ offset[r] < g_tail_msg
        BY <1>9 DEF CopyOut, HasSlot
      <3>2. g_msg_buf[offset[r]] \in {offset[r] + 1, Blank}
        BY <3>1, PlacedAt DEF Placed
      <3> QED
        BY <2>1, <3>1, <3>2 DEF SlotAt, Blank, Messages, Stray
    <2>2. ~live => SlotAt(offset[r]) \notin Messages
      BY DEF SlotAt, Stray, Messages
    <2>3. ASSUME NEW q \in Readers PROVE got'[q] <= offset'[q]
      BY <1>9, <2>1, <2>2 DEF CopyOut, Blank, Messages
    <2>4. QED
      BY <1>9, <2>3 DEF CopyOut, bufVars, printVars
  <1>10. ASSUME NEW r \in Readers, Clear(r)
         PROVE  PlacedInv'
    BY <1>10 DEF Clear, ClearSlot, printVars
  <1>11. CASE UNCHANGED vars
    BY <1>11 DEF vars, bufVars, printVars, readVars
  <1>12. QED
    BY <1>1, <1>2, <1>3, <1>4, <1>5, <1>6, <1>7, <1>8, <1>9, <1>10, <1>11
       DEF Next, Printing, Reading

\* The newest message comes last of those before the tail.
LEMMA StoreSorts ==
  ASSUME NEW b, NEW c, NEW n \in Nat, NEW p \in Nat, SortedTo(b, p, n),
         \A i \in DOMAIN b : i \in Nat /\ b[i] \in Int,
         DOMAIN c = DOMAIN b, \A i \in DOMAIN b : c[i] = IF i = n THEN p + 1 ELSE b[i]
  PROVE  SortedTo(c, p + 1, n + 1)
  <1>1. \A i \in DOMAIN b : b[i] <= p /\ (i < n => b[i] # Uninit)
    BY DEF SortedTo
  <1>2. ASSUME NEW i \in DOMAIN c PROVE c[i] <= p + 1 /\ (i < n + 1 => c[i] # Uninit)
    BY <1>1 DEF Uninit
  <1>3. ASSUME NEW i \in DOMAIN c, NEW j \in DOMAIN c, i < j, j < n + 1 \/ i >= n + 1, c[j] > 0
        PROVE  c[i] < c[j]
    <2>1. i # n /\ c[i] = b[i] /\ i \in Nat /\ j \in Nat /\ b[i] \in Int /\ b[j] \in Int
      BY <1>3
    <2>2. CASE j = n
      BY <1>1, <2>1, <2>2
    <2>3. CASE j # n
      <3>1. c[j] = b[j] /\ (j < n \/ i >= n)
        BY <1>3, <2>1, <2>3
      <3> QED
        BY <1>3, <2>1, <3>1 DEF SortedTo
    <2> QED
      BY <2>2, <2>3
  <1> QED
    BY <1>2, <1>3 DEF SortedTo

\* A blank is in nobody's way.
LEMMA ClearSorts ==
  ASSUME NEW b, NEW c, NEW n \in Nat, NEW p \in Nat, NEW k, SortedTo(b, p, n),
         \A i \in DOMAIN b : i \in Nat /\ b[i] \in Int,
         DOMAIN c = DOMAIN b, \A i \in DOMAIN b : c[i] = IF i = k THEN 0 ELSE b[i]
  PROVE  SortedTo(c, p, n)
  <1>1. ASSUME NEW i \in DOMAIN c PROVE c[i] <= p /\ (i < n => c[i] # Uninit)
    BY DEF SortedTo, Uninit
  <1>2. ASSUME NEW i \in DOMAIN c, NEW j \in DOMAIN c, i < j, j < n \/ i >= n, c[j] > 0
        PROVE  c[i] < c[j]
    <2>1. j # k /\ c[j] = b[j] /\ c[i] \in {0, b[i]}
      BY <1>2
    <2>2. b[i] < b[j]
      BY <1>2, <2>1 DEF SortedTo
    <2> QED
      BY <1>2, <2>1, <2>2
  <1> QED
    BY <1>1, <1>2 DEF SortedTo

LEMMA NextSortedInv ==
  ASSUME IInv, OrderInv, ~overlapped => SortedInv, [Next]_vars, ~overlapped'
  PROVE  SortedInv'
  <1>0. ~overlapped /\ SortedInv /\ Exclusive
    BY HistoryOnly DEF IInv, OrderInv
  <1> USE <1>0, LogAssumption
      DEF IInv, TypeOK, PrintInv, Exclusive, SortedInv, Missing, Growing, Current, Newer, Slots, history
  <1>0a. \A r \in Readers : got[r] \in Nat /\ offset[r] \in Nat
    BY DEF Messages, Blank
  <1>0b. \A i \in DOMAIN Current : i \in Nat /\ Current[i] \in Int
    BY DEF Content, Messages, Blank, Uninit, Stray
  <1> USE <1>0a, <1>0b
  <1>1. CASE CallPrint \/ PrintFaults
    <2>1. UNCHANGED <<Current, Newer, Growing>>
      BY <1>1 DEF CallPrint, PrintFaults, bufVars
    <2> QED
      BY <1>1, <2>1 DEF CallPrint, PrintFaults, bufVars, readVars, Sorted, SortedTo, Ahead
  <1>2. CASE Room \/ DoubleNum \/ FreeOld
    <2>1. /\ UNCHANGED <<g_msg_buf, g_tail_msg, tmp, printed, offset, got, read, want>>
          /\ UNCHANGED <<Current, Newer>> /\ g_num_msg' \in {g_num_msg, 2 * g_num_msg}
      BY <1>2 DEF Room, DoubleNum, FreeOld, bufVars, readVars
    <2>2. Sorted(Current)' /\ \A r \in Readers : Ahead(Current, r)'
      BY <2>1 DEF Sorted, SortedTo, Ahead
    <2>3. /\ ~Missing' /\ print' \notin {"sized", "freed"} => DOMAIN g_msg_buf' = Slots(g_num_msg')
          /\ Growing' => DOMAIN tmp' = Slots(IF print' = "grown" THEN 2 * g_num_msg' ELSE g_num_msg')
      BY <1>2 DEF Room, DoubleNum, FreeOld, bufVars
    <2>4. \A r \in Readers : offset'[r] <= g_num_msg'
      BY <2>1
    <2> HIDE DEF Current, Newer, Growing
    <2> QED
      BY <2>1, <2>2, <2>3, <2>4
  <1>3. CASE Grow
    BY <1>3 DEF Grow, bufVars, readVars, Sorted, SortedTo, Ahead, Uninit
  <1>4. CASE Wrap
    BY <1>4 DEF Wrap, readVars, Sorted, SortedTo, Ahead
  <1>5. CASE Swap
    BY <1>5 DEF Swap, readVars, Sorted, SortedTo, Ahead
  <1>6. CASE Store
    <2>1. /\ print = "store" /\ print' = "stored" /\ printed' = printed + 1 /\ printed \in Nat
          /\ g_msg_buf' = [g_msg_buf EXCEPT ![g_tail_msg] = printed + 1]
          /\ UNCHANGED <<g_tail_msg, g_num_msg, offset, got, read, want>>
      BY <1>6 DEF Store, readVars
    <2>2. Current = g_msg_buf /\ Current' = g_msg_buf' /\ ~Growing /\ ~Growing'
      BY <2>1
    <2>3. Newer = g_tail_msg /\ Newer' = g_tail_msg + 1 /\ g_tail_msg \in Nat
      BY <2>1
    <2>4. /\ DOMAIN g_msg_buf' = DOMAIN g_msg_buf
          /\ \A i \in DOMAIN g_msg_buf : g_msg_buf'[i] = IF i = g_tail_msg THEN printed + 1 ELSE g_msg_buf[i]
      BY <2>1
    <2>5. Sorted(Current)'
      <3>1. SortedTo(g_msg_buf', printed + 1, g_tail_msg + 1)
        BY <2>1, <2>2, <2>3, <2>4, StoreSorts DEF Sorted
      <3> QED
        BY <2>1, <2>2, <2>3, <3>1 DEF Sorted
    <2>6. \A r \in Readers : Ahead(Current, r)'
      BY <2>1, <2>2, <2>3, <2>4 DEF Ahead
    <2>7. (\A i \in DOMAIN Current : Current[i] # Uninit) => \A i \in DOMAIN Current' : Current'[i] # Uninit
      BY <2>1, <2>2, <2>4 DEF Uninit
    <2>8. \A r \in Readers : /\ offset'[r] <= g_num_msg' /\ got'[r] <= printed'
                             /\ read'[r] = "copy" /\ want'[r] => offset'[r] # g_tail_msg'
      BY <2>1
    <2>9. ~Missing' => DOMAIN g_msg_buf' = Slots(g_num_msg')
      BY <2>1, <2>4
    <2>10. (\A r \in Readers : offset'[r] <= g_tail_msg') \/ (\A i \in DOMAIN Current' : Current'[i] # Uninit)
      BY <2>1, <2>7
    <2>11. print' = "stored" /\ ~Growing'
      BY <2>1, <2>2
    <2> HIDE DEF Current, Newer, Growing
    <2> QED
      BY <2>5, <2>6, <2>8, <2>9, <2>10, <2>11
  <1>7. CASE Advance
    BY <1>7 DEF Advance, readVars, Sorted, SortedTo, Ahead
  <1>8. ASSUME NEW r \in Readers,
               OpenFile(r) \/ StartRead(r) \/ ReadNothing(r) \/ CopyFault(r)
        PROVE  SortedInv'
    <2>1. UNCHANGED <<bufVars, printVars>>
      BY <1>8 DEF OpenFile, StartRead, ReadNothing, CopyFault, printVars
    <2>2. UNCHANGED <<Current, Newer, Growing, g_num_msg, g_tail_msg, printed, print, g_msg_buf, tmp>>
      BY <2>1 DEF bufVars, printVars
    <2>3. ASSUME NEW q \in Readers
          PROVE  \/ offset'[q] = offset[q] /\ got'[q] = got[q]
                 \/ offset'[q] = 0 /\ got'[q] = 0
      BY <1>8 DEF OpenFile, StartRead, ReadNothing, CopyFault, Blank
    <2>4. ASSUME NEW q \in Readers
          PROVE  read'[q] = "copy" /\ want'[q] => offset'[q] # g_tail_msg
      BY <1>8 DEF OpenFile, StartRead, ReadNothing, CopyFault
    <2>5. ASSUME NEW q \in Readers
          PROVE  Ahead(Current, q)'
      BY <2>2, <2>3 DEF Ahead
    <2>6. Sorted(Current)'
      BY <2>2 DEF Sorted, SortedTo
    <2>7. (\A q \in Readers : offset'[q] <= g_tail_msg) \/ (\A i \in DOMAIN Current : Current[i] # Uninit)
      <3>1. CASE \A q \in Readers : offset[q] <= g_tail_msg
        <4>1. ASSUME NEW q \in Readers PROVE offset'[q] <= g_tail_msg
          <5>1. offset[q] <= g_tail_msg /\ 0 <= g_tail_msg
            BY <3>1
          <5> QED
            BY <2>3, <5>1
        <4> QED
          BY <4>1
      <3> QED
        BY <3>1
    <2> HIDE DEF Growing, Current, Newer
    <2> QED
      BY <2>2, <2>3, <2>4, <2>5, <2>6, <2>7
  <1>9. ASSUME NEW r \in Readers, CopyOut(r)
        PROVE  SortedInv'
    <2>1. /\ UNCHANGED <<Current, Newer, Growing, g_num_msg, g_tail_msg, printed, print, g_msg_buf, tmp>>
          /\ print = "idle" /\ Current = g_msg_buf /\ Newer = g_tail_msg /\ ~Growing
      BY <1>9 DEF CopyOut, bufVars, printVars
    <2>2. offset[r] \in DOMAIN g_msg_buf /\ offset[r] # g_tail_msg /\ offset[r] < g_num_msg
      BY <1>9, <2>1 DEF CopyOut, HasSlot
    <2>3. ASSUME NEW q \in Readers, q # r
          PROVE  offset'[q] = offset[q] /\ got'[q] = got[q] /\ read'[q] = read[q] /\ want'[q] = want[q]
      BY <1>9, <2>3 DEF CopyOut
    <2>4. /\ offset'[r] = offset[r] + 1 /\ read'[r] = "clear"
          /\ got'[r] = got[r] \/ (got'[r] = g_msg_buf[offset[r]] /\ g_msg_buf[offset[r]] > 0)
      BY <1>9 DEF CopyOut, SlotAt, Messages, Stray
    <2>5. ASSUME NEW q \in Readers
          PROVE  Ahead(Current, q)'
      <3>1. CASE q # r
        BY <2>1, <2>3, <3>1 DEF Ahead
      <3>2. CASE q = r
        <4> SUFFICES ASSUME NEW j \in DOMAIN g_msg_buf, j >= offset[r] + 1,
                            offset[r] + 1 <= g_tail_msg => j < g_tail_msg, g_msg_buf[j] > 0
                     PROVE  g_msg_buf[j] > got'[r]
          BY <2>1, <2>4, <3>2 DEF Ahead
        <4>1. j >= offset[r] /\ (offset[r] <= g_tail_msg => j < g_tail_msg)
          BY <2>1, <2>2
        <4>2. g_msg_buf[j] > got[r]
          BY <2>1, <4>1 DEF Ahead
        <4>3. offset[r] < j /\ (j < g_tail_msg \/ offset[r] >= g_tail_msg)
          BY <2>1, <2>2
        <4>4. g_msg_buf[offset[r]] < g_msg_buf[j]
          BY <2>1, <2>2, <4>3 DEF Sorted, SortedTo
        <4> QED
          BY <2>4, <4>2, <4>4
      <3> QED
        BY <3>1, <3>2
    <2>6. Sorted(Current)' /\ got'[r] <= printed
      BY <2>1, <2>2, <2>4 DEF Sorted, SortedTo
    <2>7. (\A q \in Readers : offset'[q] <= g_tail_msg) \/ (\A i \in DOMAIN Current : Current[i] # Uninit)
      <3>1. CASE \A q \in Readers : offset[q] <= g_tail_msg
        <4>1. offset[r] + 1 <= g_tail_msg
          BY <2>2, <3>1
        <4>2. \A q \in Readers : offset'[q] <= g_tail_msg
          BY <2>3, <2>4, <3>1, <4>1
        <4> QED
          BY <4>2
      <3> QED
        BY <3>1
    <2>8. ASSUME NEW q \in Readers
          PROVE  /\ offset'[q] <= g_num_msg /\ got'[q] <= printed
                 /\ read'[q] = "copy" /\ want'[q] => offset'[q] # g_tail_msg
      <3>1. CASE q # r
        BY <2>3, <3>1
      <3>2. CASE q = r
        BY <2>2, <2>4, <2>6, <3>2
      <3> QED
        BY <3>1, <3>2
    <2> HIDE DEF Growing, Current, Newer
    <2> QED
      BY <2>1, <2>5, <2>6, <2>7, <2>8
  <1>10. ASSUME NEW r \in Readers, Clear(r)
         PROVE  SortedInv'
    <2>1. /\ g_msg_buf' = [i \in DOMAIN g_msg_buf |-> IF i = offset[r] - 1 THEN Blank ELSE g_msg_buf[i]]
          /\ UNCHANGED <<g_tail_msg, g_num_msg, printed, offset, got, want, tmp, print>>
          /\ read' = [read EXCEPT ![r] = "idle"]
      BY <1>10 DEF Clear, ClearSlot, printVars
    <2>2. print = "idle"
      BY <1>10 DEF Clear, ClearSlot
    <2>3. Current = g_msg_buf /\ Current' = g_msg_buf' /\ ~Growing /\ ~Growing' /\ Newer' = Newer
      BY <2>1, <2>2
    <2>4. /\ DOMAIN g_msg_buf' = DOMAIN g_msg_buf
          /\ \A i \in DOMAIN g_msg_buf : g_msg_buf'[i] = IF i = offset[r] - 1 THEN 0 ELSE g_msg_buf[i]
      BY <2>1 DEF Blank
    <2>5. Sorted(Current)'
      <3>1. SortedTo(g_msg_buf, printed, Newer) /\ Newer \in Nat /\ printed \in Nat
        BY <2>2, <2>3 DEF Sorted
      <3>2. SortedTo(g_msg_buf', printed, Newer)
        BY <2>3, <2>4, <3>1, ClearSorts
      <3> QED
        BY <2>1, <2>3, <3>2 DEF Sorted
    <2>6. \A q \in Readers : Ahead(Current, q)'
      BY <2>1, <2>3, <2>4 DEF Ahead
    <2>7. (\A i \in DOMAIN Current : Current[i] # Uninit) => \A i \in DOMAIN Current' : Current'[i] # Uninit
      BY <2>3, <2>4 DEF Uninit
    <2>8. \A q \in Readers : /\ offset'[q] <= g_num_msg' /\ got'[q] <= printed'
                             /\ read'[q] = "copy" /\ want'[q] => offset'[q] # g_tail_msg'
      BY <2>1
    <2>9. ~Missing' => DOMAIN g_msg_buf' = Slots(g_num_msg')
      BY <2>1, <2>2, <2>4
    <2> HIDE DEF Current, Newer, Growing
    <2> QED
      BY <2>1, <2>2, <2>3, <2>5, <2>6, <2>7, <2>8, <2>9
  <1>11. CASE UNCHANGED vars
    BY <1>11 DEF vars, bufVars, printVars, readVars, Sorted, SortedTo, Ahead
  <1>12. QED
    BY <1>1, <1>2, <1>3, <1>4, <1>5, <1>6, <1>7, <1>8, <1>9, <1>10, <1>11
       DEF Next, Printing, Reading

LEMMA NextSequenceInv == IInv /\ OrderInv /\ SequenceInv /\ [Next]_vars => SequenceInv'
  BY NextPlacedInv, NextSortedInv DEF SequenceInv

\* A file gets messages in the order they were printed and none twice, for any number of
\* files, as long as the log has not wrapped or no read has overlapped a print: growing
\* keeps the order, and after a wrap a file never runs from the newer into the older slots.
THEOREM ReceivedInOrder == Spec => []InOrder
  <1>1. IInv /\ OrderInv /\ SequenceInv => InOrder
    <2> SUFFICES ASSUME IInv, OrderInv, SequenceInv, ~(wrapped /\ overlapped),
                        NEW r \in Readers, Copying(r)
                 PROVE  /\ SlotAt(offset[r]) # Uninit
                        /\ SlotAt(offset[r]) \in Messages => SlotAt(offset[r]) > got[r]
      BY DEF InOrder
    <2> USE DEF IInv, TypeOK, PrintInv, OrderInv, SequenceInv, Copying, HasSlot, SlotAt, Slots,
                Messages, Blank, Uninit, Stray
    <2>0. CASE Missing
      BY <2>0 DEF Missing
    <2>1. CASE ~wrapped
      <3>1. offset[r] < g_tail_msg /\ offset[r] \in Nat
        BY <2>1 DEF ReadInv
      <3>2. g_msg_buf[offset[r]] \in {offset[r] + 1, Blank} /\ got[r] <= offset[r]
        BY <2>1, <3>1, PlacedAt DEF PlacedInv
      <3> QED
        BY <3>1, <3>2
    <2>2. CASE ~overlapped /\ ~Missing
      <3>1. print = "idle" /\ offset[r] \in Nat /\ offset[r] # g_tail_msg
        BY <2>2 DEF Exclusive, SortedInv
      <3>2. Current = g_msg_buf /\ Newer = g_tail_msg
        BY <3>1 DEF Current, Growing, Newer
      <3>3. offset[r] \in DOMAIN g_msg_buf /\ offset[r] < g_num_msg
        BY <2>2, <3>1 DEF SortedInv
      <3>4. g_msg_buf[offset[r]] # Uninit
        BY <2>2, <3>1, <3>2, <3>3 DEF SortedInv, Sorted, SortedTo
      <3>5. g_msg_buf[offset[r]] \in Messages => g_msg_buf[offset[r]] > got[r]
        BY <2>2, <3>1, <3>2, <3>3 DEF SortedInv, Ahead
      <3> QED
        BY <3>4, <3>5
    <2> QED
      BY <2>0, <2>1, <2>2
  <1>2. QED
    BY Invariance, InitOrderInv, NextOrderInv, InitSequenceInv, NextSequenceInv, <1>1, PTL DEF Spec

-----------------------------------------------------------------------------
(* The driver.  The steps of the log are those of SdeiLog, whose lemmas are used. *)

Stages == Tables \cup {"sdei", "giveUp", "alloc", "test", "results", "close"}
Places == {"none", "live", "freed"}

\* The log is not a freed one from the start of a run to the clean-up, and none but the
\* driver's own run prints to it; its tail and its size outlive it. A run without a log
\* does not come to its end.
LogUp == live \/ Missing \/ drv # "idle"
LogInv ==
  /\ TypeOK /\ OrderInv /\ g_tail_msg <= g_num_msg
  /\ LogUp => PrintInv
  /\ drv \in Stages \cup {"idle"} /\ todo \in Nat
  /\ drv = "idle" => todo = 0 /\ print = "idle"
  /\ Missing /\ drv \in {"giveUp", "close"} => todo > 0 \/ print # "idle"

\* A run comes to a table when it is not held, if the clean-up released the last run's.
Position(t) == CHOOSE i \in DOMAIN Order : Order[i] = t
MemoryInv ==
  /\ table \in [Tables -> Places] /\ shared \in Places
  /\ drv \notin {"test", "results", "close"} => shared # "live"
  /\ drv = "idle" /\ ~live => \A t \in Tables : table[t] # "live"
  /\ drv \in Tables => \A t \in Tables : table[t] = "live" => Position(t) < Position(drv)
  /\ lost = {}

\* The lines of the last results are in the log as far as they are printed, or were received.
ResultsInv ==
  /\ \A k \in results : k \in Messages /\ k <= g_tail_msg + 1 /\ (print = "idle" => k <= g_tail_msg)
  /\ \A k \in results : k <= g_tail_msg => Holds(g_msg_buf, k)
  /\ print \in {"grown", "sized", "freed"} =>
       \A k \in results : k <= g_tail_msg => k - 1 \in DOMAIN tmp /\ tmp[k - 1] = g_msg_buf[k - 1]
  /\ printed = IF print = "stored" THEN g_tail_msg + 1 ELSE g_tail_msg
  /\ print = "stored" => g_msg_buf[g_tail_msg] = printed
  /\ \A r \in Readers : \A k \in results : k <= offset[r] => k \in seen

DriverInv ==
  /\ LogInv
  /\ "log" \notin lost /\ ~killed => MemoryInv
  /\ killed \in BOOLEAN
  /\ Serial => ResultsInv

-----------------------------------------------------------------------------
(* The order in which sdei_init() comes to the tables. *)
LEMMA FiveTables ==
  /\ Tables = {"gic", "pe", "event", "watchdog", "timer"}
  /\ Position("gic") = 1 /\ Position("pe") = 2 /\ Position("event") = 3
  /\ Position("watchdog") = 4 /\ Position("timer") = 5
  <1>1. DOMAIN Order = 1 .. 5
    BY DEF Order
  <1>2. /\ Order[1] = "gic" /\ Order[2] = "pe" /\ Order[3] = "event"
        /\ Order[4] = "watchdog" /\ Order[5] = "timer"
    BY DEF Order
  <1>3. Tables = {"gic", "pe", "event", "watchdog", "timer"}
    BY <1>1, <1>2 DEF Tables
  <1>4. \A i, j \in DOMAIN Order : Order[i] = Order[j] => i = j
    BY <1>1, <1>2
  <1>5. \A i \in DOMAIN Order : Position(Order[i]) = i
    BY <1>4 DEF Position
  <1> QED
    BY <1>1, <1>2, <1>3, <1>5

LEMMA NextTable ==
  ASSUME NEW t \in Tables
  PROVE  \/ t = "timer" /\ NextStage(t) = "sdei"
         \/ NextStage(t) \in Tables /\ Position(NextStage(t)) = Position(t) + 1
  <1>1. t # "timer" => NextStage(t) = Order[1 + Position(t)]
    BY DEF NextStage, Position
  <1>2. /\ Order[2] = "pe" /\ Order[3] = "event" /\ Order[4] = "watchdog" /\ Order[5] = "timer"
    BY DEF Order
  <1>3. t = "timer" => NextStage(t) = "sdei"
    BY DEF NextStage
  <1> QED
    BY <1>1, <1>2, <1>3, FiveTables

-----------------------------------------------------------------------------
(* The log under the driver. *)
LEMMA LogInit == DriverInit => LogInv
  <1> SUFFICES ASSUME DriverInit PROVE LogInv
    OBVIOUS
  <1> USE LogAssumption DEF DriverInit, Slots, NULL
  <1>1. got \in [Readers -> Messages \cup {Blank}]
    OBVIOUS
  <1>2. g_msg_buf \in [DOMAIN g_msg_buf -> Content] /\ tmp \in [DOMAIN tmp -> Content] /\ Missing
    BY NullIsEmpty DEF Missing
  <1>3. TypeOK
    <2>1. seen \subseteq Messages /\ read \in [Readers -> ReadPCs] /\ print \in PrintPCs
      BY DEF ReadPCs, PrintPCs
    <2>2. g_num_msg \in Nat \ {0} /\ g_tail_msg \in Nat /\ printed \in 0 .. MaxPrints
      OBVIOUS
    <2>3. want \in [Readers -> BOOLEAN] /\ offset \in [Readers -> Nat]
      OBVIOUS
    <2> QED
      BY <1>1, <1>2, <2>1, <2>2, <2>3 DEF TypeOK
  <1>4. OrderInv
    BY <1>2 DEF OrderInv, ReadInv, Exclusive
  <1>5. PrintInv
    BY <1>2 DEF PrintInv
  <1> QED
    BY <1>3, <1>4, <1>5 DEF LogInv

LEMMA LogStep ==
  ASSUME LogInv, LogUp, Next
  PROVE  TypeOK' /\ OrderInv' /\ PrintInv' /\ g_tail_msg' <= g_num_msg'
  <1>1. IInv /\ OrderInv
    BY DEF LogInv, IInv
  <1>2. IInv' /\ OrderInv'
    BY <1>1, NextIInv, NextOrderInv
  <1> QED
    BY <1>2 DEF IInv, PrintInv

\* Nothing prints but a run in progress.
LEMMA PrintsInRun ==
  ASSUME LogInv
  PROVE  /\ PrintLine => CallPrint /\ drv # "idle"
         /\ Printing => drv # "idle"
  BY DEF LogInv, PrintLine, Printing, Room, Grow, Wrap, DoubleNum, FreeOld, Swap, Store, Advance, PrintFaults

\* The steps of the driver between its prints.
Between ==
  \/ \E t \in Tables : CreateTable(t) \/ AllocTableFails(t) \/ FillTableFails(t)
  \/ InitSdei \/ GiveUp \/ AllocShared \/ Execute \/ PrintResults \/ Finish

LEMMA BetweenStep ==
  ASSUME LogInv, Between
  PROVE  /\ UNCHANGED vars /\ drv # "idle" /\ print = "idle"
         /\ drv' \in Stages \cup {"idle"} /\ todo' \in Nat /\ (drv' = "idle" => todo' = 0)
         /\ drv' \in {"giveUp", "close"} => todo' > 0
  <1>1. ASSUME NEW t \in Tables, CreateTable(t)
        PROVE  /\ UNCHANGED vars /\ drv = t /\ print = "idle" /\ drv' = NextStage(t) /\ todo' = 0
    BY <1>1 DEF CreateTable, At, Go
  <1>2. ASSUME NEW t \in Tables, AllocTableFails(t) \/ FillTableFails(t)
        PROVE  /\ UNCHANGED vars /\ drv = t /\ print = "idle" /\ drv' = "giveUp" /\ todo' \in {2, 3}
    BY <1>2 DEF AllocTableFails, FillTableFails, At, Go
  <1>3. ASSUME InitSdei \/ GiveUp \/ AllocShared \/ Execute \/ PrintResults \/ Finish
        PROVE  /\ UNCHANGED vars /\ drv # "idle" /\ print = "idle"
               /\ drv' \in Stages \cup {"idle"} /\ todo' \in Nat /\ (drv' = "idle" => todo' = 0)
               /\ drv' \in {"giveUp", "close"} => todo' > 0
    BY <1>3, DriverAssumption DEF InitSdei, GiveUp, AllocShared, Execute, PrintResults, Finish, At, Go, Stages
  <1>4. \A t \in Tables : t # "idle" /\ NextStage(t) \in Stages /\ NextStage(t) \notin {"giveUp", "close"}
    BY NextTable, FiveTables DEF Stages
  <1> QED
    BY <1>1, <1>2, <1>3, <1>4 DEF Between, Stages

LEMMA LogNext == LogInv /\ [DriverNext]_allVars => LogInv'
  <1> SUFFICES ASSUME LogInv, [DriverNext]_allVars PROVE LogInv'
    OBVIOUS
  <1>1. CASE StartRun
    <2> USE LogAssumption DEF LogInv
    <2>1. /\ drv = "idle" /\ todo = 0 /\ print = "idle" /\ drv' = "gic" /\ todo' = 0
          /\ \A r \in Readers : read[r] = "idle"
          /\ UNCHANGED <<g_tail_msg, g_num_msg, printVars, readVars, history>>
      BY <1>1 DEF StartRun, At, Go
    <2>2. /\ g_msg_buf' \in [DOMAIN g_msg_buf' -> Content] /\ live' \in BOOLEAN
          /\ live' <=> ~Missing'
          /\ ~Missing' => DOMAIN g_msg_buf' = Slots(g_num_msg)
      <3>1. CASE g_msg_buf' = NULL /\ live' = FALSE
        BY <3>1, NullIsEmpty DEF Missing
      <3>2. CASE g_msg_buf' = [i \in Slots(g_num_msg) |-> Uninit] /\ live' = TRUE
        <4>1. g_msg_buf' \in [DOMAIN g_msg_buf' -> Content] /\ DOMAIN g_msg_buf' = Slots(g_num_msg)
          BY <3>2 DEF Content
        <4>2. 0 \in Slots(g_num_msg)
          BY DEF TypeOK, Slots
        <4> QED
          BY <3>2, <4>1, <4>2 DEF Missing
      <3> QED
        BY <1>1, <3>1, <3>2 DEF StartRun
    <2>3. TypeOK'
      BY <2>1, <2>2 DEF TypeOK, printVars, readVars, history
    <2>4. OrderInv'
      BY <2>1, <2>2 DEF TypeOK, Slots, OrderInv, ReadInv, Exclusive, printVars, readVars, history
    <2>5. PrintInv' /\ g_tail_msg' <= g_num_msg'
      BY <2>1, <2>2 DEF PrintInv, printVars
    <2>6. drv' \in Stages
      BY <2>1, FiveTables DEF Stages
    <2> QED
      BY <2>1, <2>3, <2>4, <2>5, <2>6 DEF printVars
  <1>2. CASE Cleanup
    <2> USE <1>2 DEF Cleanup, At, LogInv, TypeOK
    <2>1. TypeOK'
      BY DEF printVars, readVars, history
    <2>2. OrderInv' /\ Missing' = Missing
      BY DEF OrderInv, ReadInv, Exclusive, Missing, printVars, readVars, history
    <2>3. ~Missing
      BY DEF LogUp, PrintInv
    <2> QED
      BY <2>1, <2>2, <2>3 DEF LogUp, printVars
  <1>3. CASE PrintLine
    <2>1. CallPrint /\ LogUp
      BY <1>3, PrintsInRun DEF LogUp
    <2>2. TypeOK' /\ OrderInv' /\ PrintInv' /\ g_tail_msg' <= g_num_msg'
      BY <2>1, LogStep DEF Next
    <2>3. print' # "idle"
      BY <2>1 DEF CallPrint
    <2> QED
      BY <1>3, <2>2, <2>3, PrintsInRun DEF LogInv, PrintLine
  <1>4. CASE Printing /\ UNCHANGED drvVars
    <2>1. TypeOK' /\ OrderInv' /\ PrintInv' /\ g_tail_msg' <= g_num_msg'
      BY <1>4, PrintsInRun, LogStep DEF Next, LogUp
    <2>2. print' = "idle" => ~Missing'
      BY <1>4, PrintsInRun
         DEF LogInv, LogUp, PrintInv, Printing, Room, Grow, Wrap, DoubleNum, FreeOld, Swap, Store, Advance,
             PrintFaults, Missing
    <2> QED
      BY <1>4, <2>1, <2>2, PrintsInRun DEF LogInv, drvVars
  <1>5. CASE Between
    <2>1. UNCHANGED vars /\ drv # "idle" /\ print = "idle"
          /\ drv' \in Stages \cup {"idle"} /\ todo' \in Nat /\ (drv' = "idle" => todo' = 0)
          /\ (drv' \in {"giveUp", "close"} => todo' > 0)
      BY <1>5, BetweenStep
    <2>2. TypeOK'
      BY <2>1 DEF LogInv, TypeOK, PrintPCs, vars, bufVars, printVars, readVars, history
    <2>3. PrintInv'
      BY <2>1 DEF LogInv, LogUp, PrintInv, Missing, vars, bufVars, printVars
    <2>4. OrderInv'
      BY <2>1 DEF LogInv, OrderInv, ReadInv, Exclusive, Missing, vars, bufVars, printVars, readVars, history
    <2>5. print' = "idle" /\ g_tail_msg' = g_tail_msg /\ g_num_msg' = g_num_msg
      BY <2>1 DEF vars, bufVars, printVars
    <2> QED
      BY <2>1, <2>2, <2>3, <2>4, <2>5 DEF LogInv
  <1>5a. CASE RunKilled
    <2>1. /\ print = "killed" /\ print' = "idle" /\ drv' = "idle" /\ todo' = 0
          /\ UNCHANGED <<bufVars, tmp, printed, readVars, history>>
      BY <1>5a DEF RunKilled, Go
    <2>2. drv # "idle" /\ PrintInv /\ Missing
      BY <2>1 DEF LogInv, LogUp, PrintInv
    <2>3. TypeOK'
      BY <2>1 DEF LogInv, TypeOK, PrintPCs, bufVars, readVars, history
    <2>4. PrintInv' /\ g_tail_msg' <= g_num_msg'
      BY <2>1, <2>2 DEF PrintInv, Missing, bufVars
    <2>5. OrderInv'
      BY <2>1, <2>2 DEF LogInv, OrderInv, ReadInv, Exclusive, Missing, bufVars, readVars, history
    <2> QED
      BY <2>1, <2>3, <2>4, <2>5 DEF LogInv
  <1>6. ASSUME NEW r \in Readers, live \/ Missing, OpenFile(r) \/ Reading(r), UNCHANGED drvVars
        PROVE  LogInv'
    <2>1. TypeOK' /\ OrderInv' /\ PrintInv' /\ g_tail_msg' <= g_num_msg'
      BY <1>6, LogStep DEF Next, LogUp
    <2>2. print' = print /\ Missing' = Missing
      BY <1>6 DEF Missing, bufVars, OpenFile, Reading, StartRead, ReadNothing, CopyOut, CopyFault, Clear, ClearSlot, printVars
    <2> QED
      BY <1>6, <2>1, <2>2 DEF LogInv, drvVars
  <1>6a. ASSUME NEW r \in Readers, ReadFaults(r), UNCHANGED drvVars
         PROVE  LogInv'
    <2> USE <1>6a DEF ReadFaults, LogInv, bufVars, printVars
    <2>1. TypeOK'
      BY DEF TypeOK, ReadPCs, history
    <2>2. OrderInv' /\ Missing' = Missing
      BY DEF TypeOK, OrderInv, ReadInv, Exclusive, Missing, history
    <2>3. PrintInv'
      BY DEF LogUp, PrintInv, Missing
    <2> QED
      BY <2>1, <2>2, <2>3 DEF drvVars
  <1>7. CASE UNCHANGED allVars
    <2> USE <1>7 DEF allVars, vars, bufVars, printVars, readVars, history, drvVars, LogInv
    <2>1. TypeOK'
      BY DEF TypeOK
    <2>2. LogUp' = LogUp /\ Missing' = Missing /\ (LogUp => PrintInv')
      BY DEF PrintInv, LogUp, Missing
    <2>3. OrderInv'
      BY DEF OrderInv, ReadInv, Exclusive, Missing
    <2> QED
      BY <2>1, <2>2, <2>3
  <1> QED
    BY <1>1, <1>2, <1>3, <1>4, <1>5, <1>5a, <1>6, <1>6a, <1>7 DEF DriverNext, Running, Between

-----------------------------------------------------------------------------
(* The memory of a run. *)
LEMMA MemoryInit == DriverInit => MemoryInv
  BY FiveTables DEF DriverInit, MemoryInv, Places

LEMMA LostGrows == [DriverNext]_allVars => ("log" \in lost => "log" \in lost') /\ (killed => killed')
  <1>1. CASE StartRun \/ Cleanup
    BY <1>1 DEF StartRun, Cleanup
  <1>2. CASE Between
    BY <1>2 DEF Between, CreateTable, AllocTableFails, FillTableFails, InitSdei, GiveUp, AllocShared,
                Execute, PrintResults, Finish
  <1>3. CASE PrintLine \/ RunKilled \/ UNCHANGED drvVars
    BY <1>3 DEF PrintLine, RunKilled, drvVars
  <1> QED
    BY <1>1, <1>2, <1>3 DEF DriverNext, Running, Between, allVars

LEMMA MemoryNext ==
  ASSUME LogInv, "log" \notin lost /\ ~killed => MemoryInv, [DriverNext]_allVars,
         "log" \notin lost', ~killed'
  PROVE  MemoryInv'
  <1>0. MemoryInv
    BY LostGrows
  <1> USE <1>0 DEF MemoryInv, Places
  <1>1. CASE StartRun
    <2>1. ~live /\ drv = "idle" /\ drv' = "gic" /\ UNCHANGED <<table, shared>> /\ lost' = lost
      BY <1>1 DEF StartRun, At, Go
    <2> QED
      BY <2>1, FiveTables
  <1>2. CASE Cleanup
    BY <1>2, FiveTables DEF Cleanup, At
  <1>3. CASE PrintLine
    BY <1>3, PrintsInRun DEF PrintLine, LogInv
  <1>4. CASE Printing /\ UNCHANGED drvVars
    BY <1>4, PrintsInRun DEF drvVars
  <1>5. ASSUME NEW t \in Tables, CreateTable(t) \/ FillTableFails(t)
        PROVE  MemoryInv'
    <2>1. /\ drv = t /\ table' = [table EXCEPT ![t] = "live"] /\ shared' = shared /\ live' = live
          /\ lost' = IF table[t] = "live" THEN lost \cup {t} ELSE lost
          /\ drv' \in {NextStage(t), "giveUp"}
      BY <1>5 DEF CreateTable, FillTableFails, At, Go, vars, bufVars
    <2>2. table[t] # "live"
      BY <2>1, FiveTables
    <2>3. drv # "idle" /\ drv' # "idle"
      BY <1>5, <2>1, NextTable, FiveTables
    <2>4. ASSUME drv' \in Tables, NEW s \in Tables, table'[s] = "live"
          PROVE  Position(s) < Position(drv')
      <3>1. drv' = NextStage(t) /\ Position(drv') = Position(t) + 1
        BY <2>1, <2>4, NextTable, FiveTables
      <3>2. s = t \/ Position(s) < Position(t)
        BY <2>1, <2>4
      <3> QED
        BY <3>1, <3>2, FiveTables
    <2>5. table' \in [Tables -> Places] /\ lost' = {}
      BY <2>1, <2>2
    <2>6. drv \notin {"test", "results", "close"}
      BY <2>1, FiveTables
    <2> QED
      BY <2>1, <2>3, <2>4, <2>5, <2>6
  <1>6. CASE \E t \in Tables : AllocTableFails(t)
    BY <1>6, FiveTables DEF AllocTableFails, At, Go
  <1>7. CASE InitSdei \/ GiveUp \/ Execute \/ PrintResults
    <2>1. drv' = "idle" => live /\ live' = live
      BY <1>7 DEF InitSdei, GiveUp, Execute, PrintResults, At, Go, LogInv, LogUp, PrintInv, vars, bufVars
    <2> QED
      BY <1>7, <2>1, FiveTables DEF InitSdei, GiveUp, Execute, PrintResults, At, Go
  <1>8. CASE AllocShared
    BY <1>8, FiveTables DEF AllocShared, At, Go
  <1>9. CASE Finish
    <2>1. live /\ live' = live
      BY <1>9 DEF Finish, At, LogInv, LogUp, PrintInv, vars, bufVars
    <2> QED
      BY <1>9, <2>1, FiveTables DEF Finish, At, Go
  <1>10. ASSUME NEW r \in Readers, OpenFile(r) \/ Reading(r) \/ ReadFaults(r), UNCHANGED drvVars
         PROVE  MemoryInv'
    <2>1. live' = live
      BY <1>10 DEF OpenFile, Reading, StartRead, ReadNothing, CopyOut, CopyFault, ReadFaults, Clear, ClearSlot, bufVars
    <2> QED
      BY <1>10, <2>1 DEF drvVars
  <1>11. CASE UNCHANGED allVars
    BY <1>11 DEF allVars, vars, bufVars, drvVars
  <1>12. ~RunKilled
    BY DEF RunKilled
  <1> QED
    BY <1>12, <1>1, <1>2, <1>3, <1>4, <1>5, <1>6, <1>7, <1>8, <1>9, <1>10, <1>11 DEF DriverNext, Running

-----------------------------------------------------------------------------
(* The results of a run. *)
LEMMA ResultsInit == DriverInit => ResultsInv
  BY DEF DriverInit, ResultsInv

LEMMA DriverHistory == LogInv /\ [DriverNext]_allVars => (Serial' => Serial)
  <1> SUFFICES ASSUME LogInv, [DriverNext]_allVars, Serial' PROVE Serial
    OBVIOUS
  <1>1. TypeOK
    BY DEF LogInv
  <1>2. CASE StartRun \/ Cleanup \/ Between \/ RunKilled
    BY <1>2, BetweenStep DEF StartRun, Cleanup, RunKilled, Serial, vars, history
  <1>3. CASE PrintLine \/ Printing
    BY <1>1, <1>3, HistoryStays DEF PrintLine, Next
  <1>4. ASSUME NEW r \in Readers, OpenFile(r) \/ Reading(r) \/ ReadFaults(r)
        PROVE  Serial
    BY <1>1, <1>4, HistoryStays DEF Next, ReadFaults, Serial, history
  <1>5. CASE UNCHANGED allVars
    BY <1>5 DEF Serial, allVars, vars, history
  <1> QED
    BY <1>2, <1>3, <1>4, <1>5 DEF DriverNext, Running, Between

LEMMA ResultsNext ==
  ASSUME LogInv, Serial => ResultsInv, [DriverNext]_allVars, Serial'
  PROVE  ResultsInv'
  <1>0. Serial /\ ResultsInv /\ ReadInv /\ Exclusive /\ TypeOK
    BY DriverHistory DEF LogInv, OrderInv, Serial
  <1>0a. LogUp => PrintInv
    BY DEF LogInv
  <1> USE <1>0, LogAssumption DEF TypeOK, ReadInv, Exclusive, ResultsInv, Slots, Holds, history
  <1>0b. \A k \in results : k \in Nat /\ k > 0
    BY DEF Messages
  <1>1. CASE StartRun
    <2>1. results' = {} /\ print = "idle" /\ UNCHANGED <<printVars, g_tail_msg>>
      BY <1>1 DEF StartRun, At
    <2> QED
      BY <2>1 DEF printVars
  <1>2. CASE Cleanup
    BY <1>2 DEF Cleanup, printVars, readVars
  <1>3. CASE PrintLine
    <2>1. /\ print = "idle" /\ print' = "check" /\ printed < MaxPrints
          /\ UNCHANGED <<bufVars, tmp, printed, readVars>>
          /\ results' \subseteq results \cup {printed + 1}
      BY <1>3 DEF PrintLine, CallPrint
    <2>2. printed + 1 = g_tail_msg + 1 /\ printed + 1 \in Messages
      BY <2>1 DEF Messages
    <2>3. \A r \in Readers : offset[r] < printed + 1
      BY <2>2
    <2> QED
      BY <2>1, <2>2, <2>3 DEF bufVars, readVars
  <1>4. CASE Printing /\ UNCHANGED drvVars
    <2>0. results' = results /\ PrintInv
      BY <1>4, <1>0a, PrintsInRun DEF drvVars, LogUp
    <2> USE <2>0 DEF PrintInv
    <2>1. CASE Room \/ DoubleNum \/ FreeOld \/ PrintFaults
      BY <2>1 DEF Room, DoubleNum, FreeOld, PrintFaults, bufVars, readVars
    <2>2. CASE Grow
      <3>1. g_tail_msg = g_num_msg /\ print = "check" /\ print' = "grown"
            /\ UNCHANGED <<g_msg_buf, g_tail_msg, printed, seen, offset>>
            /\ tmp' = [i \in Slots(2 * g_num_msg) |->
                         IF i \in Slots(g_num_msg) THEN g_msg_buf[i] ELSE Uninit]
        BY <2>2 DEF Grow, bufVars, readVars
      <3>2. ASSUME NEW k \in results, k <= g_tail_msg
            PROVE  k - 1 \in DOMAIN tmp' /\ tmp'[k - 1] = g_msg_buf[k - 1]
        BY <1>0b, <3>1, <3>2
      <3> QED
        BY <3>1, <3>2
    <2>3. CASE Wrap
      BY <2>3 DEF Wrap, Serial
    <2>4. CASE Swap
      BY <2>4 DEF Swap, readVars
    <2>5. CASE Store
      <3>1. /\ print = "store" /\ print' = "stored" /\ printed' = printed + 1
            /\ g_msg_buf' = [g_msg_buf EXCEPT ![g_tail_msg] = printed']
            /\ UNCHANGED <<g_tail_msg, seen, offset>>
        BY <2>5 DEF Store, readVars
      <3>2. g_tail_msg \in DOMAIN g_msg_buf
        BY <2>5 DEF Store, Missing, LogInv, LogUp, PrintInv
      <3>3. ASSUME NEW k \in results, k <= g_tail_msg PROVE Holds(g_msg_buf, k)'
        <4>1. k - 1 # g_tail_msg /\ g_msg_buf'[k - 1] = g_msg_buf[k - 1] /\ DOMAIN g_msg_buf' = DOMAIN g_msg_buf
          BY <1>0b, <3>1, <3>3
        <4> QED
          BY <4>1, <3>1, <3>3, <1>0b
      <3> QED
        BY <3>1, <3>2, <3>3
    <2>6. CASE Advance
      <3>1. /\ print = "stored" /\ print' = "idle" /\ g_tail_msg' = g_tail_msg + 1
            /\ UNCHANGED <<g_msg_buf, printed, seen, offset>>
        BY <2>6 DEF Advance, readVars
      <3>2. g_tail_msg \in DOMAIN g_msg_buf /\ g_msg_buf[g_tail_msg] = g_tail_msg + 1
        BY <3>1
      <3>3. ASSUME NEW k \in results PROVE Holds(g_msg_buf, k)'
        BY <1>0b, <3>1, <3>2
      <3> QED
        BY <1>0b, <3>1, <3>3
    <2> QED
      BY <1>4, <2>1, <2>2, <2>3, <2>4, <2>5, <2>6 DEF Printing
  <1>5. CASE Between
    <2>1. UNCHANGED vars /\ results' = results
      BY <1>5, BetweenStep DEF Between, CreateTable, AllocTableFails, FillTableFails, InitSdei, GiveUp,
                               AllocShared, Execute, PrintResults, Finish
    <2> QED
      BY <2>1 DEF vars, bufVars, printVars, readVars
  <1>5a. CASE RunKilled
    <2>1. results' = {} /\ print = "killed" /\ print' = "idle" /\ UNCHANGED <<printed, g_tail_msg>>
      BY <1>5a DEF RunKilled, bufVars
    <2> QED
      BY <2>1
  <1>6. ASSUME NEW r \in Readers, live \/ Missing, OpenFile(r) \/ Reading(r) \/ ReadFaults(r), UNCHANGED drvVars
        PROVE  ResultsInv'
    <2>0. results' = results /\ print' = print /\ printed' = printed /\ tmp' = tmp
          /\ g_tail_msg' = g_tail_msg
      BY <1>6 DEF drvVars, OpenFile, Reading, StartRead, ReadNothing, CopyOut, CopyFault, ReadFaults, Clear, ClearSlot, printVars,
                  bufVars
    <2>1. CASE OpenFile(r) \/ StartRead(r) \/ ReadNothing(r) \/ CopyFault(r) \/ ReadFaults(r)
      <3>1. UNCHANGED <<g_msg_buf, seen>> /\ \A q \in Readers : offset'[q] \in {offset[q], 0}
        BY <2>1 DEF OpenFile, StartRead, ReadNothing, CopyFault, ReadFaults, bufVars
      <3>2. ASSUME NEW q \in Readers, NEW k \in results, k <= offset'[q] PROVE k \in seen'
        BY <1>0b, <3>1, <3>2
      <3> QED
        BY <2>0, <3>1, <3>2
    <2>2. CASE CopyOut(r)
      <3>1. /\ print = "idle" /\ UNCHANGED g_msg_buf /\ ~Missing
            /\ offset[r] < g_tail_msg /\ offset' = [offset EXCEPT ![r] = @ + 1]
            /\ seen' = seen \cup ({SlotAt(offset[r])} \cap Messages)
        BY <2>2 DEF CopyOut, HasSlot, bufVars
      <3>2. ASSUME offset[r] + 1 \in results PROVE offset[r] + 1 \in seen'
        <4> DEFINE k == offset[r] + 1
        <4>1. k <= g_tail_msg /\ k - 1 = offset[r] /\ k \in Messages
          BY <3>1, <3>2
        <4>2. Holds(g_msg_buf, k)
          BY <3>2, <4>1
        <4>3. g_msg_buf[k - 1] = k => SlotAt(offset[r]) = k
          BY <1>6, <3>1, <4>1, <4>2 DEF SlotAt
        <4> QED
          BY <3>1, <4>1, <4>2, <4>3
      <3>3. ASSUME NEW q \in Readers, NEW k \in results, k <= offset'[q] PROVE k \in seen'
        <4>1. k <= offset[q] \/ (q = r /\ k = offset[r] + 1)
          BY <1>0b, <3>1, <3>3
        <4> QED
          BY <3>1, <3>2, <4>1
      <3> QED
        BY <2>0, <3>1, <3>3
    <2>3. CASE Clear(r)
      <3>1. /\ print = "idle" /\ UNCHANGED <<seen, offset>>
            /\ g_msg_buf' = [i \in DOMAIN g_msg_buf |->
                               IF i = offset[r] - 1 THEN Blank ELSE g_msg_buf[i]]
        BY <2>3 DEF Clear, ClearSlot
      <3>2. ASSUME NEW k \in results, k <= g_tail_msg PROVE Holds(g_msg_buf, k)'
        <4>1. k - 1 = offset[r] - 1 => k \in seen
          BY <1>0b
        <4> QED
          BY <3>1, <3>2, <4>1
      <3> QED
        BY <2>0, <3>1, <3>2
    <2> QED
      BY <1>6, <2>1, <2>2, <2>3 DEF Reading
  <1>7. CASE UNCHANGED allVars
    BY <1>7 DEF allVars, vars, bufVars, printVars, readVars, drvVars
  <1> QED
    BY <1>1, <1>2, <1>3, <1>4, <1>5, <1>5a, <1>6, <1>7 DEF DriverNext, Running, Between, ReadFaults

-----------------------------------------------------------------------------
LEMMA DriverStep ==
  ASSUME DriverInv, [DriverNext]_allVars
  PROVE  DriverInv'
  <1>1. killed' \in BOOLEAN
    BY DEF DriverInv, DriverNext, Running, StartRun, Cleanup, PrintLine, CreateTable, AllocTableFails,
           FillTableFails, InitSdei, GiveUp, AllocShared, Execute, PrintResults, Finish, RunKilled,
           drvVars, allVars
  <1>2. LogInv' /\ ("log" \notin lost' /\ ~killed' => MemoryInv') /\ (Serial' => ResultsInv')
    BY LogNext, MemoryNext, ResultsNext DEF DriverInv
  <1> QED
    BY <1>1, <1>2 DEF DriverInv

LEMMA DriverInvariance == DriverSpec => []DriverInv
  <1>1. DriverInit => DriverInv
    BY LogInit, MemoryInit, ResultsInit DEF DriverInv, DriverInit
  <1> QED
    BY <1>1, DriverStep, PTL DEF DriverSpec

\* An application that cleans up after each run loses no memory in any number of runs,
\* wherever each was given up, as long as every run got its log (sdei_acs_drv.c:116-159, 198-208, 219-225).
THEOREM NoMemoryLost == DriverSpec => []NothingLost
  <1>1. DriverInv => NothingLost
    BY FiveTables DEF DriverInv, LogInv, MemoryInv, NothingLost
  <1> QED
    BY <1>1, DriverInvariance, PTL

\* While the buffer can grow and reads wait for prints, each result line of the last run
\* was received or waits in the log, which may have been started in its middle by the run
\* (sdei_acs_drv.c:116-120, 201).
THEOREM ResultsStayReadable == DriverSpec => []ResultsReadable
  <1>1. DriverInv => ResultsReadable
    <2> SUFFICES ASSUME DriverInv, Serial, drv = "idle", NEW k \in results, k \notin seen
                 PROVE  \E i \in Slots(g_tail_msg) : g_msg_buf[i] = k
      BY DEF ResultsReadable, ResultsAlwaysReadable, Serial
    <2>1. k \in Nat /\ k > 0 /\ k <= g_tail_msg /\ Holds(g_msg_buf, k) /\ g_tail_msg \in Nat
      BY DEF DriverInv, LogInv, ResultsInv, TypeOK, Messages
    <2>2. k - 1 \in Slots(g_tail_msg) /\ g_msg_buf[k - 1] = k
      BY <2>1 DEF Holds, Slots
    <2> QED
      BY <2>2
  <1> QED
    BY <1>1, DriverInvariance, PTL
=============================================================================
