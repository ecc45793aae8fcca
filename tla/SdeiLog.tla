------------------------------ MODULE SdeiLog ------------------------------
(***************************************************************************)
(* The message log of the SDEI driver: pal_print() (pal_misc.c) appends    *)
(* fixed-size slots to g_msg_buf, doubling it when it is full, and         *)
(* sdei_msg_proc_read() (sdei_acs_drv.c) hands the slots out one per read  *)
(* call and blanks each slot it has handed out.  There is no lock: the     *)
(* shared variables are g_msg_buf, g_tail_msg and g_num_msg, and every     *)
(* action below is one access of the code to one of them.                  *)
(*                                                                         *)
(* One context prints (the thread inside sdei_proc_write); any number of   *)
(* open files read.  A message is its serial number, 1, 2, 3, ...          *)
(***************************************************************************)
EXTENDS Integers, Sequences

CONSTANTS
  Readers,       \* open files of /proc/sdei_msg
  MinNum,        \* MIN_NUM_MSG, the slots of the first buffer
  MaxPrints,     \* bound: messages printed in a behaviour
  AllocMayFail,  \* may kmalloc() of a buffer return NULL?
  Faults,        \* may copy_to_user() fail?
  Overlap,       \* may a read call run while a print is in progress?
  Reopen         \* may a file be opened again?

ASSUME LogAssumption ==
  /\ MinNum \in Nat \ {0}
  /\ MaxPrints \in Nat
  /\ {AllocMayFail, Faults, Overlap, Reopen} \subseteq BOOLEAN

VARIABLES
  g_msg_buf,     \* the slots of the allocation g_msg_buf points to, or NULL
  live,          \* is it an allocation that has not been passed to kfree()?
  g_tail_msg,
  g_num_msg,
  print,         \* control point of pal_print()
  tmp,           \* pal_print()'s larger buffer
  printed,       \* history: messages stored so far
  read,          \* control point of each file's sdei_msg_proc_read()
  want,          \* FALSE: the call found the file at the tail (len = 0)
  offset,        \* file position, in slots
  got,           \* history: the last message the file received since it was opened
  seen,          \* history: the messages some file has received
  wrapped,       \* history: has the log gone on from its first slot?
  overlapped,    \* history: has a read call run while a print was in progress?
  underrun       \* history: has a read blanked the memory before the buffer?

printVars == <<print, tmp, printed>>
readVars  == <<read, want, offset, got, seen>>
bufVars   == <<g_msg_buf, live, g_tail_msg, g_num_msg>>
history   == <<wrapped, overlapped, underrun>>
vars      == <<bufVars, printVars, readVars, history>>

\* What a slot can hold besides a message.
Blank  == 0     \* zeroed by sdei_msg_proc_read()
Uninit == -1    \* never written since kmalloc()
Stray  == -2    \* what a read outside live memory returns

Messages == 1 .. MaxPrints
Content == Messages \cup {Blank, Uninit, Stray}
PrintPCs == {"idle", "check", "grown", "sized", "freed", "store", "stored", "killed"}
ReadPCs  == {"idle", "copy", "clear", "faulted"}

Slots(n) == 0 .. n - 1

\* kmalloc() of the first buffer is not looked at: g_msg_buf may stay NULL.
NULL == <<>>
Missing == DOMAIN g_msg_buf = {}

-----------------------------------------------------------------------------
(***************************************************************************)
(* Printing.                                                               *)
(***************************************************************************)

CallPrint ==
  /\ print = "idle" /\ printed < MaxPrints
  /\ Overlap \/ \A r \in Readers : read[r] = "idle"
  /\ print' = "check"
  /\ overlapped' = (overlapped \/ \E r \in Readers : read[r] # "idle")
  /\ UNCHANGED <<bufVars, tmp, printed, readVars, wrapped, underrun>>

\* Mutant: the full buffer taken for one with room.
RoomOffByOne ==
  /\ print = "check" /\ g_tail_msg <= g_num_msg
  /\ print' = "store"
  /\ UNCHANGED <<bufVars, tmp, printed, readVars, history>>

\* The buffer has room.
Room ==
  /\ print = "check" /\ g_tail_msg < g_num_msg
  /\ print' = "store"
  /\ UNCHANGED <<bufVars, tmp, printed, readVars, history>>

\* Mutant: the old slots are not copied.
GrowNoCopy ==
  /\ print = "check" /\ g_tail_msg >= g_num_msg /\ ~Missing
  /\ tmp' = [i \in Slots(2 * g_num_msg) |-> Uninit]
  /\ print' = "grown"
  /\ UNCHANGED <<bufVars, printed, readVars, history>>

\* kmalloc() of twice the slots succeeds and the old ones are copied.
Grow ==
  /\ print = "check" /\ g_tail_msg >= g_num_msg /\ ~Missing
  /\ tmp' = [i \in Slots(2 * g_num_msg) |->
               IF i \in Slots(g_num_msg) THEN g_msg_buf[i] ELSE Uninit]
  /\ print' = "grown"
  /\ UNCHANGED <<bufVars, printed, readVars, history>>

\* kmalloc() fails: printing goes on from the first slot.
Wrap ==
  /\ AllocMayFail
  /\ print = "check" /\ g_tail_msg >= g_num_msg
  /\ g_tail_msg' = g_tail_msg % g_num_msg
  /\ print' = "store"
  /\ wrapped' = TRUE
  /\ UNCHANGED <<g_msg_buf, live, g_num_msg, tmp, printed, readVars, overlapped, underrun>>

\* Mutant: the count left as it was.
KeepNum ==
  /\ print = "grown"
  /\ print' = "sized"
  /\ UNCHANGED <<bufVars, tmp, printed, readVars, history>>

DoubleNum ==
  /\ print = "grown"
  /\ g_num_msg' = 2 * g_num_msg
  /\ print' = "sized"
  /\ UNCHANGED <<g_msg_buf, live, g_tail_msg, tmp, printed, readVars, history>>

FreeOld ==
  /\ print = "sized"
  /\ live' = FALSE
  /\ print' = "freed"
  /\ UNCHANGED <<g_msg_buf, g_tail_msg, g_num_msg, tmp, printed, readVars, history>>

Swap ==
  /\ print = "freed"
  /\ g_msg_buf' = tmp /\ live' = TRUE
  /\ tmp' = <<>>
  /\ print' = "store"
  /\ UNCHANGED <<g_tail_msg, g_num_msg, printed, readVars, history>>

Store ==
  /\ print = "store" /\ ~Missing
  /\ printed' = printed + 1
  /\ g_msg_buf' = [g_msg_buf EXCEPT ![g_tail_msg] = printed']
  /\ print' = "stored"
  /\ UNCHANGED <<live, g_tail_msg, g_num_msg, tmp, readVars, history>>

Advance ==
  /\ print = "stored"
  /\ g_tail_msg' = g_tail_msg + 1
  /\ print' = "idle"
  /\ UNCHANGED <<g_msg_buf, live, g_num_msg, tmp, printed, readVars, history>>

\* memcpy() from or to NULL: the kernel kills the thread that prints.
PrintFaults ==
  /\ Missing
  /\ print = "store" \/ (print = "check" /\ g_tail_msg >= g_num_msg)
  /\ print' = "killed"
  /\ UNCHANGED <<bufVars, tmp, printed, readVars, history>>

Printing ==
  \/ Room \/ Grow \/ Wrap \/ DoubleNum \/ FreeOld \/ Swap \/ Store \/ Advance \/ PrintFaults

-----------------------------------------------------------------------------
(***************************************************************************)
(* Reading.                                                                *)
(***************************************************************************)

\* A new open file of /proc/sdei_msg, at position 0.
OpenFile(r) ==
  /\ Reopen
  /\ read[r] = "idle" /\ offset[r] # 0
  /\ offset' = [offset EXCEPT ![r] = 0]
  /\ got' = [got EXCEPT ![r] = Blank]
  /\ UNCHANGED <<bufVars, printVars, history, read, want, seen>>

\* Mutant: no comparison with the tail.
StartReadAnyway(r) ==
  /\ read[r] = "idle"
  /\ Overlap \/ print = "idle"
  /\ want' = [want EXCEPT ![r] = TRUE]
  /\ read' = [read EXCEPT ![r] = "copy"]
  /\ overlapped' = (overlapped \/ print # "idle")
  /\ UNCHANGED <<bufVars, printVars, wrapped, underrun, offset, got, seen>>

StartRead(r) ==
  /\ read[r] = "idle"
  /\ Overlap \/ print = "idle"
  /\ want' = [want EXCEPT ![r] = (offset[r] # g_tail_msg)]
  /\ read' = [read EXCEPT ![r] = "copy"]
  /\ overlapped' = (overlapped \/ print # "idle")
  /\ UNCHANGED <<bufVars, printVars, wrapped, underrun, offset, got, seen>>

\* simple_read_from_buffer() has something to copy.
HasSlot(r) == want[r] /\ offset[r] < g_num_msg

SlotAt(i) == IF live /\ i \in DOMAIN g_msg_buf THEN g_msg_buf[i] ELSE Stray

ReadNothing(r) ==
  /\ read[r] = "copy" /\ ~HasSlot(r)
  /\ read' = [read EXCEPT ![r] = "idle"]
  /\ UNCHANGED <<bufVars, printVars, history, want, offset, got, seen>>

\* Mutant: the file position stays.
CopyOutStay(r) ==
  /\ read[r] = "copy" /\ HasSlot(r) /\ ~Missing
  /\ got' = [got EXCEPT ![r] = IF SlotAt(offset[r]) \in Messages THEN SlotAt(offset[r]) ELSE @]
  /\ seen' = seen \cup ({SlotAt(offset[r])} \cap Messages)
  /\ read' = [read EXCEPT ![r] = "clear"]
  /\ UNCHANGED <<bufVars, printVars, history, want, offset>>

CopyOut(r) ==
  /\ read[r] = "copy" /\ HasSlot(r) /\ ~Missing
  /\ got' = [got EXCEPT ![r] = IF SlotAt(offset[r]) \in Messages THEN SlotAt(offset[r]) ELSE @]
  /\ seen' = seen \cup ({SlotAt(offset[r])} \cap Messages)
  /\ offset' = [offset EXCEPT ![r] = @ + 1]
  /\ read' = [read EXCEPT ![r] = "clear"]
  /\ UNCHANGED <<bufVars, printVars, history, want>>

\* copy_to_user() fails: -EFAULT is not 0 either, so the memset() follows.
CopyFault(r) ==
  /\ Faults
  /\ read[r] = "copy" /\ HasSlot(r) /\ ~Missing
  /\ read' = [read EXCEPT ![r] = "faulted"]
  /\ UNCHANGED <<bufVars, printVars, history, want, offset, got, seen>>

\* A copy from NULL: the reader is killed and its file closed.  Only a log that comes
\* after another (SdeiDriver), whose tail it keeps, has something to copy while it is NULL.
ReadFaults(r) ==
  /\ read[r] = "copy" /\ HasSlot(r) /\ Missing
  /\ read' = [read EXCEPT ![r] = "idle"]
  /\ offset' = [offset EXCEPT ![r] = 0]
  /\ got' = [got EXCEPT ![r] = Blank]
  /\ UNCHANGED <<bufVars, printVars, history, want, seen>>

\* memset() of the slot before the file position; at position 0, where a fault
\* has left it, that is the memory before the buffer.
ClearSlot(r, i) ==
  /\ read[r] \in {"clear", "faulted"}
  /\ g_msg_buf' = [j \in DOMAIN g_msg_buf |-> IF j = i THEN Blank ELSE g_msg_buf[j]]
  /\ underrun' = (underrun \/ i < 0)
  /\ read' = [read EXCEPT ![r] = "idle"]
  /\ UNCHANGED <<live, g_tail_msg, g_num_msg, printVars, wrapped, overlapped, want, offset, got, seen>>

\* Mutant: the slot at the file position is blanked, not the one before it.
ClearNext(r) == ClearSlot(r, offset[r])

Clear(r) == ClearSlot(r, offset[r] - 1)

Reading(r) == StartRead(r) \/ ReadNothing(r) \/ CopyOut(r) \/ CopyFault(r) \/ Clear(r)

-----------------------------------------------------------------------------
Init ==
  /\ \/ g_msg_buf = [i \in Slots(MinNum) |-> Uninit] /\ live = TRUE
     \/ AllocMayFail /\ g_msg_buf = NULL /\ live = FALSE
  /\ g_tail_msg = 0 /\ g_num_msg = MinNum
  /\ print = "idle" /\ tmp = <<>> /\ printed = 0
  /\ read = [r \in Readers |-> "idle"] /\ want = [r \in Readers |-> FALSE]
  /\ offset = [r \in Readers |-> 0] /\ got = [r \in Readers |-> Blank]
  /\ seen = {} /\ wrapped = FALSE /\ overlapped = FALSE /\ underrun = FALSE

Next ==
  \/ CallPrint
  \/ Printing
  \/ \E r \in Readers : OpenFile(r) \/ Reading(r)

Spec == Init /\ [][Next]_vars

\* A system call that has begun runs on, and the application keeps reading.
FairSpec ==
  /\ Spec
  /\ WF_vars(Printing)
  /\ \A r \in Readers : WF_vars(StartRead(r) \/ ReadNothing(r) \/ CopyOut(r) \/ Clear(r))
-----------------------------------------------------------------------------
(***************************************************************************)
(* Properties.                                                             *)
(***************************************************************************)

\* Types.
TypeOK ==
  /\ g_num_msg \in Nat \ {0} /\ g_tail_msg \in Nat /\ printed \in 0 .. MaxPrints
  /\ live \in BOOLEAN /\ wrapped \in BOOLEAN /\ overlapped \in BOOLEAN /\ underrun \in BOOLEAN
  /\ print \in PrintPCs
  /\ g_msg_buf \in [DOMAIN g_msg_buf -> Content]
  /\ tmp \in [DOMAIN tmp -> Content]
  /\ read \in [Readers -> ReadPCs]
  /\ want \in [Readers -> BOOLEAN]
  /\ offset \in [Readers -> Nat]
  /\ got \in [Readers -> Messages \cup {Blank}]
  /\ seen \subseteq Messages

\* pal_print() (pal_misc.c:99-113) stays inside the allocation it writes:
\* whenever it copies the old slots or stores a message, g_msg_buf has not been
\* freed and the slots it touches exist, whatever the readers do and whether or
\* not the buffer could be grown. Only where kmalloc() failed to give a first buffer,
\* which sdei_acs_drv.c:120 does not look at, does it go on, and it is killed by the
\* first memcpy() then: it never gets past it.
PrintInBounds ==
  /\ Missing => print \in {"idle", "check", "store", "killed"}
  /\ print = "killed" => Missing /\ printed = 0
  /\ ~Missing /\ print = "store" => live /\ g_tail_msg \in DOMAIN g_msg_buf
  /\ ~Missing /\ print \in {"check", "grown"} => live /\ Slots(g_num_msg) \subseteq DOMAIN g_msg_buf

\* The file's read call is about to copy a slot out.
Copying(r) == read[r] = "copy" /\ HasSlot(r)

\* A slot there is, in live memory as long as reads wait for prints.
Within(i) == i \in DOMAIN g_msg_buf /\ (~overlapped => live)

\* A read neither copies a slot past the end of the buffer nor blanks one outside it
\* (sdei_acs_drv.c:237-243), even when pal_print() has already doubled
\* g_num_msg and not yet replaced g_msg_buf, unless the log has wrapped around
\* as well: then a file may be past the tail. The exception is a copy_to_user() that
\* failed at the start of a file, after which the memory before the buffer is blanked.
ReadInBounds ==
  /\ ~(wrapped /\ overlapped) =>
       \A r \in Readers :
         /\ Copying(r) => Within(offset[r])
         /\ read[r] = "clear" => Within(offset[r] - 1)
         /\ read[r] = "faulted" => offset[r] = 0 \/ Within(offset[r] - 1)
  /\ underrun => Faults

\* Every file receives messages in the order they were printed, none twice
\* between two opens, and never a slot that was not written, whatever growth and
\* blanking, or growth and wrap-around, did to the slots in between
\* (pal_misc.c:99-114 against sdei_acs_drv.c:237-243).
InOrder ==
  ~(wrapped /\ overlapped) =>
    \A r \in Readers : Copying(r) =>
      /\ SlotAt(offset[r]) # Uninit
      /\ SlotAt(offset[r]) \in Messages => SlotAt(offset[r]) > got[r]

\* No message is lost while reads wait for the print in progress: each of those
\* before the tail is still in its slot or has been received by some file
\* (memset at sdei_acs_drv.c:243 against the memcpy at pal_misc.c:102).
Kept ==
  ~wrapped /\ ~overlapped =>
    \A k \in 1 .. g_tail_msg :
      k \in seen \/ (k - 1 \in DOMAIN g_msg_buf /\ g_msg_buf[k - 1] = k)

\* Every message printed is received by some file in the end, the reading
\* application going on until the log is drained (liveness of the
\* offset/g_tail_msg hand-shake at sdei_acs_drv.c:237).
EventuallySeen == \A k \in Messages : (printed >= k) ~> (k \in seen)

\* The log seen from outside: an unbounded append-only sequence.
Abstract == INSTANCE MessageLog WITH
  log    <- [k \in 1 .. g_tail_msg |-> g_msg_buf[k - 1]],
  cursor <- offset

\* Growth, its copies and its free are invisible: up to the first wrap-around or
\* overlapping read the implementation's log is the abstract one.
RefinesMessageLog ==
  Abstract!Init /\ [][wrapped' \/ overlapped' \/ Abstract!Next]_(Abstract!vars)

=============================================================================
