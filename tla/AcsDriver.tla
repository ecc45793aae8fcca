------------------------------ MODULE AcsDriver ------------------------------
(***************************************************************************)
(* The command interface of the BSA and the SBSA driver (bsa_acs_drv.c,    *)
(* sbsa_acs_drv.c).  The application writes a command to /proc/bsa, which  *)
(* carries it out before the write returns; another task may poll the same *)
(* file for the status, and a third one reads /proc/bsa_msg.  They share   *)
(* `params' and, for the size of what they transfer, the global `len'.     *)
(*                                                                         *)
(* The application is external: it creates the tables before it runs tests *)
(* and frees them once, as far as its writes tell it.  What it writes may  *)
(* be of any size and may fault; neither is told.  The VAL is external:    *)
(* its tests leave a status behind, and a table it could not be given      *)
(* memory for it refuses, or faults on.                                    *)
(***************************************************************************)
EXTENDS Integers, Sequences

CONSTANTS
  Statuses,   \* what val_get_status() may return
  MayFail,    \* the allocations of a CREATE that may fail
  MaxWrites   \* a bound: commands written

\* The commands val_glue_execute_command() knows.
Tests == {"PCIE_EXECUTE_TEST", "EXERCISER_EXECUTE_TEST", "PER_EXECUTE_TEST", "MEM_EXECUTE_TEST"}
BsaCommands == Tests \cup
  {"CREATE_INFO_TABLES", "FREE_INFO_TABLES", "UPDATE_SKIP_LIST", "UPDATE_SW_VIEW"}
SbsaCommands ==
  {"CREATE_INFO_TABLES", "PCIE_EXECUTE_TEST", "UPDATE_SKIP_LIST",
   "EXERCISER_EXECUTE_TEST", "FREE_INFO_TABLES"}

AVAILABLE == "DRV_STATUS_AVAILABLE"
PENDING == "DRV_STATUS_PENDING"
Input == "input"   \* an argument as the application wrote it
Zero == "0"

\* len: nothing, the first field of params, all of params, or a message, which is larger.
NOTHING == 0  SHORT == 1  PARAMS == 2  MSG == 3
Sizes == {NOTHING, SHORT, PARAMS, MSG}

ASSUME AcsAssumption ==
  /\ MaxWrites \in Nat
  /\ MayFail \subseteq {"msg_buf", "pe", "pcie", "per", "dma", "iovirt", "shared"}
  /\ Statuses \cap {Input, Zero} = {}

VARIABLES
  driver,   \* which of the two modules is loaded
  params,   \* api_num, arg0, arg1
  len,
  tail_msg,
  write,    \* the write to /proc/bsa: where it is, the command and size written, what was copied
  poll,     \* the read of /proc/bsa: where it is and what it got
  msg,      \* the read of /proc/bsa_msg
  heap,     \* the allocations, by what they are for and which CREATE made them
  owned,    \* those the driver's pointers to tables and buffer are of; the others are NULL
  tables,   \* the application: has it written a CREATE, and no FREE after it?
  status,   \* what val_get_status() returns
  writes,   \* history: the number of commands written
  creates,  \* history: the number of CREATEs carried out
  done,     \* history: the last command carried out, and by which write
  fresh,    \* history: was the last write one of all of params, and no message read since?
  missed,   \* history: has a write not brought its command?
  overlap   \* history: has a system call begun during another one?

vars == <<driver, params, len, tail_msg, write, poll, msg, heap, owned, tables, status,
          writes, creates, done, fresh, missed, overlap>>
others == <<driver, overlap>>   \* what only a call's beginning changes
memory == <<heap, owned, tables, creates, missed>>

Commands == IF driver = "bsa" THEN BsaCommands ELSE SbsaCommands

\* What CREATE allocates, in its order, and the g-th of them.
InOrder == <<"msg_buf", "pe", "pcie", "per", "dma", "iovirt">>
Tables == {"msg_buf", "pe", "pcie", "per", "dma", "iovirt"}
Made(g) == Tables \X {g}
Shared(g) == <<"shared", g>>

NoWrite == [pc |-> "idle", cmd |-> "none", size |-> NOTHING, copied |-> "nothing"]
Idle == write.pc = "idle" /\ poll.pc = "idle" /\ msg = "idle"
Enter == overlap' = (overlap \/ ~Idle)

-----------------------------------------------------------------------------
(***************************************************************************)
(* bsa_proc_write and val_glue_execute_command.                            *)
(***************************************************************************)
\* What the application may ask for: tests need tables.
Askable == IF tables
           THEN Commands \ {"CREATE_INFO_TABLES"}
           ELSE Commands \ (Tests \cup {"FREE_INFO_TABLES"})

WriteCalled ==
  /\ write.pc = "idle" /\ writes < MaxWrites
  /\ Enter
  /\ \E c \in Askable, size \in Sizes :
       write' = [pc |-> "len", cmd |-> c, size |-> size, copied |-> "nothing"]
  /\ writes' = writes + 1
  /\ UNCHANGED <<driver, params, len, tail_msg, poll, msg, memory, status, done, fresh>>

\* Mutant: only the first write sets len.
SetLenOnce ==
  /\ write.pc = "len"
  /\ len' = IF writes = 1 THEN write.size ELSE len
  /\ write' = [write EXCEPT !.pc = "copy"]
  /\ fresh' = (write.size = PARAMS)
  /\ UNCHANGED <<others, params, tail_msg, poll, msg, memory, status, writes, done>>

SetLen ==
  /\ write.pc = "len"
  /\ len' = write.size
  /\ write' = [write EXCEPT !.pc = "copy"]
  /\ fresh' = (write.size = PARAMS)
  /\ UNCHANGED <<others, params, tail_msg, poll, msg, memory, status, writes, done>>

\* What copy_from_user() may leave in params. What it could not copy it clears, and it may
\* fault at once or after the first field. Nothing is copied for a size of 0, nor, by a
\* kernel that checks it, for one above that of params: the previous command stays.
Whole == [api_num |-> write.cmd, arg0 |-> Input, arg1 |-> Input]
Copies ==
  CASE len = NOTHING -> {<<"nothing", params>>}
    [] len = SHORT   -> {<<"part", [params EXCEPT !.api_num = write.cmd]>>, <<"fault", [params EXCEPT !.api_num = "none"]>>}
    [] OTHER -> {<<"whole", Whole>>, <<"fault", [Whole EXCEPT !.arg0 = Zero, !.arg1 = Zero]>>,
                 <<"fault", [api_num |-> "none", arg0 |-> Zero, arg1 |-> Zero]>>}
                \cup (IF len = MSG THEN {<<"nothing", params>>} ELSE {})

CopyParams ==
  /\ write.pc = "copy"
  /\ \E c \in Copies : params' = c[2] /\ write' = [write EXCEPT !.pc = "execute", !.copied = c[1]]
  /\ missed' = (missed \/ params'.api_num # write.cmd)
  /\ UNCHANGED <<others, len, tail_msg, poll, msg, heap, owned, tables, creates, status, writes, done, fresh>>

Executing(c) == write.pc = "execute" /\ params.api_num = c
Ends == write' = [write EXCEPT !.pc = "return"]

\* A kmalloc() may fail, and CREATE goes on: the table stays NULL and VAL refuses it.
CreateInfoTables ==
  /\ Executing("CREATE_INFO_TABLES")
  /\ tail_msg' = 0
  /\ creates' = creates + 1
  /\ \E failed \in SUBSET MayFail :
       /\ owned' = (Tables \ failed) \X {creates'}
       /\ heap' = heap \cup (((Tables \cup {"shared"}) \ failed) \X {creates'})
  /\ params' = [params EXCEPT !.arg0 = AVAILABLE, !.arg1 = Zero]
  /\ done' = <<writes, params.api_num>>
  /\ Ends
  /\ UNCHANGED <<others, len, poll, msg, tables, missed, status, writes, fresh>>

\* VAL faults on the first table without memory, and the task ends there; the pointers
\* that follow are still the ones of before.
CreateKilled ==
  /\ Executing("CREATE_INFO_TABLES")
  /\ tail_msg' = 0
  /\ creates' = creates + 1
  /\ \E k \in {i \in 2 .. Len(InOrder) : InOrder[i] \in MayFail} :
       LET new == {InOrder[i] : i \in 1 .. k - 1} IN
       \E got \in {new, new \ (MayFail \cap {"msg_buf"})} :
         /\ heap' = heap \cup (got \X {creates'})
         /\ owned' = (got \X {creates'}) \cup {a \in owned : a[1] \notin new \cup {InOrder[k]}}
  /\ write' = [write EXCEPT !.pc = "killed"]
  /\ UNCHANGED <<others, params, len, poll, msg, tables, missed, status, writes, done, fresh>>

\* Mutant: the message buffer is not freed.
FreeTablesOnly ==
  /\ Executing("FREE_INFO_TABLES")
  /\ heap' = heap \ {a \in owned : a[1] # "msg_buf"}
  /\ done' = <<writes, params.api_num>>
  /\ Ends
  /\ UNCHANGED <<others, params, len, tail_msg, poll, msg, owned, tables, creates, missed,
                 status, writes, fresh>>

\* The shared memory stays allocated, and the pointers stay as they are.
FreeInfoTables ==
  /\ Executing("FREE_INFO_TABLES")
  /\ heap' = heap \ owned
  /\ done' = <<writes, params.api_num>>
  /\ Ends
  /\ UNCHANGED <<others, params, len, tail_msg, poll, msg, owned, tables, creates, missed,
                 status, writes, fresh>>

StartTests ==
  /\ \E c \in Tests \cap Commands : Executing(c)
  /\ params' = [params EXCEPT !.arg0 = PENDING]
  /\ write' = [write EXCEPT !.pc = "tests"]
  /\ UNCHANGED <<others, len, tail_msg, poll, msg, memory, status, writes, done, fresh>>

\* The tests of the VAL: the exerciser's are commented out.
RunTests ==
  /\ write.pc = "tests"
  /\ status' \in IF params.api_num = "EXERCISER_EXECUTE_TEST" THEN {status} ELSE Statuses
  /\ done' = <<writes, params.api_num>>
  /\ write' = [write EXCEPT !.pc = "available"]
  /\ UNCHANGED <<others, params, len, tail_msg, poll, msg, memory, writes, fresh>>

SetAvailable ==
  /\ write.pc = "available"
  /\ params' = [params EXCEPT !.arg0 = AVAILABLE]
  /\ write' = [write EXCEPT !.pc = "status"]
  /\ UNCHANGED <<others, len, tail_msg, poll, msg, memory, status, writes, done, fresh>>

\* Mutant: the status is not handed over.
NoStatus ==
  /\ write.pc = "status"
  /\ Ends
  /\ UNCHANGED <<others, params, len, tail_msg, poll, msg, memory, status, writes, done, fresh>>

SetStatus ==
  /\ write.pc = "status"
  /\ params' = [params EXCEPT !.arg1 = status]
  /\ Ends
  /\ UNCHANGED <<others, len, tail_msg, poll, msg, memory, status, writes, done, fresh>>

\* The skip list and the software view are kept for the tests.
UpdateSettings ==
  /\ \E c \in {"UPDATE_SKIP_LIST", "UPDATE_SW_VIEW"} \cap Commands : Executing(c)
  /\ done' = <<writes, params.api_num>>
  /\ Ends
  /\ UNCHANGED <<others, params, len, tail_msg, poll, msg, memory, status, writes, fresh>>

\* Anything else is ignored: a command of the other driver, or none copied yet.
UnknownCommand ==
  /\ write.pc = "execute" /\ params.api_num \notin Commands
  /\ Ends
  /\ UNCHANGED <<others, params, len, tail_msg, poll, msg, memory, status, writes, done, fresh>>

\* The write returns len, whatever it is by now, and the application takes its command
\* for carried out.
WriteReturns ==
  /\ write.pc = "return"
  /\ write' = NoWrite
  /\ tables' = (write.cmd # "FREE_INFO_TABLES" /\ (tables \/ write.cmd = "CREATE_INFO_TABLES"))
  /\ UNCHANGED <<others, params, len, tail_msg, poll, msg, heap, owned, creates, missed, status,
                 writes, done, fresh>>

-----------------------------------------------------------------------------
(***************************************************************************)
(* bsa_proc_read: the fields of params one after the other, len bytes.     *)
(***************************************************************************)
Reached(size, argument) ==
  CASE size = PARAMS -> {argument} [] size = MSG -> {argument, Input} [] OTHER -> {Input}

\* copy_to_user() may fault as well, which is not told.
ReadArg0 ==
  /\ poll.pc = "idle" /\ Enter
  /\ \E got \in Reached(len, params.arg0), whole \in BOOLEAN :
       poll' = [pc |-> "arg1", size |-> len, whole |-> whole,
                arg0 |-> IF whole THEN got ELSE Input, arg1 |-> Input]
  /\ UNCHANGED <<driver, params, len, tail_msg, write, msg, memory, status, writes, done, fresh>>

ReadArg1 ==
  /\ poll.pc = "arg1"
  /\ \E got \in Reached(poll.size, params.arg1), whole \in BOOLEAN :
       poll' = [poll EXCEPT !.pc = "return", !.whole = @ /\ whole,
                            !.arg1 = IF poll.whole /\ whole THEN got ELSE Input]
  /\ UNCHANGED <<others, params, len, tail_msg, write, msg, memory, status, writes, done, fresh>>

ReadReturns ==
  /\ poll.pc = "return"
  /\ poll' = [pc |-> "idle"]
  /\ UNCHANGED <<others, params, len, tail_msg, write, msg, memory, status, writes, done, fresh>>

(***************************************************************************)
(* bsa_msg_proc_read. Nothing in these drivers puts a message in the       *)
(* buffer, so that a sequential reader is always at tail_msg, which is 0.  *)
(***************************************************************************)
MsgLen ==
  /\ msg = "idle" /\ Enter
  /\ len' = MSG
  /\ msg' = "offset" /\ fresh' = FALSE
  /\ UNCHANGED <<driver, params, tail_msg, write, poll, memory, status, writes, done>>

MsgOffset ==
  /\ msg = "offset"
  /\ len' = IF tail_msg = 0 THEN NOTHING ELSE len
  /\ msg' = "idle"
  /\ UNCHANGED <<others, params, tail_msg, write, poll, memory, status, writes, done, fresh>>

-----------------------------------------------------------------------------
Init ==
  /\ driver \in {"bsa", "sbsa"} /\ overlap = FALSE
  /\ params = [api_num |-> "none", arg0 |-> Zero, arg1 |-> Zero]
  /\ len = NOTHING /\ tail_msg = 0
  /\ write = NoWrite /\ poll = [pc |-> "idle"] /\ msg = "idle"
  /\ heap = {} /\ owned = {} /\ tables = FALSE /\ status \in Statuses
  /\ writes = 0 /\ creates = 0 /\ done = <<0, "none">> /\ fresh = FALSE /\ missed = FALSE

Write ==
  \/ WriteCalled \/ SetLen \/ CopyParams \/ CreateInfoTables \/ CreateKilled
  \/ FreeInfoTables \/ StartTests \/ RunTests \/ SetAvailable \/ SetStatus \/ UpdateSettings
  \/ UnknownCommand \/ WriteReturns

Read == ReadArg0 \/ ReadArg1 \/ ReadReturns \/ MsgLen \/ MsgOffset

Next == Write \/ Read
Spec == Init /\ [][Next]_vars

-----------------------------------------------------------------------------
(***************************************************************************)
(* Properties.                                                             *)
(***************************************************************************)

\* A write that brought all of its command carries it out and reports to have taken what
\* was written, whatever reads came before it; one that faulted carries out its command
\* or none, never one left by an earlier write (bsa_acs_drv.c:192-195, 201-203).
Executed ==
  write.pc = "return" /\ ~overlap =>
    /\ len = write.size
    /\ write.copied = "whole" => done = <<writes, write.cmd>>
    /\ write.copied = "fault" => done = <<writes, write.cmd>> \/ done[1] < writes

\* Once tests were run by a write of all of params, a read before the next message read
\* gives all of them: available, and the status of these tests
\* (bsa_acs_drv.c:132-133, 179-186).
Answered ==
  poll.pc = "return" /\ poll.whole /\ fresh /\ ~overlap /\ params.api_num \in Tests \cap Commands
  => poll.size = PARAMS /\ poll.arg0 = AVAILABLE /\ poll.arg1 = status

\* As long as every write brings its command, and however often tables are created and
\* freed and whatever could not be allocated: the tables and the buffer on the heap are
\* those the driver's pointers are of, or were not reached before the task was killed;
\* FREE releases what is allocated, once; and nothing but the shared memory of the CREATEs
\* stays behind (bsa_acs_drv.c:74-91, 98-107).
OneSetOfTables ==
  ~overlap /\ ~missed =>
    /\ heap \ {Shared(g) : g \in 1 .. creates} \subseteq owned
    /\ write.pc # "killed" => owned \subseteq Made(creates)
    /\ Executing("FREE_INFO_TABLES") => owned \subseteq heap
    /\ write.pc = "idle" /\ ~tables => heap \subseteq {Shared(g) : g \in 1 .. creates}
=============================================================================
