---------------------------- MODULE AcsDriverProofs ----------------------------
(***************************************************************************)
(* What the command interface of the BSA and the SBSA driver guarantees    *)
(* while its system calls do not overlap: for any number of commands, of   *)
(* any size and copied as far as may be, any statuses and failing          *)
(* allocations, and messages and statuses read between them.               *)
(***************************************************************************)
EXTENDS AcsDriver, TLAPS

WritePCs == {"idle", "len", "copy", "execute", "tests", "available", "status", "return", "killed"}
AnyCommand == BsaCommands \cup SbsaCommands
Arguments == Statuses \cup {AVAILABLE, PENDING, Input, Zero}
Params == [api_num : AnyCommand \cup {"none"}, arg0 : Arguments, arg1 : Arguments]
Writes == [pc : WritePCs, cmd : AnyCommand \cup {"none"}, size : Sizes,
           copied : {"nothing", "part", "whole", "fault"}]
Polls == [pc : {"arg1", "return"}, size : Sizes, whole : BOOLEAN, arg0 : Arguments, arg1 : Arguments]

Typed ==
  /\ driver \in {"bsa", "sbsa"}
  /\ overlap \in BOOLEAN
  /\ fresh \in BOOLEAN
  /\ missed \in BOOLEAN
  /\ tables \in BOOLEAN
  /\ params \in Params
  /\ len \in Sizes
  /\ write \in Writes
  /\ poll = [pc |-> "idle"] \/ poll \in Polls
  /\ msg \in {"idle", "offset"}
  /\ creates \in Nat /\ writes \in Nat /\ status \in Statuses
  /\ done \in Nat \X (AnyCommand \cup {"none"}) /\ done[1] <= writes

\* A test has left its status behind, for whoever reads all of params next.
Told == len = PARAMS /\ params.arg0 = AVAILABLE /\ params.arg1 = status

\* One system call at a time...
OneCall ==
  /\ write.pc # "idle" => poll.pc = "idle" /\ msg = "idle"
  /\ poll.pc # "idle" => msg = "idle"

\* ... so that nobody changes len or params under a write ...
WriteInv ==
  /\ write.pc # "idle" => write.cmd \in Commands
  /\ write.pc \notin {"idle", "len"} => len = write.size
  /\ write.pc \in {"len", "copy"} => done[1] < writes
  /\ write.pc \in {"execute", "tests", "available", "status", "return"} =>
       /\ write.copied = "whole" => params.api_num = write.cmd
       /\ write.copied = "fault" => params.api_num \in {write.cmd, "none"}
  /\ write.pc \in {"tests", "available", "status"} => params.api_num \in Tests \cap Commands
  /\ write.pc \in {"execute", "tests"} => done[1] < writes
  /\ write.pc \in {"available", "status", "return"} =>
       \/ done = <<writes, params.api_num>> /\ params.api_num \in Commands
       \/ params.api_num \notin Commands /\ done[1] < writes
  /\ write.pc = "status" => params.arg0 = AVAILABLE

\* ... nor under a read.
ReadInv ==
  /\ msg = "offset" => ~fresh
  /\ write.pc \in {"copy", "execute", "tests", "available", "status", "return"} =>
       (fresh => len = PARAMS)
  /\ /\ params.api_num \in Tests \cap Commands
     /\ write.pc = "return" \/ (write.pc = "idle" /\ fresh)
     /\ fresh
     => Told
  /\ poll.pc # "idle" /\ poll.whole /\ fresh /\ params.api_num \in Tests \cap Commands =>
       poll.size = PARAMS /\ poll.arg0 = AVAILABLE
  /\ poll.pc = "return" /\ poll.whole /\ fresh /\ params.api_num \in Tests \cap Commands =>
       poll.arg1 = status

\* While every write brings its command, the tables there are are those of the last
\* CREATE, if the application takes them to be there, and none otherwise.
OnlyShared == heap \subseteq {Shared(g) : g \in 1 .. creates}
Before(c) == write.pc \in {"len", "copy", "execute"} /\ write.cmd = c
HeapInv ==
  /\ heap \ {Shared(g) : g \in 1 .. creates} \subseteq owned
  /\ write.pc # "killed" => owned \subseteq Made(creates)
  /\ Before("CREATE_INFO_TABLES") => ~tables
  /\ Before("FREE_INFO_TABLES") => tables
  /\ write.pc = "idle" \/ Before(write.cmd) \/ write.cmd \notin {"CREATE_INFO_TABLES", "FREE_INFO_TABLES"} =>
       IF tables THEN owned \subseteq heap ELSE OnlyShared
  /\ write.pc = "return" /\ write.cmd = "CREATE_INFO_TABLES" => owned \subseteq heap
  /\ write.pc = "return" /\ write.cmd = "FREE_INFO_TABLES" => OnlyShared
  /\ write.pc \in {"execute", "tests", "available", "status", "return"} => params.api_num = write.cmd

AcsInv ==
  /\ Typed
  /\ ~overlap => OneCall /\ WriteInv /\ ReadInv
  /\ ~overlap /\ ~missed => HeapInv

-----------------------------------------------------------------------------
LEMMA CommandNames ==
  /\ Commands \subseteq AnyCommand
  /\ Tests \subseteq AnyCommand
  /\ "CREATE_INFO_TABLES" \notin Tests /\ "FREE_INFO_TABLES" \notin Tests
  /\ "UPDATE_SKIP_LIST" \notin Tests /\ "UPDATE_SW_VIEW" \notin Tests
  /\ {"CREATE_INFO_TABLES", "FREE_INFO_TABLES"} \subseteq AnyCommand
  /\ {"CREATE_INFO_TABLES", "FREE_INFO_TABLES"} \subseteq Commands
  /\ "none" \notin AnyCommand
BY DEF Commands, AnyCommand, BsaCommands, SbsaCommands, Tests

LEMMA AcsInit == Init => AcsInv
<1> SUFFICES ASSUME Init PROVE AcsInv
  OBVIOUS
<1>1. Typed
  <2>1. params \in Params /\ write \in Writes /\ len \in Sizes
    BY DEF Init, NoWrite, WritePCs, Arguments, Params, Writes, Sizes, NOTHING
  <2>2. done \in Nat \X (AnyCommand \cup {"none"}) /\ done[1] <= writes
    BY DEF Init
  <2> QED
    BY <2>1, <2>2 DEF Init, Typed
<1>2. OneCall /\ WriteInv /\ ReadInv
  BY CommandNames DEF Init, NoWrite, OneCall, WriteInv, ReadInv
<1>3. HeapInv
  BY DEF Init, NoWrite, HeapInv, OnlyShared, Before
<1> QED
  BY <1>1, <1>2, <1>3 DEF AcsInv

\* What copying may leave in params, whatever they held.
LEMMA CopiesTyped ==
  ASSUME Typed, NEW c \in Copies
  PROVE  /\ c[2] \in Params /\ c[1] \in {"nothing", "part", "whole", "fault"}
         /\ c[1] = "whole" => c[2].api_num = write.cmd
         /\ c[1] = "fault" => c[2].api_num \in {write.cmd, "none"}
<1> USE DEF Typed, Params, Arguments, Writes, Sizes
<1>1. Whole \in Params /\ Whole.api_num = write.cmd
  BY DEF Whole
<1>2. /\ [Whole EXCEPT !.arg0 = Zero, !.arg1 = Zero] \in Params
      /\ [Whole EXCEPT !.arg0 = Zero, !.arg1 = Zero].api_num = write.cmd
  BY <1>1
<1>3. /\ [api_num |-> "none", arg0 |-> Zero, arg1 |-> Zero] \in Params
      /\ [params EXCEPT !.api_num = write.cmd] \in Params
      /\ [params EXCEPT !.api_num = "none"] \in Params /\ params \in Params
  OBVIOUS
<1>4. [params EXCEPT !.api_num = "none"].api_num = "none"
  OBVIOUS
<1>5. CASE len = NOTHING
  BY <1>3, <1>5 DEF Copies
<1>6. CASE len = SHORT
  BY <1>3, <1>4, <1>6 DEF Copies, SHORT, NOTHING
<1>7. CASE len \in {PARAMS, MSG}
  <2>1. c \in {<<"whole", Whole>>, <<"fault", [Whole EXCEPT !.arg0 = Zero, !.arg1 = Zero]>>,
               <<"fault", [api_num |-> "none", arg0 |-> Zero, arg1 |-> Zero]>>, <<"nothing", params>>}
    BY <1>7 DEF Copies, PARAMS, MSG, SHORT, NOTHING
  <2>2. CASE c = <<"whole", Whole>>
    BY <1>1, <2>2
  <2>3. CASE c = <<"fault", [Whole EXCEPT !.arg0 = Zero, !.arg1 = Zero]>>
    BY <1>2, <2>3
  <2>4. CASE c = <<"fault", [api_num |-> "none", arg0 |-> Zero, arg1 |-> Zero]>>
    BY <1>3, <2>4
  <2>5. CASE c = <<"nothing", params>>
    BY <1>3, <2>5
  <2> QED
    BY <2>1, <2>2, <2>3, <2>4, <2>5
<1> QED
  BY <1>5, <1>6, <1>7

\* A copy, the steps of CREATE and FREE, and the last step of a write, in parts.
LEMMA TypedNext == Typed /\ [Next]_vars => Typed'
<1> SUFFICES ASSUME Typed, [Next]_vars PROVE Typed'
  OBVIOUS
<1> USE DEF Typed, others, memory
<1>0. ASSUME NEW w \in Writes, NEW pc \in WritePCs
      PROVE  [w EXCEPT !.pc = pc] \in Writes
  BY DEF Writes
<1>1. CASE WriteCalled
  <2>1. PICK c \in Askable, size \in Sizes :
          write' = [pc |-> "len", cmd |-> c, size |-> size, copied |-> "nothing"]
    BY <1>1 DEF WriteCalled
  <2>2. c \in AnyCommand
    BY CommandNames DEF Askable
  <2>3. write' \in Writes
    BY <2>1, <2>2 DEF Writes, WritePCs
  <2>4. UNCHANGED <<driver, params, len, poll, msg, creates, missed, tables, status, done, fresh>>
    BY <1>1 DEF WriteCalled
  <2>5. writes' = writes + 1 /\ overlap' \in BOOLEAN
    BY <1>1 DEF WriteCalled, Enter
  <2> QED
    BY <2>3, <2>4, <2>5
<1>2. CASE SetLen
  <2>1. write' \in Writes /\ len' \in Sizes /\ fresh' \in BOOLEAN
    BY <1>2, <1>0 DEF SetLen, WritePCs, Writes
  <2>2. UNCHANGED <<driver, overlap, params, poll, msg, creates, missed, tables, status, writes, done>>
    BY <1>2 DEF SetLen
  <2> QED
    BY <2>1, <2>2
<1>3. CASE CopyParams
  <2>1. PICK c \in Copies : params' = c[2] /\ write' = [write EXCEPT !.pc = "execute", !.copied = c[1]]
    BY <1>3 DEF CopyParams
  <2>2. params' \in Params /\ write' \in Writes
    BY <2>1, CopiesTyped DEF Writes, WritePCs
  <2>3. UNCHANGED <<driver, overlap, len, poll, msg, creates, tables, status, writes, done, fresh>>
        /\ missed' \in BOOLEAN
    BY <1>3 DEF CopyParams
  <2> QED
    BY <2>2, <2>3
<1>4. CASE CreateInfoTables
  <2>1. params' \in Params
    BY <1>4 DEF CreateInfoTables, Params, Arguments
  <2>2. write' \in Writes
    BY <1>4, <1>0 DEF CreateInfoTables, Ends, WritePCs
  <2>3. done' = <<writes, params.api_num>>
    BY <1>4 DEF CreateInfoTables
  <2>4. UNCHANGED <<driver, overlap, len, poll, msg, tables, missed, status, writes, fresh>>
        /\ creates' = creates + 1
    BY <1>4 DEF CreateInfoTables
  <2> QED
    BY <2>1, <2>2, <2>3, <2>4 DEF Params
<1>5. CASE CreateKilled
  <2>1. write' \in Writes
    BY <1>5, <1>0 DEF CreateKilled, WritePCs
  <2>2. UNCHANGED <<driver, overlap, params, len, poll, msg, tables, missed, status, writes, done, fresh>>
        /\ creates' = creates + 1
    BY <1>5 DEF CreateKilled
  <2> QED
    BY <2>1, <2>2
<1>6. ASSUME UNCHANGED <<driver, overlap, params, len, poll, msg, creates, tables, missed, status, writes, fresh>>,
             write' = [write EXCEPT !.pc = "return"],
             done' \in {done, <<writes, params.api_num>>}
      PROVE  Typed'
  <2>1. write' \in Writes
    BY <1>6, <1>0 DEF WritePCs
  <2> QED
    BY <1>6, <2>1 DEF Params
<1>7. CASE FreeInfoTables \/ UpdateSettings \/ UnknownCommand
  BY <1>6, <1>7, Zenon DEF FreeInfoTables, UpdateSettings, UnknownCommand, Ends
<1>8. CASE RunTests
  <2>1. write' \in Writes
    BY <1>8, <1>0 DEF RunTests, WritePCs
  <2>2. status' \in Statuses
    BY <1>8 DEF RunTests
  <2>3. UNCHANGED <<driver, overlap, params, len, poll, msg, creates, tables, missed, writes, fresh>>
        /\ done' = <<writes, params.api_num>>
    BY <1>8 DEF RunTests
  <2> QED
    BY <2>1, <2>2, <2>3 DEF Params
<1>9. CASE StartTests \/ SetAvailable \/ SetStatus
  <2>1. write' \in Writes
    BY <1>9, <1>0 DEF StartTests, SetAvailable, SetStatus, Ends, WritePCs
  <2>2. params' \in Params
    BY <1>9 DEF StartTests, SetAvailable, SetStatus, Params, Arguments
  <2>3. UNCHANGED <<driver, overlap, len, poll, msg, creates, tables, missed, status, writes, done, fresh>>
    BY <1>9 DEF StartTests, SetAvailable, SetStatus
  <2> QED
    BY <2>1, <2>2, <2>3
<1>10. CASE WriteReturns
  <2>1. write' \in Writes /\ tables' \in BOOLEAN
    BY <1>10 DEF WriteReturns, NoWrite, Writes, WritePCs, Sizes, NOTHING
  <2>2. UNCHANGED <<driver, overlap, params, len, poll, msg, creates, missed, status, writes, done, fresh>>
    BY <1>10 DEF WriteReturns
  <2> QED
    BY <2>1, <2>2
<1>11. CASE ReadArg0
  <2>1. PICK got \in Reached(len, params.arg0), whole \in BOOLEAN :
          poll' = [pc |-> "arg1", size |-> len, whole |-> whole,
                   arg0 |-> IF whole THEN got ELSE Input, arg1 |-> Input]
    BY <1>11 DEF ReadArg0
  <2>2. got \in Arguments
    BY DEF Reached, Params, Arguments, Sizes
  <2>3. poll' \in Polls
    BY <2>1, <2>2 DEF Polls, Arguments
  <2>4. overlap' \in BOOLEAN
    BY <1>11 DEF ReadArg0, Enter
  <2>5. UNCHANGED <<driver, params, len, write, msg, memory, status, writes, done, fresh>>
    BY <1>11 DEF ReadArg0
  <2> QED
    BY <2>3, <2>4, <2>5
<1>12. CASE ReadArg1
  <2>1. poll \in Polls
    BY <1>12 DEF ReadArg1
  <2>2. PICK got \in Reached(poll.size, params.arg1), whole \in BOOLEAN :
          poll' = [poll EXCEPT !.pc = "return", !.whole = @ /\ whole,
                               !.arg1 = IF poll.whole /\ whole THEN got ELSE Input]
    BY <1>12 DEF ReadArg1
  <2>3. got \in Arguments
    BY <2>1 DEF Reached, Params, Arguments, Sizes, Polls
  <2>4. poll' \in Polls
    <3>1. (poll.whole /\ whole) \in BOOLEAN
      BY <2>1 DEF Polls
    <3>2. (IF poll.whole /\ whole THEN got ELSE Input) \in Arguments
      BY <2>3 DEF Arguments
    <3> QED
      BY <2>1, <2>2, <3>1, <3>2 DEF Polls
  <2>5. UNCHANGED <<driver, overlap, params, len, write, msg, memory, status, writes, done, fresh>>
    BY <1>12 DEF ReadArg1
  <2> QED
    BY <2>4, <2>5
<1>13. CASE ReadReturns
  BY <1>13 DEF ReadReturns
<1>14. CASE MsgLen
  <2>1. overlap' \in BOOLEAN
    BY <1>14 DEF MsgLen, Enter
  <2> QED
    BY <1>14, <2>1 DEF MsgLen, Sizes
<1>15. CASE MsgOffset
  BY <1>15 DEF MsgOffset, Sizes
<1>16. CASE UNCHANGED vars
  BY <1>16 DEF vars
<1> QED
  BY <1>1, <1>2, <1>3, <1>4, <1>5, <1>7, <1>8, <1>9, <1>10, <1>11, <1>12, <1>13,
     <1>14, <1>15, <1>16 DEF Next, Write, Read

\* A call that has overlapped another is remembered, and so is a write that did not
\* bring its command.
LEMMA HistoryStays ==
  Typed /\ [Next]_vars => /\ ~overlap' => ~overlap
                          /\ ~missed' => ~missed
                          /\ driver' = driver
BY DEF Typed, Next, Write, Read, Enter, WriteCalled, ReadArg0, MsgLen, SetLen, CopyParams,
       CreateInfoTables, CreateKilled, FreeInfoTables, StartTests, RunTests, SetAvailable, SetStatus,
       UpdateSettings, UnknownCommand, WriteReturns, ReadArg1, ReadReturns, MsgOffset, others,
       memory, vars
-----------------------------------------------------------------------------
(***************************************************************************)
(* The steps, while no call overlaps another.                              *)
(***************************************************************************)
LEMMA OneCallNext == Typed /\ OneCall /\ [Next]_vars /\ ~overlap' => OneCall'
<1> SUFFICES ASSUME Typed, OneCall, [Next]_vars, ~overlap' PROVE OneCall'
  OBVIOUS
<1> USE DEF Typed, OneCall, Writes, Polls
<1>1. CASE WriteCalled \/ ReadArg0 \/ MsgLen
  BY <1>1 DEF WriteCalled, ReadArg0, MsgLen, Enter, Idle
<1>2. CASE SetLen \/ CopyParams \/ CreateInfoTables \/ CreateKilled \/ FreeInfoTables
  BY <1>2 DEF SetLen, CopyParams, CreateInfoTables, CreateKilled, FreeInfoTables, Ends, Executing
<1>3. CASE StartTests \/ RunTests \/ SetAvailable \/ SetStatus \/ UpdateSettings
  BY <1>3 DEF StartTests, RunTests, SetAvailable, SetStatus, UpdateSettings, Ends, Executing
<1>4. CASE UnknownCommand \/ WriteReturns
  BY <1>4 DEF UnknownCommand, WriteReturns, NoWrite, Ends
<1>5. CASE ReadArg1 \/ ReadReturns \/ MsgOffset
  BY <1>5 DEF ReadArg1, ReadReturns, MsgOffset
<1>6. CASE UNCHANGED vars
  BY <1>6 DEF vars
<1> QED
  BY <1>1, <1>2, <1>3, <1>4, <1>5, <1>6 DEF Next, Write, Read

\* The writer's next step finds len, params and what was done as it left them.
LEMMA WriteInvNext == Typed /\ OneCall /\ WriteInv /\ [Next]_vars /\ ~overlap' => WriteInv'
<1> SUFFICES ASSUME Typed, OneCall, WriteInv, [Next]_vars, ~overlap' PROVE WriteInv'
  OBVIOUS
<1>0. Commands' = Commands
  BY HistoryStays DEF Commands
<1> USE <1>0 DEF Typed, OneCall, WriteInv, Writes, Params, others, memory
<1>1. CASE WriteCalled
  <2>1. PICK c \in Askable, size \in Sizes :
          write' = [pc |-> "len", cmd |-> c, size |-> size, copied |-> "nothing"]
    BY <1>1 DEF WriteCalled
  <2>2. c \in Commands
    BY DEF Askable
  <2>3. done' = done /\ writes' = writes + 1
    BY <1>1 DEF WriteCalled
  <2> QED
    BY <2>1, <2>2, <2>3
<1>2. CASE SetLen
  BY <1>2 DEF SetLen
<1>3. CASE CopyParams
  <2>1. PICK c \in Copies : params' = c[2] /\ write' = [write EXCEPT !.pc = "execute", !.copied = c[1]]
    BY <1>3 DEF CopyParams
  <2>2. /\ c[1] = "whole" => c[2].api_num = write.cmd
        /\ c[1] = "fault" => c[2].api_num \in {write.cmd, "none"}
    BY CopiesTyped
  <2>3. UNCHANGED <<len, writes, done>> /\ write.pc = "copy"
    BY <1>3 DEF CopyParams
  <2>4. write'.pc = "execute" /\ write'.cmd = write.cmd /\ write'.size = write.size /\ write'.copied = c[1]
    BY <2>1
  <2> QED
    BY <2>1, <2>2, <2>3, <2>4
<1>4. CASE CreateInfoTables
  <2>1. /\ write.pc = "execute" /\ params.api_num = "CREATE_INFO_TABLES"
        /\ write' = [write EXCEPT !.pc = "return"] /\ done' = <<writes, params.api_num>>
        /\ params' = [params EXCEPT !.arg0 = AVAILABLE, !.arg1 = Zero]
        /\ UNCHANGED <<len, writes>>
    BY <1>4 DEF CreateInfoTables, Executing, Ends
  <2> QED
    BY <2>1, CommandNames
<1>5. CASE CreateKilled
  BY <1>5 DEF CreateKilled, Executing
<1>6. CASE FreeInfoTables \/ UpdateSettings
  BY <1>6, CommandNames DEF FreeInfoTables, UpdateSettings, Executing, Ends
<1>7. CASE StartTests
  BY <1>7 DEF StartTests, Executing
<1>8. CASE RunTests
  BY <1>8 DEF RunTests
<1>9. CASE SetAvailable
  BY <1>9 DEF SetAvailable
<1>10. CASE SetStatus
  BY <1>10 DEF SetStatus, Ends
<1>11. CASE UnknownCommand
  BY <1>11 DEF UnknownCommand, Ends
<1>12. CASE WriteReturns
  BY <1>12 DEF WriteReturns, NoWrite
<1>13. CASE ReadArg0 \/ MsgLen
  BY <1>13 DEF ReadArg0, MsgLen, Enter, Idle
<1>14. CASE ReadArg1 \/ ReadReturns \/ MsgOffset
  BY <1>14 DEF ReadArg1, ReadReturns, MsgOffset
<1>15. CASE UNCHANGED vars
  BY <1>15 DEF vars
<1> QED
  BY <1>1, <1>2, <1>3, <1>4, <1>5, <1>6, <1>7, <1>8, <1>9, <1>10, <1>11, <1>12, <1>13,
     <1>14, <1>15 DEF Next, Write, Read

\* What a reader has got so far is what params still hold.
LEMMA ReadInvNext ==
  Typed /\ OneCall /\ WriteInv /\ ReadInv /\ [Next]_vars /\ ~overlap' => ReadInv'
<1> SUFFICES ASSUME Typed, OneCall, WriteInv, ReadInv, [Next]_vars, ~overlap' PROVE ReadInv'
  OBVIOUS
<1>0. Commands' = Commands
  BY HistoryStays DEF Commands
<1> USE <1>0 DEF Typed, OneCall, WriteInv, ReadInv, Told, Writes, Params, others, memory
<1>1. CASE WriteCalled
  <2>1. PICK c \in Askable, size \in Sizes :
          write' = [pc |-> "len", cmd |-> c, size |-> size, copied |-> "nothing"]
    BY <1>1 DEF WriteCalled
  <2>2. write.pc = "idle" /\ poll.pc = "idle" /\ msg = "idle"
    BY <1>1 DEF WriteCalled, Enter, Idle
  <2>3. UNCHANGED <<poll, msg>>
    BY <1>1 DEF WriteCalled
  <2> QED
    BY <2>1, <2>2, <2>3
<1>2. CASE SetLen
  BY <1>2 DEF SetLen
<1>3. CASE CopyParams
  <2>1. PICK c \in Copies : params' = c[2] /\ write' = [write EXCEPT !.pc = "execute", !.copied = c[1]]
    BY <1>3 DEF CopyParams
  <2>2. UNCHANGED <<len, poll, msg, fresh>> /\ write.pc = "copy" /\ write'.pc = "execute"
    BY <1>3, <2>1 DEF CopyParams
  <2> QED
    BY <2>2
<1>4. CASE CreateInfoTables \/ FreeInfoTables \/ UpdateSettings \/ UnknownCommand
  <2>1. /\ params'.api_num \notin Tests \cap Commands /\ write'.pc = "return" /\ write.pc = "execute"
        /\ poll' = poll /\ fresh' = fresh /\ msg' = msg /\ len' = len
    BY <1>4, CommandNames DEF CreateInfoTables, FreeInfoTables, UpdateSettings, UnknownCommand, Executing, Ends
  <2> QED
    BY <2>1
<1>5. CASE CreateKilled
  <2>1. /\ write'.pc = "killed" /\ write.pc = "execute" /\ params'.api_num \notin Tests
        /\ UNCHANGED <<poll, fresh, msg>>
    BY <1>5, CommandNames DEF CreateKilled, Executing
  <2> QED
    BY <2>1
<1>6. CASE StartTests \/ RunTests \/ SetAvailable
  BY <1>6 DEF StartTests, RunTests, SetAvailable, Executing
<1>7. CASE SetStatus
  BY <1>7 DEF SetStatus, Ends
<1>8. CASE WriteReturns
  BY <1>8 DEF WriteReturns, NoWrite
<1>9. CASE ReadArg0
  <2>1. PICK got \in Reached(len, params.arg0), whole \in BOOLEAN :
          poll' = [pc |-> "arg1", size |-> len, whole |-> whole,
                   arg0 |-> IF whole THEN got ELSE Input, arg1 |-> Input]
    BY <1>9 DEF ReadArg0
  <2>2. /\ write.pc = "idle" /\ msg = "idle"
        /\ UNCHANGED <<params, len, write, msg, status, fresh>>
    BY <1>9 DEF ReadArg0, Enter, Idle
  <2>3. len = PARAMS => got = params.arg0
    BY DEF Reached, PARAMS, MSG
  <2>4. poll'.pc = "arg1" /\ poll'.size = len /\ (poll'.whole => poll'.arg0 = got)
    <3>1. CASE whole = TRUE
      BY <2>1, <3>1
    <3>2. CASE whole = FALSE
      BY <2>1, <3>2
    <3> QED
      BY <3>1, <3>2
  <2>5. fresh /\ params.api_num \in Tests \cap Commands => Told
    BY <2>2
  <2> QED
    BY <2>2, <2>3, <2>4, <2>5
<1>10. CASE ReadArg1
  <2>1. poll \in Polls /\ poll.pc = "arg1"
    BY <1>10 DEF ReadArg1
  <2>2. PICK got \in Reached(poll.size, params.arg1), whole \in BOOLEAN :
          poll' = [poll EXCEPT !.pc = "return", !.whole = @ /\ whole,
                               !.arg1 = IF poll.whole /\ whole THEN got ELSE Input]
    BY <1>10 DEF ReadArg1
  <2>3. poll.size = PARAMS => got = params.arg1
    BY DEF Reached, PARAMS, MSG
  <2>4. poll'.pc = "return" /\ poll'.size = poll.size /\ poll'.arg0 = poll.arg0
    BY <2>1, <2>2 DEF Polls
  <2>41. poll'.whole => poll.whole /\ poll'.arg1 = got
    <3>1. CASE poll.whole = TRUE /\ whole = TRUE
      BY <2>1, <2>2, <3>1 DEF Polls
    <3>2. CASE poll.whole = FALSE \/ whole = FALSE
      BY <2>1, <2>2, <3>2 DEF Polls
    <3> QED
      BY <2>1, <3>1, <3>2 DEF Polls
  <2>5. UNCHANGED <<params, len, write, msg, status, fresh>> /\ write.pc = "idle"
    BY <1>10, <2>1 DEF ReadArg1
  <2> QED
    BY <2>1, <2>3, <2>4, <2>41, <2>5
<1>11. CASE ReadReturns
  BY <1>11 DEF ReadReturns
<1>12. CASE MsgLen
  <2>1. write.pc = "idle" /\ write' = write /\ fresh' = FALSE
    BY <1>12 DEF MsgLen, Enter, Idle
  <2> QED
    BY <2>1
<1>13. CASE MsgOffset
  BY <1>13 DEF MsgOffset
<1>14. CASE UNCHANGED vars
  BY <1>14 DEF vars
<1> QED
  BY <1>1, <1>2, <1>3, <1>4, <1>5, <1>6, <1>7, <1>8, <1>9, <1>10, <1>11, <1>12, <1>13,
     <1>14 DEF Next, Write, Read

\* CREATE finds no tables and FREE all of them.
LEMMA HeapInvNext ==
  Typed /\ OneCall /\ WriteInv /\ HeapInv /\ [Next]_vars /\ ~overlap' /\ ~missed' => HeapInv'
<1> SUFFICES ASSUME Typed, OneCall, WriteInv, HeapInv, [Next]_vars, ~overlap', ~missed'
             PROVE  HeapInv'
  OBVIOUS
<1> DEFINE Left == {Shared(g) : g \in 1 .. creates}
           TableCommands == {"CREATE_INFO_TABLES", "FREE_INFO_TABLES"}
<1>0. TableCommands \cap Tests = {}
  BY DEF Tests
<1>1. CASE WriteCalled
  <2>1. PICK c \in Askable, size \in Sizes :
          write' = [pc |-> "len", cmd |-> c, size |-> size, copied |-> "nothing"]
    BY <1>1 DEF WriteCalled
  <2>2. /\ c = "CREATE_INFO_TABLES" => ~tables
        /\ c = "FREE_INFO_TABLES" => tables
    BY CommandNames DEF Askable
  <2>3. write.pc = "idle" /\ UNCHANGED memory
    BY <1>1 DEF WriteCalled
  <2> QED
    BY <2>1, <2>2, <2>3 DEF HeapInv, OnlyShared, Before, memory
<1>2. CASE SetLen
  <2>1. write' = [write EXCEPT !.pc = "copy"] /\ write.pc = "len" /\ UNCHANGED memory
    BY <1>2 DEF SetLen
  <2> QED
    BY <2>1 DEF HeapInv, OnlyShared, Before, memory, Typed, Writes
<1>3. CASE CopyParams
  <2>1. PICK c \in Copies : params' = c[2] /\ write' = [write EXCEPT !.pc = "execute", !.copied = c[1]]
    BY <1>3 DEF CopyParams
  <2>2. write.pc = "copy" /\ UNCHANGED <<heap, owned, tables, creates>>
    BY <1>3 DEF CopyParams
  <2>3. params'.api_num = write.cmd
    BY <1>3 DEF CopyParams
  <2>4. write'.pc = "execute" /\ write'.cmd = write.cmd
    BY <2>1 DEF Typed, Writes
  <2> QED
    BY <2>2, <2>3, <2>4 DEF HeapInv, OnlyShared, Before
<1>4. CASE CreateInfoTables
  <2>1. /\ write.pc = "execute" /\ params.api_num = "CREATE_INFO_TABLES"
        /\ creates' = creates + 1 /\ UNCHANGED <<tables, missed>>
    BY <1>4 DEF CreateInfoTables, Executing
  <2>2. write'.pc = "return" /\ write'.cmd = write.cmd /\ params'.api_num = params.api_num
    BY <1>4 DEF CreateInfoTables, Ends, Typed, Writes, Params
  <2>3. PICK failed \in SUBSET MayFail :
          /\ owned' = (Tables \ failed) \X {creates'}
          /\ heap' = heap \cup (((Tables \cup {"shared"}) \ failed) \X {creates'})
    BY <1>4 DEF CreateInfoTables
  <2>4. write.cmd = "CREATE_INFO_TABLES" /\ OnlyShared
    BY <2>1 DEF HeapInv, Before
  <2>5. Left \subseteq Left' /\ Shared(creates') \in Left'
    BY <2>1 DEF Typed
  <2>6. heap' \ Left' \subseteq owned'
    <3>1. heap \subseteq Left'
      BY <2>4, <2>5 DEF OnlyShared
    <3> SUFFICES ASSUME NEW a \in ((Tables \cup {"shared"}) \ failed) \X {creates'}, a \notin Left'
                 PROVE  a \in owned'
      BY <2>3, <3>1
    <3>2. a = <<a[1], creates'>> /\ a[1] \in (Tables \cup {"shared"}) \ failed
      OBVIOUS
    <3>3. a[1] # "shared"
      BY <2>5, <3>2 DEF Shared
    <3> QED
      BY <2>3, <3>2, <3>3
  <2>7. owned' \subseteq Made(creates') /\ owned' \subseteq heap'
    BY <2>3 DEF Made
  <2> QED
    BY <2>2, <2>1, <2>4, <2>6, <2>7 DEF HeapInv, Before
<1>5. CASE CreateKilled
  <2>1. /\ write.pc = "execute" /\ params.api_num = "CREATE_INFO_TABLES"
        /\ creates' = creates + 1
    BY <1>5 DEF CreateKilled, Executing
  <2>2. write'.pc = "killed" /\ write'.cmd = write.cmd
    BY <1>5 DEF CreateKilled, Typed, Writes
  <2>3. write.cmd = "CREATE_INFO_TABLES" /\ OnlyShared
    BY <2>1 DEF HeapInv, Before
  <2>4. Left \subseteq Left'
    BY <2>1 DEF Typed
  <2>5. heap' \ Left' \subseteq owned'
    BY <1>5, <2>3, <2>4 DEF CreateKilled, OnlyShared
  <2> QED
    BY <2>2, <2>3, <2>5 DEF HeapInv, Before
<1>6. CASE FreeInfoTables
  <2>1. /\ write.pc = "execute" /\ params.api_num = "FREE_INFO_TABLES"
        /\ heap' = heap \ owned /\ UNCHANGED <<owned, tables, creates, params>>
    BY <1>6 DEF FreeInfoTables, Executing
  <2>2. write'.pc = "return" /\ write'.cmd = write.cmd
    BY <1>6 DEF FreeInfoTables, Ends, Typed, Writes
  <2>3. write.cmd = "FREE_INFO_TABLES" /\ owned \subseteq Made(creates)
    BY <2>1 DEF HeapInv
  <2>4. heap' \subseteq Left
    BY <2>1 DEF HeapInv
  <2> QED
    BY <2>1, <2>2, <2>3, <2>4 DEF HeapInv, OnlyShared, Before
<1>7. ASSUME write.pc \in {"execute", "tests", "available", "status"}, write'.pc \in WritePCs,
             write'.pc \in {"tests", "available", "status", "return"},
             write.cmd \notin TableCommands, write'.cmd = write.cmd,
             params'.api_num = params.api_num, UNCHANGED memory
      PROVE  HeapInv'
  BY <1>7 DEF HeapInv, OnlyShared, Before, memory
<1>8. CASE StartTests \/ RunTests \/ SetAvailable \/ SetStatus
  <2>1. /\ write.pc \in {"execute", "tests", "available", "status"}
        /\ write'.pc \in {"tests", "available", "status", "return"} /\ write'.cmd = write.cmd
        /\ params'.api_num = params.api_num /\ UNCHANGED memory
    BY <1>8 DEF StartTests, RunTests, SetAvailable, SetStatus, Executing, Ends, Typed, Writes, Params
  <2>2. params.api_num \in Tests
    BY <1>8 DEF StartTests, RunTests, SetAvailable, SetStatus, Executing, WriteInv
  <2>3. write.cmd \notin TableCommands
    BY <2>1, <2>2, <1>0 DEF HeapInv
  <2> QED
    BY <2>1, <2>3, <1>7 DEF WritePCs
<1>9. CASE UpdateSettings \/ UnknownCommand
  <2>1. /\ write.pc = "execute" /\ write'.pc = "return" /\ write'.cmd = write.cmd
        /\ params'.api_num = params.api_num /\ UNCHANGED memory
    BY <1>9 DEF UpdateSettings, UnknownCommand, Executing, Ends, Typed, Writes, memory
  <2>2. write.cmd \notin TableCommands
    <3>1. params.api_num \notin TableCommands
      BY <1>9, CommandNames DEF UpdateSettings, UnknownCommand, Executing
    <3> QED
      BY <2>1, <3>1 DEF HeapInv
  <2> QED
    BY <2>1, <2>2, <1>7 DEF WritePCs
<1>10. CASE WriteReturns
  <2>1. /\ write.pc = "return" /\ write'.pc = "idle" /\ write'.cmd = "none"
        /\ tables' = (write.cmd # "FREE_INFO_TABLES" /\ (tables \/ write.cmd = "CREATE_INFO_TABLES"))
        /\ UNCHANGED <<heap, owned, creates>>
    BY <1>10 DEF WriteReturns, NoWrite
  <2>2. CASE write.cmd = "CREATE_INFO_TABLES"
    BY <2>1, <2>2 DEF HeapInv, OnlyShared, Before
  <2>3. CASE write.cmd = "FREE_INFO_TABLES"
    BY <2>1, <2>3 DEF HeapInv, OnlyShared, Before
  <2>4. CASE write.cmd \notin TableCommands
    <3>1. tables' = tables
      BY <2>1, <2>4, Zenon DEF Typed
    <3> QED
      BY <2>1, <2>4, <3>1 DEF HeapInv, OnlyShared, Before
  <2> QED
    BY <2>2, <2>3, <2>4
<1>11. CASE Read \/ UNCHANGED vars
  <2>1. UNCHANGED <<memory, write, params>>
    BY <1>11 DEF Read, ReadArg0, ReadArg1, ReadReturns, MsgLen, MsgOffset, vars, memory
  <2> QED
    BY <2>1 DEF HeapInv, OnlyShared, Before, memory
<1> QED
  BY <1>1, <1>2, <1>3, <1>4, <1>5, <1>6, <1>8, <1>9, <1>10, <1>11 DEF Next, Write

LEMMA AcsNext == AcsInv /\ [Next]_vars => AcsInv'
BY TypedNext, HistoryStays, OneCallNext, WriteInvNext, ReadInvNext, HeapInvNext DEF AcsInv

LEMMA AcsInvariance == Spec => []AcsInv
<1> QED
  BY AcsInit, AcsNext, PTL DEF Spec

-----------------------------------------------------------------------------
\* Calls that do not overlap: whatever was read in between, a write that brought its
\* command carries it out, one that faulted carries out its command or none, and both
\* report what was written as taken (bsa_acs_drv.c:192-195, 201-203).
THEOREM CommandsExecuted == Spec => []Executed
<1>1. AcsInv => Executed
  <2> SUFFICES ASSUME AcsInv, write.pc = "return", ~overlap
               PROVE  /\ len = write.size
                      /\ write.copied = "whole" => done = <<writes, write.cmd>>
                      /\ write.copied = "fault" => done = <<writes, write.cmd>> \/ done[1] < writes
    BY DEF Executed
  <2>1. write.copied = "whole" => params.api_num = write.cmd /\ write.cmd \in Commands
    BY DEF AcsInv, WriteInv
  <2>2. write.copied = "fault" => params.api_num \in {write.cmd, "none"} /\ "none" \notin Commands
    BY CommandNames DEF AcsInv, WriteInv
  <2>3. len = write.size
    BY DEF AcsInv, WriteInv
  <2>4. \/ done = <<writes, params.api_num>> /\ params.api_num \in Commands
        \/ params.api_num \notin Commands /\ done[1] < writes
    BY DEF AcsInv, WriteInv
  <2>5. params.api_num = "none" => done[1] < writes
    BY <2>4, CommandNames
  <2> QED
    BY <2>1, <2>2, <2>3, <2>4, <2>5
<1> QED
  BY <1>1, AcsInvariance, PTL

\* A read that follows the tests a write of all of params started, with no message read
\* between, gives all of params with the status these tests left, whatever it is
\* (bsa_acs_drv.c:132-133, 179-186).
THEOREM TestsAnswered == Spec => []Answered
<1>1. AcsInv => Answered
  <2> SUFFICES ASSUME AcsInv, poll.pc = "return", poll.whole, fresh, ~overlap,
                      params.api_num \in Tests \cap Commands
               PROVE  poll.size = PARAMS /\ poll.arg0 = AVAILABLE /\ poll.arg1 = status
    BY DEF Answered
  <2> QED
    BY DEF AcsInv, ReadInv
<1> QED
  BY <1>1, AcsInvariance, PTL

\* However many times the tables are created and freed, and whatever allocations fail:
\* while every write brings its command, the tables on the heap are those the driver can
\* free, what FREE releases is allocated, and after it only shared memory is left
\* (bsa_acs_drv.c:74-91, 98-107).
THEOREM OneSet == Spec => []OneSetOfTables
<1>1. AcsInv => OneSetOfTables
  <2> SUFFICES ASSUME AcsInv, ~overlap, ~missed
               PROVE  /\ heap \ {Shared(g) : g \in 1 .. creates} \subseteq owned
                      /\ write.pc # "killed" => owned \subseteq Made(creates)
                      /\ Executing("FREE_INFO_TABLES") => owned \subseteq heap
                      /\ write.pc = "idle" /\ ~tables => OnlyShared
    BY DEF OneSetOfTables, OnlyShared
  <2>1. Executing("FREE_INFO_TABLES") => owned \subseteq heap
    BY DEF AcsInv, HeapInv, Executing, Before
  <2> QED
    BY <2>1 DEF AcsInv, HeapInv
<1> QED
  BY <1>1, AcsInvariance, PTL
=============================================================================
