---------------------------- MODULE SdeiDriver ----------------------------
(***************************************************************************)
(* The SDEI driver around its log: one application thread starts runs by   *)
(* writing /proc/sdei, and asks for the clean-up by writing                *)
(* SDEI_TEST_CLEANUP to /proc/sdei_msg; other files read the log meanwhile *)
(* (SdeiLog).  sdei_proc_write() works in the caller's context: sdei_init  *)
(* with its five tables, the tests, the four result lines, the flag.       *)
(*                                                                         *)
(* The VAL layer, which holds the table pointers and runs the tests, is    *)
(* not in this repository: a val_*_create_info_table() keeps the pointer   *)
(* it is given and may report failure, a val_*_free_info_table() frees it  *)
(* through pal_free_mem().                                                 *)
(***************************************************************************)
EXTENDS SdeiLog, FiniteSets

CONSTANTS
  MaxRuns,     \* bound: writes to /proc/sdei
  TestPrints   \* bound: lines val_test_execute() prints

ASSUME DriverAssumption == MaxRuns \in Nat /\ TestPrints \in Nat

VARIABLES
  drv,      \* control point of sdei_proc_write()
  todo,     \* lines the driver has still to print before it goes on
  flag,     \* g_test_completion_flag = SDEI_TEST_COMPLETE
  table,    \* the allocation VAL's pointer to each info table stands for
  shared,   \* the same for g_pe_shared_mem
  lost,     \* history: live allocations whose last pointer was overwritten
  results,  \* history: the result lines of the last run
  killed,   \* history: has a run been killed, printing to a log it did not get?
  runs      \* history: runs started

drvVars == <<drv, todo, flag, table, shared, lost, results, killed, runs>>
allVars == <<vars, drvVars>>

\* sdei_init() builds the tables in this order, then starts SDEI.
Order  == <<"gic", "pe", "event", "watchdog", "timer">>
Tables == {Order[i] : i \in DOMAIN Order}
NextStage(t) == IF t = "timer" THEN "sdei"
            ELSE Order[1 + CHOOSE i \in DOMAIN Order : Order[i] = t]

\* The driver's next statement runs once its pending lines are in the log.
At(pc) == drv = pc /\ todo = 0 /\ print = "idle"
Go(pc, lines) == drv' = pc /\ todo' = lines

PrintLine ==
  /\ todo > 0
  /\ CallPrint
  /\ todo' = todo - 1
  /\ results' = IF drv = "close" THEN results \cup {printed + 1} ELSE results
  /\ UNCHANGED <<drv, flag, table, shared, lost, killed, runs>>

-----------------------------------------------------------------------------
\* The write reaches sdei_init(): a log of the size last reached, or none, which
\* nobody notices; the tail kept.
StartRun ==
  /\ At("idle") /\ runs < MaxRuns
  /\ \A r \in Readers : read[r] = "idle"
  /\ Go("gic", 0)
  /\ runs' = runs + 1 /\ results' = {}
  /\ \/ g_msg_buf' = [i \in Slots(g_num_msg) |-> Uninit] /\ live' = TRUE
     \/ AllocMayFail /\ g_msg_buf' = NULL /\ live' = FALSE
  /\ lost' = IF live THEN lost \cup {"log"} ELSE lost
  /\ UNCHANGED <<g_tail_msg, g_num_msg, printVars, readVars, history, flag, table, shared, killed>>

\* create_<t>_infotable(): allocated and filled.
CreateTable(t) ==
  /\ At(t)
  /\ table' = [table EXCEPT ![t] = "live"]
  /\ lost' = IF table[t] = "live" THEN lost \cup {t} ELSE lost
  /\ Go(NextStage(t), 0)
  /\ UNCHANGED <<vars, flag, shared, results, killed, runs>>

\* kzalloc() returns NULL: three lines, and the run is given up.
AllocTableFails(t) ==
  /\ At(t) /\ AllocMayFail
  /\ Go("giveUp", 3)
  /\ UNCHANGED <<vars, flag, table, shared, lost, results, killed, runs>>

\* VAL keeps the pointer and reports an error (the timer's is not looked at).
FillTableFails(t) ==
  /\ At(t) /\ t # "timer"
  /\ table' = [table EXCEPT ![t] = "live"]
  /\ lost' = IF table[t] = "live" THEN lost \cup {t} ELSE lost
  /\ Go("giveUp", 2)
  /\ UNCHANGED <<vars, flag, shared, results, killed, runs>>

InitSdei ==
  /\ At("sdei")
  /\ \/ Go("alloc", 0)
     \/ Go("giveUp", 2)
  /\ UNCHANGED <<vars, flag, table, shared, lost, results, killed, runs>>

\* Mutant: the failed run is not reported.
GiveUpSilently ==
  /\ At("giveUp")
  /\ Go("idle", 0)
  /\ UNCHANGED <<vars, flag, table, shared, lost, results, killed, runs>>

GiveUp ==
  /\ At("giveUp")
  /\ flag' = TRUE
  /\ Go("idle", 0)
  /\ UNCHANGED <<vars, table, shared, lost, results, killed, runs>>

\* pal_pe_alloc_shared_mem() clears the pointer, allocates, and prints a line.
AllocShared ==
  /\ At("alloc")
  /\ lost' = IF shared = "live" THEN lost \cup {"shared"} ELSE lost
  /\ shared' \in {"live"} \cup (IF AllocMayFail THEN {"none"} ELSE {})
  /\ Go("test", IF shared' = "none" THEN 1 ELSE 0)
  /\ UNCHANGED <<vars, flag, table, results, killed, runs>>

\* val_test_execute(), then the four result lines.
Execute ==
  /\ At("test")
  /\ \E n \in 0 .. TestPrints : Go("results", n)
  /\ UNCHANGED <<vars, flag, table, shared, lost, results, killed, runs>>

PrintResults ==
  /\ At("results")
  /\ Go("close", 4)
  /\ UNCHANGED <<vars, flag, table, shared, lost, results, killed, runs>>

\* Mutant: the flag is raised but the shared memory kept.
FinishKeepShared ==
  /\ At("close")
  /\ flag' = TRUE
  /\ Go("idle", 0)
  /\ UNCHANGED <<vars, table, shared, lost, results, killed, runs>>

\* val_shared_mem_free() (the pointer stays), the flag, and the return.
Finish ==
  /\ At("close")
  /\ shared' = IF shared = "live" THEN "freed" ELSE shared
  /\ flag' = TRUE
  /\ Go("idle", 0)
  /\ UNCHANGED <<vars, table, lost, results, killed, runs>>

\* Mutant: only the tables go, the log stays allocated.
CleanupTables ==
  /\ At("idle") /\ live
  /\ \A r \in Readers : read[r] = "idle"
  /\ table' = [t \in Tables |-> IF table[t] = "live" THEN "freed" ELSE table[t]]
  /\ UNCHANGED <<vars, drv, todo, flag, shared, lost, results, killed, runs>>

\* SDEI_TEST_CLEANUP, asked for once after a run: every table and the log are
\* freed; the pointers, the tail and the count stay.
Cleanup ==
  /\ At("idle") /\ live
  /\ \A r \in Readers : read[r] = "idle"
  /\ table' = [t \in Tables |-> IF table[t] = "live" THEN "freed" ELSE table[t]]
  /\ live' = FALSE
  /\ UNCHANGED <<g_msg_buf, g_tail_msg, g_num_msg, printVars, readVars, history,
                 drv, todo, flag, shared, lost, results, killed, runs>>

\* The thread of a run is killed at its first print: there is no one to end the run.
RunKilled ==
  /\ print = "killed"
  /\ print' = "idle"
  /\ Go("idle", 0)
  /\ results' = {} /\ killed' = TRUE
  /\ UNCHANGED <<bufVars, tmp, printed, readVars, history, flag, table, shared, lost, runs>>

-----------------------------------------------------------------------------
DriverInit ==
  /\ g_msg_buf = NULL /\ live = FALSE
  /\ g_tail_msg = 0 /\ g_num_msg = MinNum
  /\ print = "idle" /\ tmp = <<>> /\ printed = 0
  /\ read = [r \in Readers |-> "idle"] /\ want = [r \in Readers |-> FALSE]
  /\ offset = [r \in Readers |-> 0] /\ got = [r \in Readers |-> Blank]
  /\ seen = {} /\ wrapped = FALSE /\ overlapped = FALSE /\ underrun = FALSE
  /\ drv = "idle" /\ todo = 0 /\ flag = FALSE
  /\ table = [t \in Tables |-> "none"] /\ shared = "none"
  /\ lost = {} /\ results = {} /\ killed = FALSE /\ runs = 0

\* One step of the system call in progress.
Running ==
  \/ PrintLine
  \/ Printing /\ UNCHANGED drvVars
  \/ \E t \in Tables : CreateTable(t) \/ AllocTableFails(t) \/ FillTableFails(t)
  \/ InitSdei \/ GiveUp \/ AllocShared \/ Execute \/ PrintResults \/ Finish \/ RunKilled

DriverNext ==
  \/ StartRun \/ Running \/ Cleanup
  \/ \E r \in Readers : (live \/ Missing) /\ (OpenFile(r) \/ Reading(r)) /\ UNCHANGED drvVars
  \/ \E r \in Readers : ReadFaults(r) /\ UNCHANGED drvVars

DriverSpec == DriverInit /\ [][DriverNext]_allVars

\* A system call that has begun runs on.
FairDriverSpec == DriverSpec /\ WF_allVars(Running)

-----------------------------------------------------------------------------
\* When a run that went through has returned and its log has not been cleaned
\* up, each of its four result lines has been received or can be read by a file
\* opened now (the comment "Always print test results", sdei_acs_drv.c:201).
ResultsAlwaysReadable ==
  drv = "idle" /\ live =>
    \A k \in results :
      k \in seen \/ \E i \in Slots(g_tail_msg) : g_msg_buf[i] = k

\* That holds as long as the buffer could grow and reads waited for prints, the
\* log of an earlier run cleaned up or not (sdei_acs_drv.c:116-120: the tail and
\* the size outlive the buffer, and a new one starts in the middle of the log).
ResultsReadable == ~wrapped /\ ~overlapped => ResultsAlwaysReadable

\* An application that cleans up after each run loses no memory, wherever a run
\* was given up: no pointer to a live allocation is overwritten, and between
\* runs the shared memory is not held (sdei_acs_drv.c:116-159, 198-208, 219-225). A
\* run that was killed leaves everything behind.
NothingLost ==
  "log" \notin lost /\ ~killed => lost = {} /\ (drv = "idle" => shared # "live")

\* Every run comes to an end, the readers having no say in it; one that got its log
\* ends, complete or given up at any of its steps, with the completion flag up
\* (sdei_acs_drv.c:192-209). One that did not (120) is killed.
RunTold ==
  /\ drv = "gic" ~> drv = "idle"
  /\ drv = "gic" /\ live ~> drv = "idle" /\ flag
=============================================================================
