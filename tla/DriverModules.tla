----------------------------- MODULE DriverModules -----------------------------
(***************************************************************************)
(* Loading and unloading of the four kernel modules, with calls to their   *)
(* /proc files at any time.                                                *)
(*                                                                         *)
(* A call may start as soon as a file is registered, while the module is   *)
(* still initialising; remove_proc_entry() waits for the calls of a file.  *)
(***************************************************************************)
EXTENDS Naturals, Sequences, FiniteSets

CONSTANTS
  MaxLoads,       \* a bound: attempts to load
  MaxCallsInside  \* a bound: calls at a time

ASSUME ModulesAssumption == {MaxLoads, MaxCallsInside} \subseteq Nat

VARIABLES
  driver,     \* the module
  stage,      \* out, in, or "init" or "exit" and the file it is at
  entries,    \* the /proc files registered
  inside,     \* the calls being carried out, by file and operation
  halfFailed, \* history: did the module fail to load with a file left registered?
  loads

modulesVars == <<driver, stage, entries, inside, halfFailed, loads>>

\* The files of a module, in the order they are created, and the calls they take.
File(n, calls) == [name |-> n, calls |-> {"open", "read", "release"} \cup calls]
Bsa  == <<File("bsa", {"write"}), File("bsa_msg", {})>>
Sbsa == <<File("sbsa", {"write"}), File("sbsa_msg", {})>>
Sdei == <<File("sdei", {"write"}), File("sdei_msg", {"write"})>>
Ffa  == <<File("ffa_acs", {"write"})>>
Drivers == {Bsa, Sbsa, Sdei, Ffa}

Out == <<"out", 0>>
In == <<"in", 0>>
AtFile(s, k) == stage = <<s, k>>
NoCallIn(f) == \A c \in inside : c.file # f

Load ==
  /\ stage = Out /\ loads < MaxLoads
  /\ loads' = loads + 1
  /\ driver' \in (IF loads = 0 THEN Drivers ELSE {driver})
  /\ stage' = <<"init", 1>>
  /\ UNCHANGED <<entries, inside, halfFailed>>

\* proc_create() refuses a name that is there already.
CreateEntry ==
  \E k \in DOMAIN driver :
    /\ AtFile("init", k) /\ driver[k].name \notin entries
    /\ entries' = entries \cup {driver[k].name}
    /\ stage' = IF k = Len(driver) THEN In ELSE <<"init", k + 1>>
    /\ UNCHANGED <<driver, inside, halfFailed, loads>>

\* Just the file that was not created is removed.
CreateFails ==
  \E k \in DOMAIN driver :
    /\ AtFile("init", k) /\ NoCallIn(driver[k].name)
    /\ entries' = entries \ {driver[k].name}
    /\ stage' = Out /\ halfFailed' = (k = 2)
    /\ UNCHANGED <<driver, inside, loads>>

Unload ==
  /\ stage = In /\ stage' = <<"exit", 1>>
  /\ UNCHANGED <<driver, entries, inside, halfFailed, loads>>

\* Mutant: the message file is forgotten.
Removes1(k) == {driver[1].name}
\* The k-th statement of the module's exit function.
Removes(k) == {driver[k].name}

RemoveEntry ==
  \E k \in DOMAIN driver :
    /\ AtFile("exit", k) /\ \A f \in Removes(k) : NoCallIn(f)
    /\ entries' = entries \ Removes(k)
    /\ stage' = IF k = Len(driver) THEN Out ELSE <<"exit", k + 1>>
    /\ UNCHANGED <<driver, inside, halfFailed, loads>>

CallFile ==
  /\ Cardinality(inside) < MaxCallsInside
  /\ \E k \in DOMAIN driver : driver[k].name \in entries /\
       \E op \in driver[k].calls : inside' = inside \cup {[file |-> driver[k].name, op |-> op]}
  /\ UNCHANGED <<driver, stage, entries, halfFailed, loads>>

CallReturns ==
  /\ \E c \in inside : inside' = inside \ {c}
  /\ UNCHANGED <<driver, stage, entries, halfFailed, loads>>

ModulesInit ==
  /\ driver = Bsa /\ stage = Out /\ entries = {} /\ inside = {}
  /\ halfFailed = FALSE /\ loads = 0
ModulesNext ==
  Load \/ CreateEntry \/ CreateFails \/ Unload \/ RemoveEntry \/ CallFile \/ CallReturns

ModulesSpec == ModulesInit /\ [][ModulesNext]_modulesVars

\* The code of a module that is not loaded is not run and cannot be reached through a
\* file, and a loaded one can be reached through all of its files, unless the module
\* failed to create its second file: it leaves the first behind, until the next attempt
\* to load it removes that (bsa_acs_drv.c:241-265, sdei_acs_drv.c:262-283).
CallsReachLoaded ==
  /\ stage = Out /\ ~halfFailed => entries = {} /\ inside = {}
  /\ stage = Out /\ halfFailed => entries \subseteq {driver[1].name}
  /\ stage = In => \A k \in DOMAIN driver : driver[k].name \in entries
=============================================================================
