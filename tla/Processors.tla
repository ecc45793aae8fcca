------------------------------ MODULE Processors ------------------------------
(***************************************************************************)
(* The function run on all processors, with calls of the SDEI firmware     *)
(* (SDEI pal_pe.c, pal_sdei_interface.c).                                  *)
(***************************************************************************)
EXTENDS Integers, Sequences, FiniteSets

CONSTANTS
  Cpus,
  MaxBroken      \* a bound: changes of the conduit

ASSUME ProcessorsAssumption == MaxBroken \in Nat

VARIABLES
  firmwareCall, changes,   \* sdei_firmware_call: is it set?  how often it was changed
  cpu,        \* each processor in a call of the firmware
  onAll       \* the call of pal_pe_execute_on_all

firmwareVars == <<firmwareCall, changes, cpu, onAll>>

-----------------------------------------------------------------------------
(***************************************************************************)
(* pal_invoke_sdei_fn, which the function run on every processor calls,    *)
(* while a task sets the conduit or marks the interface broken.  The       *)
(* pointer is read for the test and again for the call.                    *)
(***************************************************************************)
Errors == [NOT_SUPPORTED |-> -1, INVALID_PARAMETERS |-> -2, DENIED |-> -3, PENDING |-> -5, OUT_OF_RESOURCE |-> -10]
Results == {Errors[e] : e \in DOMAIN Errors} \cup {0, 7, -4}   \* -4 is no error SDEI defines
STATUS == [NOT_SUPPORTED |-> "EOPNOTSUPP", INVALID_PARAMETERS |-> "EINVAL", DENIED |-> "EPERM",
           PENDING |-> "EINPROGRESS", OUT_OF_RESOURCE |-> "ENOMEM"]

\* pal_sdei_to_linux_errno and sdei_is_err.
ToLinuxErrno(a0) == LET e == CHOOSE n \in DOMAIN Errors : Errors[n] = a0 IN STATUS[e]
IsErr(a0) == \E e \in DOMAIN Errors : Errors[e] = a0

\* Mutant: the error code is not looked at.
AnswerUnseen(a0) == [err |-> "0", result |-> a0]
Answer(a0) == [err |-> IF IsErr(a0) THEN ToLinuxErrno(a0) ELSE "0", result |-> a0]

Done == \A c \in Cpus : cpu[c].at = "answered"

CallOnAll ==
  /\ onAll = "none" /\ onAll' = "running"
  /\ cpu' = [c \in Cpus |-> [at |-> "called", answer |-> <<>>, disturbed |-> FALSE]]
  /\ UNCHANGED <<firmwareCall, changes>>
TestPointer(c) ==
  /\ cpu[c].at = "called"
  /\ cpu' = IF firmwareCall THEN [cpu EXCEPT ![c].at = "tested"]
            ELSE [cpu EXCEPT ![c].at = "answered", ![c].answer = <<Answer(Errors.NOT_SUPPORTED)>>]
  /\ UNCHANGED <<firmwareCall, changes, onAll>>
CallFirmware(c) ==
  /\ cpu[c].at = "tested"
  /\ \/ firmwareCall /\ \E r \in Results :
          cpu' = [cpu EXCEPT ![c].at = "answered", ![c].answer = <<Answer(r)>>]
     \/ ~firmwareCall /\ cpu' = [cpu EXCEPT ![c].at = "oops"]
  /\ UNCHANGED <<firmwareCall, changes, onAll>>
ExecuteOnAllReturns ==
  /\ onAll = "running" /\ Done /\ onAll' = "returned"
  /\ UNCHANGED <<firmwareCall, changes, cpu>>

Disturbed == [c \in Cpus |-> IF cpu[c].at = "tested" THEN [cpu[c] EXCEPT !.disturbed = TRUE] ELSE cpu[c]]
InterfaceBroken ==
  /\ changes < MaxBroken /\ changes' = changes + 1
  /\ firmwareCall' = FALSE /\ cpu' = Disturbed
  /\ UNCHANGED onAll
ConduitGet ==
  /\ changes < MaxBroken /\ changes' = changes + 1
  /\ firmwareCall' = TRUE
  /\ UNCHANGED <<cpu, onAll>>

FirmwareNext ==
  \/ CallOnAll \/ ExecuteOnAllReturns \/ InterfaceBroken \/ ConduitGet
  \/ \E c \in Cpus : TestPointer(c) \/ CallFirmware(c)

\* Whoever changes the conduit meanwhile: when the call on all processors returns every
\* one has its answer, whose error is the result's if that is one SDEI defines, and "not
\* supported" for an interface that is not there; only a processor between its test and
\* its call when the interface was marked broken follows a NULL pointer
\* (pal_sdei_interface.c:41-106, 141-150, pal_pe.c:71-75).
AnswersRight ==
  /\ onAll = "returned" => \A c \in Cpus : cpu[c].at = "answered"
  /\ \A c \in Cpus :
       /\ cpu[c].at = "oops" => cpu[c].disturbed
       /\ cpu[c].at = "answered" =>
            LET a == cpu[c].answer[1] IN
            /\ a.err = "0" <=> a.result \in {0, 7, -4}
            /\ \A e \in DOMAIN Errors : a.result = Errors[e] <=> a.err = STATUS[e]

-----------------------------------------------------------------------------
ProcessorsInit ==
  /\ firmwareCall = FALSE /\ changes = 0 /\ onAll = "none"
  /\ cpu = [c \in Cpus |-> [at |-> "idle", answer |-> <<>>, disturbed |-> FALSE]]

FirmwareSpec == ProcessorsInit /\ [][FirmwareNext]_firmwareVars
=============================================================================
