--------------------------- MODULE ServicesProofs ---------------------------
(***************************************************************************)
(* What is proved of the smaller parts of Services, each for all values of *)
(* its constants: the /proc files of the kernel modules, the calls of the  *)
(* firmware by the processors, the interrupt handlers, the engine of the   *)
(* FF-A test and the memory of the VAL and of the DMA tests; and that      *)
(* Services implements each of its parts.                                  *)
(***************************************************************************)
EXTENDS Services, FiniteSetTheorems, SequenceTheorems, TLAPS

-----------------------------------------------------------------------------
(* The /proc files of a kernel module lead to a loaded module only. *)

Names(d) == {d[k].name : k \in DOMAIN d}

\* A driver has one file, or two of different names.
LEMMA OneOrTwoFiles ==
  ASSUME NEW d \in Drivers
  PROVE  /\ Len(d) \in {1, 2}
         /\ DOMAIN d = 1 .. Len(d)
         /\ Len(d) = 2 => d[1].name # d[2].name
  BY DEF Drivers, Bsa, Sbsa, Sdei, Ffa, File

\* The files there are at each stage; a module that failed at its second file leaves the
\* first, on which the next attempt fails.
Registered ==
  /\ stage = Out => entries = IF halfFailed THEN {driver[1].name} ELSE {}
  /\ AtFile("init", 1) => entries = IF halfFailed THEN {driver[1].name} ELSE {}
  /\ AtFile("init", 2) => entries = {driver[1].name}
  /\ stage = In \/ AtFile("exit", 1) => entries = Names(driver)
  /\ AtFile("exit", 2) => entries = {driver[2].name}

FilesInv ==
  /\ driver \in Drivers /\ loads \in Nat
  /\ stage \in {Out, In} \cup ({"init", "exit"} \X DOMAIN driver)
  /\ halfFailed \in BOOLEAN /\ (halfFailed => stage = Out \/ AtFile("init", 1))
  /\ loads = 0 => stage = Out /\ ~halfFailed
  /\ \A c \in inside : c.file \in entries
  /\ Registered

LEMMA FilesInit == ModulesInit => FilesInv
  <1> SUFFICES ASSUME ModulesInit PROVE FilesInv
    OBVIOUS
  <1>1. driver \in Drivers /\ loads = 0 /\ stage = Out /\ entries = {} /\ inside = {} /\ halfFailed = FALSE
    BY DEF ModulesInit, Drivers
  <1>2. Out # In /\ \A s, k : s \in {"init", "exit"} => Out # <<s, k>>
    BY DEF Out, In
  <1>3. Registered
    BY <1>1, <1>2 DEF Registered, AtFile
  <1> QED BY <1>1, <1>2, <1>3 DEF FilesInv

LEMMA FilesNext == FilesInv /\ [ModulesNext]_modulesVars => FilesInv'
  <1> SUFFICES ASSUME FilesInv, [ModulesNext]_modulesVars PROVE FilesInv'
    OBVIOUS
  <1>0. /\ Len(driver) \in {1, 2} /\ DOMAIN driver = 1 .. Len(driver)
        /\ Len(driver) = 2 => driver[1].name # driver[2].name
        /\ Names(driver) = {driver[1].name} \cup (IF Len(driver) = 2 THEN {driver[2].name} ELSE {})
    BY OneOrTwoFiles DEF FilesInv, Names
  <1> USE DEF FilesInv, Registered, AtFile, Out, In
  <1>1. CASE Load
    <2>1. driver' \in Drivers
      BY <1>1 DEF Load
    <2>2. 1 \in DOMAIN driver'
      BY <2>1, OneOrTwoFiles
    <2> QED BY <1>1, <2>1, <2>2 DEF Load
  <1>2. CASE CreateEntry
    <2>1. PICK k \in DOMAIN driver :
            /\ stage = <<"init", k>> /\ driver[k].name \notin entries
            /\ entries' = entries \cup {driver[k].name}
            /\ stage' = IF k = Len(driver) THEN In ELSE <<"init", k + 1>>
      BY <1>2 DEF CreateEntry
    <2>2. k = 1 => ~halfFailed
      BY <2>1
    <2> QED BY <1>0, <1>2, <2>1, <2>2 DEF CreateEntry
  <1>3. CASE CreateFails
    <2>1. PICK k \in DOMAIN driver :
            /\ stage = <<"init", k>> /\ NoCallIn(driver[k].name)
            /\ entries' = entries \ {driver[k].name}
            /\ stage' = Out /\ halfFailed' = (k = 2)
      BY <1>3 DEF CreateFails
    <2>2. /\ driver' = driver /\ loads' = loads /\ inside' = inside
          /\ \A c \in inside : c.file # driver[k].name
      BY <1>3, <2>1 DEF CreateFails, NoCallIn
    <2>3. k = 1 \/ k = 2
      BY <1>0
    <2>4. CASE k = 1
      <3>1. entries' = {}
        BY <2>1, <2>4
      <3> QED BY <1>0, <2>1, <2>2, <2>4, <3>1
    <2>5. CASE k = 2
      <3>1. entries' = {driver[1].name}
        BY <1>0, <2>1, <2>5
      <3> QED BY <1>0, <2>1, <2>2, <2>5, <3>1
    <2> QED BY <2>3, <2>4, <2>5
  <1>4. CASE Unload
    <2>1. /\ stage = In /\ stage' = <<"exit", 1>> /\ 1 \in DOMAIN driver
          /\ UNCHANGED <<driver, entries, inside, halfFailed, loads>>
      BY <1>0, <1>4 DEF Unload
    <2>2. loads # 0 /\ ~halfFailed /\ entries = Names(driver)
      BY <2>1
    <2> QED BY <2>1, <2>2 DEF Names
  <1>5. CASE RemoveEntry
    <2>1. PICK k \in DOMAIN driver :
            /\ stage = <<"exit", k>> /\ NoCallIn(driver[k].name)
            /\ entries' = entries \ {driver[k].name}
            /\ stage' = IF k = Len(driver) THEN Out ELSE <<"exit", k + 1>>
      BY <1>5 DEF RemoveEntry, Removes
    <2> QED BY <1>0, <1>5, <2>1 DEF RemoveEntry, NoCallIn
  <1>6. CASE CallFile
    <2>1. \A c \in inside' : c.file \in entries
      BY <1>6 DEF CallFile
    <2> QED BY <1>6, <2>1 DEF CallFile
  <1>7. CASE CallReturns
    BY <1>7 DEF CallReturns
  <1>8. CASE UNCHANGED modulesVars
    BY <1>8 DEF modulesVars
  <1> QED BY <1>1, <1>2, <1>3, <1>4, <1>5, <1>6, <1>7, <1>8 DEF ModulesNext

\* No file leads to code that is not loaded, but for the first file of a module whose
\* second could not be created, and a loaded module has all of its files, however often
\* it is loaded (bsa_acs_drv.c:241-265).
THEOREM FilesLeadToModule == ModulesSpec => []CallsReachLoaded
  <1>1. FilesInv => CallsReachLoaded
    BY DEF FilesInv, Registered, CallsReachLoaded, Names, Out, In, AtFile
  <1> QED BY <1>1, FilesInit, FilesNext, PTL DEF ModulesSpec

-----------------------------------------------------------------------------
(* What every processor answers when the firmware is called on all. *)

Codes == {"NOT_SUPPORTED", "INVALID_PARAMETERS", "DENIED", "PENDING", "OUT_OF_RESOURCE"}

\* What an answer has to say of the result it was made from.
Says(a) ==
  /\ a.err = "0" <=> a.result \in {0, 7, -4}
  /\ \A e \in DOMAIN Errors : a.result = Errors[e] <=> a.err = STATUS[e]

LEMMA ErrorsDiffer ==
  /\ DOMAIN Errors = Codes
  /\ \A e \in Codes : Errors[e] \in Int /\ STATUS[e] # "0" /\ Errors[e] \notin {0, 7, -4}
  /\ \A e, f \in Codes : e # f => Errors[e] # Errors[f] /\ STATUS[e] # STATUS[f]
  BY DEF Errors, STATUS, Codes

\* An error SDEI defines is answered by its own code, and nothing else by any.
LEMMA AnswerSays ==
  ASSUME NEW r \in Results
  PROVE  Says(Answer(r))
  <1>1. r \in {0, 7, -4} \/ \E e \in Codes : r = Errors[e]
    BY ErrorsDiffer DEF Results
  <1>2. CASE r \in {0, 7, -4}
    <2>1. ~IsErr(r)
      BY <1>2, ErrorsDiffer DEF IsErr
    <2> QED BY <1>2, <2>1, ErrorsDiffer DEF Says, Answer
  <1>3. CASE \E e \in Codes : r = Errors[e]
    <2>1. PICK e \in Codes : r = Errors[e]
      BY <1>3
    <2>2. IsErr(r)
      BY <2>1, ErrorsDiffer DEF IsErr
    <2>3. (CHOOSE n \in DOMAIN Errors : Errors[n] = r) = e
      BY <2>1, ErrorsDiffer
    <2>4. Answer(r) = [err |-> STATUS[e], result |-> r]
      BY <2>2, <2>3 DEF Answer, ToLinuxErrno
    <2> QED BY <2>1, <2>4, ErrorsDiffer DEF Says
  <1> QED BY <1>1, <1>2, <1>3

Processor == [at : {"idle", "called", "tested", "answered", "oops"},
              answer : {<<>>} \cup {<<Answer(r)>> : r \in Results}, disturbed : BOOLEAN]

\* A processor past its test with no conduit was disturbed.
CallInv ==
  /\ firmwareCall \in BOOLEAN
  /\ cpu \in [Cpus -> Processor]
  /\ \A c \in Cpus : /\ cpu[c].at = "answered" => cpu[c].answer # <<>>
                     /\ cpu[c].at = "tested" /\ ~firmwareCall => cpu[c].disturbed
                     /\ cpu[c].at = "oops" => cpu[c].disturbed
  /\ onAll = "returned" => Done

LEMMA CallInit == ProcessorsInit => CallInv
  <1> SUFFICES ASSUME ProcessorsInit PROVE CallInv
    OBVIOUS
  <1> DEFINE idle == [at |-> "idle", answer |-> <<>>, disturbed |-> FALSE]
  <1>1. cpu = [c \in Cpus |-> idle] /\ firmwareCall = FALSE /\ onAll = "none"
    BY DEF ProcessorsInit
  <1>2. idle \in Processor
    BY DEF Processor
  <1>3. \A c \in Cpus : cpu[c].at = "idle"
    BY <1>1
  <1> HIDE DEF idle
  <1> QED BY <1>1, <1>2, <1>3 DEF CallInv

\* A processor gets its answer.
LEMMA GetsAnswer ==
  ASSUME CallInv, NEW c \in Cpus, cpu[c].at \in {"called", "tested"}, NEW r \in Results,
         cpu' = [cpu EXCEPT ![c].at = "answered", ![c].answer = <<Answer(r)>>],
         UNCHANGED <<firmwareCall, onAll>>
  PROVE  CallInv'
  <1>1. PICK a : a = <<Answer(r)>>
    OBVIOUS
  <1>2. a # <<>> /\ a \in {<<Answer(s)>> : s \in Results}
    BY <1>1
  <1>3. cpu' = [cpu EXCEPT ![c].at = "answered", ![c].answer = a]
    BY <1>1
  <1>4. cpu[c] \in Processor /\ cpu \in [Cpus -> Processor]
    BY DEF CallInv
  <1>5. cpu'[c] \in Processor /\ cpu'[c].at = "answered" /\ cpu'[c].answer = a
    <2>1. PICK A : A = {<<>>} \cup {<<Answer(s)>> : s \in Results}
      OBVIOUS
    <2>2. PICK p : p = cpu[c]
      OBVIOUS
    <2>3. p \in [at : {"idle", "called", "tested", "answered", "oops"}, answer : A, disturbed : BOOLEAN]
      BY <1>4, <2>1, <2>2 DEF Processor
    <2>4. cpu'[c] = [p EXCEPT !.at = "answered", !.answer = a]
      BY <1>3, <1>4, <2>2
    <2>5. a \in A
      BY <1>2, <2>1
    <2>6. /\ cpu'[c] \in [at : {"idle", "called", "tested", "answered", "oops"}, answer : A, disturbed : BOOLEAN]
          /\ cpu'[c].at = "answered" /\ cpu'[c].answer = a
      BY <2>3, <2>4, <2>5
    <2> QED
      BY <2>1, <2>6 DEF Processor
  <1>7. cpu' \in [Cpus -> Processor] /\ \A d \in Cpus : d # c => cpu'[d] = cpu[d]
    BY <1>3, <1>4, <1>5
  <1>8. onAll # "returned"
    BY DEF CallInv, Done
  <1> QED
    BY <1>2, <1>5, <1>7, <1>8 DEF CallInv

LEMMA CallNext == CallInv /\ [FirmwareNext]_firmwareVars => CallInv'
  <1> SUFFICES ASSUME CallInv, [FirmwareNext]_firmwareVars PROVE CallInv'
    OBVIOUS
  <1> USE DEF CallInv, Processor, Done
  <1>1. CASE CallOnAll
    BY <1>1 DEF CallOnAll
  <1>2. CASE ExecuteOnAllReturns
    BY <1>2 DEF ExecuteOnAllReturns
  <1>3. CASE InterfaceBroken
    BY <1>3 DEF InterfaceBroken, Disturbed
  <1>4. CASE ConduitGet
    BY <1>4 DEF ConduitGet
  <1>5. ASSUME NEW c \in Cpus, TestPointer(c) PROVE CallInv'
    <2>1. Errors.NOT_SUPPORTED \in Results
      BY ErrorsDiffer DEF Results, Codes
    <2>2. CASE firmwareCall
      BY <1>5, <2>2 DEF TestPointer
    <2>3. CASE ~firmwareCall
      BY <1>5, <2>1, <2>3, GetsAnswer DEF TestPointer
    <2> QED BY <2>2, <2>3
  <1>6. ASSUME NEW c \in Cpus, CallFirmware(c) PROVE CallInv'
    <2>1. CASE firmwareCall
      <3>1. PICK r \in Results : cpu' = [cpu EXCEPT ![c].at = "answered", ![c].answer = <<Answer(r)>>]
        BY <1>6, <2>1 DEF CallFirmware
      <3> QED BY <1>6, <3>1, GetsAnswer DEF CallFirmware
    <2>2. CASE ~firmwareCall
      BY <1>6, <2>2 DEF CallFirmware
    <2> QED BY <2>1, <2>2
  <1>7. CASE UNCHANGED firmwareVars
    BY <1>7 DEF firmwareVars
  <1> QED BY <1>1, <1>2, <1>3, <1>4, <1>5, <1>6, <1>7 DEF FirmwareNext

\* When the call on all processors returns every one has answered, each answer is that
\* of its result, and a NULL conduit is only called by a processor the interface was
\* taken from under, for any number of processors (pal_sdei_interface.c:41-150).
THEOREM AnswersAreRight == FirmwareSpec => []AnswersRight
  <1>1. CallInv => AnswersRight
    <2> SUFFICES ASSUME CallInv PROVE AnswersRight
      OBVIOUS
    <2>1. onAll = "returned" => \A c \in Cpus : cpu[c].at = "answered"
      BY DEF CallInv, Done
    <2>2. ASSUME NEW c \in Cpus, cpu[c].at = "answered" PROVE Says(cpu[c].answer[1])
      <3>1. PICK r \in Results : cpu[c].answer = <<Answer(r)>>
        BY <2>2 DEF CallInv, Processor
      <3>2. cpu[c].answer[1] = Answer(r)
        BY <3>1
      <3> QED BY <3>2, AnswerSays
    <2> QED BY <2>1, <2>2 DEF CallInv, AnswersRight, Says
  <1> QED BY <1>1, CallInit, CallNext, PTL DEF FirmwareSpec

-----------------------------------------------------------------------------
(* The handler a layer installed last is the one that is called. *)

Linux == [hw : HwIrqs \cup {0}, by : Layers \cup {"", "kernel", "free"}, handler : Nat]

\* A mapping leads to a virq in use for that interrupt; the one of the device's message
\* belongs to no interrupt.
MapsRight ==
  /\ mapped \in [HwIrqs -> Virqs \cup {0}]
  /\ virq \in [Virqs -> Linux]
  /\ \A v \in Virqs : virq[v].by = "free" => virq[v].hw = 0 /\ virq[v].handler = 0
  /\ \A hw \in HwIrqs : mapped[hw] # 0 => virq[mapped[hw]].by # "free" /\ virq[mapped[hw]].hw = hw
  /\ MsiVirq \in Virqs /\ virq[MsiVirq].by # "free" /\ virq[MsiVirq].hw = 0

HistoryTyped ==
  /\ tried \subseteq Layers \X HwIrqs
  /\ installed \in [Layers \X HwIrqs -> Nat]
  /\ shared \subseteq HwIrqs
  /\ handlers \in Nat

\* The one layer that uses hw has what it installed last called, and no other handler is.
Owned(hw) ==
  /\ \A l \in Layers : installed[<<l, hw>>] # 0 =>
       <<l, hw>> \in tried /\ mapped[hw] # 0 /\ virq[mapped[hw]].handler = installed[<<l, hw>>]
  /\ \A v \in Virqs : virq[v].hw = hw /\ virq[v].handler # 0 =>
       v = mapped[hw] /\ <<virq[v].by, hw>> \in tried /\ installed[<<virq[v].by, hw>>] # 0
  /\ \A l, m \in Layers : <<l, hw>> \in tried /\ <<m, hw>> \in tried => l = m

Alone == HwIrqs \ (shared \cup {KernelIrq})
HandlerInv == MapsRight /\ HistoryTyped /\ \A hw \in Alone : Owned(hw)

-----------------------------------------------------------------------------
\* The virq the kernel allocates is a free one, if there is any.
LEMMA NewIsFree ==
  ASSUME MapsRight
  PROVE  NewVirq = 0 \/ (NewVirq \in Virqs /\ virq[NewVirq].by = "free")
  <1> DEFINE S == {v \in Virqs : virq[v].by = "free"}
  <1>1. CASE S = {}
    BY <1>1 DEF NewVirq, Lowest
  <1>2. CASE S # {}
    <2>1. S \subseteq Nat
      BY DEF Virqs
    <2>2. PICK v \in S : \A w \in S : ~ (<<w, v>> \in OpToRel(<, Nat))
      BY <1>2, <2>1, NatLessThanWellFounded, WFMin
    <2>3. \A w \in S : ~(w < v)
      BY <2>1, <2>2 DEF OpToRel
    <2>4. \A w \in S : v <= w
      BY <2>1, <2>3
    <2> HIDE DEF S
    <2>5. NewVirq = CHOOSE u \in S : \A w \in S : u <= w
      BY <1>2 DEF NewVirq, Lowest, S
    <2>6. NewVirq \in S
      BY <2>4, <2>5
    <2> QED BY <2>6 DEF S
  <1> QED BY <1>1, <1>2

\* A virq an interrupt is given is its own or was free: no other interrupt's.
LEMMA OwnVirq ==
  ASSUME MapsRight, NEW hw \in HwIrqs, NEW v \in {VirqFor(hw), CreateMapping(hw)}, v # 0
  PROVE  /\ v \in Virqs /\ v # MsiVirq
         /\ virq[v].by = "free" \/ (v = mapped[hw] /\ virq[v].hw = hw)
         /\ mapped[hw] # 0 /\ v = CreateMapping(hw) => v = mapped[hw]
         /\ \A o \in HwIrqs : mapped[o] = v => o = hw
  <1>1. v = mapped[hw] \/ v = NewVirq
    BY DEF VirqFor, AllocIrqs, CreateMapping
  <1>2. mapped[hw] # 0 /\ v = CreateMapping(hw) => v = mapped[hw]
    BY DEF CreateMapping
  <1>3. CASE v = mapped[hw]
    BY <1>2, <1>3, InterruptsAssumption DEF MapsRight
  <1>4. CASE v = NewVirq
    BY <1>2, <1>4, NewIsFree DEF MapsRight
  <1> QED BY <1>1, <1>3, <1>4

\* What a free descriptor is made of.
LEMMA FreeDescriptor ==
  FreeVirq \in Linux /\ FreeVirq.hw = 0 /\ FreeVirq.by = "free" /\ FreeVirq.handler = 0
  BY DEF Linux, FreeVirq, Descriptor

LEMMA HandlerInit == InterruptsInit({"none", "flat", "hierarchy"}) => HandlerInv
  <1> SUFFICES ASSUME InterruptsInit({"none", "flat", "hierarchy"}) PROVE HandlerInv
    OBVIOUS
  <1> DEFINE k == Descriptor(KernelIrq, "kernel", 1)
             m == Descriptor(0, "", 0)
  <1>1. /\ 1 \in Virqs /\ 2 \in Virqs /\ KernelIrq \in HwIrqs
    BY InterruptsAssumption DEF Virqs
  <1>2. /\ k \in Linux /\ k.hw = KernelIrq /\ k.by # "free"
        /\ m \in Linux /\ m.hw = 0 /\ m.by # "free" /\ m.handler = 0
        /\ FreeVirq \in Linux /\ FreeVirq.hw = 0 /\ FreeVirq.handler = 0
    BY InterruptsAssumption, FreeDescriptor DEF Linux, Descriptor
  <1>3. virq = [v \in Virqs |-> IF v = 1 THEN k ELSE IF v = 2 THEN m ELSE FreeVirq]
    BY DEF InterruptsInit, MsiVirq
  <1>4. mapped = [hw \in HwIrqs |-> IF hw = KernelIrq THEN 1 ELSE 0]
    BY DEF InterruptsInit
  <1> HIDE DEF k, m
  <1>5. MapsRight
    BY <1>1, <1>2, <1>3, <1>4 DEF MapsRight, MsiVirq
  <1>6. HistoryTyped
    BY DEF InterruptsInit, HistoryTyped
  <1>7. \A hw \in Alone : Owned(hw)
    <2>1. /\ \A v \in Virqs : virq[v].handler # 0 => virq[v].hw = KernelIrq
          /\ tried = {}
      BY <1>2, <1>3 DEF InterruptsInit
    <2>2. \A l \in Layers, hw \in HwIrqs : installed[<<l, hw>>] = 0
      BY DEF InterruptsInit
    <2> QED BY <2>1, <2>2 DEF Alone, Owned
  <1> QED BY <1>5, <1>6, <1>7 DEF HandlerInv

-----------------------------------------------------------------------------
\* An install notes that the layer tried, and that the interrupt is no longer its alone
\* when somebody else uses it.
LEMMA InstallsAlone ==
  ASSUME HandlerInv, NEW l \in Layers, NEW hw \in HwIrqs, Installs(l, hw)
  PROVE  /\ tried' = tried \cup {<<l, hw>>} /\ handlers' = handlers + 1
         /\ Alone' \subseteq Alone
         /\ hw \in Alone' => /\ \A v \in Virqs : virq[v].hw = hw => virq[v].handler = 0
                             /\ \A m \in Layers : <<m, hw>> \in tried => m = l
                             /\ \A m \in Layers : installed[<<m, hw>>] = 0
         /\ HistoryTyped' \/ installed' \notin [Layers \X HwIrqs -> Nat]
  <1>1. /\ tried' = tried \cup {<<l, hw>>} /\ handlers' = handlers + 1
        /\ shared' = shared \/ shared' = shared \cup {hw}
    BY DEF Installs
  <1>2. Alone' \subseteq Alone
    BY <1>1 DEF Alone
  <1>3. ASSUME hw \in Alone'
        PROVE  /\ \A v \in Virqs : virq[v].hw = hw => virq[v].handler = 0
               /\ \A m \in Layers : <<m, hw>> \in tried => m = l
    BY <1>3 DEF Installs, Alone
  <1>4. ASSUME hw \in Alone', NEW m \in Layers
        PROVE  installed[<<m, hw>>] = 0
    <2>1. Owned(hw)
      BY <1>2, <1>4 DEF HandlerInv
    <2>2. mapped[hw] # 0 => virq[mapped[hw]].handler = 0
      BY <1>3, <1>4 DEF HandlerInv, MapsRight
    <2> QED BY <2>1, <2>2 DEF Owned, HandlerInv, MapsRight
  <1>5. HistoryTyped' \/ installed' \notin [Layers \X HwIrqs -> Nat]
    BY <1>1 DEF HandlerInv, HistoryTyped
  <1> QED BY <1>1, <1>2, <1>3, <1>4, <1>5

\* What belongs to other interrupts is as it was.
LEMMA OthersOwned ==
  ASSUME HandlerInv, NEW hw \in HwIrqs, NEW o \in HwIrqs, o # hw, Owned(o),
         NEW v \in Virqs, virq[v].by = "free" \/ virq[v].hw = hw \/ virq[v].hw = 0,
         virq'[v].hw \in {hw, 0}, \A w \in Virqs : w # v => virq'[w] = virq[w],
         mapped'[o] = mapped[o],
         \A l \in Layers : installed'[<<l, o>>] = installed[<<l, o>>],
         \A l \in Layers : <<l, o>> \in tried' <=> <<l, o>> \in tried
  PROVE  Owned(o)'
  <1> USE DEF HandlerInv, MapsRight
  <1>1. o # 0
    BY InterruptsAssumption
  <1>2. virq[v].hw # o
    BY <1>1 DEF FreeVirq
  <1>3. \A w \in Virqs : w # v => virq'[w] = virq[w]
    OBVIOUS
  <1>4. virq'[v].hw # o
    BY <1>1
  <1>5. mapped[o] # v
    <2>1. v # 0
      BY DEF Virqs
    <2> QED BY <1>2, <2>1
  <1>6. \A w \in Virqs : virq[w].hw = o /\ virq[w].handler # 0 => virq[w].by \in Layers
    <2>1. \A w \in Virqs : virq[w].hw = o /\ virq[w].handler # 0 => <<virq[w].by, o>> \in tried
      BY DEF Owned
    <2>2. tried \subseteq Layers \X HwIrqs
      BY DEF HistoryTyped
    <2> QED BY <2>1, <2>2
  <1>7. \A l \in Layers : installed'[<<l, o>>] # 0 =>
          <<l, o>> \in tried' /\ mapped'[o] # 0 /\ virq'[mapped'[o]].handler = installed'[<<l, o>>]
    BY <1>3, <1>5 DEF Owned
  <1>8. \A w \in Virqs : virq'[w].hw = o /\ virq'[w].handler # 0 =>
          w = mapped'[o] /\ <<virq'[w].by, o>> \in tried' /\ installed'[<<virq'[w].by, o>>] # 0
    BY <1>3, <1>4, <1>6 DEF Owned
  <1>9. \A l, m \in Layers : <<l, o>> \in tried' /\ <<m, o>> \in tried' => l = m
    BY DEF Owned
  <1> QED BY <1>7, <1>8, <1>9 DEF Owned

LEMMA HandlerInstall ==
  ASSUME HandlerInv, NEW l \in Layers, NEW hw \in HwIrqs, Install(l, hw)
  PROVE  HandlerInv'
  <1> DEFINE v == VirqFor(hw)
             d == IF virq[v].by = "free" THEN Descriptor(hw, "", 0) ELSE virq[v]
  <1>0. v # 0 /\ Installs(l, hw) /\ mapped' = [mapped EXCEPT ![hw] = v]
    BY DEF Install
  <1>1. /\ v \in Virqs /\ v # MsiVirq
        /\ virq[v].by = "free" \/ (v = mapped[hw] /\ virq[v].hw = hw)
        /\ \A o \in HwIrqs : mapped[o] = v => o = hw
    BY <1>0, OwnVirq DEF HandlerInv
  <1>2. d \in Linux /\ d.hw = hw /\ d.by # "free"
    BY <1>1 DEF HandlerInv, MapsRight, Linux, Descriptor
  <1>3. PICK e \in Linux :
          /\ virq' = [virq EXCEPT ![v] = e]
          /\ e.hw = hw /\ e.by # "free"
          /\ \/ /\ d.handler = 0 /\ e.by = l /\ e.handler = handlers + 1
                /\ installed' = [installed EXCEPT ![<<l, hw>>] = handlers + 1]
             \/ /\ e = d
                /\ installed' = IF mapped[hw] = v THEN installed
                                ELSE [k \in DOMAIN installed |-> IF k[2] = hw THEN 0 ELSE installed[k]]
    <2> DEFINE r == Descriptor(hw, l, handlers + 1)
    <2>1. handlers + 1 \in Nat
      BY DEF HandlerInv, HistoryTyped
    <2>2. r \in Linux /\ r.hw = hw /\ r.by = l /\ r.handler = handlers + 1
      BY <2>1 DEF Linux, Descriptor
    <2>3. \/ /\ d.handler = 0 /\ virq' = [virq EXCEPT ![v] = r]
             /\ installed' = [installed EXCEPT ![<<l, hw>>] = handlers + 1]
          \/ /\ virq' = [virq EXCEPT ![v] = d]
             /\ installed' = IF mapped[hw] = v THEN installed
                             ELSE [k \in DOMAIN installed |-> IF k[2] = hw THEN 0 ELSE installed[k]]
      BY DEF Install
    <2> HIDE DEF r
    <2> HIDE DEF d
    <2>4. l # "free"
      BY InterruptsAssumption
    <2> QED BY <1>2, <2>2, <2>3, <2>4
  <1> HIDE DEF v, d
  <1>4. installed' \in [Layers \X HwIrqs -> Nat]
    BY <1>3 DEF HandlerInv, HistoryTyped
  <1>5. HistoryTyped'
    BY <1>0, <1>4, InstallsAlone
  <1>6. MapsRight'
    BY <1>0, <1>1, <1>3, InterruptsAssumption DEF HandlerInv, MapsRight
  <1>7. ASSUME NEW o \in Alone', o # hw PROVE Owned(o)'
    <2>1. o \in Alone /\ tried' = tried \cup {<<l, hw>>} /\ o \in HwIrqs
      BY <1>0, <1>7, InstallsAlone DEF Alone
    <2>2. \A m \in Layers : installed'[<<m, o>>] = installed[<<m, o>>]
      BY <1>3, <1>7, <2>1 DEF HandlerInv, HistoryTyped
    <2>3. mapped'[o] = mapped[o]
      BY <1>0, <1>7, <2>1 DEF HandlerInv, MapsRight
    <2>4. Owned(o)
      BY <2>1 DEF HandlerInv
    <2>5. \A m \in Layers : <<m, o>> \in tried' <=> <<m, o>> \in tried
      BY <1>7, <2>1
    <2>6. virq[v].by = "free" \/ virq[v].hw = hw \/ virq[v].hw = 0
      BY <1>1
    <2>7. virq'[v].hw \in {hw, 0} /\ \A w \in Virqs : w # v => virq'[w] = virq[w]
      BY <1>1, <1>3 DEF HandlerInv, MapsRight
    <2>8. v \in Virqs /\ o \in HwIrqs /\ o # hw
      BY <1>1, <1>7, <2>1
    <2> QED BY <2>2, <2>3, <2>4, <2>5, <2>6, <2>7, <2>8, OthersOwned
  <1>8. ASSUME hw \in Alone' PROVE Owned(hw)'
    <2>1. /\ tried' = tried \cup {<<l, hw>>} /\ handlers' = handlers + 1
          /\ \A w \in Virqs : virq[w].hw = hw => virq[w].handler = 0
          /\ \A m \in Layers : <<m, hw>> \in tried => m = l
          /\ \A m \in Layers : installed[<<m, hw>>] = 0
      BY <1>0, <1>8, InstallsAlone
    <2>2. mapped'[hw] = v /\ v # 0 /\ virq'[v] = e
      BY <1>0, <1>1, <1>3 DEF HandlerInv, MapsRight
    <2>3. \A w \in Virqs : w # v /\ virq'[w].hw = hw => virq'[w].handler = 0
      BY <1>1, <1>3, <2>1 DEF HandlerInv, MapsRight
    <2>4. \A m, n \in Layers : <<m, hw>> \in tried' /\ <<n, hw>> \in tried' => m = n
      BY <2>1
    <2>5. CASE /\ e.by = l /\ e.handler = handlers + 1
               /\ installed' = [installed EXCEPT ![<<l, hw>>] = handlers + 1]
      <3>1. \A m \in Layers : installed'[<<m, hw>>] = IF m = l THEN handlers + 1 ELSE 0
        BY <2>1, <2>5 DEF HandlerInv, HistoryTyped
      <3>2. handlers + 1 # 0 /\ <<l, hw>> \in tried'
        BY <2>1 DEF HandlerInv, HistoryTyped
      <3> QED BY <2>2, <2>3, <2>4, <2>5, <3>1, <3>2 DEF Owned
    <2>6. CASE /\ e = d
               /\ installed' = IF mapped[hw] = v THEN installed
                               ELSE [k \in DOMAIN installed |-> IF k[2] = hw THEN 0 ELSE installed[k]]
      <3>1. \A m \in Layers : installed'[<<m, hw>>] = 0
        BY <2>1, <2>6 DEF HandlerInv, HistoryTyped
      <3>2. d.handler = 0
        BY <1>1, <2>1 DEF d, Descriptor
      <3> QED BY <2>2, <2>3, <2>4, <2>6, <3>1, <3>2 DEF Owned
    <2> QED BY <1>3, <2>5, <2>6
  <1>9. \A o \in Alone' : Owned(o)'
    BY <1>7, <1>8
  <1> QED BY <1>5, <1>6, <1>9 DEF HandlerInv

LEMMA HandlerInstallFails ==
  ASSUME HandlerInv, NEW l \in Layers, NEW hw \in HwIrqs, InstallFails(l, hw)
  PROVE  HandlerInv'
  <1>1. Installs(l, hw) /\ UNCHANGED <<mapped, virq, installed>>
    BY DEF InstallFails
  <1>2. HistoryTyped'
    BY <1>1, InstallsAlone DEF HandlerInv, HistoryTyped
  <1>3. MapsRight'
    BY <1>1 DEF HandlerInv, MapsRight
  <1>4. ASSUME NEW o \in Alone' PROVE Owned(o)'
    <2>1. o \in Alone /\ tried' = tried \cup {<<l, hw>>} /\ Owned(o)
      BY <1>1, <1>4, InstallsAlone DEF HandlerInv
    <2>2. o = hw => \A m \in Layers : <<m, hw>> \in tried => m = l
      BY <1>1, <1>4, InstallsAlone
    <2> QED BY <1>1, <2>1, <2>2 DEF Owned
  <1> QED BY <1>2, <1>3, <1>4 DEF HandlerInv

\* An interrupt that is freed: whoever's virq it was, no handler of its user is left.
LEMMA HandlerFree ==
  ASSUME HandlerInv, NEW l \in Layers, NEW hw \in HwIrqs, FreeMapped(l, hw) \/ FreeUnowned(l, hw)
  PROVE  HandlerInv'
  <1> DEFINE v == CreateMapping(hw)
  <1>0. /\ v # 0 /\ <<l, hw>> \in tried /\ tried' = tried \ {<<l, hw>>}
        /\ mapped' = [mapped EXCEPT ![hw] = 0]
        /\ installed' = [installed EXCEPT ![<<l, hw>>] = 0]
        /\ UNCHANGED <<shared, handlers>>
    BY DEF FreeMapped, FreeUnowned, Frees
  <1>1. /\ v \in Virqs /\ v # MsiVirq
        /\ virq[v].by = "free" \/ (v = mapped[hw] /\ virq[v].hw = hw)
        /\ mapped[hw] # 0 => v = mapped[hw]
        /\ \A o \in HwIrqs : mapped[o] = v => o = hw
    BY <1>0, OwnVirq DEF HandlerInv
  <1>2. \/ virq' = [virq EXCEPT ![v] = FreeVirq]
        \/ virq' = virq /\ virq[v].by \notin {l, "", "free"}
    BY DEF FreeMapped, FreeUnowned, DevId
  <1> HIDE DEF v
  <1>3. PICK d \in Linux : /\ virq' = [virq EXCEPT ![v] = d] /\ d.hw \in {hw, 0}
                           /\ d = FreeVirq \/ (d = virq[v] /\ virq[v].by \notin {l, "", "free"})
    <2>1. FreeVirq \in Linux /\ FreeVirq.hw = 0
      BY FreeDescriptor
    <2>2. virq[v] \in Linux /\ virq[v].hw \in {hw, 0}
      BY <1>1 DEF HandlerInv, MapsRight, FreeVirq
    <2>3. virq = [virq EXCEPT ![v] = virq[v]]
      BY <1>1 DEF HandlerInv, MapsRight
    <2> QED BY <1>2, <2>1, <2>2, <2>3
  <1>4. HistoryTyped'
    BY <1>0 DEF HandlerInv, HistoryTyped
  <1>5. MapsRight'
    <2> USE DEF HandlerInv, MapsRight
    <2>1. mapped' \in [HwIrqs -> Virqs \cup {0}] /\ virq' \in [Virqs -> Linux]
      BY <1>0, <1>1, <1>3
    <2>2. \A w \in Virqs : virq'[w].by = "free" => virq'[w].hw = 0 /\ virq'[w].handler = 0
      <3>1. d.by = "free" => d.hw = 0 /\ d.handler = 0
        BY <1>1, <1>3, FreeDescriptor
      <3>2. \A w \in Virqs : virq'[w] = IF w = v THEN d ELSE virq[w]
        BY <1>3
      <3> QED BY <3>1, <3>2
    <2>3. \A o \in HwIrqs : mapped'[o] # 0 =>
            virq'[mapped'[o]].by # "free" /\ virq'[mapped'[o]].hw = o
      BY <1>0, <1>1, <1>3
    <2>4. virq'[MsiVirq] = virq[MsiVirq]
      BY <1>1, <1>3
    <2> QED BY <2>1, <2>2, <2>3, <2>4
  <1>6. ASSUME NEW o \in Alone', o # hw PROVE Owned(o)'
    <2>1. o \in Alone /\ o \in HwIrqs /\ Owned(o)
      BY <1>0, <1>6 DEF Alone, HandlerInv
    <2>2. /\ \A m \in Layers : installed'[<<m, o>>] = installed[<<m, o>>]
          /\ \A m \in Layers : <<m, o>> \in tried' <=> <<m, o>> \in tried
      BY <1>0, <1>6, <2>1 DEF HandlerInv, HistoryTyped
    <2>3. mapped'[o] = mapped[o]
      BY <1>0, <1>6, <2>1 DEF HandlerInv, MapsRight
    <2>4. virq[v].by = "free" \/ virq[v].hw = hw \/ virq[v].hw = 0
      BY <1>1
    <2>5. virq'[v].hw \in {hw, 0} /\ \A w \in Virqs : w # v => virq'[w] = virq[w]
      BY <1>1, <1>3 DEF HandlerInv, MapsRight
    <2>6. v \in Virqs /\ o \in HwIrqs /\ o # hw
      BY <1>1, <1>6, <2>1
    <2> QED BY <2>1, <2>2, <2>3, <2>4, <2>5, <2>6, OthersOwned
  <1>7. ASSUME hw \in Alone' PROVE Owned(hw)'
    <2>1. Owned(hw)
      BY <1>0, <1>7 DEF Alone, HandlerInv
    <2>2. \A m \in Layers : <<m, hw>> \notin tried'
      BY <1>0, <2>1 DEF Owned
    <2>3. \A m \in Layers : installed'[<<m, hw>>] = 0
      BY <1>0, <2>1 DEF Owned, HandlerInv, HistoryTyped
    <2>4. \A w \in Virqs : virq[w].hw = hw /\ virq[w].handler # 0 => w = v /\ virq[w].by = l
      <3>1. ASSUME NEW w \in Virqs, virq[w].hw = hw, virq[w].handler # 0
            PROVE  w = v /\ virq[w].by = l
        <4>1. w = mapped[hw] /\ <<virq[w].by, hw>> \in tried
          BY <2>1, <3>1 DEF Owned
        <4>2. virq[w].by \in Layers
          BY <4>1 DEF HandlerInv, HistoryTyped
        <4>3. w # 0
          BY DEF Virqs
        <4> QED BY <1>0, <1>1, <2>1, <4>1, <4>2, <4>3 DEF Owned
      <3> QED BY <3>1
    <2>5. \A w \in Virqs : virq'[w].hw = hw => virq'[w].handler = 0
      <3>1. d.hw = hw => d.handler = 0
        BY <1>1, <1>3, <2>4, FreeDescriptor
      <3>2. \A w \in Virqs : virq'[w] = IF w = v THEN d ELSE virq[w]
        BY <1>3 DEF HandlerInv, MapsRight
      <3> QED BY <2>4, <3>1, <3>2
    <2> QED BY <2>2, <2>3, <2>5 DEF Owned
  <1>8. \A o \in Alone' : Owned(o)'
    BY <1>6, <1>7
  <1> QED BY <1>4, <1>5, <1>8 DEF HandlerInv

\* The device's message is no interrupt of the domain.
LEMMA HandlerMessage ==
  ASSUME HandlerInv, RequestIrq \/ FreeIrq
  PROVE  HandlerInv'
  <1>1. /\ UNCHANGED <<mapped, installed, tried, shared>>
        /\ handlers' = handlers \/ handlers' = handlers + 1
    BY DEF RequestIrq, FreeIrq
  <1>2. PICK d \in Linux : virq' = [virq EXCEPT ![MsiVirq] = d] /\ d.hw = 0 /\ d.by # "free"
    <2>1. handlers + 1 \in Nat
      BY DEF HandlerInv, HistoryTyped
    <2>2. PICK b \in {"bsa", ""}, n \in Nat : virq' = [virq EXCEPT ![MsiVirq] = Descriptor(0, b, n)]
      BY <2>1 DEF RequestIrq, FreeIrq
    <2>3. b \in Layers \cup {"", "kernel", "free"} /\ b # "free"
      BY InterruptsAssumption
    <2> DEFINE e == Descriptor(0, b, n)
    <2>4. e \in Linux /\ e.hw = 0 /\ e.by # "free"
      BY <2>3 DEF Linux, Descriptor
    <2>5. virq' = [virq EXCEPT ![MsiVirq] = e]
      BY <2>2
    <2> HIDE DEF e
    <2> QED BY <2>4, <2>5
  <1>3. MapsRight'
    BY <1>1, <1>2, InterruptsAssumption DEF HandlerInv, MapsRight
  <1>4. HistoryTyped'
    BY <1>1 DEF HandlerInv, HistoryTyped
  <1>5. ASSUME NEW o \in Alone' PROVE Owned(o)'
    <2>1. o \in Alone /\ o \in HwIrqs /\ o # 0 /\ Owned(o)
      BY <1>1, <1>5, InterruptsAssumption DEF Alone, HandlerInv
    <2>2. \A w \in Virqs : virq'[w] = IF w = MsiVirq THEN d ELSE virq[w]
      BY <1>2 DEF HandlerInv, MapsRight
    <2>3. mapped[o] # MsiVirq
      BY <2>1 DEF HandlerInv, MapsRight, MsiVirq
    <2>4. mapped[o] \in Virqs \cup {0}
      BY <2>1 DEF HandlerInv, MapsRight
    <2> QED BY <1>1, <1>2, <2>1, <2>2, <2>3, <2>4 DEF Owned
  <1> QED BY <1>3, <1>4, <1>5 DEF HandlerInv

LEMMA HandlerNext == HandlerInv /\ [InterruptsNext]_interruptsVars => HandlerInv'
  <1> SUFFICES ASSUME HandlerInv, [InterruptsNext]_interruptsVars PROVE HandlerInv'
    OBVIOUS
  <1>0. "bsa" \in Layers /\ "sdei" \in Layers /\ "ffa" \in Layers
    BY InterruptsAssumption
  <1>1. ASSUME NEW hw \in HwIrqs, InstallIsr(hw) \/ InstallSdei(hw) \/ RegisterHandler(hw)
        PROVE  HandlerInv'
    BY <1>0, <1>1, HandlerInstall DEF InstallIsr, InstallSdei, RegisterHandler
  <1>2. ASSUME NEW hw \in HwIrqs, FreeInterrupt(hw) \/ UnregisterHandler(hw)
        PROVE  HandlerInv'
    BY <1>0, <1>2, HandlerFree DEF FreeInterrupt, UnregisterHandler
  <1>3. ASSUME NEW hw \in HwIrqs, NEW l \in Layers, InstallFails(l, hw)
        PROVE  HandlerInv'
    BY <1>3, HandlerInstallFails
  <1>4. CASE RequestIrq \/ FreeIrq
    BY <1>4, HandlerMessage
  <1>5. CASE UNCHANGED interruptsVars
    BY <1>5 DEF interruptsVars, HandlerInv, MapsRight, HistoryTyped, Alone, Owned
  <1> QED BY <1>1, <1>2, <1>3, <1>4, <1>5 DEF InterruptsNext

\* As long as an interrupt has one user at a time, the handler it installed last is the
\* one called, and none is once it was freed (SDEI pal_gic.c:145-213, pal_irq.c:56-124).
THEOREM LastHandlerCalled == InterruptsSpec => []HandlerCalled
  <1>1. HandlerInv => HandlerCalled
    <2> SUFFICES ASSUME HandlerInv, NEW hw \in Alone
                 PROVE  /\ \A l \in Layers : installed[<<l, hw>>] # 0 =>
                             mapped[hw] # 0 /\ virq[mapped[hw]].handler = installed[<<l, hw>>]
                        /\ (\A l \in Layers : installed[<<l, hw>>] = 0) =>
                             \A v \in Virqs : virq[v].hw = hw => virq[v].handler = 0
      BY DEF HandlerCalled, Alone
    <2>1. Owned(hw)
      BY DEF HandlerInv
    <2>2. \A v \in Virqs : <<virq[v].by, hw>> \in tried => virq[v].by \in Layers
      BY DEF HandlerInv, HistoryTyped
    <2> QED BY <2>1, <2>2 DEF Owned
  <1> QED BY <1>1, HandlerInit, HandlerNext, PTL DEF InterruptsSpec

-----------------------------------------------------------------------------
(***************************************************************************)
(* The transfers of the test engine.  The engine finds a command only in   *)
(* the frame the driver waits for, whose other registers are all written,  *)
(* until the driver gives up; the frames before it are copied.             *)
(***************************************************************************)

\* A set of natural numbers that is not empty has a least member.
LEMMA LeastMember ==
  ASSUME NEW S, S \subseteq Nat, S # {}
  PROVE  \E d \in S : \A e \in S : d <= e
  <1>1. PICK d \in S : \A e \in S : ~ (<<e, d>> \in OpToRel(<, Nat))
    BY NatLessThanWellFounded, WFMin
  <1>2. \A e \in S : ~ (e < d)
    BY <1>1 DEF OpToRel
  <1> QED BY <1>2

\* A set with one more member has twice as many subsets.
LEMMA TwiceAsMany ==
  ASSUME NEW n \in Nat
  PROVE  2 ^ n \in Nat /\ 2 ^ (n + 1) = 2 ^ n + 2 ^ n
<1> DEFINE S == 1 .. n
           T == {s \cup {n + 1} : s \in SUBSET S}
           f == [s \in SUBSET S |-> s \cup {n + 1}]
<1>1. /\ IsFiniteSet(S) /\ Cardinality(S) = n /\ IsFiniteSet(1 .. n + 1) /\ Cardinality(1 .. n + 1) = n + 1
      /\ n + 1 \notin S /\ 1 .. n + 1 = S \cup {n + 1}
  <2>1. IsFiniteSet(1 .. n) /\ Cardinality(1 .. n) = n
    BY FS_Interval
  <2>2. IsFiniteSet(1 .. n + 1) /\ Cardinality(1 .. n + 1) = n + 1
    BY FS_Interval
  <2> QED
    BY <2>1, <2>2
<1>2. /\ IsFiniteSet(SUBSET S) /\ Cardinality(SUBSET S) = 2 ^ n
      /\ Cardinality(SUBSET (1 .. n + 1)) = 2 ^ (n + 1)
  <2> HIDE DEF S
  <2> QED
    BY <1>1, FS_SUBSET
<1> HIDE DEF S
<1>3. SUBSET (1 .. n + 1) = (SUBSET S) \cup T
  <2>1. ASSUME NEW s \in SUBSET (1 .. n + 1), n + 1 \in s PROVE s \in T
    <3>1. s \ {n + 1} \in SUBSET S /\ s = (s \ {n + 1}) \cup {n + 1}
      BY <1>1, <2>1
    <3> QED
      BY <3>1
  <2>2. ASSUME NEW s \in SUBSET (1 .. n + 1), n + 1 \notin s PROVE s \in SUBSET S
    BY <1>1, <2>2
  <2>3. ASSUME NEW s \in T PROVE s \in SUBSET (1 .. n + 1)
    <3>1. PICK r \in SUBSET S : s = r \cup {n + 1}
      BY <2>3
    <3> QED
      BY <1>1, <3>1
  <2>4. SUBSET S \subseteq SUBSET (1 .. n + 1)
    BY <1>1
  <2> DEFINE P == SUBSET (1 .. n + 1)
             Q == SUBSET S
  <2>5. (\A s \in P : s \in T \/ s \in Q) /\ (\A s \in T : s \in P) /\ Q \subseteq P
    BY <2>1, <2>2, <2>3, <2>4
  <2> HIDE DEF T, P, Q
  <2>6. P = Q \cup T
    BY <2>5
  <2> QED
    BY <2>6 DEF P, Q
<1>4. (SUBSET S) \cap T = {}
  <2>1. ASSUME NEW s \in T PROVE s \notin SUBSET S
    <3>1. n + 1 \in s
      BY <2>1
    <3> QED
      BY <1>1, <3>1
  <2> DEFINE Q == SUBSET S
  <2>2. \A s \in T : s \notin Q
    BY <2>1
  <2> HIDE DEF T, Q
  <2>3. Q \cap T = {}
    BY <2>2
  <2> QED
    BY <2>3 DEF Q
<1>5. f \in Bijection(SUBSET S, T)
  <2>1. \A s, t \in SUBSET S : s \cup {n + 1} = t \cup {n + 1} => s = t
    BY <1>1
  <2>2. f \in [SUBSET S -> T] /\ \A s \in SUBSET S : f[s] = s \cup {n + 1}
    OBVIOUS
  <2>3. \A t \in T : \E s \in SUBSET S : f[s] = t
    BY <2>2
  <2> HIDE DEF f, T
  <2>4. \A s, t \in SUBSET S : f[s] = f[t] => s = t
    BY <2>1, <2>2
  <2> QED
    BY <2>2, <2>3, <2>4 DEF Bijection, Injection, Surjection, IsInjective
<1>6. IsFiniteSet(T) /\ Cardinality(T) = Cardinality(SUBSET S)
  <2>1. ExistsBijection(SUBSET S, T)
    BY <1>5 DEF ExistsBijection
  <2> HIDE DEF T
  <2> QED
    BY <1>2, <2>1, FS_Bijection
<1>7. Cardinality(SUBSET S) \in Nat
  BY <1>2, FS_CardinalityType
<1> HIDE DEF T
<1>8. Cardinality((SUBSET S) \cup T) = Cardinality(SUBSET S) + Cardinality(T) - Cardinality({})
  BY <1>2, <1>4, <1>6, FS_Union
<1>9. Cardinality({}) = 0
  BY FS_EmptySet
<1>10. 2 ^ (n + 1) = Cardinality((SUBSET S) \cup T)
  BY <1>2, <1>3
<1> DEFINE c == Cardinality(SUBSET S)
<1>11. 2 ^ n = c /\ 2 ^ (n + 1) = c + c - 0 /\ c \in Nat
  BY <1>2, <1>6, <1>7, <1>8, <1>9, <1>10
<1> HIDE DEF c
<1>12. c + c - 0 = c + c
  BY <1>11
<1> QED
  BY <1>11, <1>12

\* The allocation rounds down, and still has room for every page but for three and five.
LEMMA HasRoom ==
  ASSUME NEW s \in Nat, PagesOf(s) \notin {3, 5}
  PROVE  PagesOf(s) <= Capacity(s)
<1> DEFINE Small == {m \in Nat : m >= 3 /\ ~(2 ^ m >= 2 * m + 2)}
<1>0. 2 ^ 0 = 1 /\ 2 ^ 1 = 2 /\ 2 ^ 2 = 4 /\ 2 ^ 3 = 8
  OBVIOUS
<1>1. \A m \in Nat : 2 ^ m \in Nat /\ 2 ^ (m + 1) = 2 ^ m + 2 ^ m
  BY TwiceAsMany
<1>2. Small = {}
  <2> SUFFICES ASSUME Small # {} PROVE FALSE
    OBVIOUS
  <2>0. Small \subseteq Nat
    OBVIOUS
  <2>1. PICK m \in Small : \A k \in Small : m <= k
    <3> HIDE DEF Small
    <3> QED
      BY <2>0, LeastMember
  <2>2. m # 3
    <3>1. m = 3 => 2 ^ m = 2 ^ 3
      BY Zenon
    <3>2. m = 3 => 2 ^ m >= 2 * m + 2
      BY <1>0, <3>1
    <3> QED
      BY <2>1, <3>2
  <2>3. m - 1 \in Nat /\ m - 1 >= 3 /\ (m - 1) + 1 = m /\ ~(m <= m - 1)
    BY <2>1, <2>2
  <2>4. 2 ^ (m - 1) >= 2 * (m - 1) + 2
    BY <2>1, <2>3
  <2>5. 2 ^ m = 2 ^ (m - 1) + 2 ^ (m - 1) /\ 2 ^ (m - 1) \in Nat
    BY <1>1, <2>3
  <2> QED
    BY <2>1, <2>3, <2>4, <2>5
<1> DEFINE p == PagesOf(s)
           m == p \div 2
<1>3. p \in Nat /\ m \in Nat /\ (p = 2 * m \/ p = 2 * m + 1)
  BY DEF PagesOf
<1>4. Capacity(s) = 2 ^ m
  BY DEF Capacity, Order
<1> HIDE DEF p, m
<1>5. CASE m >= 3
  <2>1. 2 ^ m >= 2 * m + 2 /\ 2 ^ m \in Nat
    BY <1>1, <1>2, <1>3, <1>5
  <2> QED
    BY <1>3, <1>4, <2>1 DEF p
<1>6. CASE m \in {0, 1, 2}
  <2>1. 2 ^ m = IF m = 0 THEN 2 ^ 0 ELSE IF m = 1 THEN 2 ^ 1 ELSE 2 ^ 2
    BY <1>6, Zenon
  <2>2. p \notin {3, 5}
    BY DEF p
  <2>3. p <= 2 ^ m
    BY <1>0, <1>3, <1>6, <2>1, <2>2
  <2> QED
    BY <1>4, <2>3 DEF p
<1> QED
  BY <1>3, <1>5, <1>6

\* The bytes of register addr hold the value v.
Holds(r, addr, bytes, v) ==
  \A k \in 0 .. bytes - 1 : addr + k \in DOMAIN r /\ r[addr + k] = <<v, k>>
Cmd(i, v) == Holds(regs, User(i, CMD), 4, v)

\* Frame i is told what to copy, as far as its registers are written.
Past(n) == n <= 11 - Len(writes)
Told(i) ==
  /\ tpc = "poll" \/ Past(7) => Holds(regs, User(i, BEGIN), 8, i)
  /\ tpc = "poll" \/ Past(8) => Holds(regs, User(i, END_CTRL), 8, i)
  /\ tpc = "poll" \/ Past(9) => Holds(regs, User(i, STRIDE), 4, 1)
  /\ tpc = "poll" \/ Past(10) => Holds(regs, User(i, UDATA), 8, i)

Copied(i) == Cmd(i, ENGINE_HALTED) /\ (i \in DOMAIN dest => dest[i] = contents[i])
\* No command is written to a frame yet to come.
Quiet ==
  \A b \in DOMAIN regs : b \in Nat /\ (b >= F_IDX(frame + 1) => regs[b][1] # ENGINE_MEMCPY)
Silent == F_IDX(frame) \in DOMAIN regs => regs[F_IDX(frame)][1] # ENGINE_MEMCPY

Working == {"write", "poll", "compare"}
Verdicts == {"success", "mismatch"}
Allocated ==
  /\ DOMAIN dest = 0 .. Capacity(size) - 1
  /\ \A k \in 0 .. PagesOf(size) : Page(k) = contents[k]
TransferTyped ==
  /\ size \in Nat /\ frame \in Nat
  /\ tpc \in {"idle", "end", "configure", "error", "timeout"} \cup Working \cup Verdicts
  /\ tpc = "idle" => ~astray
  /\ tpc \in {"idle", "end", "configure"} => regs = <<>> /\ frame = 0
  /\ tpc \in {"configure"} \cup Working \cup Verdicts => Allocated
  /\ tpc \in Working \cup Verdicts => frame < NumFrames(size)
  /\ tpc \in {"compare"} \cup Verdicts => frame + 1 >= NumFrames(size)
  /\ buffer = "freed" => tpc \in {"error", "timeout"} \cup Verdicts

Writing ==
  /\ writes \in Seq(Int \X Int \X Int) /\ Len(writes) \in 1 .. 11
  /\ \A k \in 1 .. Len(writes) : writes[k] = Programming(frame)[11 - Len(writes) + k]
  /\ Told(frame) /\ Quiet /\ Silent
Polling ==
  /\ Told(frame) /\ Quiet
  /\ Cmd(frame, ENGINE_MEMCPY) \/ Cmd(frame, ENGINE_ERROR) \/ Copied(frame)

TransferInv ==
  /\ TransferTyped
  /\ tpc \in Working \cup Verdicts => \A i \in 0 .. frame - 1 : Copied(i)
  /\ tpc = "write" => Writing
  /\ tpc = "poll" => Polling
  /\ tpc \in {"compare"} \cup Verdicts => Copied(frame)
  /\ tpc = "error" => \A i \in 0 .. frame : MmioRead(regs, 32, User(i, CMD)) # ENGINE_MEMCPY
  /\ TransferSound

LEMMA ReadWhole ==
  ASSUME NEW r, NEW w \in {32, 64}, NEW a \in Nat, w = 32 => a % 4 = 0, NEW v, Holds(r, a, w \div 8, v)
  PROVE  MmioRead(r, w, a) = v
<1>1. (IF w = 32 THEN Aligned4(a) ELSE a) = a
  BY DEF Aligned4
<1>2. w \div 8 \in {4, 8} /\ 0 \in 0 .. w \div 8 - 1 /\ a + 0 = a
  OBVIOUS
<1>3. a \in DOMAIN r /\ r[a] = <<v, 0>>
  BY <1>2 DEF Holds
<1>4. \A k \in 0 .. w \div 8 - 1 : a + k \in DOMAIN r /\ r[a + k] = <<r[a][1], k>>
  BY <1>3 DEF Holds
<1> QED
  BY <1>1, <1>3, <1>4 DEF MmioRead

LEMMA ReadOther ==
  ASSUME NEW r, NEW a \in Nat, a % 4 = 0, a \in DOMAIN r => r[a][1] # ENGINE_MEMCPY
  PROVE  MmioRead(r, 32, a) # ENGINE_MEMCPY
BY DEF MmioRead, Aligned4, Garbage, ENGINE_MEMCPY

LEMMA WriteHolds ==
  ASSUME NEW r, NEW w \in {32, 64}, NEW a \in Nat, NEW v
  PROVE  Holds(MmioWrite(r, w, a, v), a, w \div 8, v)
<1> DEFINE n == w \div 8
           t == MmioWrite(r, w, a, v)
<1>1. n \in {4, 8}
  OBVIOUS
<1>2. (\A b \in a .. a + n - 1 : t[b] = <<v, b - a>>) /\ a .. a + n - 1 \subseteq DOMAIN t
  <2>1. DOMAIN t = DOMAIN r \cup (a .. a + n - 1)
    BY DEF MmioWrite
  <2>2. \A b \in a .. a + n - 1 : t[b] = <<v, b - a>>
    BY DEF MmioWrite
  <2> HIDE DEF t, n
  <2> QED
    BY <2>1, <2>2
<1>3. \A k \in 0 .. n - 1 : a + k \in a .. a + n - 1 /\ (a + k) - a = k
  BY <1>1
<1> HIDE DEF t, n
<1>4. \A k \in 0 .. n - 1 : a + k \in DOMAIN t /\ t[a + k] = <<v, k>>
  <2>1. ASSUME NEW k \in 0 .. n - 1 PROVE a + k \in DOMAIN t /\ t[a + k] = <<v, k>>
    <3>1. t[a + k] = <<v, (a + k) - a>>
      BY <1>2, <1>3
    <3> QED
      BY <1>2, <1>3, <3>1
  <2> QED
    BY <2>1
<1> QED
  BY <1>4 DEF Holds, t, n

LEMMA WriteKeeps ==
  ASSUME NEW r, NEW w \in {32, 64}, NEW a \in Nat, NEW v,
         NEW b \in Nat, NEW n \in Nat, NEW u, Holds(r, b, n, u),
         b + n <= a \/ a + w \div 8 <= b
  PROVE  Holds(MmioWrite(r, w, a, v), b, n, u)
<1> DEFINE t == MmioWrite(r, w, a, v)
           to == a .. a + w \div 8 - 1
<1>1. \A k \in 0 .. n - 1 : b + k \notin to
  OBVIOUS
<1>2. DOMAIN t = DOMAIN r \cup to
  BY DEF MmioWrite
<1>3. \A c \in DOMAIN r : c \notin to => t[c] = r[c]
  BY DEF MmioWrite
<1> HIDE DEF t, to
<1>4. Holds(t, b, n, u)
  BY <1>1, <1>2, <1>3 DEF Holds
<1> QED
  BY <1>4 DEF t

LEMMA FramesApart ==
  ASSUME NEW f \in Nat
  PROVE  /\ F_IDX(f) \in Nat /\ F_IDX(f) % 4 = 0 /\ User(f, CMD) = F_IDX(f) /\ User(f, CMD) \in Nat
         /\ F_IDX(f + 1) = F_IDX(f) + 128
         /\ \A i \in 0 .. f - 1 : User(i, CMD) \in Nat /\ User(i, CMD) + 4 <= F_IDX(f)
BY DEF F_IDX, User, U_FRAME_BASE, CMD

\* What is written to a frame, in its order.
LEMMA TheWrites ==
  ASSUME NEW f \in Nat
  PROVE  /\ Len(Programming(f)) = 11 /\ Programming(f) \in Seq(Int \X Int \X Int)
         /\ \A q \in 1 .. 11 :
              LET e == Programming(f)[q]
              IN /\ e[1] \in {32, 64} /\ e[2] \in Nat
                 /\ q <= 4 => e[2] >= F_IDX(f + 1) /\ e[3] # ENGINE_MEMCPY
                 /\ q \in 5 .. 10 => e[2] >= F_IDX(f) + 4 /\ e[2] + e[1] \div 8 <= F_IDX(f + 1)
                 /\ q = 8 => e[2] >= F_IDX(f) + 48
                 /\ q = 9 => e[2] >= F_IDX(f) + 56
                 /\ q = 10 => e[2] >= F_IDX(f) + 64
         /\ Programming(f)[7] = <<64, User(f, BEGIN), f>>
         /\ Programming(f)[8] = <<64, User(f, END_CTRL), f>>
         /\ Programming(f)[9] = <<32, User(f, STRIDE), 1>>
         /\ Programming(f)[10] = <<64, User(f, UDATA), f>>
         /\ Programming(f)[11] = <<32, User(f, CMD), ENGINE_MEMCPY>>
<1> USE DEF User, Privileged, U_FRAME_BASE, P_FRAME_BASE, F_IDX, CMD, UCTRL, SEED, BEGIN, END_CTRL,
            STRIDE, UDATA, StreamId, NO_SUBSTREAMID, ENGINE_MEMCPY
<1> DEFINE p == Programming(f)
<1>1. /\ p[1] = <<32, 65536 + f * 128 + 0, 1>> /\ p[2] = <<32, 65536 + f * 128 + 4, 0>>
      /\ p[3] = <<32, 65536 + f * 128 + 8, 7>> /\ p[4] = <<32, 65536 + f * 128 + 12, 65535>>
      /\ p[5] = <<32, 0 + f * 128 + 4, 0>> /\ p[6] = <<32, 0 + f * 128 + 36, 0>>
      /\ p[7] = <<64, 0 + f * 128 + 40, f>> /\ p[8] = <<64, 0 + f * 128 + 48, f>>
      /\ p[9] = <<32, 0 + f * 128 + 56, 1>> /\ p[10] = <<64, 0 + f * 128 + 64, f>>
      /\ p[11] = <<32, 0 + f * 128 + 0, 2>>
  BY DEF Programming
<1>2. Len(p) = 11 /\ p \in Seq(Int \X Int \X Int)
  BY DEF Programming
<1> HIDE DEF p
<1>3. f * 128 \in Nat /\ (f + 1) * 128 = f * 128 + 128
  OBVIOUS
<1>4. \A q \in 1 .. 11 : q = 1 \/ q = 2 \/ q = 3 \/ q = 4 \/ q = 5 \/ q = 6 \/ q = 7 \/ q = 8
                         \/ q = 9 \/ q = 10 \/ q = 11
  OBVIOUS
<1>5. ASSUME NEW q \in 1 .. 4
      PROVE  p[q][1] = 32 /\ p[q][2] \in Nat /\ p[q][2] >= F_IDX(f + 1) /\ p[q][3] # ENGINE_MEMCPY
  <2>1. q = 1 \/ q = 2 \/ q = 3 \/ q = 4
    BY <1>5
  <2> QED
    BY <1>1, <1>3, <2>1
<1>6. ASSUME NEW q \in 5 .. 10
      PROVE  p[q][1] \in {32, 64} /\ p[q][2] \in Nat /\ p[q][2] >= F_IDX(f) + 4
             /\ p[q][2] + p[q][1] \div 8 <= F_IDX(f + 1)
  <2>1. q = 5 \/ q = 6 \/ q = 7 \/ q = 8 \/ q = 9 \/ q = 10
    BY <1>6
  <2> QED
    BY <1>1, <1>3, <2>1
<1>7. p[11][1] = 32 /\ p[11][2] \in Nat
  BY <1>1, <1>3
<1>8. p[8][2] >= F_IDX(f) + 48 /\ p[9][2] >= F_IDX(f) + 56 /\ p[10][2] >= F_IDX(f) + 64
  BY <1>1, <1>3
<1>9. \A q \in 1 .. 11 : q \in 1 .. 4 \/ q \in 5 .. 10 \/ q = 11
  OBVIOUS
<1>10. \A q \in 1 .. 11 :
              LET e == p[q]
              IN /\ e[1] \in {32, 64} /\ e[2] \in Nat
                 /\ q <= 4 => e[2] >= F_IDX(f + 1) /\ e[3] # ENGINE_MEMCPY
                 /\ q \in 5 .. 10 => e[2] >= F_IDX(f) + 4 /\ e[2] + e[1] \div 8 <= F_IDX(f + 1)
                 /\ q = 8 => e[2] >= F_IDX(f) + 48
                 /\ q = 9 => e[2] >= F_IDX(f) + 56
                 /\ q = 10 => e[2] >= F_IDX(f) + 64
  <2>1. ASSUME NEW q \in 1 .. 11
        PROVE  /\ p[q][1] \in {32, 64} /\ p[q][2] \in Nat
               /\ q <= 4 => p[q][2] >= F_IDX(f + 1) /\ p[q][3] # ENGINE_MEMCPY
               /\ q \in 5 .. 10 => p[q][2] >= F_IDX(f) + 4 /\ p[q][2] + p[q][1] \div 8 <= F_IDX(f + 1)
               /\ q = 8 => p[q][2] >= F_IDX(f) + 48
               /\ q = 9 => p[q][2] >= F_IDX(f) + 56
               /\ q = 10 => p[q][2] >= F_IDX(f) + 64
    <3> HIDE DEF F_IDX
    <3>1. CASE q \in 1 .. 4
      BY <1>5, <3>1
    <3>2. CASE q \in 5 .. 10
      BY <1>6, <1>8, <3>2
    <3>3. CASE q = 11
      BY <1>7, <3>3
    <3> QED
      BY <1>9, <3>1, <3>2, <3>3
  <2> QED
    BY <2>1
<1> QED
  BY <1>1, <1>2, <1>10 DEF p

\* No more frames than pages.
LEMMA FramesArePages ==
  ASSUME NEW s \in Nat
  PROVE  NumFrames(s) \in Nat /\ PagesOf(s) \in Nat /\ NumFrames(s) <= PagesOf(s)
<1>1. UINT32 \in Nat \ {0}
  BY TransferAssumption
<1>2. s % UINT32 \in Nat /\ s % UINT32 <= s
  <2>1. s % UINT32 \in 0 .. UINT32 - 1
    BY <1>1
  <2>2. s < UINT32 => s % UINT32 = s
    BY <1>1
  <2> QED
    BY <1>1, <2>1, <2>2
<1> QED
  BY <1>2 DEF NumFrames, PagesOf

LEMMA TransferStarts == TransferInit => TransferInv
<1> SUFFICES ASSUME TransferInit PROVE TransferInv
  OBVIOUS
<1>1. tpc = "idle" /\ size = 0 /\ buffer = "none" /\ frame = 0 /\ regs = <<>> /\ ~astray
  BY DEF TransferInit
<1> QED
  BY <1>1 DEF TransferInv, TransferTyped, Working, Verdicts, TransferSound

LEMMA BuffersAllocated == TransferInv /\ AllocBuffers => TransferInv'
<1> SUFFICES ASSUME TransferInv, AllocBuffers PROVE TransferInv'
  OBVIOUS
<1>1. /\ tpc = "idle" /\ ~astray /\ regs = <<>> /\ frame = 0 /\ UNCHANGED <<frame, regs, astray>>
      /\ size' \in Nat /\ tpc' \in {"configure", "end"} /\ buffer' # "freed"
      /\ tpc' = "configure" => dest' = [k \in 0 .. Capacity(size') - 1 |-> "old"]
  BY TransferAssumption DEF AllocBuffers, TransferInv, TransferTyped
<1>2. DOMAIN contents' = 0 .. PagesOf(size')
  BY DEF AllocBuffers
<1>3. tpc' = "configure" => Allocated'
  <2>1. tpc' = "configure" => DOMAIN dest' = 0 .. Capacity(size') - 1
    BY <1>1
  <2> QED
    BY <1>2, <2>1 DEF Allocated, Page
<1>4. TransferTyped'
  BY <1>1, <1>3 DEF TransferTyped, Working, Verdicts
<1> QED
  BY <1>1, <1>4 DEF TransferInv, TransferSound, Working, Verdicts

LEMMA EngineConfigured == TransferInv /\ ConfigureTestengine => TransferInv'
<1> SUFFICES ASSUME TransferInv, ConfigureTestengine PROVE TransferInv'
  OBVIOUS
<1>1. /\ tpc = "configure" /\ regs = <<>> /\ Allocated /\ size \in Nat /\ buffer # "freed"
      /\ UNCHANGED <<size, contents, beyond, buffer, dest, regs, astray>>
      /\ frame' = 0 /\ writes' = Programming(0)
      /\ tpc' = IF NumFrames(size) < 1 THEN "error" ELSE "write"
  BY DEF ConfigureTestengine, TransferInv, TransferTyped, Working, Verdicts
<1>2. NumFrames(size) \in Nat
  BY <1>1, FramesArePages
<1>3. Allocated'
  BY <1>1 DEF Allocated, Page
<1>4. TransferTyped'
  BY <1>1, <1>2, <1>3 DEF TransferTyped, Working, Verdicts
<1>5. TransferSound'
  BY <1>1 DEF TransferInv, TransferSound
<1>6. CASE tpc' = "error"
  <2>1. \A i : MmioRead(regs', 32, User(i, CMD)) # ENGINE_MEMCPY
    BY <1>1 DEF MmioRead, Garbage, ENGINE_MEMCPY
  <2> QED
    BY <1>4, <1>5, <1>6, <2>1 DEF TransferInv, Working, Verdicts
<1>7. CASE tpc' = "write"
  <2>1. Len(writes') = 11 /\ writes' \in Seq(Int \X Int \X Int)
    BY <1>1, TheWrites
  <2>2. \A k \in 1 .. 11 : 11 - 11 + k = k
    OBVIOUS
  <2>3. \A k \in 1 .. Len(writes') : writes'[k] = Programming(0)[11 - Len(writes') + k]
    BY <1>1, <2>1, <2>2
  <2>4. DOMAIN regs' = {}
    BY <1>1
  <2>5. Quiet' /\ Silent'
    BY <2>4 DEF Quiet, Silent
  <2>6. \A n \in {7, 8, 9, 10} : ~Past(n)'
    BY <2>1 DEF Past
  <2>7. Told(frame)'
    BY <1>7, <2>6 DEF Told
  <2>8. Writing'
    BY <1>1, <2>1, <2>3, <2>5, <2>7 DEF Writing
  <2> QED
    BY <1>1, <1>4, <1>5, <1>7, <2>8 DEF TransferInv, Working, Verdicts
<1> QED
  BY <1>1, <1>6, <1>7

\* A frame is done with while later ones are told what to do.
LEMMA CopiedStays ==
  ASSUME NEW f \in Nat, NEW i \in 0 .. f - 1, Copied(i), NEW w \in {32, 64}, NEW a \in Nat, NEW v,
         a >= F_IDX(f), regs' = MmioWrite(regs, w, a, v), contents' = contents, DOMAIN dest' = DOMAIN dest,
         i \in DOMAIN dest => dest'[i] = dest[i]
  PROVE  Copied(i)'
<1>1. User(i, CMD) \in Nat /\ User(i, CMD) + 4 <= F_IDX(f) /\ F_IDX(f) \in Nat
  BY FramesApart
<1>2. User(i, CMD) + 4 <= a
  BY <1>1
<1>3. Holds(regs', User(i, CMD), 4, ENGINE_HALTED)
  BY <1>1, <1>2, WriteKeeps DEF Copied, Cmd
<1> QED
  BY <1>3 DEF Copied, Cmd

LEMMA RegisterWritten == TransferInv /\ WriteRegister => TransferInv'
<1> SUFFICES ASSUME TransferInv, WriteRegister PROVE TransferInv'
  OBVIOUS
<1>1. PICK f \in Nat : f = frame
  BY DEF TransferInv, TransferTyped
<1>2. PICK n \in 1 .. 11 : n = Len(writes)
  BY DEF TransferInv, Writing, WriteRegister
<1> DEFINE q == 12 - n
           e == Programming(f)[q]
<1>3. /\ Writing /\ TransferTyped /\ TransferSound /\ tpc = "write" /\ \A i \in 0 .. f - 1 : Copied(i)
      /\ UNCHANGED <<size, contents, beyond, buffer, dest, frame, time_out, astray>>
      /\ regs' = MmioWrite(regs, Head(writes)[1], Head(writes)[2], Head(writes)[3])
      /\ writes' = Tail(writes) /\ tpc' = IF Tail(writes) = <<>> THEN "poll" ELSE "write"
  BY <1>1 DEF WriteRegister, TransferInv, Working
<1>4. /\ writes \in Seq(Int \X Int \X Int) /\ Len(writes) = n
      /\ \A k \in 1 .. n : writes[k] = Programming(f)[11 - n + k]
      /\ Told(f) /\ Quiet /\ Silent
  BY <1>1, <1>2, <1>3 DEF Writing
<1>5. Head(writes) = e
  <2>1. writes # <<>> /\ Head(writes) = writes[1]
    BY <1>4
  <2>2. 1 \in 1 .. n /\ 11 - n + 1 = q
    OBVIOUS
  <2> QED
    BY <1>4, <2>1, <2>2
<1>6. /\ q \in 1 .. 11 /\ e[1] \in {32, 64} /\ e[2] \in Nat
      /\ q <= 4 => e[2] >= F_IDX(f + 1) /\ e[3] # ENGINE_MEMCPY
      /\ q \in 5 .. 10 => e[2] >= F_IDX(f) + 4 /\ e[2] + e[1] \div 8 <= F_IDX(f + 1)
      /\ q = 8 => e[2] >= F_IDX(f) + 48
      /\ q = 9 => e[2] >= F_IDX(f) + 56
      /\ q = 10 => e[2] >= F_IDX(f) + 64
      /\ q = 7 => e = <<64, User(f, BEGIN), f>>
      /\ q = 8 => e = <<64, User(f, END_CTRL), f>>
      /\ q = 9 => e = <<32, User(f, STRIDE), 1>>
      /\ q = 10 => e = <<64, User(f, UDATA), f>>
      /\ q = 11 => e = <<32, User(f, CMD), ENGINE_MEMCPY>>
  <2>1. q \in 1 .. 11
    OBVIOUS
  <2> HIDE DEF q
  <2>2. /\ e[1] \in {32, 64} /\ e[2] \in Nat
        /\ q <= 4 => e[2] >= F_IDX(f + 1) /\ e[3] # ENGINE_MEMCPY
        /\ q \in 5 .. 10 => e[2] >= F_IDX(f) + 4 /\ e[2] + e[1] \div 8 <= F_IDX(f + 1)
        /\ q = 8 => e[2] >= F_IDX(f) + 48
        /\ q = 9 => e[2] >= F_IDX(f) + 56
        /\ q = 10 => e[2] >= F_IDX(f) + 64
    <3>1. \A k \in 1 .. 11 :
            LET d == Programming(f)[k]
            IN /\ d[1] \in {32, 64} /\ d[2] \in Nat
               /\ k <= 4 => d[2] >= F_IDX(f + 1) /\ d[3] # ENGINE_MEMCPY
               /\ k \in 5 .. 10 => d[2] >= F_IDX(f) + 4 /\ d[2] + d[1] \div 8 <= F_IDX(f + 1)
               /\ k = 8 => d[2] >= F_IDX(f) + 48
               /\ k = 9 => d[2] >= F_IDX(f) + 56
               /\ k = 10 => d[2] >= F_IDX(f) + 64
      BY TheWrites, Zenon
    <3> QED
      BY <2>1, <3>1, Zenon
  <2>3. /\ q = 7 => e = <<64, User(f, BEGIN), f>>
        /\ q = 8 => e = <<64, User(f, END_CTRL), f>>
        /\ q = 9 => e = <<32, User(f, STRIDE), 1>>
        /\ q = 10 => e = <<64, User(f, UDATA), f>>
        /\ q = 11 => e = <<32, User(f, CMD), ENGINE_MEMCPY>>
    <3>1. /\ Programming(f)[7] = <<64, User(f, BEGIN), f>>
          /\ Programming(f)[8] = <<64, User(f, END_CTRL), f>>
          /\ Programming(f)[9] = <<32, User(f, STRIDE), 1>>
          /\ Programming(f)[10] = <<64, User(f, UDATA), f>>
          /\ Programming(f)[11] = <<32, User(f, CMD), ENGINE_MEMCPY>>
      BY TheWrites, Zenon
    <3> QED
      BY <3>1
  <2> HIDE DEF e
  <2> QED
    BY <2>1, <2>2, <2>3
<1>7. /\ writes' \in Seq(Int \X Int \X Int) /\ Len(writes') = n - 1
      /\ \A k \in 1 .. n - 1 : writes'[k] = writes[k + 1]
      /\ writes' = <<>> <=> n = 1
  <2>1. writes # <<>>
    BY <1>4
  <2>2. writes' \in Seq(Int \X Int \X Int) /\ Len(writes') = n - 1
    BY <1>3, <1>4, <2>1
  <2>3. \A k \in 1 .. n - 1 : writes'[k] = writes[k + 1]
    BY <1>3, <1>4, <2>1
  <2>4. writes' = <<>> <=> Len(writes') = 0
    BY <2>2
  <2> QED
    BY <2>2, <2>3, <2>4
<1> DEFINE w == e[1]
           a == e[2]
           v == e[3]
<1>8. regs' = MmioWrite(regs, w, a, v)
  BY <1>3, <1>5
<1>9. F_IDX(f) \in Nat /\ F_IDX(f) % 4 = 0 /\ User(f, CMD) = F_IDX(f) /\ F_IDX(f + 1) = F_IDX(f) + 128
  BY FramesApart
<1>10. q = 11 => w = 32 /\ a = F_IDX(f) /\ v = ENGINE_MEMCPY
  BY <1>6, <1>9
<1> HIDE DEF e, q
<1>11. a >= F_IDX(f) /\ (q # 11 => a >= F_IDX(f) + 4) /\ w \in {32, 64} /\ a \in Nat
  <2>1. q <= 4 \/ q \in 5 .. 10 \/ q = 11
    BY <1>6
  <2> QED
    BY <1>6, <1>9, <1>10, <2>1
<1>12. \A i \in 0 .. f - 1 : Copied(i)'
  BY <1>3, <1>8, <1>11, CopiedStays
<1>13. Quiet'
  <2>1. \A b \in DOMAIN regs : b \in Nat /\ (b >= F_IDX(f + 1) => regs[b][1] # ENGINE_MEMCPY)
    BY <1>1, <1>4 DEF Quiet
  <2>2. DOMAIN regs' = DOMAIN regs \cup (a .. a + w \div 8 - 1)
    BY <1>8 DEF MmioWrite
  <2>3. ASSUME NEW b \in DOMAIN regs' PROVE b \in Nat /\ (b >= F_IDX(f + 1) => regs'[b][1] # ENGINE_MEMCPY)
    <3>1. CASE b \in a .. a + w \div 8 - 1
      <4>1. regs'[b] = <<v, b - a>>
        BY <1>8, <2>2, <3>1 DEF MmioWrite
      <4>2. regs'[b][1] = v /\ b \in Nat /\ b < a + w \div 8
        BY <1>11, <3>1, <4>1
      <4>3. CASE q <= 4
        BY <1>6, <4>2, <4>3
      <4>4. CASE q \in 5 .. 10
        BY <1>6, <1>9, <1>11, <4>2, <4>4
      <4>5. CASE q = 11
        BY <1>9, <1>10, <4>2, <4>5
      <4>6. q <= 4 \/ q \in 5 .. 10 \/ q = 11
        BY <1>6
      <4> QED
        BY <4>3, <4>4, <4>5, <4>6
    <3>2. CASE b \notin a .. a + w \div 8 - 1
      <4>1. b \in DOMAIN regs /\ regs'[b] = regs[b]
        BY <1>8, <2>2, <3>2 DEF MmioWrite
      <4> QED
        BY <2>1, <4>1
    <3> QED
      BY <3>1, <3>2
  <2>4. F_IDX(frame + 1)' = F_IDX(f + 1)
    BY <1>1, <1>3
  <2> QED
    BY <2>3, <2>4 DEF Quiet
<1>14. q # 11 => Silent'
  <2> SUFFICES ASSUME q # 11 PROVE Silent'
    OBVIOUS
  <2>1. F_IDX(f) \notin a .. a + w \div 8 - 1
    BY <1>9, <1>11
  <2>2. F_IDX(f) \in DOMAIN regs' => F_IDX(f) \in DOMAIN regs /\ regs'[F_IDX(f)] = regs[F_IDX(f)]
    BY <1>8, <2>1 DEF MmioWrite
  <2> QED
    BY <1>1, <1>3, <1>4, <2>2 DEF Silent
<1>15. /\ q >= 7 => Holds(regs', User(f, BEGIN), 8, f)
       /\ q >= 8 => Holds(regs', User(f, END_CTRL), 8, f)
       /\ q >= 9 => Holds(regs', User(f, STRIDE), 4, 1)
       /\ q >= 10 => Holds(regs', User(f, UDATA), 8, f)
  <2>1. /\ User(f, BEGIN) = F_IDX(f) + 40 /\ User(f, END_CTRL) = F_IDX(f) + 48
        /\ User(f, STRIDE) = F_IDX(f) + 56 /\ User(f, UDATA) = F_IDX(f) + 64
    BY DEF User, F_IDX, U_FRAME_BASE, BEGIN, END_CTRL, STRIDE, UDATA
  <2>2. /\ q > 7 => Holds(regs, User(f, BEGIN), 8, f)
        /\ q > 8 => Holds(regs, User(f, END_CTRL), 8, f)
        /\ q > 9 => Holds(regs, User(f, STRIDE), 4, 1)
        /\ q > 10 => Holds(regs, User(f, UDATA), 8, f)
    <3>1. \A m \in {7, 8, 9, 10} : q > m => Past(m)
      <4>1. 11 - Len(writes) = q - 1 /\ q \in Int
        BY <1>4 DEF q
      <4> HIDE DEF q
      <4> QED
        BY <4>1 DEF Past
    <3> QED
      BY <1>4, <3>1 DEF Told
  <2>3. ASSUME NEW b \in Nat, NEW m \in Nat, NEW u, Holds(regs, b, m, u),
               b + m <= a \/ a + w \div 8 <= b
        PROVE  Holds(regs', b, m, u)
    BY <1>8, <1>11, <2>3, WriteKeeps
  <2>4. Holds(regs', a, w \div 8, v)
    BY <1>8, <1>11, WriteHolds
  <2>5. 64 \div 8 = 8 /\ 32 \div 8 = 4
    OBVIOUS
  <2>6. /\ q = 7 => Holds(regs', User(f, BEGIN), 8, f)
        /\ q = 8 => Holds(regs', User(f, END_CTRL), 8, f)
        /\ q = 9 => Holds(regs', User(f, STRIDE), 4, 1)
        /\ q = 10 => Holds(regs', User(f, UDATA), 8, f)
    BY <1>6, <2>4, <2>5
  <2>7. q > 7 => F_IDX(f) + 40 + 8 <= a \/ a + w \div 8 <= F_IDX(f) + 40
    BY <1>6, <1>9, <1>10
  <2>8. q > 8 => F_IDX(f) + 48 + 8 <= a \/ a + w \div 8 <= F_IDX(f) + 48
    BY <1>6, <1>9, <1>10
  <2>9. q > 9 => F_IDX(f) + 56 + 4 <= a \/ a + w \div 8 <= F_IDX(f) + 56
    BY <1>6, <1>9, <1>10
  <2>10. q > 10 => a + w \div 8 <= F_IDX(f) + 64
    BY <1>6, <1>9, <1>10
  <2>11. q > 7 => Holds(regs', User(f, BEGIN), 8, f)
    BY <1>9, <2>1, <2>2, <2>3, <2>7
  <2>12. q > 8 => Holds(regs', User(f, END_CTRL), 8, f)
    BY <1>9, <2>1, <2>2, <2>3, <2>8
  <2>13. q > 9 => Holds(regs', User(f, STRIDE), 4, 1)
    BY <1>9, <2>1, <2>2, <2>3, <2>9
  <2>14. q > 10 => Holds(regs', User(f, UDATA), 8, f)
    BY <1>9, <2>1, <2>2, <2>3, <2>10
  <2>15. q \in Nat
    BY <1>6
  <2> QED
    BY <2>6, <2>11, <2>12, <2>13, <2>14, <2>15
<1>16. tpc' = IF n = 1 THEN "poll" ELSE "write"
  BY <1>3, <1>7
<1>17. \A m \in {7, 8, 9, 10} : Past(m)' <=> q >= m
  BY <1>7 DEF Past, q
<1>18. Told(frame)'
  <2>1. (tpc' = "poll") => q = 11
    BY <1>16 DEF q
  <2>2. \A i : i = f => Told(i)'
    BY <1>15, <1>17, <2>1 DEF Told
  <2> QED
    BY <1>1, <1>3, <1>15, <1>17, <2>1 DEF Told
<1>19. TransferTyped'
  <2>1. Allocated => Allocated'
    BY <1>3 DEF Allocated, Page
  <2> QED
    BY <1>3, <1>16, <2>1 DEF TransferTyped, Working, Verdicts
<1>20. TransferSound'
  BY <1>3, <1>16 DEF TransferSound
<1>21. CASE n = 1
  <2>1. Holds(regs', a, w \div 8, v) /\ q = 11
    BY <1>8, <1>11, <1>21, WriteHolds DEF q
  <2>2. Holds(regs', F_IDX(f), 4, ENGINE_MEMCPY)
    BY <1>10, <2>1
  <2>3. Cmd(frame, ENGINE_MEMCPY)'
    BY <1>1, <1>3, <1>9, <2>2 DEF Cmd
  <2>4. Polling'
    BY <1>13, <1>18, <2>3 DEF Polling
  <2> QED
    BY <1>1, <1>3, <1>12, <1>16, <1>19, <1>20, <1>21, <2>4 DEF TransferInv, Working, Verdicts
<1>22. CASE n # 1
  <2>1. Silent'
    BY <1>14, <1>22 DEF q
  <2>2. \A k \in 1 .. n - 1 : writes'[k] = Programming(f)[11 - (n - 1) + k]
    <3>1. ASSUME NEW k \in 1 .. n - 1 PROVE writes'[k] = Programming(f)[11 - (n - 1) + k]
      <4>1. k + 1 \in 1 .. n /\ 11 - n + (k + 1) = 11 - (n - 1) + k
        OBVIOUS
      <4> QED
        BY <1>4, <1>7, <4>1
    <3> QED
      BY <3>1
  <2>3. \A k \in 1 .. Len(writes') : writes'[k] = Programming(frame')[11 - Len(writes') + k]
    BY <1>1, <1>3, <1>7, <2>2
  <2>4. Len(writes') \in 1 .. 11
    BY <1>7, <1>22
  <2>5. Writing'
    BY <1>7, <1>13, <1>18, <2>1, <2>3, <2>4 DEF Writing
  <2> QED
    BY <1>1, <1>3, <1>12, <1>16, <1>19, <1>20, <1>22, <2>5 DEF TransferInv, Working, Verdicts
<1> QED
  BY <1>21, <1>22

LEMMA CmdRead ==
  ASSUME NEW i \in Nat, NEW v, Cmd(i, v)
  PROVE  MmioRead(regs, 32, User(i, CMD)) = v
<1>1. User(i, CMD) \in Nat /\ User(i, CMD) % 4 = 0
  BY FramesApart
<1>2. Holds(regs, User(i, CMD), 32 \div 8, v)
  BY DEF Cmd
<1> QED
  BY <1>1, <1>2, ReadWhole

LEMMA Polled == TransferInv /\ Poll => TransferInv'
<1> SUFFICES ASSUME TransferInv, Poll PROVE TransferInv'
  OBVIOUS
<1>1. PICK f \in Nat : f = frame
  BY DEF TransferInv, TransferTyped
<1> DEFINE data == MmioRead(regs, 32, User(f, CMD))
<1>2. /\ TransferTyped /\ Polling /\ TransferSound /\ tpc = "poll" /\ \A i \in 0 .. f - 1 : Copied(i)
      /\ UNCHANGED <<size, contents, beyond, buffer, dest, regs, astray>>
  BY <1>1 DEF Poll, TransferInv, Working
<1>3. Allocated' /\ size \in Nat /\ f < NumFrames(size) /\ buffer' # "freed"
  BY <1>1, <1>2 DEF TransferTyped, Allocated, Page, Working, Verdicts
<1>4. \A i : Copied(i) => Copied(i)'
  BY <1>2 DEF Copied, Cmd
<1>5. CASE tpc' = "timeout"
  <2>1. frame' = frame
    BY <1>5 DEF Poll
  <2> QED
    BY <1>2, <1>3, <1>5, <2>1 DEF TransferInv, TransferTyped, TransferSound, Working, Verdicts
<1>6. CASE UNCHANGED <<tpc, frame, writes>>
  <2>1. Told(frame)' /\ Quiet' /\ (\A v : Cmd(frame, v) => Cmd(frame, v)')
    BY <1>2, <1>6 DEF Polling, Told, Past, Quiet, Cmd
  <2>2. Copied(frame) => Copied(frame)'
    BY <1>2, <1>6 DEF Copied, Cmd
  <2>3. Polling'
    BY <1>2, <2>1, <2>2 DEF Polling
  <2>4. TransferTyped' /\ TransferSound'
    BY <1>2, <1>3, <1>6 DEF TransferTyped, TransferSound, Working, Verdicts
  <2> QED
    BY <1>1, <1>2, <1>4, <1>6, <2>3, <2>4 DEF TransferInv, Working, Verdicts
<1>7. ASSUME data \notin {ENGINE_MEMCPY, ENGINE_HALTED}, tpc' = "error", frame' = frame
      PROVE  TransferInv'
  <2>1. ASSUME NEW i \in 0 .. f PROVE MmioRead(regs', 32, User(i, CMD)) # ENGINE_MEMCPY
    <3>1. CASE i = f
      BY <1>2, <1>7, <3>1
    <3>2. CASE i \in 0 .. f - 1
      BY <1>2, <3>2, CmdRead DEF Copied, ENGINE_HALTED, ENGINE_MEMCPY
    <3> QED
      BY <3>1, <3>2
  <2> QED
    BY <1>1, <1>2, <1>3, <1>7, <2>1 DEF TransferInv, TransferTyped, TransferSound, Working, Verdicts
<1>8. ASSUME data = ENGINE_HALTED, frame' = (IF f + 1 < NumFrames(size) THEN f + 1 ELSE f),
             writes' = (IF f + 1 < NumFrames(size) THEN Programming(f + 1) ELSE <<>>),
             tpc' = (IF f + 1 < NumFrames(size) THEN "write" ELSE "compare")
      PROVE  TransferInv'
  <2>1. Copied(f)
    <3>1. ~Cmd(f, ENGINE_MEMCPY) /\ ~Cmd(f, ENGINE_ERROR)
      BY <1>8, CmdRead DEF ENGINE_HALTED, ENGINE_MEMCPY, ENGINE_ERROR
    <3> QED
      BY <1>1, <1>2, <3>1 DEF Polling
  <2>2. \A i \in 0 .. f : Copied(i)'
    <3>1. \A i \in 0 .. f : i \in 0 .. f - 1 \/ i = f
      OBVIOUS
    <3> QED
      BY <1>2, <1>4, <2>1, <3>1
  <2>3. NumFrames(size) \in Nat
    BY <1>3, FramesArePages
  <2>4. CASE f + 1 < NumFrames(size)
    <3>1. tpc' = "write" /\ frame' = f + 1 /\ writes' = Programming(f + 1) /\ f + 1 \in Nat
      BY <1>8, <2>4
    <3>2. Len(writes') = 11 /\ writes' \in Seq(Int \X Int \X Int)
      BY <3>1, TheWrites
    <3>3. \A k \in 1 .. Len(writes') : writes'[k] = Programming(frame')[11 - Len(writes') + k]
      <4>1. \A k \in 1 .. 11 : 11 - 11 + k = k
        OBVIOUS
      <4> QED
        BY <3>1, <3>2, <4>1
    <3>4. Quiet' /\ Silent'
      <4>1. \A b \in DOMAIN regs : b \in Nat /\ (b >= F_IDX(f + 1) => regs[b][1] # ENGINE_MEMCPY)
        BY <1>1, <1>2 DEF Polling, Quiet
      <4>2. F_IDX(f + 1) \in Nat /\ F_IDX(f + 1 + 1) = F_IDX(f + 1) + 128
        BY <3>1, FramesApart
      <4>3. \A b \in DOMAIN regs : b >= F_IDX(f + 1 + 1) => regs[b][1] # ENGINE_MEMCPY
        BY <4>1, <4>2
      <4>4. F_IDX(f + 1) \in DOMAIN regs => regs[F_IDX(f + 1)][1] # ENGINE_MEMCPY
        BY <4>1, <4>2
      <4>5. F_IDX(frame + 1)' = F_IDX(f + 1 + 1) /\ F_IDX(frame)' = F_IDX(f + 1)
        BY <3>1
      <4> QED
        BY <1>2, <4>1, <4>3, <4>4, <4>5 DEF Quiet, Silent
    <3>5. Told(frame)'
      <4>1. \A n \in {7, 8, 9, 10} : ~Past(n)'
        BY <3>2 DEF Past
      <4> QED
        BY <3>1, <4>1 DEF Told
    <3>6. Writing'
      BY <3>2, <3>3, <3>4, <3>5 DEF Writing
    <3>7. TransferTyped' /\ TransferSound'
      BY <1>2, <1>3, <2>4, <3>1 DEF TransferTyped, TransferSound, Working, Verdicts
    <3>8. \A i \in 0 .. frame' - 1 : Copied(i)'
      BY <2>2, <3>1
    <3> QED
      BY <3>1, <3>6, <3>7, <3>8 DEF TransferInv, Working, Verdicts
  <2>5. CASE ~(f + 1 < NumFrames(size))
    <3>1. tpc' = "compare" /\ frame' = f /\ f + 1 >= NumFrames(size)
      BY <1>8, <2>3, <2>5
    <3>2. TransferTyped' /\ TransferSound'
      BY <1>2, <1>3, <3>1 DEF TransferTyped, TransferSound, Working, Verdicts
    <3>3. \A i \in 0 .. frame' - 1 : Copied(i)'
      BY <2>2, <3>1
    <3>4. Copied(frame)'
      BY <2>2, <3>1 DEF Copied, Cmd
    <3> QED
      BY <3>1, <3>2, <3>3, <3>4 DEF TransferInv, Working, Verdicts
  <2> QED
    BY <2>4, <2>5
<1> QED
  BY <1>1, <1>5, <1>6, <1>7, <1>8 DEF Poll

LEMMA Compared == TransferInv /\ Compare => TransferInv'
<1> SUFFICES ASSUME TransferInv, Compare PROVE TransferInv'
  OBVIOUS
<1>1. PICK f \in Nat : f = frame
  BY DEF TransferInv, TransferTyped
<1>2. /\ TransferTyped /\ TransferSound /\ tpc = "compare" /\ \A i \in 0 .. f - 1 : Copied(i) 
      /\ Copied(f) /\ tpc' \in Verdicts
      /\ UNCHANGED <<size, contents, beyond, buffer, dest, frame, writes, regs, time_out, astray>>
  BY <1>1 DEF Compare, TransferInv, Working, Verdicts
<1>3. Allocated /\ size \in Nat /\ f < NumFrames(size) /\ f + 1 >= NumFrames(size) /\ buffer # "freed"
  BY <1>1, <1>2 DEF TransferTyped, Working, Verdicts
<1>4. NumFrames(size) \in Nat /\ NumFrames(size) <= PagesOf(size)
  BY <1>3, FramesArePages
<1>5. \A i \in 0 .. f : Copied(i) /\ Copied(i)'
  <2>1. \A i \in 0 .. f : i \in 0 .. f - 1 \/ i = f
    OBVIOUS
  <2>2. \A i : Copied(i) => Copied(i)'
    BY <1>2 DEF Copied, Cmd
  <2> QED
    BY <1>2, <2>1, <2>2
<1>6. Allocated'
  BY <1>2, <1>3 DEF Allocated, Page
<1>7. TransferTyped'
  BY <1>1, <1>2, <1>3, <1>6 DEF TransferTyped, Working, Verdicts
<1>8. \A k \in 0 .. NumFrames(size) - 1 : k \in DOMAIN dest => dest[k] = contents[k]
  <2>1. \A k \in 0 .. NumFrames(size) - 1 : k \in 0 .. f
    BY <1>3, <1>4
  <2> QED
    BY <1>5, <2>1 DEF Copied
<1>9. size = 2 => tpc' = "success"
  <2> SUFFICES ASSUME size = 2 PROVE tpc' = "success"
    OBVIOUS
  <2>1. PagesOf(size) = 1 /\ Capacity(size) = 1
    <3>1. PagesOf(size) = 1 /\ Order(size) = 0
      BY DEF PagesOf, Order
    <3>2. 2 ^ 0 = 1
      OBVIOUS
    <3>3. Capacity(size) = 2 ^ 0
      BY <3>1 DEF Capacity
    <3> QED
      BY <3>1, <3>2, <3>3
  <2>2. f = 0
    BY <1>3, <1>4, <2>1
  <2>3. 0 \in DOMAIN dest /\ Page(0) = contents[0] /\ dest[0] = contents[0]
    BY <1>2, <1>3, <2>1, <2>2 DEF Allocated, Copied
  <2>4. (size + 1) \div 2 = 1
    OBVIOUS
  <2>5. PICK stray \in {"x", "y"} :
          tpc' = IF \A k \in 0 .. (size + 1) \div 2 - 1 :
                      Page(frame + k) = (IF k \in DOMAIN dest THEN dest[k] ELSE stray)
                 THEN "success" ELSE "mismatch"
    BY DEF Compare
  <2>6. \A k \in 0 .. (size + 1) \div 2 - 1 : k = 0 /\ frame + k = 0
    BY <1>1, <2>2, <2>4
  <2> QED
    BY <2>3, <2>5, <2>6
<1>10. TransferSound'
  BY <1>2, <1>8, <1>9 DEF TransferSound, Verdicts
<1>11. Copied(frame)'
  BY <1>1, <1>2 DEF Copied, Cmd
<1>12. \A i \in 0 .. frame' - 1 : Copied(i)'
  BY <1>1, <1>2, <1>5
<1> QED
  BY <1>2, <1>7, <1>10, <1>11, <1>12 DEF TransferInv, Working, Verdicts

LEMMA BuffersFreed == TransferInv /\ FreeBuffers => TransferInv'
<1> SUFFICES ASSUME TransferInv, FreeBuffers PROVE TransferInv'
  OBVIOUS
<1>1. /\ tpc \in {"error", "timeout"} \cup Verdicts
      /\ UNCHANGED <<tpc, size, contents, beyond, dest, frame, writes, regs, time_out, astray>>
  BY DEF FreeBuffers, Verdicts
<1>2. TransferTyped'
  BY <1>1 DEF TransferInv, TransferTyped, Allocated, Page, Working, Verdicts
<1>3. TransferSound'
  BY <1>1 DEF TransferInv, TransferSound
<1>4. (\A i : Copied(i) => Copied(i)') /\ (Copied(frame) => Copied(frame)')
  BY <1>1 DEF Copied, Cmd
<1> QED
  BY <1>1, <1>2, <1>3, <1>4 DEF TransferInv, Working, Verdicts

\* The engine works off the frame that is waited for, or one given up.
LEMMA WorksOff ==
  ASSUME TransferInv, NEW i \in 0 .. frame, MmioRead(regs, 32, User(i, CMD)) = ENGINE_MEMCPY
  PROVE  tpc = "timeout" \/ (tpc = "poll" /\ i = frame /\ Cmd(i, ENGINE_MEMCPY))
<1>1. frame \in Nat /\ i \in Nat /\ (i \in 0 .. frame - 1 \/ i = frame)
  BY DEF TransferInv, TransferTyped
<1>2. ~Copied(i) /\ ~Cmd(i, ENGINE_ERROR)
  BY <1>1, CmdRead DEF Copied, ENGINE_HALTED, ENGINE_MEMCPY, ENGINE_ERROR
<1>3. tpc \notin {"idle", "end", "configure"}
  <2>1. MmioRead(<<>>, 32, User(i, CMD)) # ENGINE_MEMCPY
    BY DEF MmioRead, Garbage, ENGINE_MEMCPY
  <2> QED
    BY <2>1 DEF TransferInv, TransferTyped
<1>4. tpc # "error" /\ tpc \notin {"compare"} \cup Verdicts
  BY <1>1, <1>2 DEF TransferInv, Working, Verdicts
<1>5. tpc # "write"
  <2> SUFFICES ASSUME tpc = "write" PROVE FALSE
    OBVIOUS
  <2>1. Silent /\ i = frame
    BY <1>1, <1>2 DEF TransferInv, Working, Verdicts, Writing
  <2>2. User(i, CMD) = F_IDX(i) /\ User(i, CMD) \in Nat /\ F_IDX(i) % 4 = 0
    BY <1>1, FramesApart
  <2> QED
    BY <2>1, <2>2, ReadOther DEF Silent
<1>6. tpc = "poll" => i = frame /\ Cmd(i, ENGINE_MEMCPY)
  BY <1>1, <1>2 DEF TransferInv, Working, Verdicts, Polling
<1> QED
  BY <1>3, <1>4, <1>5, <1>6 DEF TransferInv, TransferTyped, Working, Verdicts

\* Its answer leaves what the driver wrote to other registers.
LEMMA EngineAnswered ==
  ASSUME TransferInv, tpc = "poll", NEW f \in Nat, f = frame, NEW v,
         regs' = MmioWrite(regs, 32, User(f, CMD), v),
         UNCHANGED <<tpc, frame, writes, contents>>, DOMAIN dest' = DOMAIN dest,
         \A i \in 0 .. f - 1 : i \in DOMAIN dest => dest'[i] = dest[i]
  PROVE  Told(frame)' /\ Quiet' /\ Cmd(f, v)' /\ \A i \in 0 .. f - 1 : Copied(i)'
<1> DEFINE a == User(f, CMD)
<1>1. a = F_IDX(f) /\ a \in Nat /\ F_IDX(f + 1) = a + 128
  BY FramesApart
<1>2. /\ Holds(regs, User(f, BEGIN), 8, f) /\ Holds(regs, User(f, END_CTRL), 8, f)
      /\ Holds(regs, User(f, STRIDE), 4, 1) /\ Holds(regs, User(f, UDATA), 8, f)
      /\ Quiet /\ \A i \in 0 .. f - 1 : Copied(i)
  BY DEF TransferInv, Polling, Told, Working
<1>3. /\ User(f, BEGIN) = a + 40 /\ User(f, END_CTRL) = a + 48
      /\ User(f, STRIDE) = a + 56 /\ User(f, UDATA) = a + 64
  BY DEF User, F_IDX, U_FRAME_BASE, BEGIN, END_CTRL, STRIDE, UDATA, CMD
<1>4. Cmd(f, v)'
  <2>1. Holds(regs', a, 32 \div 8, v)
    BY <1>1, WriteHolds
  <2> QED
    BY <2>1 DEF Cmd
<1> HIDE DEF a
<1>5. regs' = MmioWrite(regs, 32, a, v)
  BY DEF a
<1>6. \A i \in 0 .. f - 1 : Copied(i)'
  BY <1>1, <1>2, <1>5, CopiedStays
<1>7. ASSUME NEW b \in Nat, NEW m \in Nat, NEW u, Holds(regs, b, m, u), a + 4 <= b
      PROVE  Holds(regs', b, m, u)
  <2>1. a + 32 \div 8 <= b
    BY <1>1, <1>7
  <2>2. 32 \in {32, 64} /\ a \in Nat /\ (b + m <= a \/ a + 32 \div 8 <= b)
    BY <1>1, <2>1
  <2>3. Holds(MmioWrite(regs, 32, a, v), b, m, u)
    BY <1>7, <2>2, WriteKeeps
  <2> QED
    BY <1>5, <2>3
<1>8. a + 4 <= a + 40 /\ a + 4 <= a + 48 /\ a + 4 <= a + 56 /\ a + 4 <= a + 64
      /\ a + 40 \in Nat /\ a + 48 \in Nat /\ a + 56 \in Nat /\ a + 64 \in Nat
  BY <1>1
<1>9. /\ Holds(regs', User(f, BEGIN), 8, f) /\ Holds(regs', User(f, END_CTRL), 8, f)
      /\ Holds(regs', User(f, STRIDE), 4, 1) /\ Holds(regs', User(f, UDATA), 8, f)
  BY <1>2, <1>3, <1>7, <1>8
<1>10. Told(frame)'
  BY <1>9 DEF Told
<1>11. Quiet'
  <2>1. \A b \in DOMAIN regs : b \in Nat /\ (b >= F_IDX(f + 1) => regs[b][1] # ENGINE_MEMCPY)
    BY <1>2 DEF Quiet
  <2>2. DOMAIN regs' = DOMAIN regs \cup (a .. a + 3)
    BY <1>5 DEF MmioWrite
  <2>3. \A b \in DOMAIN regs : b \notin a .. a + 3 => regs'[b] = regs[b]
    BY <1>5 DEF MmioWrite
  <2>4. \A b \in a .. a + 3 : b \in Nat /\ ~(b >= F_IDX(f + 1))
    BY <1>1
  <2>5. \A b \in DOMAIN regs' : b \in Nat /\ (b >= F_IDX(f + 1) => regs'[b][1] # ENGINE_MEMCPY)
    BY <2>1, <2>2, <2>3, <2>4
  <2>6. F_IDX(frame + 1)' = F_IDX(f + 1)
    OBVIOUS
  <2> QED
    BY <2>5, <2>6 DEF Quiet
<1> QED
  BY <1>4, <1>6, <1>10, <1>11

LEMMA EngineFailed == TransferInv /\ EngineFails => TransferInv'
<1> SUFFICES ASSUME TransferInv, EngineFails PROVE TransferInv'
  OBVIOUS
<1>1. PICK i \in 0 .. frame :
        /\ MmioRead(regs, 32, User(i, CMD)) = ENGINE_MEMCPY
        /\ regs' = MmioWrite(regs, 32, User(i, CMD), ENGINE_ERROR)
  BY DEF EngineFails
<1>2. UNCHANGED <<tpc, size, contents, beyond, buffer, dest, frame, writes, time_out, astray>>
  BY DEF EngineFails
<1>3. TransferTyped' /\ TransferSound'
  <2>1. Allocated => Allocated'
    BY <1>2 DEF Allocated, Page
  <2>2. tpc \notin {"idle", "end", "configure"}
    BY <1>1, WorksOff
  <2> QED
    BY <1>2, <2>1, <2>2 DEF TransferInv, TransferTyped, TransferSound, Working, Verdicts
<1>4. CASE tpc = "timeout"
  BY <1>2, <1>3, <1>4 DEF TransferInv, Working, Verdicts
<1>5. CASE tpc = "poll"
  <2>1. PICK f \in Nat : f = frame
    BY DEF TransferInv, TransferTyped
  <2>2. i = f
    BY <1>1, <1>5, <2>1, WorksOff
  <2>3. Told(frame)' /\ Quiet' /\ Cmd(f, ENGINE_ERROR)' /\ \A k \in 0 .. f - 1 : Copied(k)'
    BY <1>1, <1>2, <1>5, <2>1, <2>2, EngineAnswered
  <2>4. Cmd(frame, ENGINE_ERROR)'
    BY <1>2, <2>1, <2>3 DEF Cmd
  <2> QED
    BY <1>2, <1>3, <1>5, <2>1, <2>3, <2>4 DEF TransferInv, Polling, Working, Verdicts
<1> QED
  BY <1>1, <1>4, <1>5, WorksOff

LEMMA EngineCopied == TransferInv /\ EngineCopies => TransferInv'
<1> SUFFICES ASSUME TransferInv, EngineCopies PROVE TransferInv'
  OBVIOUS
<1>1. PICK i \in 0 .. frame :
        /\ MmioRead(regs, 32, User(i, CMD)) = ENGINE_MEMCPY
        /\ LET from == MmioRead(regs, 64, User(i, BEGIN))
               to == MmioRead(regs, 64, User(i, UDATA))
           IN /\ dest' = IF to \in DOMAIN dest THEN [dest EXCEPT ![to] = Page(from)] ELSE dest
              /\ astray' = (astray \/ to \notin DOMAIN dest \/ buffer = "freed")
        /\ regs' = MmioWrite(regs, 32, User(i, CMD), ENGINE_HALTED)
  BY DEF EngineCopies
<1>2. UNCHANGED <<tpc, size, contents, beyond, buffer, frame, writes, time_out>>
  BY DEF EngineCopies
<1>3. DOMAIN dest' = DOMAIN dest
  BY <1>1
<1>4. TransferTyped'
  <2>1. Allocated => Allocated'
    BY <1>2, <1>3 DEF Allocated, Page
  <2>2. tpc \notin {"idle", "end", "configure"}
    BY <1>1, WorksOff
  <2> QED
    BY <1>2, <2>1, <2>2 DEF TransferInv, TransferTyped, Working, Verdicts
<1>5. CASE tpc = "timeout"
  BY <1>2, <1>4, <1>5 DEF TransferInv, TransferSound, Working, Verdicts
<1>6. CASE tpc = "poll"
  <2>1. PICK f \in Nat : f = frame
    BY DEF TransferInv, TransferTyped
  <2>2. i = f
    BY <1>1, <1>6, <2>1, WorksOff
  <2>3. Holds(regs, User(f, BEGIN), 64 \div 8, f) /\ Holds(regs, User(f, UDATA), 64 \div 8, f)
    BY <1>6, <2>1 DEF TransferInv, Polling, Told
  <2>4. User(f, BEGIN) \in Nat /\ User(f, UDATA) \in Nat
    BY DEF User, F_IDX, U_FRAME_BASE, BEGIN, UDATA
  <2>5. MmioRead(regs, 64, User(f, BEGIN)) = f /\ MmioRead(regs, 64, User(f, UDATA)) = f
    BY <2>3, <2>4, ReadWhole
  <2>6. /\ dest' = IF f \in DOMAIN dest THEN [dest EXCEPT ![f] = Page(f)] ELSE dest
        /\ astray' = (astray \/ f \notin DOMAIN dest \/ buffer = "freed")
    BY <1>1, <2>2, <2>5
  <2>7. \A k \in 0 .. f - 1 : k \in DOMAIN dest => dest'[k] = dest[k]
    BY <2>6
  <2>8. Told(frame)' /\ Quiet' /\ Cmd(f, ENGINE_HALTED)' /\ \A k \in 0 .. f - 1 : Copied(k)'
    BY <1>1, <1>2, <1>3, <1>6, <2>1, <2>2, <2>7, EngineAnswered
  <2>9. Allocated /\ f < NumFrames(size) /\ size \in Nat /\ buffer # "freed" /\ TransferSound
    BY <1>6, <2>1 DEF TransferInv, TransferTyped, Working, Verdicts
  <2>10. NumFrames(size) \in Nat /\ PagesOf(size) \in Nat /\ f < PagesOf(size)
    BY <2>9, FramesArePages
  <2>11. Page(f) = contents[f]
    BY <2>9, <2>10 DEF Allocated
  <2>12. Copied(frame)'
    <3>1. f \in DOMAIN dest' => dest'[f] = contents'[f]
      BY <1>2, <1>3, <2>6, <2>11
    <3> QED
      BY <1>2, <2>1, <2>8, <3>1 DEF Copied, Cmd
  <2>13. f \notin DOMAIN dest => PagesOf(size) \in {3, 5}
    <3>1. ASSUME PagesOf(size) \notin {3, 5} PROVE f \in DOMAIN dest
      <4>1. PagesOf(size) <= Capacity(size)
        BY <2>9, <3>1, HasRoom
      <4>2. Capacity(size) \in Nat
        BY <2>9, TwiceAsMany DEF Capacity, Order, PagesOf
      <4> QED
        BY <2>9, <2>10, <4>1, <4>2 DEF Allocated
    <3> QED
      BY <3>1
  <2>14. TransferSound'
    BY <1>2, <1>6, <2>6, <2>9, <2>13 DEF TransferSound
  <2> QED
    BY <1>2, <1>4, <1>6, <2>1, <2>8, <2>12, <2>14 DEF TransferInv, Polling, Working, Verdicts
<1> QED
  BY <1>1, <1>5, <1>6, WorksOff

LEMMA TransferStep == TransferInv /\ [TransferNext]_transferVars => TransferInv'
<1>1. ASSUME TransferInv, UNCHANGED transferVars PROVE TransferInv'
  BY <1>1 DEF transferVars, TransferInv, TransferTyped, Allocated, Page, Copied, Cmd, Writing, Polling, Told,
              Past, Quiet, Silent, TransferSound
<1> QED
  BY <1>1, BuffersAllocated, EngineConfigured, RegisterWritten, Polled, Compared, BuffersFreed,
     EngineCopied, EngineFailed DEF TransferNext, TestSteps

\* For every size of a transfer the engine stays inside the live buffer until the driver gives
\* it up, if there is room for all pages; success means that every page arrived
\* (pal_misc.c:46-68, pal_smmuv3_testengine.c:53-105).
THEOREM TransferIsSound == TransferSpec => []TransferSound
<1>1. TransferInv => TransferSound
  BY DEF TransferInv
<1> QED
  BY <1>1, TransferStarts, TransferStep, PTL DEF TransferSpec

-----------------------------------------------------------------------------
(***************************************************************************)
(* Memory: nothing is freed twice, nothing the device may reach is freed,  *)
(* and what is live has an owner who can free it, for any number of        *)
(* allocations; the table of the DMA tests is right for any SCSI hosts.    *)
(*                                                                         *)
(* The invariant says that every live allocation has exactly one owner:    *)
(* the VAL, the shared memory while it is in use, or one DMA buffer; but   *)
(* shared memory allocated anew has lost its owner.                        *)
(***************************************************************************)
Buffer == [at : DOMAIN allocs \cup {NoMemory}, coherent : BOOLEAN, mapped : BOOLEAN]

Typed ==
  /\ allocs \in Seq({"live", "freed"})
  /\ held \subseteq DOMAIN allocs
  /\ gShared \in DOMAIN allocs \cup {NoMemory}
  /\ inUse \in BOOLEAN
  /\ killed \in BOOLEAN
  /\ buffers \subseteq Buffer

Live(a) == allocs[a] = "live"

OneOwner ==
  /\ \A a \in held : Live(a)
  /\ \A b \in buffers : b.at # NoMemory => Live(b.at) /\ b.at \notin held
  /\ \A b \in buffers : b.at = NoMemory => killed
  /\ \A b, c \in buffers : b.at = c.at => b = c
  /\ gShared # NoMemory => IF inUse THEN Live(gShared) ELSE ~Live(gShared)
  /\ inUse /\ gShared # NoMemory => gShared \notin held /\ \A b \in buffers : b.at # gShared
  /\ \A a \in DOMAIN allocs : Live(a) =>
       a \in held \/ (inUse /\ a = gShared) \/ a \in orphans \/ \E b \in buffers : b.at = a

NeverBad == badFrees \subseteq inner

\* What is computed without touching the memory.
ResultRight ==
  /\ result.op = "aligned" =>
       /\ result.at % result.alignment = 0 /\ result.at >= result.mem
       /\ result.at + result.size <= result.mem + result.length
  /\ result.op = "mmio" => result.read = result.written \/ (result.bytes = 4 /\ result.addr % 4 # 0)

OwnerInv == Typed /\ OneOwner /\ NeverBad /\ ResultRight

-----------------------------------------------------------------------------
\* The address given is a multiple of the alignment, at most alignment - 1 further on.
LEMMA AlignedBounds ==
  ASSUME NEW from \in Nat, NEW alignment \in Alignments
  PROVE  /\ Aligned(from, alignment) \in Int
         /\ Aligned(from, alignment) % alignment = 0
         /\ Aligned(from, alignment) >= from
         /\ Aligned(from, alignment) <= from + alignment - 1
  <1>1. CASE alignment = 1
    BY <1>1 DEF Aligned
  <1>2. CASE alignment = 2
    BY <1>2 DEF Aligned
  <1>3. CASE alignment = 4
    BY <1>3 DEF Aligned
  <1> QED BY <1>1, <1>2, <1>3 DEF Alignments

\* kmalloc() gives memory nobody has.
LEMMA FreshIsNew ==
  ASSUME Typed, NEW as, as = Append(allocs, "live")
  PROVE  /\ as \in Seq({"live", "freed"})
         /\ Fresh \notin DOMAIN allocs /\ Fresh # NoMemory
         /\ DOMAIN as = DOMAIN allocs \cup {Fresh} /\ as[Fresh] = "live"
         /\ \A a \in DOMAIN allocs : as[a] = allocs[a]
  BY DEF Typed, Fresh, NoMemory

\* kfree() of an allocation.
LEMMA KfreeFrees ==
  ASSUME NEW as \in Seq({"live", "freed"}), NEW a \in DOMAIN as
  PROVE  /\ Kfree(as, a) \in Seq({"live", "freed"})
         /\ DOMAIN Kfree(as, a) = DOMAIN as
         /\ \A b \in DOMAIN as : Kfree(as, a)[b] = IF b = a THEN "freed" ELSE as[b]
  <1>1. DOMAIN as = 1 .. Len(as) /\ Len(as) \in Nat
    BY LenProperties
  <1>2. a # NoMemory
    BY <1>1 DEF NoMemory
  <1>3. Kfree(as, a) = [as EXCEPT ![a] = "freed"]
    BY <1>2 DEF Kfree
  <1>4. Kfree(as, a) \in Seq({"live", "freed"})
    <2> DEFINE S == {"live", "freed"}
    <2>1. "freed" \in S /\ as \in Seq(S) /\ a \in 1 .. Len(as)
      BY <1>1
    <2> HIDE DEF S
    <2>2. [as EXCEPT ![a] = "freed"] \in Seq(S)
      BY <2>1, ExceptSeq
    <2> QED BY <1>3, <2>2 DEF S
  <1> QED BY <1>3, <1>4

LEMMA FreedIsFreed ==
  ASSUME Typed, NEW a \in DOMAIN allocs
  PROVE  /\ Kfree(allocs, a) \in Seq({"live", "freed"})
         /\ DOMAIN Kfree(allocs, a) = DOMAIN allocs
         /\ \A b \in DOMAIN allocs : Kfree(allocs, a)[b] = IF b = a THEN "freed" ELSE allocs[b]
  BY KfreeFrees DEF Typed

\* Memory taken and given back at once is nobody's.
LEMMA TakenAndFreed ==
  ASSUME OwnerInv, allocs' = Kfree(Append(allocs, "live"), Fresh),
         UNCHANGED <<held, inner, gShared, inUse, orphans, buffers, badFrees, killed, result>>
  PROVE  OwnerInv'
  <1> DEFINE as == Append(allocs, "live")
  <1>1. /\ as \in Seq({"live", "freed"})
        /\ Fresh \notin DOMAIN allocs /\ Fresh # NoMemory
        /\ DOMAIN as = DOMAIN allocs \cup {Fresh}
        /\ \A a \in DOMAIN allocs : as[a] = allocs[a]
    BY FreshIsNew DEF OwnerInv
  <1> HIDE DEF as
  <1>2. allocs' = Kfree(as, Fresh)
    BY DEF as
  <1>3. /\ allocs' \in Seq({"live", "freed"})
        /\ DOMAIN allocs' = DOMAIN allocs \cup {Fresh} /\ allocs'[Fresh] = "freed"
        /\ \A a \in DOMAIN allocs : allocs'[a] = allocs[a]
    <2>1. Fresh \in DOMAIN as
      BY <1>1
    <2>2. /\ Kfree(as, Fresh) \in Seq({"live", "freed"})
          /\ DOMAIN Kfree(as, Fresh) = DOMAIN as
          /\ \A b \in DOMAIN as : Kfree(as, Fresh)[b] = IF b = Fresh THEN "freed" ELSE as[b]
      BY <1>1, <2>1, KfreeFrees
    <2> QED BY <1>1, <1>2, <2>2
  <1>4. Typed'
    BY <1>3 DEF OwnerInv, Typed, Buffer
  <1>5. OneOwner'
    BY <1>1, <1>3 DEF OwnerInv, Typed, Buffer, OneOwner, Live
  <1> QED BY <1>4, <1>5 DEF OwnerInv, NeverBad, ResultRight

-----------------------------------------------------------------------------
LEMMA OwnerInit == BuffersInit => OwnerInv
  <1> SUFFICES ASSUME BuffersInit PROVE OwnerInv
    OBVIOUS
  <1>0. /\ allocs = <<>> /\ held = {} /\ gShared = NoMemory /\ inUse = FALSE /\ buffers = {}
        /\ killed = FALSE
        /\ DOMAIN allocs = {}
    BY DEF BuffersInit
  <1>1. Typed
    <2>1. allocs \in Seq({"live", "freed"})
      BY <1>0, EmptySeq
    <2> QED BY <1>0, <2>1 DEF Typed
  <1>2. OneOwner
    BY <1>0 DEF OneOwner
  <1>3. NeverBad /\ ResultRight
    BY DEF BuffersInit, NeverBad, ResultRight
  <1> QED BY <1>1, <1>2, <1>3 DEF OwnerInv

LEMMA OwnerNext == OwnerInv /\ [BuffersNext]_buffersVars => OwnerInv'
  <1> SUFFICES ASSUME OwnerInv, [BuffersNext]_buffersVars PROVE OwnerInv'
    OBVIOUS
  <1> USE DEF OwnerInv
  <1>1. CASE ~killed /\ MemAlloc
    <2>1. /\ allocs' = Append(allocs, "live") /\ held' = held \cup {Fresh}
          /\ UNCHANGED <<inner, gShared, inUse, orphans, buffers, badFrees, killed, result>>
      BY <1>1 DEF MemAlloc, Kmalloc, others
    <2>2. Typed'
      BY <2>1, FreshIsNew DEF Typed, Buffer
    <2>3. OneOwner'
      BY <2>1, FreshIsNew DEF Typed, Buffer, OneOwner, Live
    <2> QED BY <2>1, <2>2, <2>3 DEF NeverBad, ResultRight
  <1>2. CASE ~killed /\ MemFree
    <2>1. PICK a \in held :
            /\ allocs' = Kfree(allocs, a) /\ badFrees' = Bad(a) /\ held' = held \ {a}
            /\ UNCHANGED <<inner, gShared, inUse, orphans, buffers, killed, result>>
      BY <1>2 DEF MemFree, others
    <2>2. a \in DOMAIN allocs /\ NeverBad'
      BY <2>1 DEF Typed, OneOwner, Live, Bad, NeverBad
    <2>3. Typed'
      BY <2>1, <2>2, FreedIsFreed DEF Typed, Buffer
    <2>4. OneOwner'
      BY <2>1, <2>2, FreedIsFreed DEF Typed, Buffer, OneOwner, Live
    <2> QED BY <2>1, <2>2, <2>3, <2>4 DEF NeverBad, ResultRight
  <1>3. CASE PalPrint
    BY <1>3, TakenAndFreed DEF PalPrint, others
  <1>4. CASE ~killed /\ AllocateShared
    <2>1. /\ inUse' = TRUE /\ ~killed
          /\ UNCHANGED <<held, inner, buffers, badFrees, killed, result>>
      BY <1>4 DEF AllocateShared, others
    <2>2. /\ orphans \subseteq orphans'
          /\ gShared # NoMemory /\ Live(gShared) => gShared \in orphans'
      BY <1>4 DEF AllocateShared, Live
    <2>3. CASE Kmalloc /\ gShared' = Fresh
      <3>1. Typed'
        BY <2>1, <2>3, FreshIsNew DEF Kmalloc, Typed, Buffer
      <3>2. OneOwner'
        <4>1. /\ Fresh \notin DOMAIN allocs /\ Fresh # NoMemory
              /\ DOMAIN allocs' = DOMAIN allocs \cup {Fresh} /\ allocs'[Fresh] = "live"
              /\ \A a \in DOMAIN allocs : allocs'[a] = allocs[a]
          BY <2>3, FreshIsNew DEF Kmalloc
        <4>2. \A b \in buffers : b.at \in DOMAIN allocs
          BY <2>1 DEF Typed, Buffer, OneOwner
        <4>3. \A a \in DOMAIN allocs' : Live(a)' =>
                a \in held' \/ (inUse' /\ a = gShared') \/ a \in orphans' \/ \E b \in buffers' : b.at = a
          <5>1. ASSUME NEW a \in DOMAIN allocs', Live(a)', a # Fresh
                PROVE  a \in held' \/ a \in orphans' \/ \E b \in buffers' : b.at = a
            <6>1. a \in DOMAIN allocs /\ Live(a)
              BY <4>1, <5>1 DEF Live
            <6>2. a \in held \/ a \in orphans \/ a = gShared \/ \E b \in buffers : b.at = a
              BY <6>1 DEF OneOwner
            <6>3. a # NoMemory
              BY <6>1 DEF Typed, NoMemory
            <6> QED BY <2>1, <2>2, <6>1, <6>2, <6>3
          <5> QED BY <2>1, <2>3, <5>1
        <4>4. \A a \in held' : allocs'[a] = "live"
          BY <2>1, <4>1 DEF Typed, OneOwner, Live
        <4>5. \A b \in buffers' : b.at # NoMemory /\ allocs'[b.at] = "live" /\ b.at \notin held'
          <5>1. \A b \in buffers : b.at # NoMemory /\ Live(b.at) /\ b.at \notin held
            BY <2>1 DEF OneOwner
          <5> QED BY <2>1, <4>1, <4>2, <5>1 DEF Live
        <4>6. allocs'[gShared'] = "live" /\ gShared' \notin held' /\ \A b \in buffers' : b.at # gShared'
          BY <2>1, <2>3, <4>1, <4>2 DEF Typed
        <4>7. \A b, c \in buffers' : b.at = c.at => b = c
          BY <2>1 DEF OneOwner
        <4> QED BY <2>1, <4>3, <4>4, <4>5, <4>6, <4>7 DEF OneOwner, Live
      <3> QED BY <2>1, <2>2, <3>1, <3>2 DEF NeverBad, ResultRight
    <2>4. CASE gShared' = NoMemory /\ UNCHANGED allocs
      <3>1. Typed'
        BY <2>1, <2>4 DEF Typed, Buffer
      <3>2. NoMemory \notin DOMAIN allocs
        BY DEF Typed, NoMemory
      <3>3. OneOwner'
        BY <2>1, <2>2, <2>4, <3>2 DEF Typed, Buffer, OneOwner, Live
      <3> QED BY <2>1, <2>2, <3>1, <3>3 DEF NeverBad, ResultRight
    <2> QED BY <1>4, <2>3, <2>4 DEF AllocateShared
  <1>5. CASE ~killed /\ FreeShared
    <2>1. /\ inUse /\ inUse' = FALSE
          /\ allocs' = Kfree(allocs, gShared) /\ badFrees' = Bad(gShared)
          /\ UNCHANGED <<held, inner, gShared, orphans, buffers, killed, result>>
      BY <1>5 DEF FreeShared, others
    <2>2. NeverBad'
      BY <2>1 DEF OneOwner, Live, Bad, NeverBad
    <2>3. CASE gShared = NoMemory
      <3>1. allocs' = allocs /\ NoMemory \notin DOMAIN allocs
        BY <2>1, <2>3 DEF Kfree, Typed, NoMemory
      <3>2. Typed'
        BY <2>1, <3>1 DEF Typed, Buffer
      <3>3. OneOwner'
        <4>1. \A a \in DOMAIN allocs : Live(a) =>
                a \in held \/ a \in orphans \/ \E b \in buffers : b.at = a
          BY <2>3, <3>1 DEF OneOwner
        <4> QED BY <2>1, <2>3, <3>1, <4>1 DEF OneOwner, Live
      <3> QED BY <2>1, <2>2, <3>2, <3>3 DEF NeverBad, ResultRight
    <2>4. CASE gShared \in DOMAIN allocs
      <3>1. Typed'
        BY <2>1, <2>4, FreedIsFreed DEF Typed, Buffer
      <3>2. OneOwner'
        <4>1. /\ DOMAIN allocs' = DOMAIN allocs /\ gShared # NoMemory
              /\ \A a \in DOMAIN allocs : allocs'[a] = IF a = gShared THEN "freed" ELSE allocs[a]
          BY <2>1, <2>4, FreedIsFreed DEF Typed, NoMemory
        <4>2. \A a \in held' : allocs'[a] = "live"
          BY <2>1, <4>1 DEF Typed, OneOwner, Live
        <4>3. \A b \in buffers' : b.at # NoMemory /\ allocs'[b.at] = "live" /\ b.at \notin held'
          <5>1. \A b \in buffers : b.at # NoMemory /\ Live(b.at) /\ b.at \notin held /\ b.at # gShared
            BY <1>5, <2>1, <4>1 DEF OneOwner
          <5>2. \A b \in buffers : b.at \in DOMAIN allocs
            BY <5>1 DEF Typed, Buffer
          <5> QED BY <2>1, <4>1, <5>1, <5>2 DEF Live
        <4>4. allocs'[gShared'] = "freed"
          BY <2>1, <2>4, <4>1
        <4>5. \A a \in DOMAIN allocs' : allocs'[a] = "live" =>
                a \in held' \/ a \in orphans' \/ \E b \in buffers' : b.at = a
          BY <2>1, <4>1 DEF OneOwner, Live
        <4>6. \A b, c \in buffers' : b.at = c.at => b = c
          BY <2>1 DEF OneOwner
        <4> QED BY <2>1, <4>2, <4>3, <4>4, <4>5, <4>6 DEF OneOwner, Live
      <3> QED BY <2>1, <2>2, <3>1, <3>2 DEF NeverBad, ResultRight
    <2> QED BY <2>3, <2>4 DEF Typed
  <1>6. ASSUME NEW coherent \in BOOLEAN, Kmalloc,
               buffers' = buffers \cup {[at |-> Fresh, coherent |-> coherent, mapped |-> TRUE]},
               UNCHANGED <<held, inner, gShared, inUse, orphans, badFrees, killed, result>>, ~killed
        PROVE  OwnerInv'
    <2>1. allocs' = Append(allocs, "live")
      BY <1>6 DEF Kmalloc
    <2> DEFINE c == [at |-> Fresh, coherent |-> coherent, mapped |-> TRUE]
    <2>4. c \in Buffer' /\ c.at = Fresh
      BY <2>1, FreshIsNew DEF Buffer
    <2> HIDE DEF c
    <2>5. buffers' = buffers \cup {c}
      BY <1>6 DEF c
    <2>6. Buffer \subseteq Buffer'
      BY <2>1, FreshIsNew DEF Buffer
    <2>2. Typed'
      <3>1. buffers' \subseteq Buffer'
        BY <2>4, <2>5, <2>6 DEF Typed
      <3> QED BY <1>6, <2>1, <3>1, FreshIsNew DEF Typed
    <2>3. OneOwner'
      BY <1>6, <2>1, <2>4, <2>5, FreshIsNew DEF Typed, Buffer, OneOwner, Live
    <2> QED BY <1>6, <2>2, <2>3 DEF NeverBad, ResultRight
  <1>7. CASE ~killed /\ DmaAllocCoherent
    BY <1>6, <1>7 DEF DmaAllocCoherent, others
  <1>8. CASE ~killed /\ DmaAllocMapped
    BY <1>6, <1>8 DEF DmaAllocMapped, others
  <1>9. CASE DmaMapFails
    BY <1>9, TakenAndFreed DEF DmaMapFails, others
  <1>10. CASE ~killed /\ DmaUnmap
    <2>1. PICK b \in buffers :
            /\ buffers' = (buffers \ {b}) \cup {[b EXCEPT !.mapped = FALSE]}
            /\ UNCHANGED <<allocs, held, inner, gShared, inUse, orphans, badFrees, killed, result>>
      BY <1>10 DEF DmaUnmap, others
    <2> DEFINE c == [b EXCEPT !.mapped = FALSE]
    <2>2. c \in Buffer /\ c.at = b.at
      BY DEF Typed, Buffer
    <2> HIDE DEF c
    <2>3. buffers' = (buffers \ {b}) \cup {c}
      BY <2>1 DEF c
    <2>4. Typed'
      BY <2>1, <2>2, <2>3 DEF Typed, Buffer
    <2>5. OneOwner'
      BY <2>1, <2>2, <2>3 DEF OneOwner, Live
    <2> QED BY <2>1, <2>4, <2>5 DEF NeverBad, ResultRight
  <1>11. CASE ~killed /\ DmaFree
    <2>1. PICK b \in buffers :
            /\ allocs' = Kfree(allocs, b.at) /\ badFrees' = Bad(b.at)
            /\ buffers' = buffers \ {b}
            /\ UNCHANGED <<held, inner, gShared, inUse, orphans, killed, result>>
      BY <1>11 DEF DmaFree, UnmapsFirst, others, Typed, Buffer
    <2>2. b.at \in DOMAIN allocs /\ b.at # NoMemory /\ NeverBad'
      BY <1>11, <2>1 DEF Typed, Buffer, OneOwner, Live, Bad, NeverBad
    <2>3. Typed'
      BY <2>1, <2>2, FreedIsFreed DEF Typed, Buffer
    <2>4. OneOwner'
      BY <2>1, <2>2, FreedIsFreed DEF Typed, Buffer, OneOwner, Live
    <2> QED BY <2>1, <2>2, <2>3, <2>4 DEF NeverBad, ResultRight
  <1>12. ASSUME UNCHANGED memoryVars, ResultRight' PROVE OwnerInv'
    BY <1>12 DEF memoryVars, Typed, OneOwner, NeverBad, Buffer, Live
  <1>13. CASE ScanCalled \/ ScanHost
    BY <1>12, <1>13 DEF ScanCalled, ScanHost, ResultRight
  <1>14. CASE ReadAttrs
    <2>1. UNCHANGED memoryVars /\ result'.op = "attrs"
      BY <1>14 DEF ReadAttrs
    <2> QED BY <1>12, <2>1 DEF ResultRight
  <1>15. CASE ~killed /\ AlignedAlloc
    <2>1. /\ allocs' = Append(allocs, "live") /\ held' = held \cup {Fresh}
          /\ inner \subseteq inner'
          /\ UNCHANGED <<gShared, inUse, orphans, buffers, badFrees, killed>>
      BY <1>15 DEF AlignedAlloc, Kmalloc
    <2>2. PICK from \in 0 .. 4, room \in {1, 3}, alignment \in Alignments :
            result' = [op |-> "aligned", mem |-> from, length |-> room + alignment, size |-> room,
                       alignment |-> alignment, at |-> Aligned(from, alignment)]
      BY <1>15 DEF AlignedAlloc
    <2>3. ResultRight'
      <3> DEFINE at == Aligned(from, alignment)
      <3>1. /\ at \in Int /\ at % alignment = 0 /\ at >= from
            /\ at <= from + alignment - 1
        BY AlignedBounds
      <3> HIDE DEF at
      <3>2. alignment \in Nat /\ from \in Nat /\ room \in Nat
        BY DEF Alignments
      <3>3. at + room <= from + (room + alignment)
        BY <3>1, <3>2
      <3>4. /\ result'.op = "aligned" /\ result'.mem = from /\ result'.length = room + alignment
            /\ result'.size = room /\ result'.alignment = alignment /\ result'.at = at
        BY <2>2 DEF at
      <3> QED BY <3>1, <3>3, <3>4 DEF ResultRight
    <2>4. Typed'
      BY <2>1, FreshIsNew DEF Typed, Buffer
    <2>5. OneOwner'
      BY <2>1, FreshIsNew DEF Typed, Buffer, OneOwner, Live
    <2> QED BY <2>1, <2>3, <2>4, <2>5 DEF NeverBad
  <1>16. CASE DmaTransfer
    <2>1. UNCHANGED memoryVars /\ result'.op = "transfer"
      BY <1>16 DEF DmaTransfer
    <2> QED BY <1>12, <2>1 DEF ResultRight
  <1>17. CASE WriteAndRead
    <2>1. UNCHANGED memoryVars
      BY <1>17 DEF WriteAndRead
    <2>2. PICK addr \in 0 .. 8, bytes \in {1, 2, 4, 8}, remapped \in BOOLEAN :
            result' = [op |-> "mmio", addr |-> addr, bytes |-> bytes,
                       written |-> IF remapped THEN MmioWrites(addr, bytes) ELSE {},
                       read |-> IF remapped THEN MmioReads(addr, bytes) ELSE {}, oops |-> ~remapped]
      BY <1>17 DEF WriteAndRead
    <2>3. bytes # 4 \/ addr % 4 = 0 => MmioReads(addr, bytes) = MmioWrites(addr, bytes)
      BY DEF MmioReads, MmioWrites
    <2>4. ResultRight'
      BY <2>2, <2>3 DEF ResultRight
    <2> QED BY <1>12, <2>1, <2>4
  <1>19. CASE ~killed /\ DmaMapsNull
    <2> DEFINE c == [at |-> NoMemory, coherent |-> FALSE, mapped |-> TRUE]
    <2>1. /\ killed' = TRUE /\ ~killed /\ buffers' = buffers \cup {c}
          /\ UNCHANGED <<allocs, held, inner, gShared, inUse, orphans, badFrees, result>>
      BY <1>19 DEF DmaMapsNull, others
    <2>2. c \in Buffer /\ c.at = NoMemory
      BY DEF Buffer
    <2> HIDE DEF c
    <2>3. Typed'
      BY <2>1, <2>2 DEF Typed, Buffer
    <2>4. OneOwner'
      BY <2>1, <2>2 DEF OneOwner, Live
    <2> QED BY <2>1, <2>3, <2>4 DEF NeverBad, ResultRight
  <1>18. CASE UNCHANGED buffersVars
    BY <1>12, <1>18 DEF buffersVars, others, ResultRight
  <1> QED
    BY <1>1, <1>2, <1>3, <1>4, <1>5, <1>7, <1>8, <1>9, <1>10, <1>11, <1>13, <1>14, <1>15, <1>16, <1>17, <1>18, <1>19
    DEF BuffersNext, MemoryNext

\* Memory handed out is freed once, by one owner, and never while the device may reach
\* it, but for aligned memory freed by a pointer into it and for shared memory allocated
\* anew; aligned memory and registers are where they should be (pal_misc.c:43-206,
\* 245-284, 349-374, 456-475, pal_dma.c:51-94).
THEOREM BuffersAreSound == BuffersSpec => []BuffersSound
  <1>1. OwnerInv => BuffersSound
    BY DEF OwnerInv, Typed, OneOwner, NeverBad, ResultRight, BuffersSound, Live
  <1> QED BY <1>1, OwnerInit, OwnerNext, PTL DEF BuffersSpec

-----------------------------------------------------------------------------
(***************************************************************************)
(* The table of the DMA tests, and what the other services return.         *)
(***************************************************************************)
Entry == [host : Nat, target : Nat, type : Nat, flags : Nat]
\* The walk has gone past the hosts 0 .. Passed - 1.
Passed == IF scan.end THEN scan.n - 1 ELSE scan.n

\* The devices of the hosts below n that are taken for ATA are listed, once each.
Listing(info, n) ==
  /\ \A i \in DOMAIN info : \E m \in 0 .. n - 1 :
       AsPort(hosts[m]) /\ \E k \in DOMAIN hosts[m].devices : info[i] = DmaEntry(m, hosts[m].devices[k])
  /\ \A m \in 0 .. n - 1 : AsPort(hosts[m]) => \A k \in DOMAIN hosts[m].devices :
       \E i \in DOMAIN info : info[i] = DmaEntry(m, hosts[m].devices[k])
  /\ \A i, j \in DOMAIN info : info[i].host = info[j].host /\ info[i].target = info[j].target => i = j

Scanning ==
  /\ hosts \in HostLists
  /\ scan \in [n : Nat, info : Seq(Entry), held : SUBSET Nat, end : BOOLEAN, killed : BOOLEAN]
  /\ scan.end => scan.n > 0 /\ HostAt(scan.n - 1).kind = "none"
  /\ \A m \in 0 .. Passed - 1 : m \in DOMAIN hosts /\ hosts[m].kind # "none"
  /\ scan.held = {m \in 0 .. Passed - 1 : hosts[m].kind \in {"other", "wild"}}
  /\ Listing(scan.info, Passed)
ScanInv == scan = NoScan \/ Scanning

Returned ==
  /\ result.op = "attrs" => \A level \in 1 .. 3 : Ends(result.walk, level) => result.attr = <<result.walk[level].attr>>
  /\ result.op = "transfer" => (result.from = Ok <=> result.outcome = Ok)
\* What the kernel says of a host, and what is listed of its devices.
LEMMA HostFacts ==
  ASSUME hosts \in HostLists, NEW n \in DOMAIN hosts
  PROVE  /\ n \in Nat /\ hosts[n].kind \in {"ata", "other", "mistaken", "wild", "none"}
         /\ hosts[n].devices \in Seq([name : Nat, type : Nat])
         /\ \A i, j \in DOMAIN hosts[n].devices :
              hosts[n].devices[i].name = hosts[n].devices[j].name => i = j
  BY HostsAssumption

LEMMA EntryFacts ==
  ASSUME hosts \in HostLists, NEW n \in DOMAIN hosts, NEW k \in DOMAIN hosts[n].devices
  PROVE  /\ DmaEntry(n, hosts[n].devices[k]) \in Entry
         /\ DmaEntry(n, hosts[n].devices[k]).host = n
         /\ DmaEntry(n, hosts[n].devices[k]).target = hosts[n].devices[k].name
         /\ DmaEntry(n, hosts[n].devices[k]).flags >= IOMMU_ATTACHED <=> hosts[n].iommu
         /\ hosts[n].dmaAttr = 0 <=>
              (ListedCoherent(DmaEntry(n, hosts[n].devices[k])) <=> Coherent(hosts[n]))
<1>1. n \in Nat /\ hosts[n].dmaAttr \in 0 .. 2 /\ hosts[n].fdtCoherent \in 0 .. 1 /\ hosts[n].iommu \in BOOLEAN
  BY HostsAssumption
<1>2. hosts[n].devices \in Seq([name : Nat, type : Nat])
  BY HostFacts
<1>3. PICK D : D = hosts[n].devices
  OBVIOUS
<1>4. D[k] \in [name : Nat, type : Nat]
  <2>1. D \in Seq([name : Nat, type : Nat]) /\ k \in DOMAIN D
    BY <1>2, <1>3
  <2>2. \A S : \A u \in Seq(S) : \A i \in DOMAIN u : u[i] \in S
    OBVIOUS
  <2> QED
    BY <2>1, <2>2
<1>5. PICK a, f, d : a = hosts[n].dmaAttr /\ f = hosts[n].fdtCoherent /\ d = D[k]
  OBVIOUS
<1>6. PICK coherent \in 0 .. 2 : coherent = (IF a # 0 THEN a ELSE f)
  BY <1>1, <1>5
<1>7. PICK attached \in {0, 16} : attached = (IF hosts[n].iommu THEN 16 ELSE 0)
  OBVIOUS
<1>8. attached = 16 <=> hosts[n].iommu
  BY <1>1, <1>7
<1>9. /\ coherent + attached \in Nat /\ (coherent + attached >= 16 <=> attached = 16)
      /\ (coherent + attached) % 16 = coherent
  <2>0. coherent = 0 \/ coherent = 1 \/ coherent = 2
    BY <1>6
  <2>1. CASE attached = 0
    BY <2>0, <2>1
  <2>2. CASE attached = 16
    BY <2>0, <2>2
  <2> QED
    BY <1>7, <2>1, <2>2
<1>10. DmaEntry(n, d) = [host |-> n, target |-> d.name, type |-> d.type, flags |-> coherent + attached]
  BY <1>5, <1>6, <1>7 DEF DmaEntry, IOMMU_ATTACHED
<1>11. /\ DmaEntry(n, d) \in Entry /\ DmaEntry(n, d).host = n /\ DmaEntry(n, d).target = d.name
       /\ DmaEntry(n, d).flags = coherent + attached
  BY <1>1, <1>4, <1>5, <1>9, <1>10 DEF Entry
<1>12. a = 0 <=> (ListedCoherent(DmaEntry(n, d)) <=> Coherent(hosts[n]))
  <2>1. ListedCoherent(DmaEntry(n, d)) <=> coherent = 1
    BY <1>9, <1>11 DEF ListedCoherent, IOMMU_ATTACHED, DMA_COHERENT
  <2>2. Coherent(hosts[n]) <=> (IF a # 0 THEN a = 2 ELSE f = 1)
    BY <1>5 DEF Coherent, DEV_DMA_COHERENT
  <2>3. a \in 0 .. 2 /\ f \in 0 .. 1
    BY <1>1, <1>5
  <2> QED
    BY <1>6, <2>1, <2>2, <2>3
<1> QED
  BY <1>3, <1>5, <1>8, <1>9, <1>11, <1>12 DEF IOMMU_ATTACHED

\* The devices of a host taken for ATA follow those of the hosts before it.
LEMMA ListingGrows ==
  ASSUME hosts \in HostLists, NEW n \in Nat, NEW info \in Seq(Entry), Listing(info, n),
         n \in DOMAIN hosts, AsPort(hosts[n])
  PROVE  LET t == info \o [i \in DOMAIN hosts[n].devices |-> DmaEntry(n, hosts[n].devices[i])]
         IN  t \in Seq(Entry) /\ Listing(t, n + 1)
<1>1. PICK D : D = hosts[n].devices
  OBVIOUS
<1>2. PICK add : add = [i \in DOMAIN D |-> DmaEntry(n, D[i])]
  OBVIOUS
<1>3. PICK t : t = info \o add
  OBVIOUS
<1>4. /\ D \in Seq([name : Nat, type : Nat])
      /\ \A i, j \in DOMAIN D : D[i].name = D[j].name => i = j
  BY <1>1, HostFacts
<1>5. \A i \in DOMAIN D : /\ DmaEntry(n, D[i]) \in Entry /\ DmaEntry(n, D[i]).host = n
                          /\ DmaEntry(n, D[i]).target = D[i].name
  BY <1>1, EntryFacts
<1>6. PICK l, c \in Nat : l = Len(info) /\ c = Len(D)
  BY <1>4
<1>7. DOMAIN D = 1 .. c /\ DOMAIN info = 1 .. l
  BY <1>4, <1>6
<1>8. add \in [1 .. c -> Entry]
  BY <1>2, <1>5, <1>7
<1>9. add \in Seq(Entry) /\ Len(add) = c
  BY <1>6, <1>8
<1>10. t \in Seq(Entry)
  <2>1. info \in Seq(Entry) /\ add \in Seq(Entry)
    BY <1>9
  <2>2. \A S : \A u, v \in Seq(S) : u \o v \in Seq(S)
    OBVIOUS
  <2>3. info \o add \in Seq(Entry)
    BY <2>1, <2>2, Zenon
  <2> QED
    BY <1>3, <2>3, Zenon
<1>11. Len(t) = l + c
  <2>1. info \in Seq(Entry) /\ add \in Seq(Entry)
    BY <1>9
  <2>2. \A S : \A u, v \in Seq(S) : Len(u \o v) = Len(u) + Len(v)
    OBVIOUS
  <2>3. Len(info \o add) = Len(info) + Len(add)
    BY <2>1, <2>2, Zenon
  <2> QED
    BY <1>3, <1>6, <1>9, <2>3, Zenon
<1>12. DOMAIN t = 1 .. l + c
  BY <1>6, <1>10, <1>11
<1>13. \A i \in 1 .. l : t[i] = info[i]
  BY <1>3, <1>6, <1>9
<1>14. \A k \in 1 .. c : t[l + k] = add[k]
  BY <1>3, <1>6, <1>9
<1>15. \A k \in 1 .. c : t[l + k] = DmaEntry(n, D[k])
  BY <1>2, <1>7, <1>14
<1>16. ASSUME NEW i \in 1 .. l + c PROVE i \in 1 .. l \/ \E k \in 1 .. c : i = l + k
  <2>1. CASE i > l
    <3>1. i - l \in 1 .. c /\ i = l + (i - l)
      BY <1>6, <2>1
    <3> QED
      BY <3>1
  <2>2. CASE ~(i > l)
    <3>1. i \in 1 .. l
      BY <1>6, <2>2
    <3> QED
      BY <3>1
  <2> QED
    BY <2>1, <2>2
<1>17. \A i \in 1 .. l : \E m \in 0 .. n - 1 :
         AsPort(hosts[m]) /\ \E k \in DOMAIN hosts[m].devices : t[i] = DmaEntry(m, hosts[m].devices[k])
  <2>1. \A i \in 1 .. l : \E m \in 0 .. n - 1 :
         AsPort(hosts[m]) /\ \E k \in DOMAIN hosts[m].devices : info[i] = DmaEntry(m, hosts[m].devices[k])
    BY <1>7 DEF Listing
  <2> QED
    BY <1>13, <2>1
<1>18. 0 .. n - 1 \subseteq 0 .. n + 1 - 1 /\ n \in 0 .. n + 1 - 1
       /\ \A m \in 0 .. n + 1 - 1 : m \in 0 .. n - 1 \/ m = n
  OBVIOUS
<1>19. \A i \in DOMAIN t : \E m \in 0 .. n + 1 - 1 :
         AsPort(hosts[m]) /\ \E k \in DOMAIN hosts[m].devices : t[i] = DmaEntry(m, hosts[m].devices[k])
  <2>1. \A k \in 1 .. c : k \in DOMAIN hosts[n].devices /\ t[l + k] = DmaEntry(n, hosts[n].devices[k])
    BY <1>1, <1>7, <1>15
  <2>2. ASSUME NEW i \in 1 .. l + c
        PROVE  \E m \in 0 .. n + 1 - 1 :
          AsPort(hosts[m]) /\ \E k \in DOMAIN hosts[m].devices : t[i] = DmaEntry(m, hosts[m].devices[k])
    <3>1. CASE i \in 1 .. l
      BY <1>17, <1>18, <3>1
    <3>2. CASE \E k \in 1 .. c : i = l + k
      BY <1>18, <2>1, <3>2
    <3> QED
      BY <1>16, <3>1, <3>2
  <2> QED
    BY <1>12, <2>2
<1>20. \A m \in 0 .. n + 1 - 1 : AsPort(hosts[m]) => \A k \in DOMAIN hosts[m].devices :
         \E i \in DOMAIN t : t[i] = DmaEntry(m, hosts[m].devices[k])
  <2>1. ASSUME NEW m \in 0 .. n - 1, AsPort(hosts[m]), NEW k \in DOMAIN hosts[m].devices
        PROVE  \E i \in DOMAIN t : t[i] = DmaEntry(m, hosts[m].devices[k])
    <3>1. PICK i \in 1 .. l : info[i] = DmaEntry(m, hosts[m].devices[k])
      BY <1>7, <2>1 DEF Listing
    <3>2. i \in 1 .. l + c
      BY <1>6, <3>1
    <3> QED
      BY <1>12, <1>13, <3>1, <3>2
  <2>2. ASSUME NEW k \in DOMAIN hosts[n].devices
        PROVE  \E i \in DOMAIN t : t[i] = DmaEntry(n, hosts[n].devices[k])
    <3>1. k \in 1 .. c
      BY <1>1, <1>7, <2>2
    <3>2. l + k \in 1 .. l + c
      BY <1>6, <3>1
    <3> QED
      BY <1>1, <1>12, <1>15, <3>1, <3>2
  <2> QED
    BY <1>18, <2>1, <2>2
<1>21. \A i, j \in DOMAIN t : t[i].host = t[j].host /\ t[i].target = t[j].target => i = j
  <2>1. \A i \in 1 .. l : t[i].host # n
    <3>1. ASSUME NEW i \in 1 .. l PROVE t[i].host # n
      <4>1. PICK m \in 0 .. n - 1 : \E k \in DOMAIN hosts[m].devices : t[i] = DmaEntry(m, hosts[m].devices[k])
        BY <1>17
      <4>2. t[i].host = m
        BY <4>1 DEF DmaEntry
      <4> QED
        BY <4>1, <4>2
    <3> QED
      BY <3>1
  <2>2. \A k \in 1 .. c : t[l + k].host = n /\ t[l + k].target = D[k].name
    BY <1>5, <1>7, <1>15
  <2>3. \A i, j \in 1 .. l : t[i].host = t[j].host /\ t[i].target = t[j].target => i = j
    <3>1. \A i, j \in 1 .. l : info[i].host = info[j].host /\ info[i].target = info[j].target => i = j
      BY <1>7 DEF Listing
    <3> QED
      BY <1>13, <3>1
  <2>4. \A k, g \in 1 .. c : D[k].name = D[g].name => k = g
    BY <1>4, <1>7
  <2>5. ASSUME NEW i \in 1 .. l + c, NEW j \in 1 .. l + c, t[i].host = t[j].host, t[i].target = t[j].target
        PROVE  i = j
    <3>1. CASE i \in 1 .. l /\ j \in 1 .. l
      BY <2>3, <2>5, <3>1
    <3>2. CASE i \in 1 .. l /\ \E g \in 1 .. c : j = l + g
      BY <2>1, <2>2, <2>5, <3>2
    <3>3. CASE (\E k \in 1 .. c : i = l + k) /\ j \in 1 .. l
      BY <2>1, <2>2, <2>5, <3>3
    <3>4. CASE (\E k \in 1 .. c : i = l + k) /\ (\E g \in 1 .. c : j = l + g)
      <4>1. PICK k \in 1 .. c, g \in 1 .. c : i = l + k /\ j = l + g
        BY <3>4
      <4>2. D[k].name = D[g].name
        BY <2>2, <2>5, <4>1
      <4> QED
        BY <2>4, <4>1, <4>2
    <3> QED
      BY <1>16, <3>1, <3>2, <3>3, <3>4
  <2> QED
    BY <1>12, <2>5
<1>22. Listing(t, n + 1)
  BY <1>19, <1>20, <1>21 DEF Listing
<1> QED
  BY <1>1, <1>2, <1>3, <1>10, <1>22

\* A host of another kind adds nothing.
LEMMA ListingStays ==
  ASSUME NEW n \in Nat, NEW info, Listing(info, n), ~AsPort(hosts[n])
  PROVE  Listing(info, n + 1)
<1>1. 0 .. n - 1 \subseteq 0 .. n + 1 - 1 /\ \A m \in 0 .. n + 1 - 1 : m \in 0 .. n - 1 \/ m = n
  OBVIOUS
<1> QED
  BY <1>1 DEF Listing

LEMMA ScanGoesOn ==
  ASSUME ScanInv, ScanHost
  PROVE  Scanning'
<1>1. Scanning /\ scan.n \in Nat /\ ~scan.end
  BY DEF ScanHost, ScanInv, Scanning, NoScan
<1>2. PICK n \in Nat : n = scan.n
  BY <1>1
<1>3. PICK h : h = HostAt(n)
  OBVIOUS
<1>4. PICK t : t = IF AsPort(h)
                   THEN scan.info \o [i \in DOMAIN h.devices |-> DmaEntry(n, h.devices[i])] ELSE scan.info
  OBVIOUS
<1>5. PICK g : g = IF h.kind \in {"other", "wild"} THEN scan.held \cup {n} ELSE scan.held
  OBVIOUS
<1>6. hosts' = hosts /\ scan' = [n |-> n + 1, end |-> ~GoesOn(h), killed |-> h.kind = "wild",
                                held |-> g, info |-> t]
  BY <1>2, <1>3, <1>4, <1>5 DEF ScanHost
<1>7. scan'.n = n + 1 /\ (scan'.end <=> h.kind = "none") /\ scan'.held = g /\ scan'.info = t
  BY <1>6 DEF GoesOn
<1>8. /\ hosts \in HostLists /\ scan.info \in Seq(Entry) /\ scan.held \in SUBSET Nat
      /\ \A m \in 0 .. n - 1 : m \in DOMAIN hosts /\ hosts[m].kind # "none"
      /\ scan.held = {m \in 0 .. n - 1 : hosts[m].kind \in {"other", "wild"}}
      /\ Listing(scan.info, n)
  BY <1>1, <1>2 DEF Scanning, Passed
<1>9. \A i, m : Listing(i, m)' <=> Listing(i, m)
  BY <1>6 DEF Listing, DmaEntry
<1>10. CASE h.kind = "none"
  <2>1. scan'.n = n + 1 /\ scan'.end /\ scan'.info = scan.info /\ scan'.held = scan.held
    BY <1>4, <1>5, <1>7, <1>10 DEF AsPort
  <2>2. Passed' = n
    BY <2>1 DEF Passed
  <2>3. HostAt(scan.n - 1)' = h
    BY <1>2, <1>3, <1>6, <2>1 DEF HostAt
  <2>4. scan' \in [n : Nat, info : Seq(Entry), held : SUBSET Nat, end : BOOLEAN, killed : BOOLEAN]
    <3>1. (~GoesOn(h)) \in BOOLEAN /\ (h.kind = "wild") \in BOOLEAN
      OBVIOUS
    <3>2. t \in Seq(Entry) /\ g \in SUBSET Nat
      BY <1>4, <1>5, <1>8, <1>10 DEF AsPort
    <3> QED
      BY <1>6, <3>1, <3>2
  <2>5. Listing(scan'.info, Passed')
    BY <1>8, <2>1, <2>2
  <2>6. Listing(scan.info, Passed)'
    BY <1>6, <2>5 DEF Listing, DmaEntry
  <2> QED
    BY <1>6, <1>8, <1>10, <2>1, <2>2, <2>3, <2>4, <2>6 DEF Scanning
<1>11. CASE h.kind # "none"
  <2>1. n \in DOMAIN hosts /\ h = hosts[n] /\ hosts[n].kind # "none"
    BY <1>3, <1>11 DEF HostAt
  <2>2. hosts[n].kind \in {"ata", "other", "mistaken", "wild"}
    BY <1>8, <2>1, HostFacts
  <2>3. scan'.n = n + 1 /\ ~scan'.end /\ scan'.held = g /\ scan'.info = t
    BY <1>7, <1>11
  <2>4. Passed' = n + 1
    BY <2>3 DEF Passed
  <2>5. t \in Seq(Entry) /\ Listing(t, n + 1)
    <3>1. CASE AsPort(hosts[n])
      BY <1>4, <1>8, <2>1, <3>1, ListingGrows
    <3>2. CASE ~AsPort(hosts[n])
      BY <1>4, <1>8, <2>1, <3>2, ListingStays
    <3> QED
      BY <3>1, <3>2
  <2>6. 0 .. n + 1 - 1 = (0 .. n - 1) \cup {n}
    OBVIOUS
  <2>7. g = {m \in 0 .. n + 1 - 1 : hosts[m].kind \in {"other", "wild"}} /\ g \in SUBSET Nat
    BY <1>5, <1>8, <2>1, <2>6
  <2>8. \A m \in 0 .. n + 1 - 1 : m \in DOMAIN hosts /\ hosts[m].kind # "none"
    BY <1>8, <2>1, <2>6
  <2>9. scan' \in [n : Nat, info : Seq(Entry), held : SUBSET Nat, end : BOOLEAN, killed : BOOLEAN]
    <3>1. (~GoesOn(h)) \in BOOLEAN /\ (h.kind = "wild") \in BOOLEAN
      OBVIOUS
    <3> QED
      BY <1>6, <2>5, <2>7, <3>1
  <2>10. Listing(scan'.info, Passed')
    BY <2>3, <2>4, <2>5
  <2>11. Listing(scan.info, Passed)'
    BY <1>6, <2>10 DEF Listing, DmaEntry
  <2> QED
    BY <1>6, <1>8, <2>3, <2>4, <2>7, <2>8, <2>9, <2>11 DEF Scanning
<1> QED
  BY <1>10, <1>11

LEMMA ScanInit == BuffersInit => ScanInv
  BY DEF BuffersInit, ScanInv

LEMMA ScanNext ==
  ASSUME ScanInv, [BuffersNext]_buffersVars
  PROVE  ScanInv'
<1>1. ASSUME hosts' = hosts, scan' = scan PROVE ScanInv'
  <2>1. NoScan' = NoScan
    BY DEF NoScan
  <2>2. Scanning => Scanning'
    <3>1. /\ Passed' = Passed /\ HostAt(scan.n - 1)' = HostAt(scan.n - 1)
          /\ Listing(scan.info, Passed)' <=> Listing(scan.info, Passed)
      BY <1>1 DEF Passed, HostAt, Listing, DmaEntry
    <3> QED
      BY <1>1, <3>1 DEF Scanning
  <2> QED
    BY <1>1, <2>1, <2>2 DEF ScanInv
<1>2. CASE ScanCalled
  <2>1. hosts' \in HostLists /\ scan' = [n |-> 0, info |-> <<>>, held |-> {}, end |-> FALSE, killed |-> FALSE]
    BY <1>2 DEF ScanCalled, NoScan
  <2>2. scan'.n = 0 /\ scan'.info = <<>> /\ scan'.held = {} /\ ~scan'.end /\ Passed' = 0
    BY <2>1 DEF Passed
  <2>3. scan' \in [n : Nat, info : Seq(Entry), held : SUBSET Nat, end : BOOLEAN, killed : BOOLEAN]
    BY <2>1
  <2>4. 0 .. 0 - 1 = {} /\ DOMAIN <<>> = {}
    OBVIOUS
  <2>5. Listing(scan.info, Passed)'
    BY <2>2, <2>4 DEF Listing
  <2>6. scan'.held = {m \in 0 .. 0 - 1 : hosts'[m].kind \in {"other", "wild"}}
    BY <2>2, <2>4
  <2> QED
    BY <2>1, <2>2, <2>3, <2>4, <2>5, <2>6 DEF ScanInv, Scanning
<1>3. CASE ScanHost
  BY <1>3, ScanGoesOn DEF ScanInv
<1>4. CASE UNCHANGED buffersVars
  BY <1>1, <1>4 DEF buffersVars, others, scanVars
<1>5. CASE ReadAttrs \/ DmaTransfer \/ WriteAndRead
  BY <1>1, <1>5 DEF ReadAttrs, DmaTransfer, WriteAndRead, scanVars
<1>6. CASE MemoryNext
  BY <1>1, <1>6 DEF MemoryNext, MemAlloc, AlignedAlloc, MemFree, PalPrint, AllocateShared, FreeShared,
    DmaAllocCoherent, DmaAllocMapped, DmaMapFails, DmaMapsNull, DmaUnmap, DmaFree, others, scanVars
<1> QED
  BY <1>2, <1>3, <1>4, <1>5, <1>6 DEF BuffersNext

\* The descriptors before the one a walk ends at are tables, and it is none: the level
\* whose attributes are read.
LEMMA LevelRead ==
  ASSUME NEW levels \in Walks, NEW level \in 1 .. 3, Ends(levels, level)
  PROVE  GetAttrs(levels) = <<levels[level].attr>>
<1>1. 3 \div 2 = 1 /\ 1 \div 2 = 0
  OBVIOUS
<1>2. /\ levels[level].bits = (IF level = 3 THEN 3 ELSE 1)
      /\ \A k \in 1 .. level - 1 : levels[k].bits = 3
  BY DEF Ends
<1>3. CASE level = 1
  BY <1>1, <1>2, <1>3 DEF GetAttrs, IsTable
<1>4. CASE level = 2
  <2>1. levels[1].bits = 3
    BY <1>2, <1>4
  <2> QED
    BY <1>1, <1>2, <1>4, <2>1 DEF GetAttrs, IsTable
<1>5. CASE level = 3
  <2>1. levels[1].bits = 3 /\ levels[2].bits = 3
    BY <1>2, <1>5
  <2> QED
    BY <1>1, <1>2, <1>5, <2>1 DEF GetAttrs, IsTable
<1> QED
  BY <1>3, <1>4, <1>5

LEMMA ReturnedInit == BuffersInit => Returned
  BY DEF BuffersInit, Returned

LEMMA ReturnedNext ==
  ASSUME Returned, [BuffersNext]_buffersVars
  PROVE  Returned'
<1>1. ASSUME result' = result PROVE Returned'
  BY <1>1 DEF Returned, Ends
<1>2. CASE ReadAttrs
  <2>1. PICK w \in Walks : result' = [op |-> "attrs", walk |-> w, attr |-> GetAttrs(w)]
    BY <1>2 DEF ReadAttrs
  <2>2. result'.op = "attrs" /\ result'.walk = w /\ result'.attr = GetAttrs(w)
    BY <2>1
  <2>3. \A level \in 1 .. 3 : Ends(w, level) => GetAttrs(w) = <<w[level].attr>>
    BY LevelRead
  <2> QED
    BY <2>2, <2>3 DEF Returned, Ends
<1>3. CASE DmaTransfer
  <2>1. PICK outcome : result' = [op |-> "transfer", outcome |-> outcome,
                                  from |-> StartFromDevice(outcome), to |-> StartToDevice(outcome)]
    BY <1>3 DEF DmaTransfer
  <2> QED
    BY <2>1 DEF Returned, StartFromDevice
<1>4. CASE AlignedAlloc \/ WriteAndRead
  <2>1. result'.op \in {"aligned", "mmio"}
    BY <1>4 DEF AlignedAlloc, WriteAndRead
  <2> QED
    BY <2>1 DEF Returned
<1>5. CASE ScanCalled \/ ScanHost \/ (MemoryNext /\ ~AlignedAlloc) \/ UNCHANGED buffersVars
  BY <1>1, <1>5 DEF ScanCalled, ScanHost, MemoryNext, MemAlloc, MemFree, PalPrint, AllocateShared, FreeShared,
    DmaAllocCoherent, DmaAllocMapped, DmaMapFails, DmaMapsNull, DmaUnmap, DmaFree, others, buffersVars
<1> QED
  BY <1>2, <1>3, <1>4, <1>5 DEF BuffersNext

\* At its end the walk has passed the hosts before the first number not in use.
LEMMA TableIsComplete ==
  ASSUME ScanInv
  PROVE  DmaTableComplete
<1> SUFFICES ASSUME scan.end PROVE DmaTableComplete
  BY DEF DmaTableComplete
<1>1. Scanning
  BY DEF ScanInv, NoScan
<1>2. PICK p \in Nat : p = scan.n - 1
  BY <1>1 DEF Scanning
<1>3. /\ hosts \in HostLists
      /\ p \in DOMAIN hosts => hosts[p].kind = "none"
      /\ \A m \in 0 .. p - 1 : m \in DOMAIN hosts /\ hosts[m].kind # "none"
      /\ scan.held = {m \in 0 .. p - 1 : hosts[m].kind \in {"other", "wild"}}
      /\ Listing(scan.info, p)
  BY <1>1, <1>2 DEF Scanning, Passed, HostAt
<1> DEFINE before == {n \in DOMAIN hosts : \A m \in 0 .. n : m \in DOMAIN hosts /\ hosts[m].kind # "none"}
           taken == {n \in before : AsPort(hosts[n])}
           Listed(n, d) == {i \in DOMAIN scan.info : scan.info[i].host = n /\ scan.info[i].target = d.name}
<1>4. before = 0 .. p - 1
  <2>1. ASSUME NEW n \in before PROVE n \in 0 .. p - 1
    <3>1. n \in Nat
      BY <1>3, HostsAssumption
    <3>2. p \in 0 .. n => FALSE
      BY <1>3
    <3> QED
      BY <1>2, <3>1, <3>2
  <2>2. ASSUME NEW n \in 0 .. p - 1 PROVE n \in before
    <3>1. \A m \in 0 .. n : m \in 0 .. p - 1
      BY <2>2
    <3>2. n \in 0 .. n
      BY <2>2
    <3> QED
      BY <1>3, <3>1, <3>2
  <2> QED
    BY <2>1, <2>2
<1> HIDE DEF before
<1>5. \A n \in 0 .. p - 1 : hosts[n].kind \in {"other", "wild"} <=> ~AsPort(hosts[n])
  BY <1>3, HostFacts DEF AsPort
<1>6. scan.held = before \ taken
  BY <1>3, <1>4, <1>5
<1>7. \A i \in DOMAIN scan.info : scan.info[i].host \in taken
  <2>1. ASSUME NEW i \in DOMAIN scan.info PROVE scan.info[i].host \in taken
    <3>1. PICK m \in 0 .. p - 1 : AsPort(hosts[m]) /\ \E k \in DOMAIN hosts[m].devices :
            scan.info[i] = DmaEntry(m, hosts[m].devices[k])
      BY <1>3 DEF Listing
    <3>2. scan.info[i].host = m
      BY <3>1 DEF DmaEntry
    <3> QED
      BY <1>4, <3>1, <3>2
  <2> QED
    BY <2>1
<1>8. ASSUME NEW n \in taken, NEW k \in DOMAIN hosts[n].devices
      PROVE  \E i \in DOMAIN scan.info :
               /\ Listed(n, hosts[n].devices[k]) = {i}
               /\ scan.info[i].flags >= IOMMU_ATTACHED <=> hosts[n].iommu
               /\ hosts[n].dmaAttr = 0 <=> (ListedCoherent(scan.info[i]) <=> Coherent(hosts[n]))
  <2>1. n \in 0 .. p - 1 /\ n \in DOMAIN hosts /\ AsPort(hosts[n])
    BY <1>3, <1>4
  <2>2. PICK i \in DOMAIN scan.info : scan.info[i] = DmaEntry(n, hosts[n].devices[k])
    BY <1>3, <2>1 DEF Listing
  <2>3. scan.info[i].host = n /\ scan.info[i].target = hosts[n].devices[k].name
    BY <2>2 DEF DmaEntry
  <2>4. \A j \in DOMAIN scan.info :
          scan.info[j].host = n /\ scan.info[j].target = hosts[n].devices[k].name => j = i
    BY <1>3, <2>3 DEF Listing
  <2>5. Listed(n, hosts[n].devices[k]) = {i}
    BY <2>3, <2>4
  <2>6. /\ scan.info[i].flags >= IOMMU_ATTACHED <=> hosts[n].iommu
        /\ hosts[n].dmaAttr = 0 <=> (ListedCoherent(scan.info[i]) <=> Coherent(hosts[n]))
    BY <1>3, <2>1, <2>2, EntryFacts
  <2> QED
    BY <2>5, <2>6
<1> QED
  BY <1>6, <1>7, <1>8 DEF DmaTableComplete, before

\* The table of the DMA tests is right when its walk has ended, whatever hosts there are,
\* but for hosts mistaken for ATA and for the attributes from the kernel;
\* the attributes read for a buffer are those of the descriptor that maps it, and a
\* transfer from the device tells whether it failed (pal_dma.c:117-180, 221-264).
THEOREM DmaServicesAreRight == BuffersSpec => []DmaServicesRight
<1>1. ScanInv /\ Returned => DmaServicesRight
  BY TableIsComplete DEF Returned, DmaServicesRight
<1>2. ScanInv /\ [BuffersNext]_buffersVars => ScanInv'
  BY ScanNext
<1>3. Returned /\ [BuffersNext]_buffersVars => Returned'
  BY ReturnedNext
<1> QED
  BY <1>1, <1>2, <1>3, ScanInit, ReturnedInit, PTL DEF BuffersSpec

-----------------------------------------------------------------------------
(* What is proved of the parts holds of all of them together. *)

LEMMA AllBegin ==
  Init => /\ PcieInit(Systems) /\ ModulesInit /\ InterruptsInit({"none", "flat", "hierarchy"})
          /\ TransferInit /\ BuffersInit /\ ProcessorsInit /\ TablesInit
<1> SUFFICES ASSUME Init
             PROVE  PcieInit(Systems) /\ InterruptsInit({"none", "flat", "hierarchy"})
  BY DEF Init
<1>1. (IF part = "pcie" THEN Systems ELSE {CHOOSE s \in Systems : TRUE}) \subseteq Systems
  BY ServicesAssumption
<1>2. (IF part = "interrupts" THEN Domains ELSE {"none"}) \subseteq {"none", "flat", "hierarchy"}
  BY ServicesAssumption
<1>3. PcieInit(IF part = "pcie" THEN Systems ELSE {CHOOSE s \in Systems : TRUE})
      /\ InterruptsInit(IF part = "interrupts" THEN Domains ELSE {"none"})
  BY DEF Init
<1> QED
  BY <1>1, <1>2, <1>3 DEF PcieInit, InterruptsInit

LEMMA OneSteps ==
  [Next]_servicesVars =>
    /\ [PcieNext]_pcieVars /\ [ModulesNext]_modulesVars /\ [InterruptsNext]_interruptsVars
    /\ [TransferNext]_transferVars /\ [BuffersNext]_buffersVars
    /\ [FirmwareNext]_firmwareVars /\ [TablesNext]_tablesVars
<1>1. CASE UNCHANGED servicesVars
  BY <1>1 DEF servicesVars
<1>2. CASE Next
  BY <1>2 DEF Next, At, Rest
<1> QED
  BY <1>1, <1>2

\* Every behaviour of the services together is one of each part, so that what is proved of
\* the specification of a part holds when the parts run side by side.
THEOREM PartsRunAsAlone ==
  Spec => /\ PcieSpec /\ ModulesSpec /\ InterruptsSpec /\ TransferSpec /\ BuffersSpec
          /\ FirmwareSpec /\ TablesSpec
BY AllBegin, OneSteps, PTL
   DEF Spec, PcieSpec, ModulesSpec, InterruptsSpec, TransferSpec, BuffersSpec, FirmwareSpec,
       TablesSpec
=============================================================================
