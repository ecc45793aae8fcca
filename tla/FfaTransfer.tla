----------------------------- MODULE FfaTransfer -----------------------------
(***************************************************************************)
(* A DMA test of the FF-A module: two buffers from pal_memory_alloc(), a   *)
(* transfer by the SMMU test engine, and pal_memory_free().                *)
(*                                                                         *)
(* Every MMIO access is a step; the engine (external) works off a frame at *)
(* any time after its CMD register was written, even after the driver has  *)
(* given up waiting.  Sizes are in half pages.                             *)
(***************************************************************************)
EXTENDS Integers, Sequences

CONSTANTS
  Sizes,      \* of transfers
  UINT32,     \* how many half pages a uint32_t tells apart
  TIME_OUT    \* a bound: 0x100000 in the code

ASSUME TransferAssumption == Sizes \subseteq Nat /\ UINT32 \in Nat \ {0} /\ TIME_OUT \in Nat \ {0, 1}

VARIABLES
  tpc,      \* where the test is
  size, contents, beyond,   \* the size, what the source's pages hold, what is behind it
  buffer,   \* is the destination "none", "live" or "freed"?
  dest,     \* its pages
  frame,    \* i, the frame in progress
  writes,   \* the registers still to be written
  regs,     \* the register file, byte by byte
  time_out,
  astray    \* history: did the engine write outside the live buffer?

transferVars == <<tpc, size, contents, beyond, buffer, dest, frame, writes, regs, time_out, astray>>

-----------------------------------------------------------------------------
(* MMIO: byte k of a value v is <<v, k>>. *)
Garbage == -1
Aligned4(addr) == addr - (addr % 4)
MmioWrite(r, w, addr, v) ==
  LET to == addr .. addr + w \div 8 - 1
  IN [b \in DOMAIN r \cup to |-> IF b \in to THEN <<v, b - addr>> ELSE r[b]]
\* A 32-bit read masks the low bits of its address.
MmioRead(r, w, addr) ==
  LET a == IF w = 32 THEN Aligned4(addr) ELSE addr
      whole == \A k \in 0 .. w \div 8 - 1 : a + k \in DOMAIN r /\ r[a + k] = <<r[a][1], k>>
  IN IF a \in DOMAIN r /\ whole THEN r[a][1] ELSE Garbage

P_FRAME_BASE == 65536
U_FRAME_BASE == 0
F_IDX(n) == n * 128
CMD == 0
UCTRL == 4
SEED == 36
BEGIN == 40
END_CTRL == 48
STRIDE == 56
UDATA == 64
StreamId == 7
NO_SUBSTREAMID == 65535
ENGINE_ERROR == 255
ENGINE_HALTED == 1
ENGINE_MEMCPY == 2

PagesOf(s) == s \div 2
Order(s) == PagesOf(s) \div 2
Capacity(s) == 2 ^ Order(s)
NumFrames(s) == PagesOf(s % UINT32)
Page(k) == IF k \in DOMAIN contents THEN contents[k] ELSE beyond
User(i, reg) == U_FRAME_BASE + F_IDX(i) + reg
Privileged(i, reg) == P_FRAME_BASE + F_IDX(i) + reg

\* Mutant: the engine is started before it is told the destination.
ProgrammingCmdEarly(i) ==
  <<<<32, User(i, STRIDE), 1>>, <<64, User(i, BEGIN), i>>, <<64, User(i, END_CTRL), i>>,
    <<32, User(i, CMD), ENGINE_MEMCPY>>, <<64, User(i, UDATA), i>>>>
\* The registers of frame i in the order they are written; addresses are pages.
Programming(i) ==
  <<<<32, Privileged(i, 0), 1>>, <<32, Privileged(i, 4), 0>>,
    <<32, Privileged(i, 8), StreamId>>, <<32, Privileged(i, 12), NO_SUBSTREAMID>>,
    <<32, User(i, UCTRL), 0>>, <<32, User(i, SEED), 0>>,
    <<64, User(i, BEGIN), i>>, <<64, User(i, END_CTRL), i>>,
    <<32, User(i, STRIDE), 1>>, <<64, User(i, UDATA), i>>, <<32, User(i, CMD), ENGINE_MEMCPY>>>>

-----------------------------------------------------------------------------
AllocBuffers ==
  /\ tpc = "idle"
  /\ size' \in Sizes
  /\ \E a, b \in {"x", "y"} :
       /\ contents' = [k \in 0 .. PagesOf(size') |-> IF k = 0 THEN a ELSE b]
       /\ beyond' \in {"x", "y"}
  /\ \/ /\ buffer' = "live" /\ tpc' = "configure"
        /\ dest' = [k \in 0 .. Capacity(size') - 1 |-> "old"]
     \/ buffer' = "none" /\ tpc' = "end" /\ UNCHANGED dest
  /\ UNCHANGED <<frame, writes, regs, time_out, astray>>

\* pal_smmu_device_configure and the head of the loop.
ConfigureTestengine ==
  /\ tpc = "configure"
  /\ tpc' = IF NumFrames(size) < 1 THEN "error" ELSE "write"
  /\ frame' = 0 /\ writes' = Programming(0) /\ time_out' = TIME_OUT
  /\ UNCHANGED <<size, contents, beyond, buffer, dest, regs, astray>>

WriteRegister ==
  /\ tpc = "write" /\ writes # <<>>
  /\ regs' = MmioWrite(regs, Head(writes)[1], Head(writes)[2], Head(writes)[3])
  /\ writes' = Tail(writes)
  /\ tpc' = IF Tail(writes) = <<>> THEN "poll" ELSE "write"
  /\ UNCHANGED <<size, contents, beyond, buffer, dest, frame, time_out, astray>>

\* Mutant: the loop does not count.
WaitedNot == time_out
Waited == time_out - 1

\* One turn of while (--time_out), and what follows the loop.
Poll ==
  /\ tpc = "poll"
  /\ LET data == MmioRead(regs, 32, User(frame, CMD))
         more == frame + 1 < NumFrames(size)
     IN \/ /\ time_out = 1
           /\ tpc' = "timeout" /\ UNCHANGED <<frame, writes, time_out>>
        \/ /\ time_out > 1 /\ data = ENGINE_MEMCPY
           /\ time_out' = Waited /\ UNCHANGED <<tpc, frame, writes>>
        \/ /\ time_out > 1 /\ data \notin {ENGINE_MEMCPY, ENGINE_HALTED}
           /\ tpc' = "error" /\ UNCHANGED <<frame, writes, time_out>>
        \/ /\ time_out > 1 /\ data = ENGINE_HALTED
           /\ time_out' = TIME_OUT
           /\ frame' = IF more THEN frame + 1 ELSE frame
           /\ writes' = IF more THEN Programming(frame + 1) ELSE <<>>
           /\ tpc' = IF more THEN "write" ELSE "compare"
  /\ UNCHANGED <<size, contents, beyond, buffer, dest, regs, astray>>

\* begin still points to the last frame's source.
Compare ==
  /\ tpc = "compare"
  /\ \E stray \in {"x", "y"} :   \* what is behind the destination
       LET length == (size + 1) \div 2   \* half a page is compared like a whole one
           At(k) == IF k \in DOMAIN dest THEN dest[k] ELSE stray
           same == \A k \in 0 .. length - 1 : Page(frame + k) = At(k)
       IN tpc' = IF same THEN "success" ELSE "mismatch"
  /\ UNCHANGED <<size, contents, beyond, buffer, dest, frame, writes, regs, time_out, astray>>

FreeBuffers ==
  /\ tpc \in {"success", "mismatch", "error", "timeout"} /\ buffer = "live"
  /\ buffer' = "freed"
  /\ UNCHANGED <<tpc, size, contents, beyond, dest, frame, writes, regs, time_out, astray>>

\* The engine copies a page to wherever it is told and halts, or gives up with an error.
EngineCopies ==
  \E i \in 0 .. frame :
    /\ MmioRead(regs, 32, User(i, CMD)) = ENGINE_MEMCPY
    /\ LET from == MmioRead(regs, 64, User(i, BEGIN))
           to == MmioRead(regs, 64, User(i, UDATA))
           ready == MmioRead(regs, 32, User(i, STRIDE)) = 1 /\ from \in Nat
       IN /\ ready /\ MmioRead(regs, 64, User(i, END_CTRL)) = from
          /\ dest' = IF to \in DOMAIN dest THEN [dest EXCEPT ![to] = Page(from)] ELSE dest
          /\ astray' = (astray \/ to \notin DOMAIN dest \/ buffer = "freed")
    /\ regs' = MmioWrite(regs, 32, User(i, CMD), ENGINE_HALTED)
    /\ UNCHANGED <<tpc, size, contents, beyond, buffer, frame, writes, time_out>>

EngineFails ==
  \E i \in 0 .. frame :
    /\ MmioRead(regs, 32, User(i, CMD)) = ENGINE_MEMCPY
    /\ regs' = MmioWrite(regs, 32, User(i, CMD), ENGINE_ERROR)
    /\ UNCHANGED <<tpc, size, contents, beyond, buffer, dest, frame, writes, time_out, astray>>

TransferInit ==
  /\ tpc = "idle" /\ size = 0 /\ contents = <<>> /\ beyond = "x" /\ buffer = "none"
  /\ dest = <<>> /\ frame = 0 /\ writes = <<>> /\ regs = <<>> /\ time_out = 0 /\ astray = FALSE
TestSteps == ConfigureTestengine \/ WriteRegister \/ Poll \/ Compare
TransferNext == AllocBuffers \/ TestSteps \/ FreeBuffers \/ EngineCopies \/ EngineFails

TransferSpec == TransferInit /\ [][TransferNext]_transferVars

\* The engine writes inside the live buffer only, unless the driver had given up waiting
\* or the size is three or five pages, for which too few are allocated.  Success means
\* that the pages of all frames were copied, and copying a page without a fault is a
\* success (pal_misc.c:46-68, pal_smmuv3_testengine.c:53-105).
TransferSound ==
  /\ astray => tpc = "timeout" \/ PagesOf(size) \in {3, 5}
  /\ tpc = "success" => \A k \in 0 .. NumFrames(size) - 1 : k \in DOMAIN dest => dest[k] = contents[k]
  /\ size = 2 => tpc # "mismatch"

\* The test comes to an end even when the engine never answers: every frame is waited
\* for a limited time (pal_smmuv3_testengine.c:73-95).
TransferEnds ==
  tpc \in {"configure", "write", "poll", "compare"} ~> tpc \in {"success", "mismatch", "error", "timeout"}
=============================================================================
