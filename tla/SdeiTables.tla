----------------------------- MODULE SdeiTables -----------------------------
(* The tables the SDEI platform layer makes of the firmware's, and the timer *)
(* it uses as a second source of interrupts.                                 *)
(*                                                                           *)
(* sdei_init() walks the MADT (four times), the HEST and the GTDT (twice).   *)
(* Each iteration of a walk is a step; lengths in bytes are positions of     *)
(* entries.  The tests then choose a timer by its number, and number, block  *)
(* and index in the block have to go together.                               *)
(* A test's other use of the tables is in VAL and external.                  *)
EXTENDS Naturals, FiniteSetsExt, SequencesExt

CONSTANTS
  Firmware,   \* [madt, hest, gtdt: sequences of entries, has: the tables there are,
              \*  clears: does the kernel's acpi_get_table() clear the pointer of the others?]
  Stray       \* what a walk of memory that is no HEST may take for events

\* No platform is without a processor, and so without an entry in its MADT.
FirmwareTables ==
  [madt : Seq([type : STRING, base : Nat, version : Nat]),
   hest : Seq([sdei : BOOLEAN, vector : Nat]),
   gtdt : Seq([type : STRING, gsiv : Nat, timers : Seq([gsiv : Nat, base : Nat, secure : BOOLEAN])]),
   has : SUBSET {"hest", "gtdt"}, clears : BOOLEAN]
ASSUME FirmwareAssumption == Firmware \subseteq FirmwareTables /\ \A f \in Firmware : Len(f.madt) > 0

VARIABLES
  fw,         \* this platform's tables, which nobody changes
  pc,         \* the walk in progress, or "ready", or "failed", or "killed" by a fault
  pass,       \* the MADT walk's number
  pos,        \* the entry it is at
  gic,        \* gic_info_table_t
  event,      \* event_info_table_t
  wd,         \* wd_info_table_t: the entry written, and num_wd
  timer,      \* timer_info_table_t: the timers of each gt_info, num_platform_timer
  second,     \* what pal_configure_second_interrupt() told the test
  armed       \* the frames whose timer is enabled, by their bases

vars == <<fw, pc, pass, pos, gic, event, wd, timer, second, armed>>

Begin(walk) == pc' = walk /\ pos' = 1

-----------------------------------------------------------------------------
Passes    == <<"cpuif", "gicd", "gicrd", "its">>
EndOfData == [type |-> "end", base |-> 0, version |-> 0]

\* What pass p takes over: its type, unless the base is 0.
Taken(p, e) == e.type = Passes[p] /\ e.base # 0

\* CPU interfaces are not counted; the last distributor gives the version.
GicEntry ==
  /\ pc = "gic" /\ pos <= Len(fw.madt)
  /\ LET e == fw.madt[pos] IN
       gic' = IF Taken(pass, e)
                THEN [gic EXCEPT
                        !.entries = Append(@, e),
                        !.num[e.type] = @ + (IF pass = 1 THEN 0 ELSE 1),
                        !.version = IF e.type = "gicd" THEN e.version ELSE @]
                ELSE gic
  /\ pos' = pos + 1
  /\ UNCHANGED <<fw, pc, pass, event, wd, timer, second, armed>>

GicPass ==
  /\ pc = "gic" /\ pos > Len(fw.madt) /\ pass < Len(Passes)
  /\ pass' = pass + 1 /\ pos' = 1
  /\ UNCHANGED <<fw, pc, gic, event, wd, timer, second, armed>>

\* Mutant: the mark overwrites the last entry.
GicEndEarly ==
  /\ pc = "gic" /\ pos > Len(fw.madt) /\ pass = Len(Passes)
  /\ gic' = [gic EXCEPT !.entries =
               IF @ = <<>> THEN <<EndOfData>> ELSE Append(Front(@), EndOfData)]
  /\ Begin("event")
  /\ UNCHANGED <<fw, pass, event, wd, timer, second, armed>>

GicEnd ==
  /\ pc = "gic" /\ pos > Len(fw.madt) /\ pass = Len(Passes)
  /\ gic' = [gic EXCEPT !.entries = Append(@, EndOfData)]
  /\ Begin("event")
  /\ UNCHANGED <<fw, pass, event, wd, timer, second, armed>>

-----------------------------------------------------------------------------
\* A walk of a table the platform does not have gives the run up.
NoTable == pc' = "failed" /\ UNCHANGED <<fw, pass, pos, gic, event, wd, timer, second, armed>>
NoHest == pc = "event" /\ "hest" \notin fw.has /\ NoTable

\* hest_table is not initialised and its walk is not told that there is none: unless
\* the kernel clears the pointer, or it happens to be NULL, it goes where it points, to
\* a fault or to events nobody listed.
WildHest ==
  /\ pc = "event" /\ "hest" \notin fw.has /\ ~fw.clears
  /\ \/ pc' = "killed" /\ UNCHANGED <<pos, event>>
     \/ Begin("wd") /\ \E read \in Stray :
          event' = [hest_found |-> TRUE, info |-> read, num_ghes_notify |-> Len(read),
                    num_events |-> Cardinality({i \in DOMAIN read : read[i] # 0})]
  /\ UNCHANGED <<fw, pass, gic, wd, timer, second, armed>>

NoGtdt == pc = "wd" /\ "gtdt" \notin fw.has /\ NoTable

HestFound ==
  /\ pc = "event" /\ "hest" \in fw.has /\ ~event.hest_found
  /\ event' = [event EXCEPT !.hest_found = TRUE]
  /\ UNCHANGED <<fw, pc, pass, pos, gic, wd, timer, second, armed>>

\* Every source that notifies by SDEI takes an entry; event 0 is not counted.
EventEntry ==
  /\ pc = "event" /\ event.hest_found /\ pos <= Len(fw.hest)
  /\ LET ghes == fw.hest[pos] IN
       event' = IF ghes.sdei
                  THEN [event EXCEPT
                          !.info = Append(@, ghes.vector), !.num_ghes_notify = @ + 1,
                          !.num_events = @ + (IF ghes.vector = 0 THEN 0 ELSE 1)]
                  ELSE event
  /\ pos' = pos + 1
  /\ UNCHANGED <<fw, pc, pass, gic, wd, timer, second, armed>>

EventEnd ==
  /\ pc = "event" /\ event.hest_found /\ pos > Len(fw.hest)
  /\ Begin("wd")
  /\ UNCHANGED <<fw, pass, gic, event, wd, timer, second, armed>>

\* wd_info never moves on: each watchdog is written to the first entry.
WdEntry ==
  /\ pc = "wd" /\ "gtdt" \in fw.has /\ pos <= Len(fw.gtdt)
  /\ LET e == fw.gtdt[pos] IN
       wd' = IF e.type = "wd" THEN [info |-> e.gsiv, num_wd |-> wd.num_wd + 1] ELSE wd
  /\ pos' = pos + 1
  /\ UNCHANGED <<fw, pc, pass, gic, event, timer, second, armed>>

WdEnd ==
  /\ pc = "wd" /\ "gtdt" \in fw.has /\ pos > Len(fw.gtdt)
  /\ Begin("timer")
  /\ UNCHANGED <<fw, pass, gic, event, wd, timer, second, armed>>

\* A block with its timers; an entry that is no block takes no gt_info.
TimerEntry ==
  /\ pc = "timer" /\ pos <= Len(fw.gtdt)
  /\ LET e == fw.gtdt[pos] IN
       timer' = IF e.type = "block"
                  THEN [gt_info |-> Append(timer.gt_info, e.timers),
                        num |-> timer.num + Len(e.timers)]
                  ELSE timer
  /\ pos' = pos + 1
  /\ UNCHANGED <<fw, pc, pass, gic, event, wd, second, armed>>

\* g_sys_timertable is set, the tables are complete.
TimerEnd ==
  /\ pc = "timer" /\ pos > Len(fw.gtdt)
  /\ pc' = "ready"
  /\ UNCHANGED <<fw, pass, pos, gic, event, wd, timer, second, armed>>

-----------------------------------------------------------------------------
\* A slot of a gt_info nothing was written to since kzalloc().
Zeroed == [gsiv |-> 0, base |-> 0, secure |-> FALSE]

\* How many timers the blocks before b have.
Before(b) == Cardinality(UNION {{c} \X (1 .. Len(timer.gt_info[c])) : c \in 1 .. b - 1})

\* Mutant: the index in the block still counts the blocks before.
EntryIndexWhole(index) ==
  LET b == Min({c \in DOMAIN timer.gt_info : index <= Before(c + 1)})
  IN  <<b, index>>

\* The loop goes on while the index is more than the block's count: it stops at
\* the first block the count of which, with those before, is at least the index.
EntryIndex(index) ==
  LET b == Min({c \in DOMAIN timer.gt_info : index <= Before(c + 1)})
  IN  <<b, index - Before(b)>>

\* pal_timer_get_info() of a number up to num_platform_timer.
Info(index) ==
  LET e == EntryIndex(index)
      t == timer.gt_info[e[1]]
  IN  IF e[2] < Len(t) THEN t[e[2] + 1] ELSE Zeroed

Unasked == [status |-> "none"]
Refused == [status |-> "error"]

\* From the last timer down, the first that is not secure.
SecondInterrupt ==
  LET free == {i \in 0 .. timer.num - 1 : ~Info(i).secure}
  IN  IF free = {} THEN Refused
        ELSE [status |-> "success", index |-> Max(free), int_id |-> Info(Max(free)).gsiv]

ConfigureSecondInterrupt ==
  /\ pc = "ready" /\ second = Unasked
  /\ second' = SecondInterrupt
  /\ UNCHANGED <<fw, pc, pass, pos, gic, event, wd, timer, armed>>

GenerateSecondInterrupt ==
  /\ second.status = "success"
  /\ armed' = armed \cup {Info(second.index).base}
  /\ UNCHANGED <<fw, pc, pass, pos, gic, event, wd, timer, second>>

DisableSecondInterrupt ==
  /\ second.status = "success"
  /\ armed' = armed \ {Info(second.index).base}
  /\ UNCHANGED <<fw, pc, pass, pos, gic, event, wd, timer, second>>

-----------------------------------------------------------------------------
Init ==
  /\ fw \in Firmware
  /\ pc = "gic" /\ pass = 1 /\ pos = 1
  /\ gic = [entries |-> <<>>, num |-> [t \in ToSet(Passes) |-> 0], version |-> 0]
  /\ event = [hest_found |-> FALSE, info |-> <<>>, num_ghes_notify |-> 0, num_events |-> 0]
  /\ wd = [info |-> 0, num_wd |-> 0]
  /\ timer = [gt_info |-> <<>>, num |-> 0]
  /\ second = Unasked /\ armed = {}

Next ==
  \/ GicEntry \/ GicPass \/ GicEnd
  \/ NoHest \/ WildHest \/ NoGtdt \/ HestFound \/ EventEntry \/ EventEnd \/ WdEntry \/ WdEnd \/ TimerEntry \/ TimerEnd
  \/ ConfigureSecondInterrupt \/ GenerateSecondInterrupt \/ DisableSecondInterrupt

Spec == Init /\ [][Next]_vars

-----------------------------------------------------------------------------
\* What is at a place of a table is numbered from 0, by how many places of S come before it.
Earlier(p, q) == p[1] < q[1] \/ (p[1] = q[1] /\ p[2] < q[2])
Number(S, p) == Cardinality({q \in S : Earlier(q, p)})

\* The platform's timers: the i-th of block k of the GTDT is at <<k, i>>.
Blocks == {k \in DOMAIN fw.gtdt : fw.gtdt[k].type = "block"}
Places == UNION {{k} \X (1 .. Len(fw.gtdt[k].timers)) : k \in Blocks}
TimerAt(p) == fw.gtdt[p[1]].timers[p[2]]
LaterFirst(p) == p[2] = 1 /\ \E k \in Blocks : k < p[1]

\* When the tables are complete, every number below num_platform_timer leads to
\* the timer with that number in the GTDT and none is missing, except for a timer
\* that is the first of a block behind another.  On a platform without such timers
\* the test is given the last timer that is not secure, an error only if there is
\* none, and nothing but the frame of that timer is ever enabled
\* (pal_wd_timer.c:90-136, 168-197, 268-283).
TimersRight ==
  pc = "ready" =>
    LET free == {p \in Places : ~TimerAt(p).secure} IN
    /\ timer.num = Cardinality(Places)
    /\ \A p \in Places : ~LaterFirst(p) => Info(Number(Places, p)) = TimerAt(p)
    /\ (\A p \in Places : ~LaterFirst(p)) /\ second # Unasked =>
         IF free = {}
         THEN second = Refused /\ armed = {}
         ELSE \E p \in free :
                /\ \A q \in free : q = p \/ Earlier(q, p)
                /\ second = [status |-> "success", index |-> Number(Places, p), int_id |-> TimerAt(p).gsiv]
                /\ armed \subseteq {TimerAt(p).base}

\* The comment "Skip secure timer" (pal_wd_timer.c:181): the timer the test is
\* given is not a secure one of the GTDT.
SecureSkipped ==
  second.status = "success" => \E p \in Places : Number(Places, p) = second.index /\ ~TimerAt(p).secure

\* The entries taken over, <<p, k>> for entry k of the MADT in pass p; the sources of
\* the HEST that notify by SDEI; the watchdogs of the GTDT.
Kept == {x \in (1 .. Len(Passes)) \X (1 .. Len(fw.madt)) : Taken(x[1], fw.madt[x[2]])}
Sources == {k \in DOMAIN fw.hest : fw.hest[k].sdei}
Dogs == {k \in DOMAIN fw.gtdt : fw.gtdt[k].type = "wd"}

\* The GIC's entries are those of the MADT with a base, grouped and counted by
\* type and with the mark behind them; where there is a HEST, every SDEI source of it has
\* its event in the table, and, if none is event 0, within num_events; a watchdog that is
\* alone is in the table.  A run is given up for want of a HEST before anything was
\* counted in the event table, and otherwise for want of a GTDT; without a HEST it can go
\* on, or be killed, only where the kernel does not clear the pointer to it
\* (pal_gic.c:66-133, pal_sdei_interface.c:163-199, pal_wd_timer.c:238-250).
TablesComplete ==
  /\ pc \in {"wd", "timer", "ready", "killed"} /\ fw.clears => "hest" \in fw.has
  /\ pc = "killed" => "hest" \notin fw.has
  /\ pc = "failed" => IF event.hest_found THEN "gtdt" \notin fw.has ELSE event.num_ghes_notify = 0
  /\ pc = "ready" =>
      /\ Len(gic.entries) = Cardinality(Kept) + 1 /\ Last(gic.entries) = EndOfData
      /\ \A x \in Kept : gic.entries[Number(Kept, x) + 1] = fw.madt[x[2]]
      /\ \A p \in 2 .. Len(Passes) : gic.num[Passes[p]] = Cardinality({x \in Kept : x[1] = p})
      /\ "hest" \in fw.has =>
           /\ Len(event.info) = Cardinality(Sources) /\ event.num_ghes_notify = Cardinality(Sources)
           /\ \A k \in Sources : event.info[Cardinality({j \in Sources : j < k}) + 1] = fw.hest[k].vector
           /\ (\A k \in Sources : fw.hest[k].vector # 0) => event.num_events = Cardinality(Sources)
      /\ wd.num_wd = Cardinality(Dogs)
      /\ \A k \in Dogs : Dogs = {k} => wd.info = fw.gtdt[k].gsiv
=============================================================================
