---------------------------- MODULE MessageLog ----------------------------
(***************************************************************************)
(* What the SDEI driver's log promises, without buffers, growth or slots:  *)
(* an unbounded sequence of messages, the n-th of which is the n-th one    *)
(* printed; every open file has a cursor that moves over the sequence one  *)
(* message at a time and never past its end; a message may be blanked, but *)
(* only once it has been delivered to some file.                           *)
(***************************************************************************)
EXTENDS Naturals, Sequences

CONSTANT Readers

VARIABLES
  log,     \* what each printed message still is: its number, or Blank
  cursor,  \* how many messages each open file has gone over
  seen     \* the messages delivered to some file

vars == <<log, cursor, seen>>

Blank == 0

Init ==
  /\ log = <<>>
  /\ cursor = [r \in Readers |-> 0]
  /\ seen = {}

Append1 ==
  /\ log' = Append(log, Len(log) + 1)
  /\ UNCHANGED <<cursor, seen>>

Deliver(r) ==
  /\ cursor[r] < Len(log)
  /\ cursor' = [cursor EXCEPT ![r] = @ + 1]
  /\ seen' = seen \cup ({log[cursor'[r]]} \ {Blank})
  /\ UNCHANGED log

Rewind(r) ==
  /\ cursor' = [cursor EXCEPT ![r] = 0]
  /\ UNCHANGED <<log, seen>>

Erase(k) ==
  /\ log[k] \in seen
  /\ log' = [log EXCEPT ![k] = Blank]
  /\ UNCHANGED <<cursor, seen>>

Next ==
  \/ Append1
  \/ \E r \in Readers : Deliver(r) \/ Rewind(r)
  \/ \E k \in DOMAIN log : Erase(k)

Spec == Init /\ [][Next]_vars
=============================================================================
