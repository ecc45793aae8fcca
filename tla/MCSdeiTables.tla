---------------------------- MODULE MCSdeiTables ----------------------------
(* All small GTDTs, MADTs and HESTs.  An entry's place tells its numbers, so *)
(* that no two are alike; what one walk reads does not matter to the others. *)
EXTENDS SdeiTables

\* A GTDT by its shape: "wd", or for each timer of a block whether it is secure.
Gtdt(shape) ==
  [k \in DOMAIN shape |->
     IF shape[k].dog THEN [type |-> "wd", gsiv |-> 10 * k, timers |-> <<>>]
       ELSE [type |-> "block", gsiv |-> 0,
             timers |-> [i \in DOMAIN shape[k].secure |->
               [gsiv |-> 10 * k + i, base |-> 100 * k + i, secure |-> shape[k].secure[i]]]]]
Shapes == [dog : {TRUE}, secure : {<<>>}] \cup [dog : {FALSE}, secure : BoundedSeq(BOOLEAN, 2) \ {<<>>}]
Gtdts  == {Gtdt(s) : s \in BoundedSeq(Shapes, 3)}

MadtOf(s) ==
  [k \in DOMAIN s |-> [type |-> s[k].type, base |-> IF s[k].mapped THEN k ELSE 0, version |-> k]]
Madts == {MadtOf(s) : s \in BoundedSeq([type : ToSet(Passes) \cup {"other"}, mapped : BOOLEAN], 3) \ {<<>>}}

HestOf(s) == [k \in DOMAIN s |-> [sdei |-> s[k] # "other", vector |-> IF s[k] = "event" THEN k ELSE 0]]
Hests  == {HestOf(s) : s \in BoundedSeq({"other", "zero", "event"}, 3)}

Plain == [madt |-> <<[type |-> "cpuif", base |-> 1, version |-> 0]>>, hest |-> <<>>, gtdt |-> <<>>,
          has |-> {"hest", "gtdt"}, clears |-> TRUE]
Platforms ==
  {[Plain EXCEPT !.gtdt = g] : g \in Gtdts} \cup {[Plain EXCEPT !.madt = m] : m \in Madts}
  \cup {[Plain EXCEPT !.hest = h] : h \in Hests}
  \cup {[Plain EXCEPT !.has = t, !.clears = c] : t \in SUBSET {"hest", "gtdt"}, c \in BOOLEAN}
Garbage == BoundedSeq({0, 7}, 2)
=============================================================================
