---------------------------- MODULE Tables ----------------------------
(***************************************************************************)
(* What the flush needs to know of the tables in memory: which days they   *)
(* have rows of, which of these have an app row labelled from a TZSP       *)
(* sample, and whether a sample has left a hint yet.  The full tables      *)
(* (module Collector) and what module Daemon keeps of them both implement  *)
(* this, so what Daemon leaves out is nothing its files depend on.         *)
(***************************************************************************)
EXTENDS Integers

VARIABLES
    life,           \* which process is running
    days,           \* days with rows
    labelled,       \* days with a row labelled sni, dns or ndpi
    taught          \* one of Store's three flags is up

Init == life = 1 /\ days = {} /\ labelled = {} /\ taught = FALSE

\* A flow of one day: it stays in memory, its row may be the first with a sampled
\* label, once there are hints, and may take the place of the last with one.
Count(day) ==
    /\ days' = days \cup {day}
    /\ \/ UNCHANGED labelled
       \/ taught /\ labelled' = labelled \cup {day}
       \/ labelled' = labelled \ {day}
    /\ UNCHANGED <<life, taught>>

\* A sample leaves a hint; no row is relabelled.
Learn ==
    /\ taught' = TRUE
    /\ UNCHANGED <<life, days, labelled>>

\* Only another process starts from nothing.
Restart == life' = life + 1 /\ days' = {} /\ labelled' = {} /\ taught' = FALSE

Next == Learn \/ Restart \/ \E day \in days' : Count(day)

Spec == Init /\ [][Next]_<<life, days, labelled, taught>>
========================================================================
