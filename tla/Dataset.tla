---------------------------- MODULE Dataset ----------------------------
(***************************************************************************)
(* What a reader of the data directory may rely on, without the daemon's   *)
(* program counter, the order of its writes or the ways it can die: every  *)
(* file of a day is absent or is one whole image of the counts of some     *)
(* process, a file is replaced only by a newer image, and a file vanishes  *)
(* only when its day is older than the window.                             *)
(***************************************************************************)
EXTENDS Integers

CONSTANTS
    Day,            \* calendar days, as numbers
    File,           \* the files of a day
    RetainDays      \* how old a day may be

VARIABLES
    today,          \* the collector's clock
    life,           \* which process is running
    counted,        \* [Day -> flows that process has counted for the day]
    shown           \* <<day, file>> -> image, for the files that exist

Init ==
    /\ today = 0 /\ life = 1
    /\ counted = [d \in Day |-> 0]
    /\ shown = [k \in {} |-> 0]

Advance ==
    /\ today' = today + 1
    /\ UNCHANGED <<life, counted, shown>>

\* One flow of a day or several at once.
Count(d) ==
    /\ counted'[d] > counted[d]
    /\ counted' = [counted EXCEPT ![d] = counted'[d]]
    /\ UNCHANGED <<today, life, shown>>

\* One file takes the counts of this moment.
Show(d, f) ==
    /\ counted[d] > 0
    /\ shown' = [k \in DOMAIN shown \cup {<<d, f>>} |->
                    IF k = <<d, f>>
                    THEN [life |-> life, counted |-> counted]
                    ELSE shown[k]]
    /\ UNCHANGED <<today, life, counted>>

\* Some files of one expired day go.
Forget(d) ==
    /\ d < today - RetainDays
    /\ \E gone \in SUBSET File :
           shown' = [k \in DOMAIN shown \ ({d} \X gone) |-> shown[k]]
    /\ UNCHANGED <<today, life, counted>>

\* The next process knows nothing of what the last one counted.
Restart ==
    /\ life' = life + 1
    /\ counted' = [d \in Day |-> 0]
    /\ UNCHANGED <<today, shown>>

Next ==
    \/ Advance
    \/ Restart
    \/ \E d \in Day : Count(d) \/ Forget(d) \/ \E f \in File : Show(d, f)

Spec == Init /\ [][Next]_<<today, life, counted, shown>>
=========================================================================
