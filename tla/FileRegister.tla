-------------------------- MODULE FileRegister --------------------------
(***************************************************************************)
(* What a reader of one dataset file may rely on, with no temporary file   *)
(* and no system calls in it: the file is absent or one whole content; a   *)
(* newer content replaces it in one step; a power cut may bring back one   *)
(* of the contents it had since the disk last caught up, and no other.     *)
(* Contents are numbered as they are written; 0 is no file.                *)
(***************************************************************************)
EXTENDS Integers

CONSTANT Number     \* the numbers of the contents there may be

VARIABLES
    value,          \* the content a reader finds
    kept            \* the contents a power cut may leave

Init == value = 0 /\ kept = {0}

Replace(v) ==
    /\ \A k \in kept : k < v
    /\ value' = v
    /\ kept' = kept \cup {v}

CatchUp == kept' = {value} /\ UNCHANGED value

PowerCut == \E k \in kept : value' = k /\ kept' = {k}

Next == (\E v \in Number : Replace(v)) \/ CatchUp \/ PowerCut

Spec == Init /\ [][Next]_<<value, kept>>
=========================================================================
