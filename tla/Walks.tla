---------------------------- MODULE Walks ----------------------------
(***************************************************************************)
(* One received datagram, from its first byte to the last parser's return: *)
(* on the NetFlow socket decode_sets, on the TZSP socket the frame and     *)
(* then the parsers of process_tzsp, one after the other on its payload.   *)
(***************************************************************************)
EXTENDS SetWalk, FrameWalk, LeaseWalk, AnswerWalk, HelloWalk, InitialWalk

Init == SetsInit \/ FrameInit

Next ==
    \/ SetsNext
    \/ FrameNext
    \/ LeaseNext
    \/ AnswerNext
    \/ HelloNext
    \/ InitialNext

\* The one thread does nothing else until the datagram is done.
Spec == Init /\ [][Next]_vars /\ WF_vars(Next)

-----------------------------------------------------------------------------
FramePhases == {"tzsp", "tags", "ethernet", "ip", "segment"}
NamePhases == {"name", "answer"}
InitialPhases == {"token", "length", "protected", "frames"}
Parser == {"dhcp", "dns", "hello", "initial"}
Phase ==
    {"sets"} \cup InSet \cup FramePhases \cup Parser \cup {"options"}
        \cup NamePhases \cup HelloPhases \cup InitialPhases \cup Ended

\* Where the walk is in a part of the buffer, and where it has taken a position
\* that it looks at only when it goes on.
Sliced == InSet \cup HelloPhases \cup {"protected"} \cup Ended
Unchecked == {"tags", "name", "answer", "token", "length", "protected"} \cup Ended

Types ==
    /\ len \in Nat /\ pos \in Nat /\ end \in Nat /\ rec_len \in Nat /\ max \in Nat
    /\ phase \in Phase
    /\ todo \in Seq(Parser)
    /\ read \in Nat \X Nat \X Nat
    /\ questions \in Nat /\ answers \in Nat
    /\ hops \in Nat /\ jumped \in BOOLEAN /\ after \in Nat
    /\ buf \in Seq(Nat \cup {Hole}) /\ brought \subseteq Nat

\* The walk is inside its slice, the slice inside the buffer, and the stream inside
\* its own.
Nested ==
    /\ phase \in Parser \cup {"tzsp"} => pos = 0
    /\ phase \notin Sliced => end = len
    /\ phase \notin Unchecked => pos <= end /\ end <= len
    /\ phase \in InSet => 4 <= pos
    /\ phase = "frames" => max <= Len(buf)

\* What read_name gives back is where it is, or was when it followed a pointer.
NameInMessage ==
    /\ phase \in NamePhases => answers > 0
    /\ phase = "name" => hops <= MaxHops + 1 /\ (after = pos \/ (jumped /\ after <= len))
    /\ phase = "answer" => after = pos /\ pos <= len

TypeOK ==
    /\ Types /\ Nested /\ NameInMessage
    /\ Len(todo) <= 3 /\ rec_len > 0

\* A bound on the steps to come, the first component weighing most: parsers not run
\* yet; functions of the parser not entered yet; names and records; pointers; bytes.
Stage ==
    IF phase \in Ended THEN 0
    ELSE IF phase \in FramePhases THEN 5
    ELSE Len(todo) + 1

Rank ==
    IF phase \in {"dns", "hello", "initial", "token", "length", "protected"} THEN 2
    ELSE IF phase = "frames" THEN 1
    ELSE 0

Items ==
    IF phase = "name" THEN 2 * (questions + answers) + 1
    ELSE IF phase = "answer" THEN 2 * (questions + answers)
    ELSE 0

Hops == IF phase = "name" THEN MaxHops + 1 - hops ELSE 0

Left == IF pos < len THEN len - pos ELSE 0
Bytes == IF phase \in InSet THEN 2 * Left + 2 ELSE 2 * Left + 1

Measure == <<Stage, Rank, Items, Hops, Bytes>>

Below(a, b) ==
    \E i \in 1 .. 5 : a[i] < b[i] /\ \A j \in 1 .. i - 1 : a[j] = b[j]

\* Every step brings the end nearer: no loop can spin on a set length of 0, an empty
\* template, a record or an option without length, a pointer to itself.
AlwaysAdvances == [][Below(Measure', Measure)]_vars

\* No datagram holds the daemon up for ever: decode and process_tzsp return, or the
\* process ends at the one place where they may not, the buffer crypto_stream makes
\* as long as the largest offset a CRYPTO frame names.
Terminates == <>(phase \in Ended)

\* The names of a DNS message are read one behind the other, wherever their pointers
\* lead: where a_records goes on never falls back, and each question and answer takes
\* it further.  So a message has no more records than bytes, whatever it claims.
MovesOn ==
    /\ after' >= after
    /\ (questions' + answers' < questions + answers) => (after' > after)
RecordsFollowEachOther ==
    [][{phase, phase'} \subseteq NamePhases => MovesOn]_vars

\* The CRYPTO stream is what was brought, however it was cut, ordered or repeated:
\* each byte in its own place, and zeros where none came.
StreamIsWhatCame ==
    /\ \A k \in brought : k < max
    /\ \A k \in DOMAIN buf : buf[k] = IF k - 1 \in brought THEN k - 1 ELSE Hole
=============================================================================
