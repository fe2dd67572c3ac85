------------------------ MODULE AtomicFileProofs ------------------------
(***************************************************************************)
(* write_atomic never shows half a file, and implements a register, for    *)
(* contents of any length and any number of writes.                        *)
(***************************************************************************)
EXTENDS AtomicFile, TLAPS

\* A whole content that some call so far, or one before a given call, has written.
Written(content, last) ==
    \E n \in 0 .. last, size \in 0 .. MaxBlocks : content = Content(<<n, size>>)

\* What NAME holds or may hold was written by a call that is over; what is about to
\* be renamed is complete and on the disk.
Settled ==
    /\ file \in durable
    /\ \A content \in durable : Written(content, writes)
    /\ pc # "idle" =>
           /\ block[1] = writes
           /\ \A content \in durable : Written(content, writes - 1)
    /\ pc = "rename" => synced /\ written = block[2]

Inv == TypeOK /\ Settled

-----------------------------------------------------------------------------
(* Contents *)

\* A content that was written is whole and shows its number.
LEMMA ContentIsWhole ==
    ASSUME NEW n \in Nat, NEW size \in Nat
    PROVE  /\ Whole(Content(<<n, size>>))
           /\ Shown(Content(<<n, size>>)) = n
<1> DEFINE b == <<n, size>>
<1>1. b[1] = n
  OBVIOUS
<1> HIDE DEF b
<1>2. Content(b).of = b
  BY DEF Content, File
<1>3. Whole(Content(b))
  BY <1>2 DEF Whole
<1>4. Shown(Content(b)) = n
  BY <1>1, <1>2, <1>3 DEF Shown
<1> QED
  BY <1>3, <1>4 DEF b

\* Every written content shows one of the numbers given out.
LEMMA WrittenShows ==
    ASSUME NEW last \in Int, NEW content, Written(content, last)
    PROVE  Whole(content) /\ Shown(content) \in 0 .. last
<1>1. PICK n \in 0 .. last, size \in 0 .. MaxBlocks : content = Content(<<n, size>>)
  BY DEF Written
<1> QED
  BY <1>1, ContentIsWhole, BlocksAssumption

\* What was written by one call was written by a later one's time.
LEMMA WrittenLater ==
    ASSUME NEW a \in Int, NEW b \in Int, a <= b, NEW content, Written(content, a)
    PROVE  Written(content, b)
BY DEF Written

\* The state before the first call: no file, which counts as written.
LEMMA NoFileIsWritten == ASSUME NEW last \in Nat PROVE Written(NoFile, last)
<1>1. 0 \in 0 .. last /\ 0 \in 0 .. MaxBlocks
  BY BlocksAssumption
<1> QED
  BY <1>1 DEF Written, NoFile

-----------------------------------------------------------------------------
(* The invariant *)

LEMMA InitInv == Init => Inv
<1> SUFFICES ASSUME Init PROVE Inv
  OBVIOUS
<1>1. TypeOK
  <2>1. /\ block \in (0 .. writes) \X (0 .. MaxBlocks)
        /\ written \in 0 .. block[2] /\ writes \in 0 .. MaxWrites
    BY BlocksAssumption, WritesAssumption DEF Init
  <2> QED
    BY <2>1 DEF Init, TypeOK
<1>2. Settled
  BY NoFileIsWritten DEF Init, Settled
<1> QED
  BY <1>1, <1>2 DEF Inv

LEMMA NextInv == Inv /\ [Next]_vars => Inv'
<1> SUFFICES ASSUME Inv, [Next]_vars PROVE Inv'
  OBVIOUS
<1> USE DEF Inv
<1>1. ASSUME NEW size \in 0 .. MaxBlocks, Create(size) PROVE Inv'
  <2>1. TypeOK'
    <3>1. <<writes + 1, size>>[2] = size /\ <<writes + 1, size>>[1] = writes + 1
      OBVIOUS
    <3>2. tmp' = File(block', [i \in 1 .. written' |-> block'])
      BY <1>1 DEF Create
    <3>3. writes \in Nat /\ writes' \in 0 .. MaxWrites /\ writes' = writes + 1
      BY <1>1, WritesAssumption DEF Create, TypeOK
    <3>4. block' \in (0 .. writes') \X (0 .. MaxBlocks) /\ written' \in 0 .. block'[2]
      BY <1>1, <3>1, <3>3, BlocksAssumption DEF Create
    <3> QED
      BY <1>1, <3>2, <3>3, <3>4 DEF Create, TypeOK
  <2>2. Settled'
    <3>1. /\ writes \in Int /\ writes' = writes + 1
          /\ durable' = durable /\ file' = file
          /\ pc' = "write" /\ block'[1] = writes + 1
      BY <1>1 DEF Create, TypeOK
    <3>2. \A content \in durable : Written(content, writes) /\ Written(content, writes + 1)
      BY <3>1, WrittenLater DEF Settled
    <3>3. writes' - 1 = writes
      BY <3>1
    <3> QED
      BY <3>1, <3>2, <3>3 DEF Settled
  <2> QED
    BY <2>1, <2>2
<1>2. CASE WriteBlock
  <2>1. TypeOK'
    <3>1. /\ tmp = File(block, [i \in 1 .. written |-> block])
          /\ written \in Nat /\ block[2] \in Nat /\ written < block[2]
          /\ tmp' = Overwrite(tmp, written + 1, block) /\ written' = written + 1
      BY <1>2 DEF WriteBlock, TypeOK
    <3>2. 1 .. written + 1 = (1 .. written) \cup {written + 1}
      BY <3>1
    <3>3. tmp' = File(block', [i \in 1 .. written' |-> block'])
      BY <1>2, <3>1, <3>2 DEF WriteBlock, Overwrite, File
    <3> QED
      BY <1>2, <3>1, <3>3 DEF WriteBlock, TypeOK
  <2>2. Settled'
    BY <1>2 DEF WriteBlock, Settled, TypeOK
  <2> QED
    BY <2>1, <2>2
<1>3. CASE Sync
  <2>1. TypeOK'
    BY <1>3 DEF Sync, TypeOK
  <2>2. Settled'
    BY <1>3 DEF Sync, Settled, TypeOK
  <2> QED
    BY <2>1, <2>2
<1>4. CASE Rename
  <2>1. TypeOK'
    BY <1>4 DEF Rename, TypeOK
  <2>2. Written(tmp, writes)
    <3>1. /\ tmp = File(block, [i \in 1 .. block[2] |-> block])
          /\ block[1] \in 0 .. writes /\ block[2] \in 0 .. MaxBlocks
          /\ block = <<block[1], block[2]>>
      BY <1>4 DEF Rename, TypeOK, Settled
    <3>2. tmp = Content(block)
      BY <3>1 DEF Content
    <3> QED
      BY <3>1, <3>2 DEF Written
  <2>3. durable' = durable \cup {tmp} /\ file' = tmp /\ writes' = writes /\ pc' = "idle"
    BY <1>4 DEF Rename, Settled
  <2> QED
    BY <2>1, <2>2, <2>3 DEF Settled
<1>5. CASE RenameFails
  BY <1>5 DEF RenameFails, TypeOK, Settled
<1>6. CASE Stops
  BY <1>6 DEF Stops, TypeOK, Settled
<1>7. CASE CatchUp
  BY <1>7 DEF CatchUp, TypeOK, Settled
<1>8. CASE PowerCut
  <2>1. PICK content \in durable : file' = content /\ durable' = {content}
    BY <1>8 DEF PowerCut
  <2>2. TypeOK'
    BY <1>8 DEF PowerCut, TypeOK
  <2>3. pc' = "idle" /\ writes' = writes
    BY <1>8 DEF PowerCut
  <2> QED
    BY <2>1, <2>2, <2>3 DEF Settled
<1>9. CASE UNCHANGED vars
  BY <1>9 DEF vars, TypeOK, Settled
<1> QED
  BY <1>1, <1>2, <1>3, <1>4, <1>5, <1>6, <1>7, <1>8, <1>9 DEF Next

LEMMA InvHolds == Spec => []Inv
BY InitInv, NextInv, PTL DEF Spec

-----------------------------------------------------------------------------
(* The theorems *)

\* NAME is always absent or one whole content, and stays so whenever the power goes.
THEOREM NoTornFile == Spec => []NeverTorn
<1>1. Inv => NeverTorn
  BY WrittenShows DEF Inv, TypeOK, Settled, NeverTorn
<1> QED
  BY <1>1, InvHolds, PTL

\* Of the steps of write_atomic only the rename moves the register, and it moves it
\* forward; a failure moves nothing, and a power cut goes back to a kept content.
LEMMA StepRefines == Inv /\ [Next]_vars => [Register!Next]_<<Shown(file), {Shown(content) : content \in durable}>>
<1> SUFFICES ASSUME Inv, [Next]_vars
             PROVE  [Register!Next]_<<Shown(file), {Shown(content) : content \in durable}>>
  OBVIOUS
<1> DEFINE value == Shown(file)
           kept == {Shown(content) : content \in durable}
<1>1. CASE file' = file /\ durable' = durable
  BY <1>1
<1>2. CASE Rename
  <2>1. /\ file' = tmp /\ durable' = durable \cup {tmp}
        /\ tmp = Content(block) /\ block = <<block[1], block[2]>>
        /\ block[1] = writes /\ block[2] \in 0 .. MaxBlocks
        /\ writes \in 0 .. MaxWrites
    BY <1>2 DEF Rename, Inv, Settled, TypeOK, Content
  <2>2. Shown(tmp) = writes
    BY <2>1, ContentIsWhole, BlocksAssumption, WritesAssumption
  <2>3. \A content \in durable : Shown(content) \in 0 .. writes - 1
    BY <1>2, <2>1, WrittenShows DEF Rename, Inv, Settled
  <2>4. writes \in 1 .. MaxWrites /\ \A k \in kept : k < writes
    <3>1. file \in durable
      BY DEF Inv, Settled
    <3> QED
      BY <2>1, <2>3, <3>1
  <2>5. value' = writes
    BY <2>1, <2>2
  <2>6. kept' = kept \cup {writes}
    BY <2>1, <2>2
  <2> QED
    BY <2>4, <2>5, <2>6 DEF Register!Next, Register!Replace
<1>3. CASE CatchUp
  BY <1>3 DEF CatchUp, Register!Next, Register!CatchUp
<1>4. CASE PowerCut
  <2>1. PICK content \in durable : file' = content /\ durable' = {content}
    BY <1>4 DEF PowerCut
  <2>2. Shown(content) \in kept
    BY <2>1
  <2>3. value' = Shown(content) /\ kept' = {Shown(content)}
    BY <2>1
  <2> QED
    BY <2>2, <2>3 DEF Register!Next, Register!PowerCut
<1> QED
  BY <1>1, <1>2, <1>3, <1>4
     DEF Next, vars, Create, WriteBlock, Sync, RenameFails, Stops

\* The temporary file holds the blocks of the call that is writing, in their order,
\* and no other call's: nothing is left in it to be renamed with a later content.
THEOREM TypeCorrect == Spec => []TypeOK
<1>1. Inv => TypeOK
  BY DEF Inv
<1> QED
  BY <1>1, InvHolds, PTL

\* write_atomic implements the register.
THEOREM Refines == Spec => ImplementsRegister
<1>1. Init => Register!Init
  <2> SUFFICES ASSUME Init PROVE Register!Init
    OBVIOUS
  <2>1. Shown(NoFile) = 0
    BY ContentIsWhole DEF NoFile
  <2> QED
    BY <2>1 DEF Init, Register!Init
<1> QED
  BY <1>1, InvHolds, StepRefines, PTL
     DEF Spec, ImplementsRegister, Register!Spec
=============================================================================
