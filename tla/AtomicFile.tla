--------------------------- MODULE AtomicFile ---------------------------
(***************************************************************************)
(* write_atomic (store.rs), one system call at a time, on a file system    *)
(* that may lose power: create and truncate NAME.tmp, write it, sync it,   *)
(* rename it over NAME.  Every file of the dataset is written like this.   *)
(*                                                                         *)
(* A file is a sequence of blocks, each tagged with the number of the      *)
(* write it is from and that write's length, so a mixture shows, and "of"  *)
(* is the tag of the call that created it, for the properties only: it     *)
(* tells an empty content, which a day without rows has, from one that is  *)
(* torn to nothing.  File data that was not synced survives a power cut in *)
(* part; a rename survives it or not, since no directory is ever synced.   *)
(***************************************************************************)
EXTENDS Integers, Sequences

CONSTANTS
    MaxBlocks,      \* bound: the length of a content
    MaxWrites       \* bound: calls of write_atomic

ASSUME BlocksAssumption == MaxBlocks \in Nat
ASSUME WritesAssumption == MaxWrites \in Nat

VARIABLES
    pc,             \* where write_atomic is
    writes,         \* calls so far
    block,          \* <<number, length>> of the content being written
    written,        \* blocks written so far
    tmp,            \* NAME.tmp
    synced,         \* its data is on the disk
    file,           \* NAME
    durable         \* what NAME may hold after a power cut

vars == <<pc, writes, block, written, tmp, synced, file, durable>>

File(b, blocks) == [of |-> b, blocks |-> blocks]
Content(b) == File(b, [i \in 1 .. b[2] |-> b])

\* The content numbered 0 stands for no file at all.
NoFile == Content(<<0, 0>>)

\* What may be left of data that was not synced.
Torn(content) ==
    {File(content.of, [i \in 1 .. n |-> content.blocks[i]]) :
        n \in 0 .. Len(content.blocks)}

Overwrite(content, at, b) ==
    File(content.of, [i \in DOMAIN content.blocks \cup {at} |->
                         IF i = at THEN b ELSE content.blocks[i]])

-----------------------------------------------------------------------------
\* File::create; one that fails changes nothing.  The variant does not truncate
\* what an earlier call has left.
CreateUntruncated(size) ==
    /\ pc = "idle" /\ writes < MaxWrites
    /\ writes' = writes + 1
    /\ block' = <<writes + 1, size>>
    /\ written' = 0
    /\ tmp' = File(block', IF tmp = NoFile THEN <<>> ELSE tmp.blocks)
    /\ synced' = FALSE
    /\ pc' = "write"
    /\ UNCHANGED <<file, durable>>
Create(size) ==
    /\ pc = "idle" /\ writes < MaxWrites
    /\ writes' = writes + 1
    /\ block' = <<writes + 1, size>>
    /\ written' = 0
    /\ tmp' = File(block', <<>>)
    /\ synced' = FALSE
    /\ pc' = "write"
    /\ UNCHANGED <<file, durable>>

\* write_all, a block at a time.
WriteBlock ==
    /\ pc = "write" /\ written < block[2]
    /\ tmp' = Overwrite(tmp, written + 1, block)
    /\ written' = written + 1
    /\ UNCHANGED <<pc, writes, block, synced, file, durable>>

\* sync_all; the variant leaves it out.
NoSync ==
    /\ pc = "write" /\ written = block[2]
    /\ pc' = "rename"
    /\ UNCHANGED <<writes, block, written, tmp, synced, file, durable>>
Sync ==
    /\ pc = "write" /\ written = block[2]
    /\ synced' = TRUE
    /\ pc' = "rename"
    /\ UNCHANGED <<writes, block, written, tmp, file, durable>>

Rename ==
    /\ pc = "rename"
    /\ file' = tmp
    /\ tmp' = NoFile
    /\ durable' = durable \cup (IF synced THEN {tmp} ELSE Torn(tmp))
    /\ pc' = "idle"
    /\ UNCHANGED <<writes, block, written, synced>>

\* rename fails: the temporary file is removed, and an error of that is dropped.
\* The variant removes the other one.
RenameFailsOnTarget ==
    /\ pc = "rename"
    /\ file' = NoFile
    /\ durable' = durable \cup {NoFile}
    /\ pc' = "idle"
    /\ UNCHANGED <<writes, block, written, tmp, synced>>
RenameFails ==
    /\ pc = "rename"
    /\ tmp' \in {NoFile, tmp}
    /\ pc' = "idle"
    /\ UNCHANGED <<writes, block, written, synced, file, durable>>

\* write_all or sync_all fails, or the process is killed: NAME.tmp stays behind.
Stops ==
    /\ pc # "idle"
    /\ pc' = "idle"
    /\ UNCHANGED <<writes, block, written, tmp, synced, file, durable>>

\* The file system: the disk catches up with the cache; the power goes.
CatchUp ==
    /\ durable' = {file}
    /\ UNCHANGED <<pc, writes, block, written, tmp, synced, file>>

PowerCut ==
    /\ \E content \in durable : file' = content /\ durable' = {content}
    /\ tmp' \in {NoFile} \cup UNION {Torn(content) : content \in durable \cup {tmp}}
    /\ pc' = "idle"
    /\ UNCHANGED <<writes, block, written, synced>>

Init ==
    /\ pc = "idle" /\ writes = 0
    /\ block = <<0, 0>> /\ written = 0 /\ synced = FALSE
    /\ tmp = NoFile /\ file = NoFile /\ durable = {NoFile}

Next ==
    \/ \E size \in 0 .. MaxBlocks : Create(size)
    \/ WriteBlock
    \/ Sync
    \/ Rename
    \/ RenameFails
    \/ Stops
    \/ CatchUp
    \/ PowerCut

Spec == Init /\ [][Next]_vars

-----------------------------------------------------------------------------
(* Properties *)

\* While a write is going on NAME.tmp holds what was written of it and nothing
\* else, although an earlier call may have left a longer one behind.
TypeOK ==
    /\ pc \in {"idle", "write", "rename"}
    /\ writes \in 0 .. MaxWrites /\ synced \in BOOLEAN
    /\ block \in (0 .. writes) \X (0 .. MaxBlocks) /\ written \in 0 .. block[2]
    /\ pc # "idle" => tmp = File(block, [i \in 1 .. written |-> block])

Whole(content) == content = Content(content.of)

\* docs/roadmap.md: a replacement that fails leaves no half of a real file.  NAME is
\* absent or one whole content, now and after a power cut at this very moment.
NeverTorn == \A content \in {file} \cup durable : Whole(content)

\* The file behaves as a register: see FileRegister.  In particular no reader finds
\* a content older than one it has seen, unless the power has gone in between, and
\* no failed write moves the file.
Shown(content) == IF Whole(content) THEN content.of[1] ELSE -1
Register == INSTANCE FileRegister WITH
    Number <- 1 .. MaxWrites,
    value <- Shown(file),
    kept  <- {Shown(content) : content \in durable}
ImplementsRegister == Register!Spec
=============================================================================
