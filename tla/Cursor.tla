---------------------------- MODULE Cursor ----------------------------
(***************************************************************************)
(* What the parsers of rosflowd have in common: each walks over a buffer   *)
(* by offsets that the buffer itself supplies.  A buffer is nothing but    *)
(* its length, and an integer read from it is any value of its width, so   *)
(* one behaviour stands for every content with the same lengths in it.     *)
(* The walks are the modules that extend this one; module Walks joins      *)
(* them, and has the properties.                                           *)
(*                                                                         *)
(* What can go wrong is a slice outside the buffer, which panics and takes *)
(* the daemon down, a loop that does not advance, which hangs it, and a    *)
(* buffer too long to be allocated, which ends the process.                *)
(***************************************************************************)
EXTENDS Integers, Sequences

CONSTANTS
    Length,         \* lengths a received datagram may have
    Byte,           \* values of an 8-bit integer read from a buffer
    Word,           \* values of a 16-bit or a 24-bit one
    Varint,         \* values of a QUIC variable-length integer
    Count,          \* values of a record count
    Granted         \* no buffer up to this length is refused by the allocator

ASSUME LengthAssumption == Length \subseteq Nat
ASSUME WidthAssumption == Byte \cup Word \cup Varint \cup Count \subseteq Nat
ASSUME GrantedAssumption == Granted \in Nat

VARIABLES
    len,            \* length of the buffer
    pos,            \* where the walk is
    end,            \* end of the slice the walk is in
    phase,          \* the function and the loop it is in
    todo,           \* the parsers process_tzsp has still to run on the payload
    read,           \* history: the slice taken last, and the buffer's length
    rec_len,        \* decode_sets: the template's record length
    questions,      \* a_records: questions left
    answers,        \* a_records: answers left
    hops,           \* read_name: pointers followed
    jumped,         \* read_name
    after,          \* read_name: its "end", where a_records goes on
    buf,            \* crypto_stream: which byte of the stream is where
    max,            \* crypto_stream
    brought         \* history: the bytes of the stream some frame has brought

names == <<questions, answers, hops, jumped, after>>
stream == <<buf, max, brought>>
locals == <<rec_len, names, stream>>
vars == <<len, pos, end, phase, todo, read, locals>>

\* The handler has returned.
Returned == {"done", "failed", "dropped"}
\* Or it never will, for the process is gone.
Ended == Returned \cup {"aborted"}

Slice(from, to) == read' = <<from, to, len>>

\* A step inside a parser, on the slice it is in.
Go(p, next) ==
    /\ phase' = p
    /\ pos' = next
    /\ UNCHANGED <<len, end, todo>>

\* A parser returns, and its locals are gone; the next one starts at the beginning
\* of the payload.
Leave ==
    /\ IF todo = <<>>
       THEN phase' = "done" /\ UNCHANGED todo
       ELSE phase' = Head(todo) /\ todo' = Tail(todo)
    /\ pos' = 0 /\ end' = len
    /\ read' = <<0, 0, len>>
    /\ questions' = 0 /\ answers' = 0
    /\ hops' = 0 /\ jumped' = FALSE /\ after' = 0
    /\ buf' = <<>> /\ max' = 0 /\ brought' = {}
    /\ UNCHANGED <<len, rec_len>>

Start(p, from) ==
    /\ len \in Length
    /\ pos = from /\ end = len
    /\ phase = p
    /\ todo = <<>>
    /\ read = <<0, 0, len>>
    /\ rec_len = 1
    /\ questions = 0 /\ answers = 0
    /\ hops = 0 /\ jumped = FALSE /\ after = 0
    /\ buf = <<>> /\ max = 0 /\ brought = {}

\* No slice panics: it starts no later than it ends, and ends inside the buffer.
ReadsInBounds == read[1] <= read[2] /\ read[2] <= read[3]
=============================================================================
