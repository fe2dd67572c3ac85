---------------------------- MODULE SetWalk ----------------------------
(***************************************************************************)
(* How decode_sets (v9.rs) walks a v9 or IPFIX datagram: a loop over the   *)
(* sets, and in it a loop over the templates or the records of a set.      *)
(***************************************************************************)
EXTENDS Cursor

\* HEADER_LEN: 20 in v9, 16 in IPFIX.
HeaderLen == {16, 20}

InSet == {"templates", "records"}

-----------------------------------------------------------------------------
(* The loop over the sets: pos is "off" *)

\* The loop condition, and the two checks on a set's length; the variant forgets the
\* set header.
Room == pos + 4 <= len
SizedLoosely(set_len) == pos + set_len <= len
Sized(set_len) == set_len >= 4 /\ pos + set_len <= len

EndOfSets ==
    /\ phase = "sets" /\ ~Room
    /\ Go("done", pos)
    /\ UNCHANGED <<read, locals>>

BadSet(set_len) ==
    /\ phase = "sets" /\ Room
    /\ ~Sized(set_len)
    /\ Slice(pos, pos + 4)
    /\ Go("failed", pos)
    /\ UNCHANGED locals

OpenSet(set_len) ==
    /\ phase = "sets" /\ Room
    /\ Sized(set_len)
    /\ Slice(pos + 4, pos + set_len)
    /\ pos' = pos + 4
    /\ end' = pos + set_len
    /\ UNCHANGED <<len, todo, names, stream>>

TemplateSet(set_len) ==
    /\ OpenSet(set_len)
    /\ phase' = "templates"
    /\ UNCHANGED rec_len

\* The template is cached, so its record has a length (module Decoder).  A record
\* longer than any body can be stands for all of them.
DataSet(set_len, n) ==
    /\ OpenSet(set_len)
    /\ phase' = "records"
    /\ rec_len' = n

\* Options, other set numbers below 256, and data of an unknown template.
SkipSet(set_len) ==
    /\ phase = "sets" /\ Room
    /\ Sized(set_len)
    /\ Slice(pos + 4, pos + set_len)
    /\ Go("sets", pos + set_len)
    /\ UNCHANGED locals

NextSet ==
    /\ phase' = "sets"
    /\ pos' = end /\ end' = len
    /\ UNCHANGED <<len, todo, read, locals>>

-----------------------------------------------------------------------------
(* parse_templates *)

ReadTemplate(field_count) ==
    /\ phase = "templates"
    /\ end - pos >= 4
    /\ end - (pos + 4) >= 4 * field_count
    /\ Slice(pos + 4, pos + 4 + 4 * field_count)
    /\ Go("templates", pos + 4 + 4 * field_count)
    /\ UNCHANGED locals

TruncatedTemplate(field_count) ==
    /\ phase = "templates"
    /\ end - pos >= 4
    /\ end - (pos + 4) < 4 * field_count
    /\ Slice(pos, pos + 4)
    /\ Go("failed", pos)
    /\ UNCHANGED locals

EndOfTemplates ==
    /\ phase = "templates"
    /\ end - pos < 4
    /\ NextSet

-----------------------------------------------------------------------------
(* The loop over the records *)

ReadRecord ==
    /\ phase = "records"
    /\ pos + rec_len <= end
    /\ Slice(pos, pos + rec_len)
    /\ Go("records", pos + rec_len)
    /\ UNCHANGED locals

EndOfRecords ==
    /\ phase = "records"
    /\ pos + rec_len > end
    /\ NextSet

-----------------------------------------------------------------------------
\* A shorter datagram than the header is refused before decode_sets.
SetsInit == \E header \in HeaderLen : Start("sets", header) /\ len >= header

SetsNext ==
    \/ EndOfSets
    \/ \E set_len \in Word :
           \/ BadSet(set_len)
           \/ TemplateSet(set_len)
           \/ \E n \in Word \ {0} : DataSet(set_len, n)
           \/ SkipSet(set_len)
    \/ \E field_count \in Word :
           ReadTemplate(field_count) \/ TruncatedTemplate(field_count)
    \/ EndOfTemplates
    \/ ReadRecord
    \/ EndOfRecords
=============================================================================
