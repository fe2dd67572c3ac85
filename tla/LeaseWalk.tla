--------------------------- MODULE LeaseWalk ---------------------------
(***************************************************************************)
(* parse_ack (dhcp.rs): a fixed part, and a loop over the options.  What   *)
(* the options say, and so what is returned, is data: module Collector     *)
(* takes any of it.                                                        *)
(***************************************************************************)
EXTENDS Cursor

CONSTANT AckLen     \* where the options start: 240

ASSUME AckAssumption == AckLen \in Nat \ {0}

AckHeader ==
    /\ phase = "dhcp" /\ len >= AckLen
    /\ Slice(0, AckLen)
    /\ Go("options", AckLen)
    /\ UNCHANGED locals

\* Too short, no reply, no address, no MAC or no magic number.
NoAck == phase = "dhcp" /\ Leave

PadOption ==
    /\ phase = "options" /\ pos < len
    /\ Slice(pos, pos + 1)
    /\ Go("options", pos + 1)
    /\ UNCHANGED locals

\* The variant takes an option without its two bytes.
OptionByLength(n) ==
    /\ phase = "options" /\ pos + 1 < len
    /\ pos + 2 + n <= len
    /\ Slice(pos + 2, pos + 2 + n)
    /\ Go("options", pos + n)
    /\ UNCHANGED locals
Option(n) ==
    /\ phase = "options" /\ pos + 1 < len
    /\ pos + 2 + n <= len
    /\ Slice(pos + 2, pos + 2 + n)
    /\ Go("options", pos + 2 + n)
    /\ UNCHANGED locals

\* Option 255, the end of the payload, or an option that is cut short.
EndOfOptions == phase = "options" /\ Leave

LeaseNext ==
    \/ AckHeader \/ NoAck
    \/ PadOption
    \/ \E n \in Byte : Option(n)
    \/ EndOfOptions
=============================================================================
