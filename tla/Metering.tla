---------------------------- MODULE Metering ----------------------------
(***************************************************************************)
(* What the collector promises about volume, with no tables in it: every   *)
(* flow that is counted adds one amount to the total of its day and, when  *)
(* the flow has a LAN client, the same amount to what that client used on  *)
(* that day.  Nothing else ever moves a total: no sample, no identity, no  *)
(* failed datagram.  Totals are u64 and wrap at U64.                       *)
(***************************************************************************)
EXTENDS Integers

CONSTANTS
    Day, Client,
    Traffic,        \* the flows there can be, as [day, client, bytes]; the
                    \* client of a WAN-only flow is outside Client
    U64

VARIABLES
    carried,        \* [Day -> bytes carried that day]
    used            \* [Day \X Client -> bytes that client used that day]

Init ==
    /\ carried = [d \in Day |-> 0]
    /\ used = [k \in Day \X Client |-> 0]

Meter(flow) ==
    /\ carried' = [carried EXCEPT ![flow.day] = (@ + flow.bytes) % U64]
    /\ used' = [k \in Day \X Client |->
                   IF k = <<flow.day, flow.client>>
                   THEN (used[k] + flow.bytes) % U64
                   ELSE used[k]]

Next == \E flow \in Traffic : Meter(flow)

Spec == Init /\ [][Next]_<<carried, used>>
=========================================================================
