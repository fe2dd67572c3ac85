--------------------------- MODULE FrameWalk ---------------------------
(***************************************************************************)
(* From a TZSP datagram to the payload of the packet in it, as             *)
(* process_tzsp (pipeline.rs) goes: ethernet_payload (tzsp.rs), ipv4_l3    *)
(* and parse_ipv4_l4 (packet.rs).  The frame, the IP packet and the        *)
(* segment all run to the end of the datagram; the payload is a copy.      *)
(***************************************************************************)
EXTENDS Cursor

\* Err or None: dpi_dropped counts the datagram, and no parser sees it.  It is too
\* short for the next header, or no Ethernet, IPv4, TCP or UDP, or a header's length
\* is none; the tags come to no end tag.
NoPacket ==
    /\ phase \in {"tzsp", "ethernet", "ip", "segment"} \/ (phase = "tags" /\ pos + 2 > len)
    /\ Go("dropped", pos)
    /\ UNCHANGED <<read, locals>>

-----------------------------------------------------------------------------
(* tzsp.rs *)

TzspHeader ==
    /\ phase = "tzsp"
    /\ len >= 5
    /\ Slice(0, 4)
    /\ Go("tags", 4)
    /\ UNCHANGED locals

PaddingTag ==
    /\ phase = "tags" /\ pos < len
    /\ Slice(pos, pos + 1)
    /\ Go("tags", pos + 1)
    /\ UNCHANGED locals

\* The length of a tag is not checked: the loop condition is, before the next one.
Tag(n) ==
    /\ phase = "tags" /\ pos + 2 <= len
    /\ Slice(pos, pos + 2)
    /\ Go("tags", pos + 2 + n)
    /\ UNCHANGED locals

EndTag ==
    /\ phase = "tags" /\ pos < len
    /\ Slice(pos + 1, len)
    /\ Go("ethernet", pos + 1)
    /\ UNCHANGED locals

-----------------------------------------------------------------------------
(* packet.rs *)

\* The IP packet lies behind an Ethernet header, with or without a VLAN tag.
OpenIp(header) ==
    /\ phase = "ethernet"
    /\ end - pos >= 14
    /\ end - (pos + header) >= 20
    /\ Slice(pos + 12, pos + 14)
    /\ Go("ip", pos + header)
    /\ UNCHANGED locals

WholeHeader(ihl) == 4 * ihl >= 20 /\ pos + 4 * ihl <= end

OpenSegment(ihl) ==
    /\ phase = "ip" /\ WholeHeader(ihl)
    /\ Slice(pos, pos + 20)
    /\ Go("segment", pos + 4 * ihl)
    /\ UNCHANGED locals

\* The payload is copied, and process_tzsp runs its parsers on the copy.
OpenPayload(from, parsers) ==
    /\ Slice(from, end)
    /\ len' = end - from
    /\ pos' = 0 /\ end' = end - from
    /\ phase' = Head(parsers) /\ todo' = Tail(parsers)
    /\ UNCHANGED locals

\* process_tzsp: the ports decide on DHCP and DNS; 67 to 53 is both.
UdpParsers ==
    {<<"hello", "initial">>, <<"dhcp", "hello", "initial">>,
     <<"dns", "hello", "initial">>, <<"dhcp", "dns", "hello", "initial">>}

Udp(parsers) ==
    /\ phase = "segment" /\ end - pos >= 8
    /\ OpenPayload(pos + 8, parsers)

\* A data offset of less than the fixed header, or of more than there is, is none.
DataOffset(doff) == 4 * doff >= 20 /\ pos + 4 * doff <= end

Tcp(doff) ==
    /\ phase = "segment" /\ end - pos >= 20
    /\ DataOffset(doff)
    /\ OpenPayload(pos + 4 * doff, <<"hello">>)

-----------------------------------------------------------------------------
FrameInit == Start("tzsp", 0)

FrameNext ==
    \/ TzspHeader
    \/ PaddingTag
    \/ \E n \in Byte : Tag(n)
    \/ EndTag
    \/ \E header \in {14, 18} : OpenIp(header)
    \/ \E ihl \in Byte : OpenSegment(ihl)
    \/ \E parsers \in UdpParsers : Udp(parsers)
    \/ \E doff \in Byte : Tcp(doff)
    \/ NoPacket
=============================================================================
