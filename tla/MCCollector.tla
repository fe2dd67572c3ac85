-------------------------- MODULE MCCollector --------------------------
(***************************************************************************)
(* A home network for TLC: two clients on the LAN, a web server and a      *)
(* resolver on the WAN.  The days have two hours, and counters wrap at 16, *)
(* so that the total of a client wraps within two datagrams.               *)
(***************************************************************************)
EXTENDS Collector

CONSTANTS phone, laptop, web, resolver

MCLan == {phone, laptop}
MCWan == {web, resolver}
MCPort == {0, 53, 67, 68, 443, 5353, 8080, 8443, 8729, 2048, 50000, 50001}
\* 1 is ICMP: no ports, but the type and code of an echo in their place.
MCProto == {1, TCP, UDP}
MCName == {"a.example", "b.example"}
MCNdpiApp == {"Steam", "TLS"}
MCGeneric == {"TLS"}
MCWord == {"mac1", "mac2", "host", "ssid"}

FlowTo(src, dst, src_port, dst_port, proto, bytes, hour) ==
    [src |-> src, dst |-> dst, src_port |-> src_port, dst_port |-> dst_port,
     proto |-> proto, bytes |-> bytes, packets |-> 1, hour |-> hour]

Https == FlowTo(phone, web, 50000, 443, TCP, 9, 0)
HttpsReply == FlowTo(web, phone, 443, 50000, TCP, 10, 1)
NextDay == FlowTo(phone, web, 50001, 443, TCP, 3, 2)
Lookup == FlowTo(laptop, resolver, 50000, 53, UDP, 2, 1)
WanOnly == FlowTo(web, resolver, 443, 50000, TCP, 5, 1)
LanToLan == FlowTo(laptop, phone, 50000, 8080, TCP, 4, 2)

\* Every pair of two ports of one rule, one of another and one of none; a service
\* over UDP only and one over both; and the last of the well-known ports.
Between(client, host, client_port, host_port, proto) ==
    [client |-> client, host |-> host, client_port |-> client_port,
     host_port |-> host_port, proto |-> proto]
MCConnection ==
    {Between(phone, web, p, q, TCP) : p, q \in {443, 8443, 8080, 50000}} \cup
    {Between(phone, resolver, p, q, UDP) : p, q \in {53, 443, 50000}} \cup
    {Between(laptop, web, 50000, 443, UDP), Between(phone, web, 50000, 8729, TCP),
     Between(phone, web, 0, 2048, 1)}

MCDatagram ==
    {<<>>, <<Https, HttpsReply>>, <<NextDay, WanOnly, Lookup>>,
     <<HttpsReply, LanToLan>>}

Plain(src, dst, src_port, dst_port, proto) ==
    [src |-> src, dst |-> dst, src_port |-> src_port, dst_port |-> dst_port,
     proto |-> proto, ack |-> None, answer |-> <<>>, hello |-> None,
     initial |-> None, hit |-> None]

Id(mac, hostname, ssid) == [mac |-> mac, hostname |-> hostname, ssid |-> ssid]
Ack(ip, ident) ==
    [Plain(laptop, ip, 67, 68, UDP) EXCEPT !.ack = [ip |-> ip, ident |-> ident]]
A(ip, name) == [ip |-> ip, name |-> name]

MCSample ==
    { Ack(phone, Id("mac1", "host", None)),
      Ack(phone, Id("mac2", None, None)),
      \* an answer that resolves one address twice, the last name wins
      [Plain(resolver, phone, 53, 50000, UDP) EXCEPT
          !.answer = <<A(web, "b.example"), A(web, "a.example")>>],
      \* the same answer on another port, and between two WAN hosts
      [Plain(resolver, phone, 5353, 5353, UDP) EXCEPT
          !.answer = <<A(web, "a.example")>>],
      [Plain(resolver, web, 53, 50000, UDP) EXCEPT
          !.answer = <<A(web, "a.example")>>],
      [Plain(phone, web, 50000, 443, TCP) EXCEPT
          !.hello = "a.example", !.hit = "TLS"],
      [Plain(laptop, web, 50000, 443, UDP) EXCEPT !.initial = "b.example"],
      [Plain(web, resolver, 443, 50000, TCP) EXCEPT !.hello = "b.example"],
      [Plain(web, phone, 443, 50000, TCP) EXCEPT !.hit = "Steam"],
      [Plain(web, phone, 443, 50000, TCP) EXCEPT !.hit = "TLS"],
      [Plain(web, resolver, 443, 50000, TCP) EXCEPT !.hit = "Steam"] }

\* The laptop as the resolver of the LAN, as a MikroTik router is by default.
MCHomeSample ==
    MCSample \cup
    { [Plain(laptop, phone, 53, 50000, UDP) EXCEPT
          !.answer = <<A(web, "a.example")>>] }

MCSidecarRow ==
    { [ip |-> phone, ident |-> Id(None, "host", "ssid")],
      [ip |-> laptop, ident |-> Id("mac2", None, "ssid")] }
=============================================================================
