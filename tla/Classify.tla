---------------------------- MODULE Classify ----------------------------
(***************************************************************************)
(* The port classifier of rosflowd: Flow::service_port (flow.rs) and       *)
(* classify (classify.rs).  It is the last resort of Hints::classify_flow: *)
(* an answer of this module says "port" or "unknown", never DPI.           *)
(* The category column is left out: it is a function of the rule.          *)
(***************************************************************************)
EXTENDS Integers

TCP == 6
UDP == 17

\* A dropped port: replies from the encrypted RouterOS API lose their service.
WellKnownWithout8729 == {20, 21, 22, 25, 53, 67, 68, 80, 110, 123, 143, 161,
     443, 465, 587, 853, 993, 995, 1900, 3478, 5353, 8080, 8443, 8728}

\* flow.rs well_known: the ports that mark the service end of a flow.
WellKnown ==
    {20, 21, 22, 25, 53, 67, 68, 80, 110, 123, 143, 161, 443, 465, 587, 853,
     993, 995, 1900, 3478, 5353, 8080, 8443, 8728, 8729}

\* flow.rs Flow::service_port.
ServicePort(src_port, dst_port) ==
    IF src_port \in WellKnown /\ dst_port \notin WellKnown
    THEN src_port
    ELSE dst_port

\* classify.rs: the arms of the match, in no order, since no two overlap.
Rules ==
    { [app |-> "dns",          protos |-> {TCP, UDP}, ports |-> {53}],
      [app |-> "mdns",         protos |-> {UDP},      ports |-> {5353}],
      [app |-> "dhcp",         protos |-> {UDP},      ports |-> {67, 68}],
      [app |-> "ntp",          protos |-> {UDP},      ports |-> {123}],
      [app |-> "ssdp",         protos |-> {UDP},      ports |-> {1900}],
      [app |-> "stun",         protos |-> {UDP},      ports |-> {3478}],
      [app |-> "ssh",          protos |-> {TCP},      ports |-> {22}],
      [app |-> "smtp",         protos |-> {TCP},      ports |-> {25, 465, 587}],
      [app |-> "pop3",         protos |-> {TCP},      ports |-> {110, 995}],
      [app |-> "imap",         protos |-> {TCP},      ports |-> {143, 993}],
      [app |-> "http",         protos |-> {TCP},      ports |-> {80, 8080}],
      [app |-> "tls",          protos |-> {TCP, UDP}, ports |-> {443, 8443}],
      [app |-> "dot",          protos |-> {TCP},      ports |-> {853}],
      [app |-> "routeros-api", protos |-> {TCP},      ports |-> {8728, 8729}],
      [app |-> "ftp",          protos |-> {TCP},      ports |-> {21}],
      [app |-> "snmp",         protos |-> {UDP},      ports |-> {161}] }

Matching(proto, port) == {r \in Rules : proto \in r.protos /\ port \in r.ports}

PortApps == {r.app : r \in Rules} \cup {"unknown"}
RulePorts == UNION {r.ports : r \in Rules}

\* classify.rs classify.
Classify(proto, src_port, dst_port) ==
    LET found == Matching(proto, ServicePort(src_port, dst_port))
    IN  IF found = {}
        THEN [app |-> "unknown", conf |-> "unknown"]
        ELSE [app |-> (CHOOSE r \in found : TRUE).app, conf |-> "port"]
=========================================================================
