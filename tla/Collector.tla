--------------------------- MODULE Collector ---------------------------
(***************************************************************************)
(* The in-memory half of rosflowd: Store's three tables and its counters   *)
(* (store.rs), Hints (hints.rs) and the two handlers that write them,      *)
(* process_datagram and process_tzsp (pipeline.rs).  One thread owns all   *)
(* of it, so a handler runs to its end before the next one starts; the     *)
(* loop over the flows of one datagram is unrolled, one step per flow,     *)
(* through the queue "pending".                                            *)
(*                                                                         *)
(* Data kept abstract: an address, a name, a MAC are members of small      *)
(* sets; a TZSP sample is what the parsers return on it; a timestamp is    *)
(* its Unix hour.                                                          *)
(***************************************************************************)
EXTENDS Classify, FiniteSets, Functions, Sequences

CONSTANTS
    Lan,            \* addresses is_rfc1918 accepts
    Wan,            \* the other addresses
    Port,           \* port numbers
    Proto,          \* IP protocol numbers
    Name,           \* host names (TLS/QUIC SNI, DNS)
    NdpiApp,        \* protocol names libndpi returns
    Generic,        \* ndpi.rs GENERIC: those that say nothing of the service
    Word,           \* MACs, host names and SSIDs of an identity
    None,           \* Rust's None
    HoursPerDay,    \* 24
    U64,            \* modulus of the counters: 2^64, release builds wrap
    Datagram,       \* decoded NetFlow datagrams: sequences of flows
    Sample,         \* TZSP samples, as the parsers see them
    SidecarRow,     \* rows of the --identity file
    Connection,     \* connections the router may see between the two networks
    MaxDatagrams,   \* bound on NetFlow datagrams
    MaxSamples      \* bound on TZSP datagrams

Addr == Lan \cup Wan
Counter == 0 .. U64 - 1
AppName == PortApps \cup Name \cup NdpiApp
Confidence == {"port", "unknown", "sni", "dns", "ndpi"}

Ident == [mac : Word \cup {None}, hostname : Word \cup {None},
          ssid : Word \cup {None}]
NoIdent == [mac |-> None, hostname |-> None, ssid |-> None]

Flow == [src : Addr, dst : Addr, src_port : Port, dst_port : Port,
         proto : Proto, bytes : Counter, packets : Counter, hour : Nat]

\* What the parsers of process_tzsp return on one parsed frame.  An answer is
\* a_records' list; it is empty for None, since a_records returns no empty list.
Frame == [src : Addr, dst : Addr, src_port : Port, dst_port : Port,
          proto : {TCP, UDP},
          ack : [ip : Addr, ident : Ident] \cup {None},
          answer : Seq([ip : Addr, name : Name]),
          hello : Name \cup {None},
          initial : Name \cup {None},
          hit : NdpiApp \cup {None}]

ASSUME NoneAssumption ==
    None \notin Addr \cup Word \cup Name \cup NdpiApp \cup PortApps
ASSUME GenericAssumption == Generic \subseteq NdpiApp
ASSUME AddrAssumption == Lan \cap Wan = {}
ASSUME NumberAssumption == Port \subseteq 0 .. 65535 /\ Proto \subseteq 0 .. 255
ASSUME ClockAssumption == HoursPerDay \in Nat \ {0}
ASSUME WidthAssumption == U64 \in Nat \ {0}
ASSUME InputAssumption ==
    /\ Datagram \subseteq Seq(Flow)
    /\ Sample \subseteq Frame
    /\ SidecarRow \subseteq [ip : Addr, ident : Ident]
    /\ Connection \subseteq [client : Lan, host : Wan, client_port : Port,
                             host_port : Port, proto : Proto]

VARIABLES
    stats,          \* Store.stats: IngestStats
    hourly,         \* Store.hourly: <<day, hour>> -> bytes
    clients,        \* Store.clients: <<day, client>> -> ClientAgg
    apps,           \* Store.apps: <<day, client, app>> -> AppAgg
    sni_enabled, dns_enabled, ndpi_enabled,     \* Store's three flags
    identity,       \* Hints.identity: address -> ClientIdentity
    sni,            \* Hints.sni: <<client, server, port>> -> name
    dns,            \* Hints.dns: <<client, server>> -> name
    ndpi_apps,      \* Hints.ndpi_apps: <<client, server, port>> -> nDPI app
    pending         \* flows of the datagram at hand, not ingested yet

tables == <<hourly, clients, apps>>
flags == <<sni_enabled, dns_enabled, ndpi_enabled>>
hints == <<identity, sni, dns, ndpi_apps>>
vars == <<stats, tables, flags, hints, pending>>

-----------------------------------------------------------------------------
(* Helpers *)

\* Map.insert and Map.get on a partial function.
Put(map, key, value) ==
    [k \in DOMAIN map \cup {key} |-> IF k = key THEN value ELSE map[k]]
Get(map, key, default) == IF key \in DOMAIN map THEN map[key] ELSE default

AddUnwrapped(a, b) == a + b
Add(a, b) == (a + b) % U64

\* clock.rs day_utc, on hours.
DayOf(hour) == hour \div HoursPerDay

\* identity.rs client_ip; the variant invents a client for a WAN-only flow.
ClientOrDst(pkt) == IF pkt.src \in Lan THEN pkt.src ELSE pkt.dst
ClientIp(pkt) ==
    IF pkt.src \in Lan THEN pkt.src
    ELSE IF pkt.dst \in Lan THEN pkt.dst ELSE None

\* hints.rs sni_for/ndpi_for and pipeline.rs process_tzsp: the end of a packet
\* or flow that is not the client, and the port there.
FarEnd(pkt) ==
    IF pkt.src = ClientIp(pkt)
    THEN <<pkt.dst, pkt.dst_port>>
    ELSE <<pkt.src, pkt.src_port>>
HintKey(pkt) == <<ClientIp(pkt), FarEnd(pkt)[1], FarEnd(pkt)[2]>>
DnsKey(pkt) == <<ClientIp(pkt), FarEnd(pkt)[1]>>

\* identity.rs merge_identity: a later Some replaces, a later None keeps.
Newer(old, new) == IF new # None THEN new ELSE old
Merge(old, new) ==
    [mac      |-> Newer(old.mac, new.mac),
     hostname |-> Newer(old.hostname, new.hostname),
     ssid     |-> Newer(old.ssid, new.ssid)]

-----------------------------------------------------------------------------
(* Hints::classify_flow: specific nDPI, SNI, DNS, generic nDPI, port. *)

\* A lookup that forgets whose hint it is: any client's name for that server.
SniOfAnyClient(flow) ==
    LET hits == {k \in DOMAIN sni : <<k[2], k[3]>> = FarEnd(flow)}
    IN  IF hits = {} \/ ClientIp(flow) = None THEN None
        ELSE sni[CHOOSE k \in hits : TRUE]
SniFor(flow) == Get(sni, HintKey(flow), None)
DnsFor(flow) == Get(dns, DnsKey(flow), None)
NdpiFor(flow) == Get(ndpi_apps, HintKey(flow), None)

\* The verdicts in the order of the ifs; the first that is there is the answer.
ClassifyFlow(flow) ==
    LET hit == NdpiFor(flow)
        ranked == << [app  |-> IF hit \in Generic THEN None ELSE hit,
                      conf |-> "ndpi"],
                     [app |-> SniFor(flow), conf |-> "sni"],
                     [app |-> DnsFor(flow), conf |-> "dns"],
                     [app |-> hit, conf |-> "ndpi"],
                     Classify(flow.proto, flow.src_port, flow.dst_port) >>
    IN  ranked[CHOOSE i \in 1 .. 5 : /\ ranked[i].app # None
                                     /\ \A j \in 1 .. i - 1 : ranked[j].app = None]

-----------------------------------------------------------------------------
(* Store::ingest_flow: one row of each table per flow. *)

NewRow == [bytes |-> 0, packets |-> 0, flows |-> 0]

Charged(row, flow) ==
    [bytes   |-> Add(row.bytes, flow.bytes),
     packets |-> Add(row.packets, flow.packets),
     flows   |-> Add(row.flows, 1)]

HourKey(flow) == <<DayOf(flow.hour), flow.hour>>
ClientKey(flow) == <<DayOf(flow.hour), ClientIp(flow)>>
\* The variant files an app under the source, whichever end that is.
AppKeyBySource(flow) == <<DayOf(flow.hour), flow.src, ClassifyFlow(flow).app>>
AppKey(flow) == <<DayOf(flow.hour), ClientIp(flow), ClassifyFlow(flow).app>>

CountHour(flow) ==
    hourly' = Put(hourly, HourKey(flow),
                  Add(Get(hourly, HourKey(flow), 0), flow.bytes))

NewClient == [use |-> NewRow, ident |-> NoIdent]

\* Lost update: an existing client row keeps its old totals.
CountNewClientOnly(flow) ==
    LET row == Get(clients, ClientKey(flow),
                   [NewClient EXCEPT !.use = Charged(NewRow, flow)])
    IN  clients' = Put(clients, ClientKey(flow),
            [use |-> row.use,
             ident |-> Merge(row.ident, Get(identity, ClientIp(flow), NoIdent))])

CountClient(flow) ==
    LET row == Get(clients, ClientKey(flow), NewClient)
    IN  clients' = Put(clients, ClientKey(flow),
            [use   |-> Charged(row.use, flow),
             ident |-> Merge(row.ident, Get(identity, ClientIp(flow), NoIdent))])

\* A row that starts over when the flow's confidence differs from the row's.
CountAppPerConfidence(flow) ==
    LET row == Get(apps, AppKey(flow), [use |-> NewRow, conf |-> "unknown"])
        base == IF row.conf = ClassifyFlow(flow).conf THEN row.use ELSE NewRow
    IN  apps' = Put(apps, AppKey(flow),
            [use |-> Charged(base, flow), conf |-> ClassifyFlow(flow).conf])

CountApp(flow) ==
    LET row == Get(apps, AppKey(flow), [use |-> NewRow, conf |-> "unknown"])
    IN  apps' = Put(apps, AppKey(flow),
            [use |-> Charged(row.use, flow), conf |-> ClassifyFlow(flow).conf])

IngestClientFlow ==
    /\ pending # <<>>
    /\ LET flow == Head(pending)
       IN  /\ ClientIp(flow) # None
           /\ CountHour(flow)
           /\ CountClient(flow)
           /\ CountApp(flow)
    /\ stats' = [stats EXCEPT !.flows = Add(@, 1)]
    /\ pending' = Tail(pending)
    /\ UNCHANGED <<flags, hints>>

\* The early return: the hour is counted already, no row is written.
IngestWanOnlyFlow ==
    /\ pending # <<>>
    /\ LET flow == Head(pending)
       IN  /\ ClientIp(flow) = None
           /\ CountHour(flow)
    /\ stats' = [stats EXCEPT !.flows = Add(@, 1), !.no_client = Add(@, 1)]
    /\ pending' = Tail(pending)
    /\ UNCHANGED <<clients, apps, flags, hints>>

-----------------------------------------------------------------------------
(* pipeline.rs process_datagram: decode, then ingest what was decoded. *)

AnotherDatagram == pending = <<>> /\ stats.datagrams < MaxDatagrams

DecodedDatagram(flows) ==
    /\ AnotherDatagram
    /\ stats' = [stats EXCEPT !.datagrams = Add(@, 1)]
    /\ pending' = flows
    /\ UNCHANGED <<tables, flags, hints>>

UnsupportedDatagram ==
    /\ AnotherDatagram
    /\ stats' = [stats EXCEPT !.datagrams = Add(@, 1),
                              !.unsupported_version = Add(@, 1)]
    /\ UNCHANGED <<tables, flags, hints, pending>>

UndecodableDatagram ==
    /\ AnotherDatagram
    /\ stats' = [stats EXCEPT !.datagrams = Add(@, 1),
                              !.decode_errors = Add(@, 1)]
    /\ UNCHANGED <<tables, flags, hints, pending>>

-----------------------------------------------------------------------------
(* pipeline.rs process_tzsp: every parser sees the frame, in this order:   *)
(* DHCP ACK, DNS answer, TLS or QUIC SNI, nDPI.                            *)

\* Store::apply_identity over the rows of every day.
\* One variant forgets the rows there already are, one clears their totals.
NoBackfill(ip, ident) == clients' = clients
RebuildRows(ip, ident) ==
    clients' = [k \in DOMAIN clients |->
        IF k[2] = ip
        THEN [use |-> NewRow, ident |-> Merge(clients[k].ident, ident)]
        ELSE clients[k]]
ApplyIdentity(ip, ident) ==
    clients' = [k \in DOMAIN clients |->
        IF k[2] = ip
        THEN [clients[k] EXCEPT !.ident = Merge(@, ident)]
        ELSE clients[k]]

\* Hints::remember_identity.
RememberIdentity(ip, ident) ==
    identity' = Put(identity, ip, Merge(Get(identity, ip, NoIdent), ident))

Ports(frame) == {frame.src_port, frame.dst_port}

TakeAck(frame) ==
    IF /\ frame.proto = UDP
       /\ 67 \in Ports(frame) \/ frame.dst_port = 68
       /\ frame.ack # None
    THEN /\ ApplyIdentity(frame.ack.ip, frame.ack.ident)
         /\ RememberIdentity(frame.ack.ip, frame.ack.ident)
    ELSE UNCHANGED <<clients, identity>>

\* The addresses an answer resolves, and the last name it gives each of them.
Resolved(answer) == {answer[i].ip : i \in DOMAIN answer}
LastName(answer, ip) ==
    LET at == {i \in DOMAIN answer : answer[i].ip = ip}
    IN  answer[CHOOSE i \in at : \A j \in at : j <= i].name

TakeAnswer(frame) ==
    IF /\ frame.proto = UDP
       /\ 53 \in Ports(frame)
       /\ frame.answer # <<>>
       /\ ClientIp(frame) # None
    THEN /\ dns_enabled' = TRUE
         /\ LET new == {<<ClientIp(frame), ip>> : ip \in Resolved(frame.answer)}
            IN  dns' = [k \in DOMAIN dns \cup new |->
                   IF k \in new THEN LastName(frame.answer, k[2]) ELSE dns[k]]
    ELSE UNCHANGED <<dns_enabled, dns>>

\* client_hello_sni runs on any payload, client_initial_sni on UDP only.
SniName(frame) ==
    IF frame.hello # None THEN frame.hello
    ELSE IF frame.proto = UDP THEN frame.initial ELSE None

TakeSni(frame) ==
    /\ sni_enabled' = (sni_enabled \/ SniName(frame) # None)
    /\ sni' = IF SniName(frame) # None /\ ClientIp(frame) # None
              THEN Put(sni, HintKey(frame), SniName(frame))
              ELSE sni

\* The flag is raised only where a hint is stored: a generic hit leaves no trace.
TakeNdpiSpecific(frame) ==
    /\ ndpi_enabled' = (ndpi_enabled \/ frame.hit \in NdpiApp \ Generic)
    /\ ndpi_apps' = IF frame.hit # None /\ ClientIp(frame) # None
                    THEN Put(ndpi_apps, HintKey(frame), frame.hit)
                    ELSE ndpi_apps
TakeNdpi(frame) ==
    /\ ndpi_enabled' = (ndpi_enabled \/ frame.hit # None)
    /\ ndpi_apps' = IF frame.hit # None /\ ClientIp(frame) # None
                    THEN Put(ndpi_apps, HintKey(frame), frame.hit)
                    ELSE ndpi_apps

AnotherSample == pending = <<>> /\ stats.tzsp_datagrams < MaxSamples

ParsedSample(frame) ==
    /\ AnotherSample
    /\ stats' = [stats EXCEPT !.tzsp_datagrams = Add(@, 1)]
    /\ TakeAck(frame)
    /\ TakeAnswer(frame)
    /\ TakeSni(frame)
    /\ TakeNdpi(frame)
    /\ UNCHANGED <<hourly, apps, pending>>

\* No Ethernet frame in the TZSP datagram, or no IPv4 TCP/UDP in the frame.
DroppedSample ==
    /\ AnotherSample
    /\ stats' = [stats EXCEPT !.tzsp_datagrams = Add(@, 1),
                              !.dpi_dropped = Add(@, 1)]
    /\ UNCHANGED <<tables, flags, hints, pending>>

-----------------------------------------------------------------------------
(* sidecar.rs load_identity_jsonl: main.rs loads it before any traffic. *)

LoadIdentityRow(row) ==
    /\ stats.datagrams = 0 /\ stats.tzsp_datagrams = 0
    /\ pending = <<>>
    /\ ApplyIdentity(row.ip, row.ident)
    /\ RememberIdentity(row.ip, row.ident)
    /\ UNCHANGED <<stats, hourly, apps, flags, sni, dns, ndpi_apps, pending>>

-----------------------------------------------------------------------------
NoEntry == [k \in {} |-> None]

Init ==
    /\ stats = [datagrams |-> 0, flows |-> 0, decode_errors |-> 0,
                unsupported_version |-> 0, no_client |-> 0,
                tzsp_datagrams |-> 0, dpi_dropped |-> 0]
    /\ hourly = NoEntry /\ clients = NoEntry /\ apps = NoEntry
    /\ sni_enabled = FALSE /\ dns_enabled = FALSE /\ ndpi_enabled = FALSE
    /\ identity = NoEntry /\ sni = NoEntry /\ dns = NoEntry
    /\ ndpi_apps = NoEntry
    /\ pending = <<>>

Next ==
    \/ \E row \in SidecarRow : LoadIdentityRow(row)
    \/ \E flows \in Datagram : DecodedDatagram(flows)
    \/ UnsupportedDatagram
    \/ UndecodableDatagram
    \/ IngestClientFlow
    \/ IngestWanOnlyFlow
    \/ \E frame \in Sample : ParsedSample(frame)
    \/ DroppedSample

Spec == Init /\ [][Next]_vars

-----------------------------------------------------------------------------
(* Properties *)

UseRow == [bytes : Counter, packets : Counter, flows : Counter]
ClientRow == [use : UseRow, ident : Ident]
AppRow == [use : UseRow, conf : Confidence]
Stats == [datagrams : Counter, flows : Counter, decode_errors : Counter,
          unsupported_version : Counter, no_client : Counter,
          tzsp_datagrams : Counter, dpi_dropped : Counter]

IsTable(map, Key, Value) ==
    /\ DOMAIN map \subseteq Key
    /\ \A k \in DOMAIN map : map[k] \in Value

TablesOK ==
    /\ IsTable(hourly, Nat \X Nat, Counter)
    /\ IsTable(clients, Nat \X Addr, ClientRow)
    /\ IsTable(apps, Nat \X Addr \X AppName, AppRow)
HintsOK ==
    /\ IsTable(identity, Addr, Ident)
    /\ IsTable(sni, Addr \X Addr \X Port, Name)
    /\ IsTable(dns, Addr \X Addr, Name)
    /\ IsTable(ndpi_apps, Addr \X Addr \X Port, NdpiApp)
FlagsOK ==
    sni_enabled \in BOOLEAN /\ dns_enabled \in BOOLEAN /\ ndpi_enabled \in BOOLEAN

\* Every table is a partial map of its Rust key type to its row type, no counter
\* leaves the u64 range, and only decoded flows wait to be ingested.
TypeOK ==
    /\ stats \in Stats
    /\ TablesOK /\ HintsOK /\ FlagsOK
    /\ pending \in Seq(Flow)

\* docs/checklist.md: a WAN-only flow never becomes a LAN client key.  Every
\* client that a row or a hint is filed under is an RFC1918 address (client_ip
\* never invents a client).
ClientsArePrivate ==
    /\ \A k \in DOMAIN clients : k[2] \in Lan
    /\ \A k \in DOMAIN apps : k[2] \in Lan
    /\ \A k \in DOMAIN sni \cup DOMAIN ndpi_apps \cup DOMAIN dns : k[1] \in Lan

\* The three tables nest.  Store::flush takes its list of days from clients and
\* hourly alone and write_day filters apps by day, so an app row without a client
\* row, or a client row of a day without an hour, would be lost or unexplained.
RowsNest ==
    /\ \A k \in DOMAIN apps : <<k[1], k[2]>> \in DOMAIN clients
    /\ \A k \in DOMAIN clients :
            /\ \E a \in DOMAIN apps : <<a[1], a[2]>> = k
            /\ \E h \in DOMAIN hourly : h[1] = k[1]

\* A client row carries exactly what is known of that address, whichever came
\* first: the flow or the DHCP ACK (docs/roadmap.md: a late ACK backfills the
\* clients there already are).  Two structures must agree, Store.clients and
\* Hints.identity, which process_tzsp updates by two separate calls.
RowsCarryIdentity ==
    \A k \in DOMAIN clients : clients[k].ident = Get(identity, k[2], NoIdent)

Measure == {"bytes", "packets", "flows"}
AppTotal(day, client, m) ==
    SumFunctionOnSet([k \in DOMAIN apps |-> apps[k].use[m]],
                     {k \in DOMAIN apps : k[1] = day /\ k[2] = client}) % U64

\* docs/roadmap.md, "counts can be summed": the app rows of a client's day add up
\* to the client's row, in bytes, packets and flows, wrapping included.
AppsSumToClients ==
    \A k \in DOMAIN clients, m \in Measure :
        clients[k].use[m] = AppTotal(k[1], k[2], m)

\* Every flow counted in ingest.json is in one client row or was WAN-only: the
\* early return of ingest_flow drops no flow and counts none twice.
FlowsAccounted ==
    stats.flows = (stats.no_client
        + SumFunction([k \in DOMAIN clients |-> clients[k].use.flows])) % U64

Sampled == {"sni", "dns", "ndpi"}

\* docs/schema.md: confidence sni, dns or ndpi in a row comes with its flag in
\* metadata.json.  The flag is raised by the sample that taught the hint.
LabelsAreDeclared ==
    \A k \in DOMAIN apps :
        /\ apps[k].conf = "sni" => sni_enabled
        /\ apps[k].conf = "dns" => dns_enabled
        /\ apps[k].conf = "ndpi" => ndpi_enabled

\* A NetFlow exporter reports the two directions of a connection between a LAN
\* client and a WAN host as two flows.  Whatever the two ports are and whatever has
\* been sampled, both are filed under one client and looked up under one hint, and
\* they are given one app and confidence, with one exception that the formula
\* states exactly: when no hint speaks of the connection and both ports are well
\* known with different rules (TCP 8080 and 443), service_port takes the
\* destination of either flow, and the connection becomes two apps.
OneWay(k) ==
    [src |-> k.client, dst |-> k.host, src_port |-> k.client_port,
     dst_port |-> k.host_port, proto |-> k.proto]
OtherWay(k) ==
    [src |-> k.host, dst |-> k.client, src_port |-> k.host_port,
     dst_port |-> k.client_port, proto |-> k.proto]
Unhinted(pkt) == SniFor(pkt) = None /\ DnsFor(pkt) = None /\ NdpiFor(pkt) = None
TwoServices(proto, p, q) ==
    {p, q} \subseteq WellKnown /\ Matching(proto, p) # Matching(proto, q)
RepliesJoinRequests ==
    \A k \in Connection :
        LET out == OneWay(k)
            back == OtherWay(k)
        IN  /\ ClientIp(out) = k.client /\ ClientIp(back) = k.client
            /\ HintKey(out) = HintKey(back) /\ DnsKey(out) = DnsKey(back)
            /\ ClassifyFlow(out) = ClassifyFlow(back)
                   <=> ~ /\ Unhinted(out)
                         /\ TwoServices(k.proto, k.client_port, k.host_port)

\* pipeline.rs: "TZSP samples never add or subtract NetFlow byte counts".  A step
\* that takes a sample leaves the hours, the app rows, the NetFlow counters and
\* the totals of every client row alone, although a DHCP ACK rewrites the rows.
SamplesNeverCount ==
    [][stats'.tzsp_datagrams # stats.tzsp_datagrams =>
        /\ UNCHANGED <<hourly, apps>>
        /\ DOMAIN clients' = DOMAIN clients
        /\ \A k \in DOMAIN clients : clients'[k].use = clients[k].use
        /\ \A c \in DOMAIN stats \ {"tzsp_datagrams", "dpi_dropped"} :
                stats'[c] = stats[c]]_vars

\* A row is labelled sni, dns or ndpi only on the word of a sample of that very
\* client: when a flow changes a row and leaves it with such a label, a hint filed
\* under the row's client names the row's app.
SampledLabelsHaveSource ==
    [][\A k \in DOMAIN apps' :
        (k \notin DOMAIN apps \/ apps'[k] # Get(apps, k, None)) =>
            /\ apps'[k].conf = "sni" =>
                   \E h \in DOMAIN sni : h[1] = k[2] /\ sni[h] = k[3]
            /\ apps'[k].conf = "dns" =>
                   \E h \in DOMAIN dns : h[1] = k[2] /\ dns[h] = k[3]
            /\ apps'[k].conf = "ndpi" =>
                   \E h \in DOMAIN ndpi_apps :
                       h[1] = k[2] /\ ndpi_apps[h] = k[3]]_vars

\* docs/roadmap.md: a DNS A answer maps the client and the resolved address to the
\* name.  After an answer sent to a LAN client has been sampled, a hint for that
\* client and each address in it is there.
AnswersReachTheAsker ==
    [][\A frame \in Sample :
        /\ ParsedSample(frame)
        /\ frame.proto = UDP /\ frame.src_port = 53 /\ frame.dst \in Lan
        => \A ip \in Resolved(frame.answer) : <<frame.dst, ip>> \in DOMAIN dns']_vars

-----------------------------------------------------------------------------
(* Refinement: the tables implement Metering.  The day's total is read off  *)
(* hourly.json, a client's off the app rows, so the two may not drift.      *)

FlowsOf(datagrams) == UNION {{d[i] : i \in DOMAIN d} : d \in datagrams}
Days == {DayOf(f.hour) : f \in FlowsOf(Datagram)}

Volume == INSTANCE Metering WITH
    Day     <- Days,
    Client  <- Lan,
    Traffic <- {[day |-> DayOf(f.hour), client |-> ClientIp(f),
                 bytes |-> f.bytes] : f \in FlowsOf(Datagram)},
    carried <- [d \in Days |->
                   SumFunctionOnSet(hourly, {k \in DOMAIN hourly : k[1] = d}) % U64],
    used    <- [k \in Days \X Lan |-> AppTotal(k[1], k[2], "bytes")]

\* Every step of the collector counts exactly one flow, once per day and once for
\* its client, or counts nothing.
MetersVolume == Volume!Spec

\* The tables as module Daemon knows them; Store::flush takes its days from clients
\* and hourly.
Rows == INSTANCE Tables WITH
    life     <- 1,
    days     <- {k[1] : k \in DOMAIN clients \cup DOMAIN hourly},
    labelled <- {k[1] : k \in {k \in DOMAIN apps : apps[k].conf \in Sampled}},
    taught   <- sni_enabled \/ dns_enabled \/ ndpi_enabled

\* No day leaves memory once a flow of it was counted, samples label no row by
\* themselves, and no row is labelled before a sample has left a hint.
KeepsItsRows == Rows!Spec
=============================================================================
