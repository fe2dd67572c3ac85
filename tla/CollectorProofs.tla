------------------------ MODULE CollectorProofs ------------------------
(***************************************************************************)
(* Machine-checked properties of Collector for every value of its          *)
(* constants.  The type invariant comes first, action by action; the other *)
(* invariants are inductive relative to it.                                *)
(***************************************************************************)
EXTENDS Collector, SumTheory, SequenceTheorems, WellFoundedInduction, TLAPS

-----------------------------------------------------------------------------
(* Partial maps *)

\* Put adds one key and changes no other entry.
LEMMA PutEntries ==
    ASSUME NEW map, NEW key, NEW value
    PROVE  /\ DOMAIN Put(map, key, value) = DOMAIN map \cup {key}
           /\ Put(map, key, value)[key] = value
           /\ \A k \in DOMAIN map : k # key => Put(map, key, value)[k] = map[k]
BY DEF Put

\* Put keeps a table a table.
LEMMA PutKeepsTable ==
    ASSUME NEW map, NEW Key, NEW Value, IsTable(map, Key, Value),
           NEW key \in Key, NEW value \in Value
    PROVE  IsTable(Put(map, key, value), Key, Value)
BY DEF IsTable, Put

\* Get answers with a row of the table or with the default.
LEMMA GetFromTable ==
    ASSUME NEW map, NEW Key, NEW Value, IsTable(map, Key, Value),
           NEW key, NEW default \in Value
    PROVE  Get(map, key, default) \in Value
BY DEF IsTable, Get

\* Counters stay in range because the addition wraps.
LEMMA AddInRange ==
    ASSUME NEW a \in Counter, NEW b \in Nat
    PROVE  Add(a, b) \in Counter
BY WidthAssumption DEF Add, Counter

-----------------------------------------------------------------------------
(* Identities *)

\* Merging identities gives an identity.
LEMMA MergeType ==
    ASSUME NEW a \in Ident, NEW b \in Ident
    PROVE  Merge(a, b) \in Ident
BY DEF Merge, Newer, Ident

\* Merging what is already known changes nothing, and merging into nothing gives
\* what was merged.
LEMMA MergeFacts ==
    ASSUME NEW a \in Ident
    PROVE  Merge(a, a) = a /\ Merge(NoIdent, a) = a /\ Merge(a, NoIdent) = a
BY DEF Merge, Newer, Ident, NoIdent

LEMMA NoIdentType == NoIdent \in Ident
BY DEF NoIdent, Ident

-----------------------------------------------------------------------------
(* Classification *)

\* The port table always has an answer.
LEMMA ClassifyType ==
    ASSUME NEW proto, NEW s, NEW d
    PROVE  /\ Classify(proto, s, d) \in [app : PortApps, conf : Confidence]
           /\ Classify(proto, s, d).conf \notin Sampled
BY DEF Classify, Matching, PortApps, Confidence, Sampled

\* A hint that is found is a name or an application of the right kind.
LEMMA HintTypes ==
    ASSUME HintsOK, NEW flow
    PROVE  /\ SniFor(flow) \in Name \cup {None}
           /\ DnsFor(flow) \in Name \cup {None}
           /\ NdpiFor(flow) \in NdpiApp \cup {None}
BY DEF HintsOK, IsTable, SniFor, DnsFor, NdpiFor, Get

\* Whatever hints there are, a flow gets exactly one application and a confidence,
\* and a sampled confidence comes from the hint of that kind.
LEMMA ClassifyFlowCases ==
    ASSUME HintsOK, NEW flow
    PROVE  LET verdict == ClassifyFlow(flow)
           IN  \/ verdict = [app |-> SniFor(flow), conf |-> "sni"]
                  /\ SniFor(flow) # None
               \/ verdict = [app |-> DnsFor(flow), conf |-> "dns"]
                  /\ DnsFor(flow) # None
               \/ verdict = [app |-> NdpiFor(flow), conf |-> "ndpi"]
                  /\ NdpiFor(flow) # None
               \/ verdict = Classify(flow.proto, flow.src_port, flow.dst_port)
<1> DEFINE hit == NdpiFor(flow)
           last == Classify(flow.proto, flow.src_port, flow.dst_port)
           ranked == << [app  |-> IF hit \in Generic THEN None ELSE hit,
                         conf |-> "ndpi"],
                        [app |-> SniFor(flow), conf |-> "sni"],
                        [app |-> DnsFor(flow), conf |-> "dns"],
                        [app |-> hit, conf |-> "ndpi"],
                        last >>
           First(i) == /\ ranked[i].app # None
                       /\ \A j \in 1 .. i - 1 : ranked[j].app = None
           chosen == CHOOSE i \in 1 .. 5 : First(i)
<1>1. last.app # None
  BY ClassifyType, NoneAssumption
<1>2. \E i \in 1 .. 5 : First(i)
  <2> HIDE DEF last
  <2>1. CASE ranked[1].app # None
    BY <2>1
  <2>2. CASE ranked[1].app = None /\ ranked[2].app # None
    BY <2>2
  <2>3. CASE ranked[1].app = None /\ ranked[2].app = None /\ ranked[3].app # None
    BY <2>3
  <2>4. CASE /\ ranked[1].app = None /\ ranked[2].app = None
             /\ ranked[3].app = None /\ ranked[4].app # None
    BY <2>4
  <2>5. CASE /\ ranked[1].app = None /\ ranked[2].app = None
             /\ ranked[3].app = None /\ ranked[4].app = None
    BY <1>1, <2>5
  <2> QED
    BY <2>1, <2>2, <2>3, <2>4, <2>5
<1>3. chosen \in 1 .. 5 /\ First(chosen)
  BY <1>2
<1>4. ClassifyFlow(flow) = ranked[chosen]
  BY DEF ClassifyFlow
<1> HIDE DEF chosen
<1>5. CASE chosen = 1
  <2>1. ranked[1].app # None /\ ClassifyFlow(flow) = ranked[1]
    BY <1>3, <1>4, <1>5
  <2>2. hit \notin Generic /\ hit # None
    BY <2>1
  <2> QED
    BY <2>1, <2>2
<1>6. CASE chosen = 2
  BY <1>3, <1>4, <1>6
<1>7. CASE chosen = 3
  BY <1>3, <1>4, <1>7
<1>8. CASE chosen = 4
  BY <1>3, <1>4, <1>8
<1>9. CASE chosen = 5
  <2> HIDE DEF last
  <2>1. ClassifyFlow(flow) = last
    BY <1>4, <1>9
  <2> QED
    BY <2>1 DEF last
<1> QED
  BY <1>3, <1>5, <1>6, <1>7, <1>8, <1>9

-----------------------------------------------------------------------------
(* Keys *)

\* Days are natural numbers.
LEMMA DayOfType ==
    ASSUME NEW hour \in Nat
    PROVE  DayOf(hour) \in Nat
BY ClockAssumption DEF DayOf

\* client_ip answers with an RFC1918 address or with nothing.
LEMMA ClientIpType ==
    ASSUME NEW pkt
    PROVE  ClientIp(pkt) \in Lan \cup {None}
BY DEF ClientIp

\* The other end of a packet is an address and a port.
LEMMA FarEndType ==
    ASSUME NEW pkt, pkt.src \in Addr, pkt.dst \in Addr,
           pkt.src_port \in Port, pkt.dst_port \in Port
    PROVE  FarEnd(pkt)[1] \in Addr /\ FarEnd(pkt)[2] \in Port
BY DEF FarEnd

\* A flow with a client has well-typed keys in all three tables.
LEMMA FlowKeys ==
    ASSUME HintsOK, NEW flow \in Flow
    PROVE  /\ HourKey(flow) \in Nat \X Nat
           /\ ClassifyFlow(flow) \in [app : AppName, conf : Confidence]
           /\ ClientIp(flow) # None => /\ ClientKey(flow) \in Nat \X Lan
                                      /\ AppKey(flow) \in Nat \X Lan \X AppName
<1>1. flow.hour \in Nat /\ DayOf(flow.hour) \in Nat
  BY DayOfType DEF Flow
<1>2. ClassifyFlow(flow) \in [app : AppName, conf : Confidence]
  <2>1. Classify(flow.proto, flow.src_port, flow.dst_port)
            \in [app : PortApps, conf : Confidence]
    BY ClassifyType
  <2>2. /\ SniFor(flow) \in Name \cup {None}
        /\ DnsFor(flow) \in Name \cup {None}
        /\ NdpiFor(flow) \in NdpiApp \cup {None}
    BY HintTypes
  <2>3. {"sni", "dns", "ndpi"} \subseteq Confidence
    BY DEF Confidence
  <2>4. Name \cup NdpiApp \cup PortApps = AppName
    BY DEF AppName
  <2> QED
    BY <2>1, <2>2, <2>3, <2>4, ClassifyFlowCases
<1> QED
  BY <1>1, <1>2, ClientIpType DEF HourKey, ClientKey, AppKey

\* A frame's hint keys are well typed when it has a client.
LEMMA FrameKeys ==
    ASSUME NEW frame \in Frame, ClientIp(frame) # None
    PROVE  /\ HintKey(frame) \in Lan \X Addr \X Port
           /\ ClientIp(frame) \in Lan
BY ClientIpType, FarEndType DEF HintKey, Frame

-----------------------------------------------------------------------------
(* Type correctness *)

\* Charging a flow to a row keeps the row's counters in range.
LEMMA ChargedType ==
    ASSUME NEW row \in UseRow, NEW flow \in Flow
    PROVE  Charged(row, flow) \in UseRow
<1>1. flow.bytes \in Nat /\ flow.packets \in Nat
  BY WidthAssumption DEF Flow, Counter
<1> QED
  BY <1>1, AddInRange DEF Charged, UseRow

\* The empty row counts nothing.
LEMMA NewRowType == NewRow \in UseRow
BY WidthAssumption DEF NewRow, UseRow, Counter

\* CountHour, CountClient and CountApp keep their tables tables.
LEMMA CountHourType ==
    ASSUME TypeOK, NEW flow \in Flow, CountHour(flow)
    PROVE  IsTable(hourly, Nat \X Nat, Counter)'
<1>1. 0 \in Counter /\ flow.bytes \in Nat
  BY WidthAssumption DEF Counter, Flow
<1>2. IsTable(hourly, Nat \X Nat, Counter)
  BY DEF TypeOK, TablesOK
<1>3. Get(hourly, HourKey(flow), 0) \in Counter
  BY <1>1, <1>2, GetFromTable
<1>4. Add(Get(hourly, HourKey(flow), 0), flow.bytes) \in Counter
  BY <1>1, <1>3, AddInRange
<1>5. HourKey(flow) \in Nat \X Nat
  BY FlowKeys DEF TypeOK
<1>6. IsTable(Put(hourly, HourKey(flow),
              Add(Get(hourly, HourKey(flow), 0), flow.bytes)), Nat \X Nat, Counter)
  BY <1>2, <1>4, <1>5, PutKeepsTable
<1> QED
  BY <1>6 DEF CountHour

LEMMA CountClientType ==
    ASSUME TypeOK, NEW flow \in Flow, ClientIp(flow) # None, CountClient(flow)
    PROVE  IsTable(clients, Nat \X Addr, ClientRow)'
<1> DEFINE row == Get(clients, ClientKey(flow), NewClient)
           known == Get(identity, ClientIp(flow), NoIdent)
           new == [use |-> Charged(row.use, flow), ident |-> Merge(row.ident, known)]
<1>1. IsTable(clients, Nat \X Addr, ClientRow) /\ IsTable(identity, Addr, Ident)
  BY DEF TypeOK, TablesOK, HintsOK
<1>2. NewClient \in ClientRow
  BY NewRowType, NoIdentType DEF NewClient, ClientRow
<1>3. row \in ClientRow /\ known \in Ident
  BY <1>1, <1>2, NoIdentType, GetFromTable
<1>4. row.use \in UseRow /\ row.ident \in Ident
  BY <1>3 DEF ClientRow
<1>5. new \in ClientRow
  BY <1>3, <1>4, ChargedType, MergeType DEF ClientRow
<1>6. ClientKey(flow) \in Nat \X Addr
  BY FlowKeys DEF TypeOK, Addr
<1>7. IsTable(Put(clients, ClientKey(flow), new), Nat \X Addr, ClientRow)
  BY <1>1, <1>5, <1>6, PutKeepsTable
<1> QED
  BY <1>7 DEF CountClient

LEMMA CountAppType ==
    ASSUME TypeOK, NEW flow \in Flow, ClientIp(flow) # None, CountApp(flow)
    PROVE  IsTable(apps, Nat \X Addr \X AppName, AppRow)'
<1> DEFINE row == Get(apps, AppKey(flow), [use |-> NewRow, conf |-> "unknown"])
           new == [use |-> Charged(row.use, flow), conf |-> ClassifyFlow(flow).conf]
<1>1. IsTable(apps, Nat \X Addr \X AppName, AppRow)
  BY DEF TypeOK, TablesOK
<1>2. [use |-> NewRow, conf |-> "unknown"] \in AppRow
  BY NewRowType DEF AppRow, Confidence
<1>3. row \in AppRow
  BY <1>1, <1>2, GetFromTable
<1>4. row.use \in UseRow
  BY <1>3 DEF AppRow
<1>5. ClassifyFlow(flow).conf \in Confidence
  BY FlowKeys DEF TypeOK
<1>6. new \in AppRow
  BY <1>4, <1>5, ChargedType DEF AppRow
<1>7. AppKey(flow) \in Nat \X Addr \X AppName
  BY FlowKeys DEF TypeOK, Addr
<1>8. IsTable(Put(apps, AppKey(flow), new), Nat \X Addr \X AppName, AppRow)
  BY <1>1, <1>6, <1>7, PutKeepsTable
<1> QED
  BY <1>8 DEF CountApp

\* Bumping one counter of Store.stats, or two, keeps it well typed.
LEMMA StatsType ==
    ASSUME stats \in Stats
    PROVE  /\ [stats EXCEPT !.flows = Add(@, 1)] \in Stats
           /\ [stats EXCEPT !.flows = Add(@, 1), !.no_client = Add(@, 1)] \in Stats
           /\ [stats EXCEPT !.datagrams = Add(@, 1)] \in Stats
           /\ [stats EXCEPT !.datagrams = Add(@, 1),
                            !.unsupported_version = Add(@, 1)] \in Stats
           /\ [stats EXCEPT !.datagrams = Add(@, 1),
                            !.decode_errors = Add(@, 1)] \in Stats
           /\ [stats EXCEPT !.tzsp_datagrams = Add(@, 1)] \in Stats
           /\ [stats EXCEPT !.tzsp_datagrams = Add(@, 1),
                            !.dpi_dropped = Add(@, 1)] \in Stats
<1>1. \A c \in Counter : Add(c, 1) \in Counter
  BY AddInRange
<1> QED
  BY <1>1 DEF Stats

\* What is taken off the queue is a flow, and what stays are flows.
LEMMA PendingType ==
    ASSUME pending \in Seq(Flow), pending # <<>>
    PROVE  Head(pending) \in Flow /\ Tail(pending) \in Seq(Flow)
OBVIOUS

\* Store::apply_identity and Hints::remember_identity keep the two types.
LEMMA IdentityType ==
    ASSUME TypeOK, NEW ip \in Addr, NEW ident \in Ident,
           ApplyIdentity(ip, ident), RememberIdentity(ip, ident)
    PROVE  /\ IsTable(clients, Nat \X Addr, ClientRow)'
           /\ IsTable(identity, Addr, Ident)'
<1>1. IsTable(clients, Nat \X Addr, ClientRow) /\ IsTable(identity, Addr, Ident)
  BY DEF TypeOK, TablesOK, HintsOK
<1>2. IsTable(clients, Nat \X Addr, ClientRow)'
  <2> SUFFICES ASSUME NEW k \in DOMAIN clients
               PROVE  clients'[k] \in ClientRow
    BY <1>1 DEF ApplyIdentity, IsTable
  <2>1. clients[k] \in ClientRow
    BY <1>1 DEF IsTable
  <2>2. Merge(clients[k].ident, ident) \in Ident
    BY <2>1, MergeType DEF ClientRow
  <2> QED
    BY <2>1, <2>2 DEF ApplyIdentity, ClientRow
<1>3. Merge(Get(identity, ip, NoIdent), ident) \in Ident
  BY <1>1, NoIdentType, GetFromTable, MergeType
<1>4. IsTable(Put(identity, ip, Merge(Get(identity, ip, NoIdent), ident)),
              Addr, Ident)
  BY <1>1, <1>3, PutKeepsTable
<1> QED
  BY <1>2, <1>4 DEF RememberIdentity

\* A nonempty set of natural numbers has a least element.
LEMMA LeastNatural ==
    ASSUME NEW T, T \subseteq Nat, T # {}
    PROVE  \E x \in T : \A y \in T : x <= y
<1>1. \E x \in T : \A y \in T : ~ (<<y, x>> \in OpToRel(<, Nat))
  BY NatLessThanWellFounded, WFMin
<1>2. PICK x \in T : \A y \in T : ~ (<<y, x>> \in OpToRel(<, Nat))
  BY <1>1
<1>3. \A y \in T : <<y, x>> \in OpToRel(<, Nat) <=> y < x
  BY DEF OpToRel
<1>4. \A y \in T : ~ (y < x)
  BY <1>2, <1>3, Zenon
<1>5. \A y \in T : x <= y
  BY <1>4
<1> QED
  BY <1>5

\* An answer gives every address it resolves one name.
LEMMA LastNameType ==
    ASSUME NEW answer \in Seq([ip : Addr, name : Name]), NEW ip \in Resolved(answer)
    PROVE  LastName(answer, ip) \in Name
<1> DEFINE at == {i \in DOMAIN answer : answer[i].ip = ip}
           IsLast(i) == \A j \in at : j <= i
           T == {Len(answer) - i : i \in at}
<1>1. at \subseteq 1 .. Len(answer) /\ at # {} /\ Len(answer) \in Nat
  BY DEF Resolved
<1>2. T \subseteq Nat /\ T # {}
  BY <1>1
<1>3. PICK t \in T : \A u \in T : t <= u
  <2> HIDE DEF T
  <2> QED BY <1>2, LeastNatural
<1>4. PICK i \in at : t = Len(answer) - i
  BY <1>3
<1>5. \A j \in at : j <= i
  <2> SUFFICES ASSUME NEW j \in at PROVE j <= i
    OBVIOUS
  <2>1. t <= Len(answer) - j
    BY <1>3
  <2> HIDE DEF at, T
  <2> QED BY <2>1, <1>1, <1>4
<1>6. (CHOOSE n \in at : IsLast(n)) \in at
  <2>1. \E n \in at : IsLast(n)
    BY <1>5
  <2> HIDE DEF at
  <2> QED BY <2>1
<1>7. \A n \in at : answer[n].name \in Name
  <2> SUFFICES ASSUME NEW n \in 1 .. Len(answer) PROVE answer[n].name \in Name
    BY <1>1
  <2>1. answer[n] \in [ip : Addr, name : Name]
    BY ElementOfSeq
  <2> QED BY <2>1
<1> QED
  BY <1>6, <1>7 DEF LastName

\* Each of the four parsers of a sample leaves well-typed tables and flags.
LEMMA AckType ==
    ASSUME TypeOK, NEW frame \in Frame, TakeAck(frame)
    PROVE  /\ IsTable(clients, Nat \X Addr, ClientRow)'
           /\ IsTable(identity, Addr, Ident)'
<1> DEFINE taken == /\ frame.proto = UDP
                    /\ 67 \in Ports(frame) \/ frame.dst_port = 68
                    /\ frame.ack # None
<1>1. CASE taken
  <2>1. frame.ack.ip \in Addr /\ frame.ack.ident \in Ident
    BY <1>1 DEF Frame
  <2>2. /\ ApplyIdentity(frame.ack.ip, frame.ack.ident)
        /\ RememberIdentity(frame.ack.ip, frame.ack.ident)
    BY <1>1 DEF TakeAck
  <2> QED
    BY <2>1, <2>2, IdentityType
<1>2. CASE ~taken
  <2>1. UNCHANGED <<clients, identity>>
    BY <1>2 DEF TakeAck
  <2> QED
    BY <2>1 DEF TypeOK, TablesOK, HintsOK, IsTable
<1> QED
  BY <1>1, <1>2

LEMMA AnswerType ==
    ASSUME TypeOK, NEW frame \in Frame, TakeAnswer(frame)
    PROVE  dns_enabled' \in BOOLEAN /\ IsTable(dns, Addr \X Addr, Name)'
<1> DEFINE taken == /\ frame.proto = UDP
                    /\ 53 \in Ports(frame)
                    /\ frame.answer # <<>>
                    /\ ClientIp(frame) # None
           new == {<<ClientIp(frame), ip>> : ip \in Resolved(frame.answer)}
<1>1. IsTable(dns, Addr \X Addr, Name) /\ dns_enabled \in BOOLEAN
  BY DEF TypeOK, HintsOK, FlagsOK
<1>2. CASE taken
  <2>1. /\ dns_enabled' = TRUE
        /\ dns' = [k \in DOMAIN dns \cup new |->
               IF k \in new THEN LastName(frame.answer, k[2]) ELSE dns[k]]
    BY <1>2 DEF TakeAnswer
  <2>2. frame.answer \in Seq([ip : Addr, name : Name])
    BY DEF Frame
  <2>3. \A ip \in Resolved(frame.answer) : ip \in Addr
    <3> SUFFICES ASSUME NEW i \in 1 .. Len(frame.answer)
                 PROVE  frame.answer[i].ip \in Addr
      BY <2>2 DEF Resolved
    <3>1. frame.answer[i] \in [ip : Addr, name : Name]
      BY <2>2, ElementOfSeq
    <3> QED
      BY <3>1
  <2>4. ClientIp(frame) \in Addr
    BY <1>2, ClientIpType DEF Addr
  <2>5. new \subseteq Addr \X Addr
    BY <2>3, <2>4
  <2>6. \A k \in new : LastName(frame.answer, k[2]) \in Name
    <3>1. \A ip \in Resolved(frame.answer) : LastName(frame.answer, ip) \in Name
      BY <2>2, LastNameType
    <3>2. \A k \in new : k[2] \in Resolved(frame.answer)
      OBVIOUS
    <3> QED
      BY <3>1, <3>2
  <2> HIDE DEF new, taken
  <2>7. DOMAIN dns' = DOMAIN dns \cup new
    BY <2>1
  <2>8. \A k \in DOMAIN dns' : dns'[k] \in Name
    BY <1>1, <2>1, <2>6 DEF IsTable
  <2> QED
    BY <1>1, <2>1, <2>5, <2>7, <2>8 DEF IsTable
<1>3. CASE ~taken
  <2>1. UNCHANGED <<dns_enabled, dns>>
    BY <1>3 DEF TakeAnswer
  <2> QED
    BY <1>1, <2>1 DEF IsTable
<1> QED
  BY <1>2, <1>3

LEMMA SniType ==
    ASSUME TypeOK, NEW frame \in Frame, TakeSni(frame)
    PROVE  sni_enabled' \in BOOLEAN /\ IsTable(sni, Addr \X Addr \X Port, Name)'
<1>1. IsTable(sni, Addr \X Addr \X Port, Name) /\ sni_enabled \in BOOLEAN
  BY DEF TypeOK, HintsOK, FlagsOK
<1>2. SniName(frame) \in Name \cup {None}
  BY DEF SniName, Frame
<1>3. sni_enabled' \in BOOLEAN
  BY <1>1 DEF TakeSni
<1>4. CASE SniName(frame) # None /\ ClientIp(frame) # None
  <2>1. HintKey(frame) \in Addr \X Addr \X Port
    BY <1>4, FrameKeys DEF Addr
  <2>2. IsTable(Put(sni, HintKey(frame), SniName(frame)),
                Addr \X Addr \X Port, Name)
    BY <1>1, <1>2, <1>4, <2>1, PutKeepsTable
  <2> QED
    BY <1>3, <1>4, <2>2 DEF TakeSni
<1>5. CASE ~(SniName(frame) # None /\ ClientIp(frame) # None)
  BY <1>1, <1>3, <1>5 DEF TakeSni, IsTable
<1> QED
  BY <1>4, <1>5

LEMMA NdpiType ==
    ASSUME TypeOK, NEW frame \in Frame, TakeNdpi(frame)
    PROVE  /\ ndpi_enabled' \in BOOLEAN
           /\ IsTable(ndpi_apps, Addr \X Addr \X Port, NdpiApp)'
<1>1. IsTable(ndpi_apps, Addr \X Addr \X Port, NdpiApp) /\ ndpi_enabled \in BOOLEAN
  BY DEF TypeOK, HintsOK, FlagsOK
<1>2. ndpi_enabled' \in BOOLEAN
  BY <1>1 DEF TakeNdpi
<1>3. CASE frame.hit # None /\ ClientIp(frame) # None
  <2>1. HintKey(frame) \in Addr \X Addr \X Port /\ frame.hit \in NdpiApp
    BY <1>3, FrameKeys DEF Addr, Frame
  <2>2. IsTable(Put(ndpi_apps, HintKey(frame), frame.hit),
                Addr \X Addr \X Port, NdpiApp)
    BY <1>1, <2>1, PutKeepsTable
  <2> QED
    BY <1>2, <1>3, <2>2 DEF TakeNdpi
<1>4. CASE ~(frame.hit # None /\ ClientIp(frame) # None)
  BY <1>1, <1>2, <1>4 DEF TakeNdpi, IsTable
<1> QED
  BY <1>3, <1>4

\* The typed part of a sample step, and of a sidecar row.
LEMMA SampleType ==
    ASSUME TypeOK, NEW frame \in Frame, ParsedSample(frame)
    PROVE  TypeOK'
<1>1. stats' \in Stats
  BY StatsType DEF TypeOK, ParsedSample
<1>2. TablesOK'
  <2>1. IsTable(clients, Nat \X Addr, ClientRow)'
    BY AckType DEF ParsedSample
  <2>2. UNCHANGED <<hourly, apps>>
    BY DEF ParsedSample
  <2> QED
    BY <2>1, <2>2 DEF TypeOK, TablesOK
<1>3. HintsOK'
  BY AckType, AnswerType, SniType, NdpiType DEF ParsedSample, HintsOK
<1>4. FlagsOK'
  BY AnswerType, SniType, NdpiType DEF ParsedSample, FlagsOK
<1>5. pending' \in Seq(Flow)
  BY DEF TypeOK, ParsedSample
<1> QED
  BY <1>1, <1>2, <1>3, <1>4, <1>5 DEF TypeOK

LEMMA SidecarType ==
    ASSUME TypeOK, NEW row \in SidecarRow, LoadIdentityRow(row)
    PROVE  TypeOK'
<1>1. row.ip \in Addr /\ row.ident \in Ident
  BY InputAssumption
<1>2. /\ ApplyIdentity(row.ip, row.ident)
      /\ RememberIdentity(row.ip, row.ident)
      /\ UNCHANGED <<stats, hourly, apps, flags, sni, dns, ndpi_apps, pending>>
  BY DEF LoadIdentityRow
<1>3. /\ IsTable(clients, Nat \X Addr, ClientRow)'
      /\ IsTable(identity, Addr, Ident)'
  BY <1>1, <1>2, IdentityType
<1> QED
  BY <1>2, <1>3 DEF TypeOK, TablesOK, HintsOK, FlagsOK, flags

\* An ingested flow keeps every table typed.
LEMMA IngestType ==
    ASSUME TypeOK, IngestClientFlow \/ IngestWanOnlyFlow
    PROVE  TypeOK'
<1>1. /\ Head(pending) \in Flow /\ Tail(pending) \in Seq(Flow)
      /\ pending' = Tail(pending) /\ UNCHANGED <<flags, hints>>
  BY PendingType DEF TypeOK, IngestClientFlow, IngestWanOnlyFlow
<1>2. stats' \in Stats
  BY StatsType DEF TypeOK, IngestClientFlow, IngestWanOnlyFlow
<1>3. HintsOK' /\ FlagsOK'
  BY <1>1 DEF TypeOK, HintsOK, FlagsOK, hints, flags
<1>4. IsTable(hourly, Nat \X Nat, Counter)'
  BY <1>1, CountHourType DEF IngestClientFlow, IngestWanOnlyFlow
<1>5. CASE IngestClientFlow
  <2>1. /\ ClientIp(Head(pending)) # None
        /\ CountClient(Head(pending)) /\ CountApp(Head(pending))
    BY <1>5 DEF IngestClientFlow
  <2>2. /\ IsTable(clients, Nat \X Addr, ClientRow)'
        /\ IsTable(apps, Nat \X Addr \X AppName, AppRow)'
    BY <1>1, <2>1, CountClientType, CountAppType
  <2> QED
    BY <1>1, <1>2, <1>3, <1>4, <2>2 DEF TypeOK, TablesOK
<1>6. CASE IngestWanOnlyFlow
  BY <1>1, <1>2, <1>3, <1>4, <1>6 DEF TypeOK, TablesOK, IngestWanOnlyFlow
<1> QED
  BY <1>5, <1>6

\* Decoding, or failing to decode, a datagram moves counters and the queue only.
LEMMA DatagramType ==
    ASSUME TypeOK,
           \/ \E flows \in Datagram : DecodedDatagram(flows)
           \/ UnsupportedDatagram \/ UndecodableDatagram \/ DroppedSample
    PROVE  TypeOK'
<1>1. UNCHANGED <<tables, flags, hints>>
  BY DEF DecodedDatagram, UnsupportedDatagram, UndecodableDatagram, DroppedSample
<1>2. stats' \in Stats
  BY StatsType
  DEF TypeOK, DecodedDatagram, UnsupportedDatagram, UndecodableDatagram,
      DroppedSample
<1>3. pending' \in Seq(Flow)
  BY InputAssumption
  DEF TypeOK, DecodedDatagram, UnsupportedDatagram, UndecodableDatagram,
      DroppedSample
<1> QED
  BY <1>1, <1>2, <1>3
  DEF TypeOK, TablesOK, HintsOK, FlagsOK, tables, flags, hints

\* The tables start empty.
LEMMA InitType == Init => TypeOK
<1> SUFFICES ASSUME Init PROVE TypeOK
  OBVIOUS
<1>1. 0 \in Counter
  BY WidthAssumption DEF Counter
<1>2. stats \in Stats
  BY <1>1 DEF Init, Stats
<1>3. TablesOK /\ HintsOK
  BY DEF Init, NoEntry, TablesOK, HintsOK, IsTable
<1>4. FlagsOK
  BY DEF Init, FlagsOK
<1>5. pending \in Seq(Flow)
  BY DEF Init
<1> QED
  BY <1>2, <1>3, <1>4, <1>5 DEF TypeOK

LEMMA NextType == TypeOK /\ [Next]_vars => TypeOK'
<1> SUFFICES ASSUME TypeOK, [Next]_vars PROVE TypeOK'
  OBVIOUS
<1>1. ASSUME NEW row \in SidecarRow, LoadIdentityRow(row) PROVE TypeOK'
  BY <1>1, SidecarType
<1>2. CASE \/ \E flows \in Datagram : DecodedDatagram(flows)
           \/ UnsupportedDatagram \/ UndecodableDatagram \/ DroppedSample
  BY <1>2, DatagramType
<1>3. CASE IngestClientFlow \/ IngestWanOnlyFlow
  BY <1>3, IngestType
<1>4. ASSUME NEW frame \in Sample, ParsedSample(frame) PROVE TypeOK'
  <2>1. frame \in Frame
    BY InputAssumption
  <2> QED
    BY <1>4, <2>1, SampleType
<1>5. CASE UNCHANGED vars
  BY <1>5 DEF vars, tables, flags, hints, TypeOK, TablesOK, HintsOK, FlagsOK
<1> QED
  BY <1>1, <1>2, <1>3, <1>4, <1>5 DEF Next

\* The tables of Store and Hints are well typed in every reachable state, for every
\* address plan, counter width and traffic: no counter leaves its u64, no row has
\* a key that is not an address of the right table.
THEOREM TypeCorrect == Spec => []TypeOK
BY InitType, NextType, PTL DEF Spec

-----------------------------------------------------------------------------
(* What a step does to the tables *)

\* The queue holds flows, so the flow an ingest step takes has a client key.
LEMMA IngestEffect ==
    ASSUME TypeOK, IngestClientFlow
    PROVE  LET flow == Head(pending)
           IN  /\ flow \in Flow
               /\ ClientIp(flow) \in Lan
               /\ DOMAIN hourly' = DOMAIN hourly \cup {HourKey(flow)}
               /\ DOMAIN clients' = DOMAIN clients \cup {ClientKey(flow)}
               /\ DOMAIN apps' = DOMAIN apps \cup {AppKey(flow)}
               /\ apps'[AppKey(flow)].conf = ClassifyFlow(flow).conf
               /\ \A k \in DOMAIN apps : k # AppKey(flow) => apps'[k] = apps[k]
               /\ UNCHANGED <<flags, hints>>
<1> DEFINE flow == Head(pending)
<1>1. flow \in Flow
  BY PendingType DEF TypeOK, IngestClientFlow
<1>2. /\ ClientIp(flow) # None
      /\ CountHour(flow) /\ CountClient(flow) /\ CountApp(flow)
      /\ UNCHANGED <<flags, hints>>
  BY DEF IngestClientFlow
<1>3. ClientIp(flow) \in Lan
  BY <1>2, ClientIpType
<1> HIDE DEF flow
<1>4. DOMAIN hourly' = DOMAIN hourly \cup {HourKey(flow)}
  BY <1>2, PutEntries DEF CountHour
<1>5. DOMAIN clients' = DOMAIN clients \cup {ClientKey(flow)}
  BY <1>2, PutEntries DEF CountClient
<1>6. /\ DOMAIN apps' = DOMAIN apps \cup {AppKey(flow)}
      /\ apps'[AppKey(flow)].conf = ClassifyFlow(flow).conf
      /\ \A k \in DOMAIN apps : k # AppKey(flow) => apps'[k] = apps[k]
  <2> DEFINE row == Get(apps, AppKey(flow), [use |-> NewRow, conf |-> "unknown"])
             new == [use |-> Charged(row.use, flow), conf |-> ClassifyFlow(flow).conf]
  <2>1. apps' = Put(apps, AppKey(flow), new)
    BY <1>2 DEF CountApp
  <2>2. new.conf = ClassifyFlow(flow).conf
    OBVIOUS
  <2> HIDE DEF new
  <2>3. /\ DOMAIN apps' = DOMAIN apps \cup {AppKey(flow)}
        /\ apps'[AppKey(flow)] = new
        /\ \A k \in DOMAIN apps : k # AppKey(flow) => apps'[k] = apps[k]
    BY <2>1 DEF Put
  <2> QED
    BY <2>2, <2>3
<1> QED
  BY <1>1, <1>2, <1>3, <1>4, <1>5, <1>6 DEF flow

\* Every other step keeps the rows there are, and adds none to clients or apps.
OtherStep ==
    \/ \E row \in SidecarRow : LoadIdentityRow(row)
    \/ \E flows \in Datagram : DecodedDatagram(flows)
    \/ UnsupportedDatagram \/ UndecodableDatagram
    \/ IngestWanOnlyFlow
    \/ \E frame \in Sample : ParsedSample(frame)
    \/ DroppedSample

LEMMA StepSplit == Next <=> IngestClientFlow \/ OtherStep
BY DEF Next, OtherStep

\* The rows of other clients and every total survive an identity.
LEMMA ApplyIdentityKeeps ==
    ASSUME TypeOK, NEW ip, NEW ident, ApplyIdentity(ip, ident)
    PROVE  /\ DOMAIN clients' = DOMAIN clients
           /\ \A k \in DOMAIN clients : clients'[k].use = clients[k].use
<1> SUFFICES ASSUME NEW k \in DOMAIN clients
             PROVE  clients'[k].use = clients[k].use
  BY DEF ApplyIdentity
<1>1. clients[k] \in [use : UseRow, ident : Ident]
  BY DEF TypeOK, TablesOK, IsTable, ClientRow
<1> QED
  BY <1>1 DEF ApplyIdentity

LEMMA AckKeeps ==
    ASSUME TypeOK, NEW frame, TakeAck(frame)
    PROVE  /\ DOMAIN clients' = DOMAIN clients
           /\ \A k \in DOMAIN clients : clients'[k].use = clients[k].use
BY ApplyIdentityKeeps DEF TakeAck

LEMMA OtherEffect ==
    ASSUME TypeOK, OtherStep
    PROVE  /\ UNCHANGED apps
           /\ DOMAIN clients' = DOMAIN clients
           /\ \A k \in DOMAIN clients : clients'[k].use = clients[k].use
           /\ DOMAIN hourly \subseteq DOMAIN hourly'
<1>1. ASSUME NEW row \in SidecarRow, LoadIdentityRow(row)
      PROVE  /\ UNCHANGED <<hourly, apps>>
             /\ DOMAIN clients' = DOMAIN clients
             /\ \A k \in DOMAIN clients : clients'[k].use = clients[k].use
  BY <1>1, ApplyIdentityKeeps DEF LoadIdentityRow
<1>2. ASSUME NEW frame \in Sample, ParsedSample(frame)
      PROVE  /\ UNCHANGED <<hourly, apps>>
             /\ DOMAIN clients' = DOMAIN clients
             /\ \A k \in DOMAIN clients : clients'[k].use = clients[k].use
  BY <1>2, AckKeeps DEF ParsedSample
<1>3. CASE IngestWanOnlyFlow
  <2>1. UNCHANGED <<clients, apps>> /\ CountHour(Head(pending))
    BY <1>3 DEF IngestWanOnlyFlow
  <2>2. DOMAIN hourly \subseteq DOMAIN hourly'
    BY <2>1 DEF CountHour, Put
  <2> QED
    BY <2>1, <2>2
<1>4. CASE \/ \E flows \in Datagram : DecodedDatagram(flows)
           \/ UnsupportedDatagram \/ UndecodableDatagram \/ DroppedSample
  <2>1. UNCHANGED <<hourly, clients, apps>>
    BY <1>4 DEF DecodedDatagram, UnsupportedDatagram, UndecodableDatagram,
                DroppedSample, tables
  <2> QED
    BY <2>1
<1> QED
  BY <1>1, <1>2, <1>3, <1>4 DEF OtherStep

-----------------------------------------------------------------------------
(* Every client is a LAN address *)

\* A sample files its hints under its client.
LEMMA HintsArePrivate ==
    ASSUME TypeOK, ClientsArePrivate, NEW frame \in Frame, ParsedSample(frame)
    PROVE  \A k \in DOMAIN sni' \cup DOMAIN ndpi_apps' \cup DOMAIN dns' :
               k[1] \in Lan
<1>1. ASSUME NEW k \in DOMAIN sni' PROVE k[1] \in Lan
  <2>1. CASE SniName(frame) # None /\ ClientIp(frame) # None
    <3>1. DOMAIN sni' = DOMAIN sni \cup {HintKey(frame)}
      BY <2>1 DEF ParsedSample, TakeSni, Put
    <3> QED
      BY <1>1, <2>1, <3>1, FrameKeys DEF ClientsArePrivate
  <2>2. CASE ~(SniName(frame) # None /\ ClientIp(frame) # None)
    BY <1>1, <2>2 DEF ParsedSample, TakeSni, ClientsArePrivate
  <2> QED
    BY <2>1, <2>2
<1>2. ASSUME NEW k \in DOMAIN ndpi_apps' PROVE k[1] \in Lan
  <2>1. CASE frame.hit # None /\ ClientIp(frame) # None
    <3>1. DOMAIN ndpi_apps' = DOMAIN ndpi_apps \cup {HintKey(frame)}
      BY <2>1 DEF ParsedSample, TakeNdpi, Put
    <3> QED
      BY <1>2, <2>1, <3>1, FrameKeys DEF ClientsArePrivate
  <2>2. CASE ~(frame.hit # None /\ ClientIp(frame) # None)
    BY <1>2, <2>2 DEF ParsedSample, TakeNdpi, ClientsArePrivate
  <2> QED
    BY <2>1, <2>2
<1>3. ASSUME NEW k \in DOMAIN dns' PROVE k[1] \in Lan
  <2> DEFINE new == {<<ClientIp(frame), ip>> : ip \in Resolved(frame.answer)}
  <2>1. \/ UNCHANGED dns
        \/ ClientIp(frame) # None /\ DOMAIN dns' = DOMAIN dns \cup new
    BY DEF ParsedSample, TakeAnswer
  <2>2. ClientIp(frame) # None => \A h \in new : h[1] \in Lan
    BY FrameKeys
  <2> HIDE DEF new
  <2> QED
    BY <1>3, <2>1, <2>2 DEF ClientsArePrivate
<1> QED
  BY <1>1, <1>2, <1>3

LEMMA InitPrivate == Init => ClientsArePrivate
BY DEF Init, NoEntry, ClientsArePrivate

LEMMA NextPrivate == TypeOK /\ ClientsArePrivate /\ [Next]_vars => ClientsArePrivate'
<1> SUFFICES ASSUME TypeOK, ClientsArePrivate, [Next]_vars
             PROVE  ClientsArePrivate'
  OBVIOUS
<1>1. CASE IngestClientFlow
  <2> DEFINE flow == Head(pending)
  <2>1. /\ flow \in Flow /\ ClientIp(flow) \in Lan
        /\ DOMAIN clients' = DOMAIN clients \cup {ClientKey(flow)}
        /\ DOMAIN apps' = DOMAIN apps \cup {AppKey(flow)}
        /\ UNCHANGED hints
    BY <1>1, IngestEffect
  <2>2. ClientKey(flow)[2] = ClientIp(flow) /\ AppKey(flow)[2] = ClientIp(flow)
    BY DEF ClientKey, AppKey
  <2> HIDE DEF flow
  <2> QED
    BY <2>1, <2>2 DEF ClientsArePrivate, hints
<1>2. CASE OtherStep
  <2>1. DOMAIN clients' = DOMAIN clients /\ UNCHANGED apps
    BY <1>2, OtherEffect
  <2>2. \A k \in DOMAIN sni' \cup DOMAIN ndpi_apps' \cup DOMAIN dns' : k[1] \in Lan
    <3>1. ASSUME NEW frame \in Sample, ParsedSample(frame)
          PROVE  \A k \in DOMAIN sni' \cup DOMAIN ndpi_apps' \cup DOMAIN dns' :
                     k[1] \in Lan
      BY <3>1, InputAssumption, HintsArePrivate
    <3>2. ASSUME ~ \E frame \in Sample : ParsedSample(frame)
          PROVE  UNCHANGED <<sni, dns, ndpi_apps>>
      BY <1>2, <3>2
      DEF OtherStep, LoadIdentityRow, DecodedDatagram, UnsupportedDatagram,
          UndecodableDatagram, IngestWanOnlyFlow, DroppedSample, hints
    <3> QED
      BY <3>1, <3>2 DEF ClientsArePrivate
  <2> QED
    BY <2>1, <2>2 DEF ClientsArePrivate
<1>3. CASE UNCHANGED vars
  BY <1>3 DEF vars, tables, hints, ClientsArePrivate
<1> QED
  BY <1>1, <1>2, <1>3, StepSplit

\* No row and no hint is ever filed under an address outside the LAN, whatever the
\* traffic: a WAN-only flow stays out of clients.jsonl and apps.jsonl.
THEOREM PrivacyHolds == Spec => []ClientsArePrivate
BY TypeCorrect, InitPrivate, NextPrivate, PTL DEF Spec

-----------------------------------------------------------------------------
(* The tables nest *)

LEMMA InitNest == Init => RowsNest
BY DEF Init, NoEntry, RowsNest

LEMMA NextNest == TypeOK /\ RowsNest /\ [Next]_vars => RowsNest'
<1> SUFFICES ASSUME TypeOK, RowsNest, [Next]_vars PROVE RowsNest'
  OBVIOUS
<1>1. CASE IngestClientFlow
  <2> DEFINE flow == Head(pending)
  <2>1. /\ DOMAIN hourly' = DOMAIN hourly \cup {HourKey(flow)}
        /\ DOMAIN clients' = DOMAIN clients \cup {ClientKey(flow)}
        /\ DOMAIN apps' = DOMAIN apps \cup {AppKey(flow)}
    BY <1>1, IngestEffect
  <2>2. /\ ClientKey(flow) = <<AppKey(flow)[1], AppKey(flow)[2]>>
        /\ ClientKey(flow)[1] = HourKey(flow)[1]
    BY DEF ClientKey, AppKey, HourKey
  <2> HIDE DEF flow
  <2>3. \A k \in DOMAIN apps' : <<k[1], k[2]>> \in DOMAIN clients'
    BY <2>1, <2>2 DEF RowsNest
  <2>4. \A k \in DOMAIN clients' : \E a \in DOMAIN apps' : <<a[1], a[2]>> = k
    BY <2>1, <2>2 DEF RowsNest
  <2>5. \A k \in DOMAIN clients' : \E h \in DOMAIN hourly' : h[1] = k[1]
    BY <2>1, <2>2 DEF RowsNest
  <2> QED
    BY <2>3, <2>4, <2>5 DEF RowsNest
<1>2. CASE OtherStep
  <2>1. /\ UNCHANGED apps
        /\ DOMAIN clients' = DOMAIN clients
        /\ DOMAIN hourly \subseteq DOMAIN hourly'
    BY <1>2, OtherEffect
  <2> QED
    BY <2>1 DEF RowsNest
<1>3. CASE UNCHANGED vars
  BY <1>3 DEF vars, tables, RowsNest
<1> QED
  BY <1>1, <1>2, <1>3, StepSplit

\* Every app row has its client row, and every client row its app row and an hour
\* of its day: flush, which lists days from clients and hourly alone, misses none.
THEOREM NestingHolds == Spec => []RowsNest
BY TypeCorrect, InitNest, NextNest, PTL DEF Spec

-----------------------------------------------------------------------------
(* Client rows and the identity table agree *)

\* One identity reaches the rows and the table, through two calls, alike.
LEMMA IdentityAgrees ==
    ASSUME TypeOK, RowsCarryIdentity, NEW ip, NEW ident,
           ApplyIdentity(ip, ident), RememberIdentity(ip, ident)
    PROVE  RowsCarryIdentity'
<1> SUFFICES ASSUME NEW k \in DOMAIN clients'
             PROVE  clients'[k].ident = Get(identity', k[2], NoIdent)
  BY DEF RowsCarryIdentity, Get
<1>1. /\ k \in DOMAIN clients
      /\ clients[k] \in [use : UseRow, ident : Ident]
      /\ clients[k].ident = Get(identity, k[2], NoIdent)
  BY DEF ApplyIdentity, RowsCarryIdentity, TypeOK, TablesOK, IsTable, ClientRow
<1>2. CASE k[2] = ip
  <2>1. clients'[k].ident = Merge(clients[k].ident, ident)
    BY <1>1, <1>2 DEF ApplyIdentity
  <2>2. Get(identity', ip, NoIdent) = Merge(Get(identity, ip, NoIdent), ident)
    BY DEF RememberIdentity, Put, Get
  <2> QED
    BY <1>1, <1>2, <2>1, <2>2
<1>3. CASE k[2] # ip
  <2>1. clients'[k] = clients[k]
    BY <1>1, <1>3 DEF ApplyIdentity
  <2>2. Get(identity', k[2], NoIdent) = Get(identity, k[2], NoIdent)
    BY <1>3 DEF RememberIdentity, Put, Get
  <2> QED
    BY <1>1, <2>1, <2>2
<1> QED
  BY <1>2, <1>3

\* A flow's row takes the identity of its client; an old row has it already.
LEMMA IngestAgrees ==
    ASSUME TypeOK, RowsCarryIdentity, IngestClientFlow
    PROVE  RowsCarryIdentity'
<1> DEFINE flow == Head(pending)
           known == Get(identity, ClientIp(flow), NoIdent)
           row == Get(clients, ClientKey(flow), NewClient)
           new == [use |-> Charged(row.use, flow), ident |-> Merge(row.ident, known)]
<1>1. clients' = Put(clients, ClientKey(flow), new) /\ UNCHANGED identity
  BY DEF IngestClientFlow, CountClient, hints
<1>2. known \in Ident
  BY GetFromTable, NoIdentType DEF TypeOK, HintsOK
<1>3. ClientKey(flow)[2] = ClientIp(flow)
  BY DEF ClientKey
<1>4. row.ident \in {known, NoIdent}
  BY <1>3 DEF RowsCarryIdentity, Get, NewClient
<1>5. Merge(row.ident, known) = known
  BY <1>2, <1>4, MergeFacts
<1>6. new.ident = known
  BY <1>5
<1> HIDE DEF new, known, row
<1> SUFFICES ASSUME NEW k \in DOMAIN clients'
             PROVE  clients'[k].ident = Get(identity, k[2], NoIdent)
  BY <1>1 DEF RowsCarryIdentity
<1>7. CASE k = ClientKey(flow)
  BY <1>1, <1>3, <1>6, <1>7 DEF Put, known
<1>8. CASE k # ClientKey(flow)
  BY <1>1, <1>8 DEF Put, RowsCarryIdentity
<1> QED
  BY <1>7, <1>8

LEMMA InitAgrees == Init => RowsCarryIdentity
BY DEF Init, NoEntry, RowsCarryIdentity

LEMMA NextAgrees == TypeOK /\ RowsCarryIdentity /\ [Next]_vars => RowsCarryIdentity'
<1> SUFFICES ASSUME TypeOK, RowsCarryIdentity, [Next]_vars
             PROVE  RowsCarryIdentity'
  OBVIOUS
<1>1. CASE IngestClientFlow
  BY <1>1, IngestAgrees
<1>2. ASSUME NEW row \in SidecarRow, LoadIdentityRow(row) PROVE RowsCarryIdentity'
  BY <1>2, IdentityAgrees DEF LoadIdentityRow
<1>3. ASSUME NEW frame \in Sample, ParsedSample(frame) PROVE RowsCarryIdentity'
  <2>1. \/ /\ ApplyIdentity(frame.ack.ip, frame.ack.ident)
           /\ RememberIdentity(frame.ack.ip, frame.ack.ident)
        \/ UNCHANGED <<clients, identity>>
    BY <1>3 DEF ParsedSample, TakeAck
  <2>2. CASE UNCHANGED <<clients, identity>>
    BY <2>2 DEF RowsCarryIdentity
  <2> QED
    BY <2>1, <2>2, IdentityAgrees
<1>4. CASE \/ \E flows \in Datagram : DecodedDatagram(flows)
           \/ UnsupportedDatagram \/ UndecodableDatagram
           \/ IngestWanOnlyFlow \/ DroppedSample \/ UNCHANGED vars
  <2>1. UNCHANGED <<clients, identity>>
    BY <1>4
    DEF DecodedDatagram, UnsupportedDatagram, UndecodableDatagram,
        IngestWanOnlyFlow, DroppedSample, vars, tables, hints
  <2> QED
    BY <2>1 DEF RowsCarryIdentity
<1> QED
  BY <1>1, <1>2, <1>3, <1>4 DEF Next

\* Flow first or DHCP ACK first, a client row says exactly what is known of the
\* address: the backfill of apply_identity and the merge of ingest_flow agree.
THEOREM IdentityHolds == Spec => []RowsCarryIdentity
BY TypeCorrect, InitAgrees, NextAgrees, PTL DEF Spec

-----------------------------------------------------------------------------
(* Sampled labels are declared *)

\* The strengthening: a hint of a kind is there only if the kind's flag is up.
HintsAreFlagged ==
    /\ DOMAIN sni # {} => sni_enabled
    /\ DOMAIN dns # {} => dns_enabled
    /\ DOMAIN ndpi_apps # {} => ndpi_enabled
DeclaredInv == LabelsAreDeclared /\ HintsAreFlagged

\* A verdict with a sampled confidence rests on a hint of that kind and client.
LEMMA VerdictSource ==
    ASSUME HintsOK, NEW flow, ClientIp(flow) # None
    PROVE  LET verdict == ClassifyFlow(flow)
               client == ClientIp(flow)
           IN  /\ verdict.conf = "sni" =>
                      \E h \in DOMAIN sni : h[1] = client /\ sni[h] = verdict.app
               /\ verdict.conf = "dns" =>
                      \E h \in DOMAIN dns : h[1] = client /\ dns[h] = verdict.app
               /\ verdict.conf = "ndpi" =>
                      \E h \in DOMAIN ndpi_apps :
                          h[1] = client /\ ndpi_apps[h] = verdict.app
<1> DEFINE verdict == ClassifyFlow(flow)
<1>1. HintKey(flow)[1] = ClientIp(flow) /\ DnsKey(flow)[1] = ClientIp(flow)
  BY DEF HintKey, DnsKey
<1>2. CASE verdict = [app |-> SniFor(flow), conf |-> "sni"] /\ SniFor(flow) # None
  <2>1. HintKey(flow) \in DOMAIN sni /\ sni[HintKey(flow)] = verdict.app
    BY <1>2 DEF SniFor, Get
  <2>2. verdict.conf = "sni"
    BY <1>2
  <2> HIDE DEF verdict
  <2> QED
    BY <1>1, <2>1, <2>2 DEF verdict
<1>3. CASE verdict = [app |-> DnsFor(flow), conf |-> "dns"] /\ DnsFor(flow) # None
  <2>1. DnsKey(flow) \in DOMAIN dns /\ dns[DnsKey(flow)] = verdict.app
    BY <1>3 DEF DnsFor, Get
  <2>2. verdict.conf = "dns"
    BY <1>3
  <2> HIDE DEF verdict
  <2> QED
    BY <1>1, <2>1, <2>2 DEF verdict
<1>4. CASE verdict = [app |-> NdpiFor(flow), conf |-> "ndpi"]
           /\ NdpiFor(flow) # None
  <2>1. /\ HintKey(flow) \in DOMAIN ndpi_apps
        /\ ndpi_apps[HintKey(flow)] = verdict.app
    BY <1>4 DEF NdpiFor, Get
  <2>2. verdict.conf = "ndpi"
    BY <1>4
  <2> HIDE DEF verdict
  <2> QED
    BY <1>1, <2>1, <2>2 DEF verdict
<1>5. CASE verdict = Classify(flow.proto, flow.src_port, flow.dst_port)
  <2>1. verdict.conf \notin Sampled
    BY <1>5, ClassifyType
  <2> QED
    BY <2>1 DEF Sampled
<1> QED
  BY <1>2, <1>3, <1>4, <1>5, ClassifyFlowCases

\* No flag is ever lowered.
LEMMA SampleFlags ==
    ASSUME TypeOK, HintsAreFlagged, NEW frame \in Sample, ParsedSample(frame)
    PROVE  /\ HintsAreFlagged'
           /\ sni_enabled => sni_enabled'
           /\ dns_enabled => dns_enabled'
           /\ ndpi_enabled => ndpi_enabled'
<1>1. (DOMAIN sni' # {} => sni_enabled') /\ (sni_enabled => sni_enabled')
  BY DEF ParsedSample, TakeSni, HintsAreFlagged
<1>2. (DOMAIN dns' # {} => dns_enabled') /\ (dns_enabled => dns_enabled')
  BY DEF ParsedSample, TakeAnswer, HintsAreFlagged
<1>3. (DOMAIN ndpi_apps' # {} => ndpi_enabled') /\ (ndpi_enabled => ndpi_enabled')
  BY DEF ParsedSample, TakeNdpi, HintsAreFlagged
<1> QED
  BY <1>1, <1>2, <1>3 DEF HintsAreFlagged

LEMMA InitDeclared == Init => DeclaredInv
BY DEF Init, NoEntry, DeclaredInv, LabelsAreDeclared, HintsAreFlagged

LEMMA NextDeclared == TypeOK /\ DeclaredInv /\ [Next]_vars => DeclaredInv'
<1> SUFFICES ASSUME TypeOK, DeclaredInv, [Next]_vars PROVE DeclaredInv'
  OBVIOUS
<1>1. CASE IngestClientFlow
  <2> DEFINE flow == Head(pending)
  <2>1. /\ ClientIp(flow) \in Lan
        /\ DOMAIN apps' = DOMAIN apps \cup {AppKey(flow)}
        /\ apps'[AppKey(flow)].conf = ClassifyFlow(flow).conf
        /\ \A k \in DOMAIN apps : k # AppKey(flow) => apps'[k] = apps[k]
        /\ UNCHANGED <<flags, hints>>
    BY <1>1, IngestEffect
  <2>2. ClientIp(flow) # None
    BY <2>1, NoneAssumption DEF Addr
  <2> HIDE DEF flow
  <2>3. /\ ClassifyFlow(flow).conf = "sni" => DOMAIN sni # {}
        /\ ClassifyFlow(flow).conf = "dns" => DOMAIN dns # {}
        /\ ClassifyFlow(flow).conf = "ndpi" => DOMAIN ndpi_apps # {}
    BY <2>2, VerdictSource DEF TypeOK
  <2>4. HintsAreFlagged'
    BY <2>1 DEF DeclaredInv, HintsAreFlagged, flags, hints
  <2>5. LabelsAreDeclared'
    <3> SUFFICES ASSUME NEW k \in DOMAIN apps'
                 PROVE  /\ apps'[k].conf = "sni" => sni_enabled'
                        /\ apps'[k].conf = "dns" => dns_enabled'
                        /\ apps'[k].conf = "ndpi" => ndpi_enabled'
      BY DEF LabelsAreDeclared
    <3>1. UNCHANGED <<sni_enabled, dns_enabled, ndpi_enabled>>
      BY <2>1 DEF flags
    <3>2. CASE k = AppKey(flow)
      BY <2>1, <2>3, <3>1, <3>2 DEF DeclaredInv, HintsAreFlagged
    <3>3. CASE k # AppKey(flow)
      BY <2>1, <3>1, <3>3 DEF DeclaredInv, LabelsAreDeclared
    <3> QED
      BY <3>2, <3>3
  <2> QED
    BY <2>4, <2>5 DEF DeclaredInv
<1>2. ASSUME NEW frame \in Sample, ParsedSample(frame) PROVE DeclaredInv'
  <2>1. UNCHANGED apps
    BY <1>2 DEF ParsedSample
  <2> QED
    BY <1>2, <2>1, SampleFlags DEF DeclaredInv, LabelsAreDeclared
<1>3. CASE \/ \E row \in SidecarRow : LoadIdentityRow(row)
           \/ \E flows \in Datagram : DecodedDatagram(flows)
           \/ UnsupportedDatagram \/ UndecodableDatagram
           \/ IngestWanOnlyFlow \/ DroppedSample \/ UNCHANGED vars
  <2>1. UNCHANGED <<apps, flags, sni, dns, ndpi_apps>>
    BY <1>3
    DEF LoadIdentityRow, DecodedDatagram, UnsupportedDatagram,
        UndecodableDatagram, IngestWanOnlyFlow, DroppedSample, vars, tables, hints
  <2> QED
    BY <2>1 DEF DeclaredInv, LabelsAreDeclared, HintsAreFlagged, flags
<1> QED
  BY <1>1, <1>2, <1>3 DEF Next

\* An app row labelled sni, dns or ndpi always comes with its flag, which flush
\* copies into metadata.json.
THEOREM DeclarationHolds == Spec => []LabelsAreDeclared
<1>1. DeclaredInv => LabelsAreDeclared
  BY DEF DeclaredInv
<1> QED
  BY <1>1, TypeCorrect, InitDeclared, NextDeclared, PTL DEF Spec

-----------------------------------------------------------------------------
(* What a step may never do *)

LEMMA SampleCountsNothing ==
    ASSUME TypeOK, [Next]_vars, stats'.tzsp_datagrams # stats.tzsp_datagrams
    PROVE  /\ UNCHANGED <<hourly, apps>>
           /\ DOMAIN clients' = DOMAIN clients
           /\ \A k \in DOMAIN clients : clients'[k].use = clients[k].use
           /\ \A c \in DOMAIN stats \ {"tzsp_datagrams", "dpi_dropped"} :
                  stats'[c] = stats[c]
<1>1. stats \in Stats
  BY DEF TypeOK
<1>2. \/ \E frame \in Sample : ParsedSample(frame)
      \/ DroppedSample
  BY <1>1
  DEF Next, LoadIdentityRow, DecodedDatagram, UnsupportedDatagram,
      UndecodableDatagram, IngestClientFlow, IngestWanOnlyFlow, Stats, vars
<1>3. \A c \in DOMAIN stats \ {"tzsp_datagrams", "dpi_dropped"} :
          stats'[c] = stats[c]
  BY <1>1, <1>2 DEF ParsedSample, DroppedSample, Stats
<1>4. UNCHANGED <<hourly, apps>>
  BY <1>2 DEF ParsedSample, DroppedSample, tables
<1>5. OtherStep
  BY <1>2 DEF OtherStep
<1> QED
  BY <1>3, <1>4, <1>5, OtherEffect

\* "TZSP samples never add or subtract NetFlow byte counts": no hour, no app row,
\* no client total and no NetFlow counter moves in a step that takes a sample.
THEOREM SamplesCountNothing == Spec => SamplesNeverCount
<1>1. TypeOK /\ [Next]_vars =>
        [stats'.tzsp_datagrams # stats.tzsp_datagrams =>
            /\ UNCHANGED <<hourly, apps>>
            /\ DOMAIN clients' = DOMAIN clients
            /\ \A k \in DOMAIN clients : clients'[k].use = clients[k].use
            /\ \A c \in DOMAIN stats \ {"tzsp_datagrams", "dpi_dropped"} :
                    stats'[c] = stats[c]]_vars
  BY SampleCountsNothing
<1> QED
  BY <1>1, TypeCorrect, PTL DEF Spec, SamplesNeverCount

LEMMA ChangedLabelHasSource ==
    ASSUME TypeOK, [Next]_vars, NEW k \in DOMAIN apps',
           k \notin DOMAIN apps \/ apps'[k] # Get(apps, k, None)
    PROVE  /\ apps'[k].conf = "sni" =>
                  \E h \in DOMAIN sni : h[1] = k[2] /\ sni[h] = k[3]
           /\ apps'[k].conf = "dns" =>
                  \E h \in DOMAIN dns : h[1] = k[2] /\ dns[h] = k[3]
           /\ apps'[k].conf = "ndpi" =>
                  \E h \in DOMAIN ndpi_apps : h[1] = k[2] /\ ndpi_apps[h] = k[3]
<1> DEFINE flow == Head(pending)
<1>1. ~ UNCHANGED apps
  BY DEF Get
<1>2. IngestClientFlow
  BY <1>1, OtherEffect, StepSplit DEF vars, tables
<1>3. /\ ClientIp(flow) \in Lan
      /\ DOMAIN apps' = DOMAIN apps \cup {AppKey(flow)}
      /\ apps'[AppKey(flow)].conf = ClassifyFlow(flow).conf
      /\ \A a \in DOMAIN apps : a # AppKey(flow) => apps'[a] = apps[a]
  BY <1>2, IngestEffect
<1>4. ClientIp(flow) # None
  BY <1>3, NoneAssumption DEF Addr
<1> HIDE DEF flow
<1>5. k = AppKey(flow)
  BY <1>3 DEF Get
<1>6. k[2] = ClientIp(flow) /\ k[3] = ClassifyFlow(flow).app
  BY <1>5 DEF AppKey
<1>7. apps'[k].conf = ClassifyFlow(flow).conf
  BY <1>3, <1>5
<1> QED
  BY <1>4, <1>6, <1>7, VerdictSource DEF TypeOK

\* A row gets a sampled label only on the word of a sample of that very client.
THEOREM LabelsHaveSource == Spec => SampledLabelsHaveSource
<1>1. TypeOK /\ [Next]_vars =>
        [\A k \in DOMAIN apps' :
            (k \notin DOMAIN apps \/ apps'[k] # Get(apps, k, None)) =>
                /\ apps'[k].conf = "sni" =>
                       \E h \in DOMAIN sni : h[1] = k[2] /\ sni[h] = k[3]
                /\ apps'[k].conf = "dns" =>
                       \E h \in DOMAIN dns : h[1] = k[2] /\ dns[h] = k[3]
                /\ apps'[k].conf = "ndpi" =>
                       \E h \in DOMAIN ndpi_apps :
                           h[1] = k[2] /\ ndpi_apps[h] = k[3]]_vars
  BY ChangedLabelHasSource
<1> QED
  BY <1>1, TypeCorrect, PTL DEF Spec, SampledLabelsHaveSource

-----------------------------------------------------------------------------
(* The two directions of a connection *)

\* Unless both ports are well known the two directions have one service port, or
\* neither port is in the table.
LEMMA RuleOfService ==
    ASSUME NEW proto, NEW p, NEW q, p \notin WellKnown \/ q \notin WellKnown
    PROVE  Matching(proto, ServicePort(p, q)) = Matching(proto, ServicePort(q, p))
<1>1. \A r \in Rules : r.ports \subseteq WellKnown
  BY DEF Rules, WellKnown
<1>2. \A port : port \notin WellKnown => Matching(proto, port) = {}
  BY <1>1 DEF Matching
<1>3. CASE p \notin WellKnown /\ q \notin WellKnown
  BY <1>2, <1>3 DEF ServicePort
<1>4. CASE p \notin WellKnown /\ q \in WellKnown
  BY <1>4 DEF ServicePort
<1>5. CASE p \in WellKnown /\ q \notin WellKnown
  BY <1>5 DEF ServicePort
<1> QED
  BY <1>3, <1>4, <1>5

\* Between two well-known ports the destination is taken, in either direction.
LEMMA ServiceOfTwo ==
    ASSUME NEW p \in WellKnown, NEW q \in WellKnown
    PROVE  ServicePort(p, q) = q /\ ServicePort(q, p) = p
BY DEF ServicePort

\* No two rules overlap, and none of them is named like another.
LEMMA OneRule ==
    ASSUME NEW proto, NEW port, NEW r \in Matching(proto, port)
    PROVE  Matching(proto, port) = {r}
<1>1. ASSUME NEW a \in Rules, NEW b \in Rules, a # b,
             NEW t, t \in a.protos, t \in b.protos
      PROVE  a.ports \cap b.ports = {}
  BY <1>1 DEF Rules, TCP, UDP
<1> QED
  BY <1>1 DEF Matching

LEMMA RuleNames ==
    /\ \A a, b \in Rules : a.app = b.app => a = b
    /\ \A a \in Rules : a.app # "unknown"
<1>1. ASSUME NEW a \in Rules, NEW b \in Rules, a.app = b.app
      PROVE  a = b
  BY <1>1 DEF Rules
<1>2. \A a \in Rules : a.app # "unknown"
  BY DEF Rules
<1> QED
  BY <1>1, <1>2

\* The table gives the two directions one verdict, but between two services.
LEMMA TableIsSymmetric ==
    ASSUME NEW proto, NEW p, NEW q
    PROVE  Classify(proto, p, q) = Classify(proto, q, p)
               <=> ~ TwoServices(proto, p, q)
<1> DEFINE there == Matching(proto, ServicePort(p, q))
           back == Matching(proto, ServicePort(q, p))
<1>1. there = back <=> ~ TwoServices(proto, p, q)
  BY RuleOfService, ServiceOfTwo DEF TwoServices
<1>2. /\ Classify(proto, p, q) =
             IF there = {} THEN [app |-> "unknown", conf |-> "unknown"]
             ELSE [app |-> (CHOOSE r \in there : TRUE).app, conf |-> "port"]
      /\ Classify(proto, q, p) =
             IF back = {} THEN [app |-> "unknown", conf |-> "unknown"]
             ELSE [app |-> (CHOOSE r \in back : TRUE).app, conf |-> "port"]
  BY DEF Classify
<1>3. there = {} \/ \E r \in Rules : there = {r} /\ (CHOOSE x \in there : TRUE) = r
  BY OneRule DEF Matching
<1>4. back = {} \/ \E r \in Rules : back = {r} /\ (CHOOSE x \in back : TRUE) = r
  BY OneRule DEF Matching
<1> HIDE DEF there, back
<1>5. ASSUME Classify(proto, p, q) = Classify(proto, q, p)
      PROVE  there = back
  <2>1. Classify(proto, p, q).conf = Classify(proto, q, p).conf
    BY <1>5
  <2>2. Classify(proto, p, q).app = Classify(proto, q, p).app
    BY <1>5
  <2>3. there = {} <=> back = {}
    BY <1>2, <2>1
  <2>4. CASE there # {}
    <3>1. PICK a \in Rules : there = {a} /\ (CHOOSE x \in there : TRUE) = a
      BY <1>3, <2>4
    <3>2. PICK b \in Rules : back = {b} /\ (CHOOSE x \in back : TRUE) = b
      BY <1>4, <2>3, <2>4
    <3>3. a.app = b.app
      BY <1>2, <2>2, <2>3, <2>4, <3>1, <3>2
    <3> QED
      BY <3>1, <3>2, <3>3, RuleNames
  <2> QED
    BY <2>3, <2>4
<1> QED
  <2> DEFINE Answer(found) ==
                IF found = {} THEN [app |-> "unknown", conf |-> "unknown"]
                ELSE [app |-> (CHOOSE r \in found : TRUE).app, conf |-> "port"]
  <2>1. Classify(proto, p, q) = Answer(there) /\ Classify(proto, q, p) = Answer(back)
    BY <1>2
  <2> HIDE DEF Answer
  <2> QED
    BY <1>1, <1>5, <2>1

\* The two directions have one client, and one far end with its port.
LEMMA EndsAgree ==
    ASSUME NEW k, k.client \in Lan, k.host \in Wan
    PROVE  LET out == OneWay(k)
               back == OtherWay(k)
               far == <<k.host, k.host_port>>
           IN  /\ ClientIp(out) = k.client /\ ClientIp(back) = k.client
               /\ FarEnd(out) = far /\ FarEnd(back) = far
<1> DEFINE out == OneWay(k)
           back == OtherWay(k)
<1>1. k.host \notin Lan /\ k.host # k.client
  BY AddrAssumption
<1>2. /\ out.src = k.client /\ out.dst = k.host /\ out.dst_port = k.host_port
      /\ back.src = k.host /\ back.dst = k.client /\ back.src_port = k.host_port
  BY DEF OneWay, OtherWay
<1>3. ClientIp(out) = k.client /\ ClientIp(back) = k.client
  BY <1>1, <1>2 DEF ClientIp
<1> QED
  BY <1>1, <1>2, <1>3 DEF FarEnd

\* The verdict of ClassifyFlow, of what is looked up.
Verdict(hit, name, answer, rule) ==
    LET ranked == << [app  |-> IF hit \in Generic THEN None ELSE hit,
                      conf |-> "ndpi"],
                     [app |-> name, conf |-> "sni"],
                     [app |-> answer, conf |-> "dns"],
                     [app |-> hit, conf |-> "ndpi"],
                     rule >>
    IN  ranked[CHOOSE i \in 1 .. 5 :
                  /\ ranked[i].app # None
                  /\ \A j \in 1 .. i - 1 : ranked[j].app = None]

LEMMA VerdictOfHints ==
    ASSUME NEW flow
    PROVE  ClassifyFlow(flow) = Verdict(NdpiFor(flow), SniFor(flow), DnsFor(flow),
                Classify(flow.proto, flow.src_port, flow.dst_port))
BY Zenon DEF ClassifyFlow, Verdict

\* With a hint the rule does not matter, without one nothing else does.
LEMMA HintedVerdict ==
    ASSUME NEW hit, NEW name, NEW answer, NEW rule, NEW other,
           hit # None \/ name # None \/ answer # None
    PROVE  Verdict(hit, name, answer, rule) = Verdict(hit, name, answer, other)
<1> DEFINE Ranked(r) == << [app  |-> IF hit \in Generic THEN None ELSE hit,
                            conf |-> "ndpi"],
                           [app |-> name, conf |-> "sni"],
                           [app |-> answer, conf |-> "dns"],
                           [app |-> hit, conf |-> "ndpi"],
                           r >>
           First(r, i) == /\ Ranked(r)[i].app # None
                          /\ \A j \in 1 .. i - 1 : Ranked(r)[j].app = None
<1>1. \A i \in 1 .. 4 : Ranked(rule)[i] = Ranked(other)[i]
  OBVIOUS
<1>2. /\ Ranked(rule)[2].app = name /\ Ranked(rule)[3].app = answer
      /\ Ranked(rule)[4].app = hit
  OBVIOUS
<1>3. \E i \in 2 .. 4 : Ranked(rule)[i].app # None /\ Ranked(other)[i].app # None
  BY <1>1, <1>2
<1> HIDE DEF Ranked
<1>4. ~ First(rule, 5) /\ ~ First(other, 5)
  BY <1>3
<1>5. \A i \in 1 .. 4 : First(rule, i) <=> First(other, i)
  BY <1>1
<1>6. \A i \in 1 .. 5 : First(rule, i) <=> First(other, i)
  BY <1>4, <1>5
<1>7. (CHOOSE i \in 1 .. 5 : First(rule, i)) = (CHOOSE i \in 1 .. 5 : First(other, i))
  BY <1>6
<1>8. \E i \in 1 .. 4 : First(rule, i)
  <2>1. \E i \in 1 .. 4 : Ranked(rule)[i].app # None
    BY <1>3
  <2> QED
    BY <2>1
<1>9. (CHOOSE i \in 1 .. 5 : First(rule, i)) \in 1 .. 4
  BY <1>4, <1>8
<1>10. /\ Verdict(hit, name, answer, rule)
              = Ranked(rule)[CHOOSE i \in 1 .. 5 : First(rule, i)]
       /\ Verdict(hit, name, answer, other)
              = Ranked(other)[CHOOSE i \in 1 .. 5 : First(other, i)]
  BY DEF Verdict, Ranked
<1> QED
  BY <1>1, <1>7, <1>9, <1>10

LEMMA UnhintedVerdict ==
    ASSUME NEW rule, rule.app # None
    PROVE  Verdict(None, None, None, rule) = rule
<1> DEFINE ranked == << [app  |-> IF None \in Generic THEN None ELSE None,
                         conf |-> "ndpi"],
                        [app |-> None, conf |-> "sni"],
                        [app |-> None, conf |-> "dns"],
                        [app |-> None, conf |-> "ndpi"],
                        rule >>
           First(i) == /\ ranked[i].app # None
                       /\ \A j \in 1 .. i - 1 : ranked[j].app = None
<1>1. \A i \in 1 .. 4 : ranked[i].app = None
  OBVIOUS
<1>2. ranked[5] = rule
  OBVIOUS
<1>3. Verdict(None, None, None, rule) = ranked[CHOOSE i \in 1 .. 5 : First(i)]
  BY DEF Verdict
<1> HIDE DEF ranked
<1>4. \A i \in 1 .. 5 : First(i) <=> i = 5
  BY <1>1, <1>2
<1> QED
  BY <1>2, <1>3, <1>4

\* Both directions of a connection are filed under one client and looked up under
\* one hint, and they are one app exactly when a hint names it or the ports are not
\* those of two different services.  Connection is any set of connections, the set of
\* all that there can be included.
THEOREM DirectionsAgree == Spec => []RepliesJoinRequests
<1>1. RepliesJoinRequests
  <2>1. SUFFICES ASSUME NEW k \in Connection
                 PROVE  LET out == OneWay(k)
                            back == OtherWay(k)
                        IN  /\ ClientIp(out) = k.client /\ ClientIp(back) = k.client
                            /\ HintKey(out) = HintKey(back)
                            /\ DnsKey(out) = DnsKey(back)
                            /\ ClassifyFlow(out) = ClassifyFlow(back)
                                  <=> ~ /\ Unhinted(out)
                                        /\ TwoServices(k.proto, k.client_port,
                                                       k.host_port)
    BY DEF RepliesJoinRequests
  <2> DEFINE out == OneWay(k)
             back == OtherWay(k)
             p == k.client_port
             q == k.host_port
             proto == k.proto
  <2>0. k.client \in Lan /\ k.host \in Wan
    BY InputAssumption
  <2>2. /\ ClientIp(out) = k.client /\ ClientIp(back) = k.client
        /\ FarEnd(out) = FarEnd(back)
    BY <2>0, EndsAgree
  <2>3. HintKey(out) = HintKey(back) /\ DnsKey(out) = DnsKey(back)
    BY <2>2 DEF HintKey, DnsKey
  <2>4. /\ SniFor(out) = SniFor(back) /\ DnsFor(out) = DnsFor(back)
        /\ NdpiFor(out) = NdpiFor(back)
    BY <2>3 DEF SniFor, DnsFor, NdpiFor
  <2>5. /\ out.proto = proto /\ out.src_port = p /\ out.dst_port = q
        /\ back.proto = proto /\ back.src_port = q /\ back.dst_port = p
    BY DEF OneWay, OtherWay
  <2> HIDE DEF out, back
  <2>6. /\ ClassifyFlow(out) = Verdict(NdpiFor(out), SniFor(out), DnsFor(out),
                                       Classify(proto, p, q))
        /\ ClassifyFlow(back) = Verdict(NdpiFor(out), SniFor(out), DnsFor(out),
                                        Classify(proto, q, p))
    BY <2>4, <2>5, VerdictOfHints
  <2>7. CASE ~ Unhinted(out)
    <3>1. NdpiFor(out) # None \/ SniFor(out) # None \/ DnsFor(out) # None
      BY <2>7 DEF Unhinted
    <3>2. ClassifyFlow(out) = ClassifyFlow(back)
      BY <2>6, <3>1, HintedVerdict
    <3> QED
      BY <2>2, <2>3, <2>7, <3>2 DEF out, back
  <2>8. CASE Unhinted(out)
    <3>1. NdpiFor(out) = None /\ SniFor(out) = None /\ DnsFor(out) = None
      BY <2>8 DEF Unhinted
    <3>2. Classify(proto, p, q).app # None /\ Classify(proto, q, p).app # None
      BY ClassifyType, NoneAssumption
    <3>3. ClassifyFlow(out) = Classify(proto, p, q)
      BY <2>6, <3>1, <3>2, UnhintedVerdict
    <3>4. ClassifyFlow(back) = Classify(proto, q, p)
      BY <2>6, <3>1, <3>2, UnhintedVerdict
    <3>5. ClassifyFlow(out) = ClassifyFlow(back) <=> ~ TwoServices(proto, p, q)
      BY <3>3, <3>4, TableIsSymmetric
    <3> QED
      BY <2>2, <2>3, <2>8, <3>5 DEF out, back
  <2> QED
    BY <2>7, <2>8 DEF out, back
<1> QED
  BY <1>1, PTL

-----------------------------------------------------------------------------
(* Collector implements Tables *)

RowDays == {k[1] : k \in DOMAIN clients \cup DOMAIN hourly}
LabelledDays == {k[1] : k \in {k \in DOMAIN apps : apps[k].conf \in Sampled}}
Taught == sni_enabled \/ dns_enabled \/ ndpi_enabled

LEMMA InitRows == Init => Rows!Init
BY DEF Init, NoEntry, Rows!Init

LEMMA CountIsStep ==
    ASSUME NEW day, day \in RowDays', Rows!Count(day)
    PROVE  Rows!Next
<1>1. day \in {k[1] : k \in DOMAIN clients \cup DOMAIN hourly}'
  BY DEF RowDays
<1>2. \E d \in {k[1] : k \in DOMAIN clients \cup DOMAIN hourly}' : Rows!Count(d)
  <2> WITNESS day \in {k[1] : k \in DOMAIN clients \cup DOMAIN hourly}'
  <2> QED
    OBVIOUS
<1> QED
  BY <1>2 DEF Rows!Next

\* A flow of a client adds its day, and only with a hint there is a new label.
LEMMA IngestRows ==
    ASSUME TypeOK, DeclaredInv, IngestClientFlow
    PROVE  Rows!Next
<1> DEFINE flow == Head(pending)
           key == AppKey(flow)
<1>0. PICK day : day = DayOf(flow.hour)
  OBVIOUS
<1>1. /\ ClientIp(flow) \in Lan
      /\ DOMAIN hourly' = DOMAIN hourly \cup {HourKey(flow)}
      /\ DOMAIN clients' = DOMAIN clients \cup {ClientKey(flow)}
      /\ DOMAIN apps' = DOMAIN apps \cup {AppKey(flow)}
      /\ apps'[AppKey(flow)].conf = ClassifyFlow(flow).conf
      /\ \A k \in DOMAIN apps : k # AppKey(flow) => apps'[k] = apps[k]
      /\ UNCHANGED <<flags, hints>>
  BY IngestEffect
<1>2. ClientIp(flow) # None
  BY <1>1, NoneAssumption DEF Addr
<1>3. /\ HourKey(flow)[1] = day /\ ClientKey(flow)[1] = day /\ key[1] = day
  BY <1>0 DEF HourKey, ClientKey, AppKey
<1>4. ClassifyFlow(flow).conf \in Sampled => Taught
  <2> HIDE DEF flow
  <2>1. /\ ClassifyFlow(flow).conf = "sni" => DOMAIN sni # {}
        /\ ClassifyFlow(flow).conf = "dns" => DOMAIN dns # {}
        /\ ClassifyFlow(flow).conf = "ndpi" => DOMAIN ndpi_apps # {}
    BY <1>2, VerdictSource DEF TypeOK
  <2> QED
    BY <2>1 DEF DeclaredInv, HintsAreFlagged, Taught, Sampled
<1>5. UNCHANGED Taught
  BY <1>1 DEF Taught, flags
<1> HIDE DEF flow, key
<1>6. RowDays' = RowDays \cup {day}
  BY <1>1, <1>3 DEF RowDays
<1>7. \A k \in DOMAIN apps' \ {key} : k \in DOMAIN apps /\ apps'[k] = apps[k]
  BY <1>1 DEF key
<1>8. \A k \in DOMAIN apps \ {key} : k \in DOMAIN apps' /\ apps'[k] = apps[k]
  BY <1>1 DEF key
<1>9. \A d \in LabelledDays \ {day} : d \in LabelledDays'
  BY <1>3, <1>8 DEF LabelledDays
<1>10. \A d \in LabelledDays' \ {day} : d \in LabelledDays
  BY <1>3, <1>7 DEF LabelledDays
<1>11. day \in LabelledDays' => day \in LabelledDays \/ Taught
  <2> SUFFICES ASSUME NEW k \in DOMAIN apps', apps'[k].conf \in Sampled, k[1] = day
               PROVE  day \in LabelledDays \/ Taught
    BY DEF LabelledDays
  <2>1. CASE k = key
    BY <1>1, <1>4, <2>1 DEF key
  <2>2. CASE k # key
    BY <1>7, <2>2 DEF LabelledDays
  <2> QED
    BY <2>1, <2>2
<1>12. \/ UNCHANGED LabelledDays
       \/ Taught /\ LabelledDays' = LabelledDays \cup {day}
       \/ LabelledDays' = LabelledDays \ {day}
  <2>1. CASE day \in LabelledDays'
    BY <1>9, <1>10, <1>11, <2>1
  <2>2. CASE day \notin LabelledDays'
    BY <1>9, <1>10, <2>2
  <2> QED
    BY <2>1, <2>2
<1>13. Rows!Count(day)
  BY <1>5, <1>6, <1>12 DEF Rows!Count, RowDays, LabelledDays, Taught
<1>14. day \in RowDays'
  BY <1>6
<1> QED
  BY <1>13, <1>14, CountIsStep

LEMMA NextRows ==
    TypeOK /\ DeclaredInv /\ [Next]_vars =>
        [Rows!Next]_<<1, RowDays, LabelledDays, Taught>>
<1> SUFFICES ASSUME TypeOK, DeclaredInv, [Next]_vars
             PROVE  Rows!Next \/ UNCHANGED <<1, RowDays, LabelledDays, Taught>>
  OBVIOUS
<1>1. CASE IngestClientFlow
  BY <1>1, IngestRows
<1>2. CASE IngestWanOnlyFlow
  <2> DEFINE flow == Head(pending)
  <2>0. PICK day : day = DayOf(flow.hour)
    OBVIOUS
  <2>1. /\ UNCHANGED <<clients, apps, flags>>
        /\ CountHour(flow)
    BY <1>2 DEF IngestWanOnlyFlow
  <2> HIDE DEF flow
  <2>2. DOMAIN hourly' = DOMAIN hourly \cup {HourKey(flow)} /\ HourKey(flow)[1] = day
    BY <2>0, <2>1, PutEntries DEF CountHour, HourKey
  <2>3. RowDays' = RowDays \cup {day}
    BY <2>1, <2>2 DEF RowDays
  <2>4. UNCHANGED LabelledDays /\ UNCHANGED Taught
    BY <2>1 DEF LabelledDays, Taught, flags
  <2>5. Rows!Count(day)
    BY <2>3, <2>4 DEF Rows!Count, RowDays, LabelledDays, Taught
  <2>6. day \in RowDays'
    BY <2>3
  <2> QED
    BY <2>5, <2>6, CountIsStep
<1>3. ASSUME NEW frame \in Sample, ParsedSample(frame)
      PROVE  Rows!Next \/ UNCHANGED <<1, RowDays, LabelledDays, Taught>>
  <2>1. UNCHANGED <<hourly, apps>> /\ DOMAIN clients' = DOMAIN clients
    BY <1>3, AckKeeps DEF ParsedSample
  <2>2. UNCHANGED <<RowDays, LabelledDays>>
    BY <2>1 DEF RowDays, LabelledDays
  <2>3. Taught => Taught'
    BY <1>3, SampleFlags DEF DeclaredInv, Taught
  <2>4. CASE Taught'
    BY <2>2, <2>4 DEF Rows!Next, Rows!Learn, RowDays, LabelledDays, Taught
  <2>5. CASE ~Taught'
    <3>1. ~Taught
      BY <2>3, <2>5
    <3>2. /\ ~sni_enabled /\ ~dns_enabled /\ ~ndpi_enabled
          /\ ~sni_enabled' /\ ~dns_enabled' /\ ~ndpi_enabled'
      BY <2>5, <3>1 DEF Taught
    <3>3. Taught' = Taught
      BY <3>2 DEF Taught
    <3> QED
      BY <2>2, <3>3
  <2> QED
    BY <2>4, <2>5
<1>4. ASSUME NEW row \in SidecarRow, LoadIdentityRow(row)
      PROVE  UNCHANGED <<1, RowDays, LabelledDays, Taught>>
  <2>1. UNCHANGED <<hourly, apps, flags>> /\ DOMAIN clients' = DOMAIN clients
    BY <1>4, ApplyIdentityKeeps DEF LoadIdentityRow
  <2> QED
    BY <2>1 DEF RowDays, LabelledDays, Taught, flags
<1>5. CASE \/ \E flows \in Datagram : DecodedDatagram(flows)
           \/ UnsupportedDatagram \/ UndecodableDatagram \/ DroppedSample
           \/ UNCHANGED vars
  <2>1. UNCHANGED <<tables, flags>>
    BY <1>5 DEF DecodedDatagram, UnsupportedDatagram, UndecodableDatagram,
                DroppedSample, vars
  <2> QED
    BY <2>1 DEF RowDays, LabelledDays, Taught, flags, tables
<1> QED
  BY <1>1, <1>2, <1>3, <1>4, <1>5 DEF Next

\* The full tables implement what module Daemon keeps of them: days stay in memory,
\* and no row is labelled before a sample has left a hint.
THEOREM RowsAreKept == Spec => KeepsItsRows
<1>1. TypeOK /\ DeclaredInv /\ [Next]_vars =>
          [Rows!Next]_<<1, RowDays, LabelledDays, Taught>>
  BY NextRows
<1> QED
  BY <1>1, TypeCorrect, InitDeclared, NextDeclared, InitRows, PTL
  DEF Spec, KeepsItsRows, Rows!Spec, RowDays, LabelledDays, Taught

-----------------------------------------------------------------------------
(* The totals *)

\* TLC's tables are finite by construction; a proof has to say so, as sums need it.
FiniteTables ==
    /\ IsFiniteSet(DOMAIN hourly)
    /\ IsFiniteSet(DOMAIN clients)
    /\ IsFiniteSet(DOMAIN apps)

\* What a flow adds to a row.
Amount(flow, m) ==
    IF m = "bytes" THEN flow.bytes ELSE IF m = "packets" THEN flow.packets ELSE 1

\* The amounts of a flow are naturals.
LEMMA AmountType ==
    ASSUME NEW flow \in Flow, NEW m \in Measure
    PROVE  Amount(flow, m) \in Nat
BY WidthAssumption DEF Amount, Flow, Counter

\* Charging a row adds the flow's amount to each measure, and wraps.
LEMMA ChargedBy ==
    ASSUME NEW row, NEW flow, NEW m \in Measure
    PROVE  Charged(row, flow)[m] = Add(row[m], Amount(flow, m))
BY DEF Charged, Amount, Measure

\* The entries a flow finds in the three tables.
OldHour(flow) == Get(hourly, HourKey(flow), 0)
OldClient(flow) == Get(clients, ClientKey(flow), NewClient)
OldApp(flow) == Get(apps, AppKey(flow), [use |-> NewRow, conf |-> "unknown"])

\* The rows a flow finds, or the new ones it starts.
LEMMA OldRowTypes ==
    ASSUME TypeOK, NEW flow \in Flow
    PROVE  /\ OldHour(flow) \in Counter
           /\ OldClient(flow).use \in UseRow
           /\ OldApp(flow).use \in UseRow
<1>1. OldHour(flow) \in Counter
  <2>1. 0 \in Counter
    BY WidthAssumption DEF Counter
  <2> QED
    BY <2>1, GetFromTable DEF TypeOK, TablesOK, OldHour
<1>2. OldClient(flow) \in ClientRow
  <2>1. NewClient \in ClientRow
    BY NewRowType, NoIdentType DEF NewClient, ClientRow
  <2> QED
    BY <2>1, GetFromTable DEF TypeOK, TablesOK, OldClient
<1>3. OldApp(flow) \in AppRow
  <2>1. [use |-> NewRow, conf |-> "unknown"] \in AppRow
    BY NewRowType DEF AppRow, Confidence
  <2> QED
    BY <2>1, GetFromTable DEF TypeOK, TablesOK, OldApp
<1> QED
  BY <1>1, <1>2, <1>3 DEF ClientRow, AppRow

\* What an ingested flow does to the row of its hour.
LEMMA HourCharged ==
    ASSUME NEW flow, CountHour(flow)
    PROVE  /\ DOMAIN hourly' = DOMAIN hourly \cup {HourKey(flow)}
           /\ hourly'[HourKey(flow)] = Add(OldHour(flow), flow.bytes)
           /\ \A k \in DOMAIN hourly : k # HourKey(flow) => hourly'[k] = hourly[k]
<1> DEFINE new == Add(OldHour(flow), flow.bytes)
<1>1. hourly' = Put(hourly, HourKey(flow), new)
  BY DEF CountHour, OldHour
<1> HIDE DEF new
<1>2. /\ DOMAIN hourly' = DOMAIN hourly \cup {HourKey(flow)}
      /\ hourly'[HourKey(flow)] = new
      /\ \A k \in DOMAIN hourly : k # HourKey(flow) => hourly'[k] = hourly[k]
  BY <1>1 DEF Put
<1> QED
  BY <1>2 DEF new

\* The same for the client's row of the day.
LEMMA ClientCharged ==
    ASSUME NEW flow, CountClient(flow)
    PROVE  /\ DOMAIN clients' = DOMAIN clients \cup {ClientKey(flow)}
           /\ clients'[ClientKey(flow)].use = Charged(OldClient(flow).use, flow)
           /\ \A k \in DOMAIN clients :
                  k # ClientKey(flow) => clients'[k] = clients[k]
<1> DEFINE new == [use   |-> Charged(OldClient(flow).use, flow),
                   ident |-> Merge(OldClient(flow).ident,
                                   Get(identity, ClientIp(flow), NoIdent))]
<1>1. clients' = Put(clients, ClientKey(flow), new)
  BY DEF CountClient, OldClient
<1>2. new.use = Charged(OldClient(flow).use, flow)
  OBVIOUS
<1> HIDE DEF new
<1>3. /\ DOMAIN clients' = DOMAIN clients \cup {ClientKey(flow)}
      /\ clients'[ClientKey(flow)] = new
      /\ \A k \in DOMAIN clients : k # ClientKey(flow) => clients'[k] = clients[k]
  BY <1>1 DEF Put
<1> QED
  BY <1>2, <1>3

\* The same for the client's row of the app.
LEMMA AppCharged ==
    ASSUME NEW flow, CountApp(flow)
    PROVE  /\ DOMAIN apps' = DOMAIN apps \cup {AppKey(flow)}
           /\ apps'[AppKey(flow)].use = Charged(OldApp(flow).use, flow)
           /\ \A k \in DOMAIN apps : k # AppKey(flow) => apps'[k] = apps[k]
<1> DEFINE new == [use |-> Charged(OldApp(flow).use, flow),
                   conf |-> ClassifyFlow(flow).conf]
<1>1. apps' = Put(apps, AppKey(flow), new)
  BY DEF CountApp, OldApp
<1>2. new.use = Charged(OldApp(flow).use, flow)
  OBVIOUS
<1> HIDE DEF new
<1>3. /\ DOMAIN apps' = DOMAIN apps \cup {AppKey(flow)}
      /\ apps'[AppKey(flow)] = new
      /\ \A k \in DOMAIN apps : k # AppKey(flow) => apps'[k] = apps[k]
  BY <1>1 DEF Put
<1> QED
  BY <1>2, <1>3

\* The rows AppTotal adds up, and what it adds.
AppsOf(day, client) == {k \in DOMAIN apps : k[1] = day /\ k[2] = client}
AppUse(m) == [k \in DOMAIN apps |-> apps[k].use[m]]

\* The total of the apps, in the names used here.
LEMMA AppTotalIs ==
    ASSUME NEW day, NEW client, NEW m
    PROVE  AppTotal(day, client, m) = SumFunctionOnSet(AppUse(m), AppsOf(day, client)) % U64
BY DEF AppTotal, AppUse, AppsOf

\* What is summed are counters.
LEMMA UsesAreCounters ==
    ASSUME TypeOK, NEW m \in Measure
    PROVE  /\ \A k \in DOMAIN apps : apps[k].use[m] \in Counter
           /\ \A k \in DOMAIN clients : clients[k].use[m] \in Counter
<1>1. \A row \in UseRow : row[m] \in Counter
  BY DEF UseRow, Measure
<1>2. \A k \in DOMAIN apps : apps[k].use \in UseRow
  BY DEF TypeOK, TablesOK, IsTable, AppRow
<1>3. \A k \in DOMAIN clients : clients[k].use \in UseRow
  BY DEF TypeOK, TablesOK, IsTable, ClientRow
<1> QED
  BY <1>1, <1>2, <1>3

\* A flow of a client adds to the total of that client's day, and to no other.
LEMMA AppTotalCharged ==
    ASSUME TypeOK, FiniteTables, NEW flow \in Flow, CountApp(flow),
           ClientIp(flow) # None, NEW day, NEW client, NEW m \in Measure
    PROVE  AppTotal(day, client, m)' =
               IF <<day, client>> = ClientKey(flow)
               THEN Add(AppTotal(day, client, m), Amount(flow, m))
               ELSE AppTotal(day, client, m)
<1> DEFINE key == AppKey(flow)
           S == AppsOf(day, client)
           f == AppUse(m)
           g == [k \in DOMAIN apps' |-> apps'[k].use[m]]
           R == {k \in DOMAIN apps' : k[1] = day /\ k[2] = client}
<1>1. AppTotal(day, client, m)' = SumFunctionOnSet(g, R) % U64
  BY DEF AppTotal
<1>2. AppTotal(day, client, m) = SumFunctionOnSet(f, S) % U64
  BY AppTotalIs
<1>3. /\ DOMAIN apps' = DOMAIN apps \cup {key}
      /\ apps'[key].use = Charged(OldApp(flow).use, flow)
      /\ \A k \in DOMAIN apps : k # key => apps'[k] = apps[k]
  BY AppCharged
<1>4. <<key[1], key[2]>> = ClientKey(flow)
  BY DEF AppKey, ClientKey
<1>5. IsFiniteSet(S) /\ S \subseteq DOMAIN apps
  BY FS_Subset DEF FiniteTables, AppsOf
<1>6. \A k \in DOMAIN apps : f[k] = apps[k].use[m] /\ f[k] \in Int
  BY UsesAreCounters, WidthAssumption DEF AppUse, Counter
<1> HIDE DEF key
<1>7. /\ \A k \in S : f[k] \in Int
      /\ \A k \in S : k # key => g[k] = f[k]
  BY <1>3, <1>5, <1>6
<1>8. CASE <<day, client>> = ClientKey(flow)
  <2> DEFINE old == OldApp(flow).use[m]
             amount == Amount(flow, m)
  <2>1. key[1] = day /\ key[2] = client
    BY <1>4, <1>8
  <2>2. R = S \cup {key}
    BY <1>3, <2>1 DEF AppsOf
  <2>3. old \in Int /\ amount \in Int
    BY OldRowTypes, AmountType, WidthAssumption DEF UseRow, Counter, Measure
  <2>4. (key \in S => old = f[key]) /\ (key \notin S => old = 0)
    <3>1. key \in S <=> key \in DOMAIN apps
      BY <2>1 DEF AppsOf
    <3> QED
      BY <1>6, <3>1 DEF OldApp, Get, NewRow, key, Measure
  <2>5. g[key] = (old + amount) % U64
    BY <1>3, ChargedBy DEF Add
  <2> HIDE DEF S, R, f, g, old, amount
  <2>6. SumFunctionOnSet(g, S \cup {key}) % U64
            = ((SumFunctionOnSet(f, S) % U64) + amount) % U64
    <3>1. Grows(f, g, S, key, old, amount, U64)
      BY <1>5, <1>7, <2>3, <2>4, <2>5, WidthAssumption DEF Grows
    <3> QED
      BY <3>1, SumPutWraps
  <2> QED
    BY <1>1, <1>2, <1>8, <2>2, <2>6 DEF Add, amount
<1>9. CASE <<day, client>> # ClientKey(flow)
  <2>1. R = S
    BY <1>3, <1>4, <1>9 DEF AppsOf
  <2>2. \A k \in S : g[k] = f[k]
    BY <1>4, <1>7, <1>9 DEF AppsOf
  <2> HIDE DEF S, R, f, g
  <2>3. SumFunctionOnSet(g, S) = SumFunctionOnSet(f, S)
    BY <1>5, <2>2, SumSame
  <2> QED
    BY <1>1, <1>2, <1>9, <2>1, <2>3
<1> QED
  BY <1>8, <1>9

\* The tables stay finite: a step adds at most one row to each.
LEMMA StaysFinite == TypeOK /\ FiniteTables /\ [Next]_vars => FiniteTables'
<1> SUFFICES ASSUME TypeOK, FiniteTables, [Next]_vars PROVE FiniteTables'
  OBVIOUS
<1>1. CASE IngestClientFlow
  <2> DEFINE flow == Head(pending)
  <2>1. /\ DOMAIN hourly' = DOMAIN hourly \cup {HourKey(flow)}
        /\ DOMAIN clients' = DOMAIN clients \cup {ClientKey(flow)}
        /\ DOMAIN apps' = DOMAIN apps \cup {AppKey(flow)}
    BY <1>1, IngestEffect
  <2> HIDE DEF flow
  <2> QED
    BY <2>1, FS_AddElement DEF FiniteTables
<1>2. CASE OtherStep
  <2>1. UNCHANGED apps /\ DOMAIN clients' = DOMAIN clients
    BY <1>2, OtherEffect
  <2>2. UNCHANGED hourly \/ CountHour(Head(pending))
    BY <1>2 DEF OtherStep, LoadIdentityRow, DecodedDatagram, UnsupportedDatagram,
                UndecodableDatagram, IngestWanOnlyFlow, ParsedSample,
                DroppedSample, tables
  <2>3. IsFiniteSet(DOMAIN hourly')
    BY <2>2, HourCharged, FS_AddElement DEF FiniteTables
  <2> QED
    BY <2>1, <2>3 DEF FiniteTables
<1>3. CASE UNCHANGED vars
  BY <1>3 DEF vars, tables, FiniteTables
<1> QED
  BY <1>1, <1>2, <1>3, StepSplit

\* The tables are empty at the start.
LEMMA InitFinite == Init => FiniteTables
BY FS_EmptySet DEF Init, NoEntry, FiniteTables

\* The row of a client and the total of its apps are charged alike.  A client without
\* a row has no app rows either (RowsNest): both start at 0.
LEMMA NextSums ==
    TypeOK /\ RowsNest /\ FiniteTables /\ AppsSumToClients /\ [Next]_vars
        => AppsSumToClients'
<1> SUFFICES ASSUME TypeOK, RowsNest, FiniteTables, AppsSumToClients, [Next]_vars
             PROVE  AppsSumToClients'
  OBVIOUS
<1>1. CASE IngestClientFlow
  <2> DEFINE flow == Head(pending)
  <2>1. /\ flow \in Flow /\ ClientIp(flow) # None
        /\ CountClient(flow) /\ CountApp(flow)
    BY <1>1, PendingType DEF TypeOK, IngestClientFlow
  <2> HIDE DEF flow
  <2>2. /\ DOMAIN clients' = DOMAIN clients \cup {ClientKey(flow)}
        /\ clients'[ClientKey(flow)].use = Charged(OldClient(flow).use, flow)
        /\ \A k \in DOMAIN clients : k # ClientKey(flow) => clients'[k] = clients[k]
    BY <2>1, ClientCharged
  <2> SUFFICES ASSUME NEW k \in DOMAIN clients', NEW m \in Measure
               PROVE  clients'[k].use[m] = AppTotal(k[1], k[2], m)'
    BY DEF AppsSumToClients
  <2>3. k \in Nat \X Addr
    <3>1. ClientKey(flow) \in Nat \X Lan
      BY <2>1, FlowKeys DEF TypeOK
    <3>2. DOMAIN clients \subseteq Nat \X Addr
      BY DEF TypeOK, TablesOK, IsTable
    <3> QED
      BY <2>2, <3>1, <3>2 DEF Addr
  <2>4. k = <<k[1], k[2]>>
    BY <2>3
  <2>5. CASE k = ClientKey(flow)
    <3>1. AppTotal(k[1], k[2], m)' = Add(AppTotal(k[1], k[2], m), Amount(flow, m))
      BY <2>1, <2>4, <2>5, AppTotalCharged
    <3>2. clients'[k].use[m] = Add(OldClient(flow).use[m], Amount(flow, m))
      BY <2>2, <2>5, ChargedBy
    <3>3. OldClient(flow).use[m] = AppTotal(k[1], k[2], m)
      <4>1. CASE k \in DOMAIN clients
        BY <2>5, <4>1 DEF OldClient, Get, AppsSumToClients
      <4>2. CASE k \notin DOMAIN clients
        <5>1. AppsOf(k[1], k[2]) = {}
          BY <2>4, <4>2 DEF RowsNest, AppsOf
        <5>2. AppTotal(k[1], k[2], m) = 0 % U64
          BY <5>1, AppTotalIs, SumEmpty
        <5>3. OldClient(flow).use[m] = 0
          BY <2>5, <4>2 DEF OldClient, Get, NewClient, NewRow, Measure
        <5> QED
          BY <5>2, <5>3, WidthAssumption
      <4> QED
        BY <4>1, <4>2
    <3> QED
      BY <3>1, <3>2, <3>3
  <2>6. CASE k # ClientKey(flow)
    <3>1. AppTotal(k[1], k[2], m)' = AppTotal(k[1], k[2], m)
      BY <2>1, <2>4, <2>6, AppTotalCharged
    <3>2. k \in DOMAIN clients /\ clients'[k] = clients[k]
      BY <2>2, <2>6
    <3> QED
      BY <3>1, <3>2 DEF AppsSumToClients
  <2> QED
    BY <2>5, <2>6
<1>2. CASE OtherStep
  <2>1. /\ UNCHANGED apps /\ DOMAIN clients' = DOMAIN clients
        /\ \A k \in DOMAIN clients : clients'[k].use = clients[k].use
    BY <1>2, OtherEffect
  <2> QED
    BY <2>1 DEF AppsSumToClients, AppTotal
<1>3. CASE UNCHANGED vars
  BY <1>3 DEF vars, tables, AppsSumToClients, AppTotal
<1> QED
  BY <1>1, <1>2, <1>3, StepSplit

\* The app rows of a client's day add up to the client's row, whatever flows came
\* in whatever order, and however often the counters wrapped.
THEOREM SumsHold == Spec => []AppsSumToClients
<1>1. Init => AppsSumToClients
  BY DEF Init, NoEntry, AppsSumToClients
<1> QED
  BY <1>1, InitFinite, StaysFinite, NextSums, TypeCorrect, NestingHolds, PTL DEF Spec

-----------------------------------------------------------------------------
(* Every flow is accounted for *)

\* One more on the left of a sum that wraps is one more on the sum.
LEMMA AddLeft ==
    ASSUME NEW a \in Int, NEW b \in Int, NEW c \in Int
    PROVE  Add(Add(a, b), c) = Add(Add(a, c), b)
<1>1. a + b \in Int /\ a + c \in Int /\ (a + b) + c = (a + c) + b
  OBVIOUS
<1>2. (((a + b) % U64) + c) % U64 = ((a + b) + c) % U64
  BY <1>1, WrapLate, WidthAssumption
<1>3. (((a + c) % U64) + b) % U64 = ((a + c) + b) % U64
  BY <1>1, WrapLate, WidthAssumption
<1> QED
  BY <1>1, <1>2, <1>3 DEF Add

\* So is one more on the right.
LEMMA AddRight ==
    ASSUME NEW a \in Int, NEW b \in Int, NEW c \in Int,
           NEW d \in Int, d % U64 = Add(b % U64, c)
    PROVE  Add(Add(a, b), c) = Add(a, d)
<1>1. /\ a + b \in Int /\ b + c \in Int
      /\ (a + b) + c = (b + c) + a /\ d + a = a + d
  OBVIOUS
<1>2. (((a + b) % U64) + c) % U64 = ((a + b) + c) % U64
  BY <1>1, WrapLate, WidthAssumption
<1>3. d % U64 = (b + c) % U64
  BY WrapLate, WidthAssumption DEF Add
<1>4. ((d % U64) + a) % U64 = (d + a) % U64
  BY WrapLate, WidthAssumption
<1>5. (((b + c) % U64) + a) % U64 = ((b + c) + a) % U64
  BY <1>1, WrapLate, WidthAssumption
<1> QED
  BY <1>1, <1>2, <1>3, <1>4, <1>5 DEF Add

\* A flow is counted in stats and in its client's row, or as WAN-only, in one step.
LEMMA NextFlows ==
    TypeOK /\ FiniteTables /\ FlowsAccounted /\ [Next]_vars => FlowsAccounted'
<1> SUFFICES ASSUME TypeOK, FiniteTables, FlowsAccounted, [Next]_vars
             PROVE  FlowsAccounted'
  OBVIOUS
<1> DEFINE S == DOMAIN clients
           f == [k \in DOMAIN clients |-> clients[k].use.flows]
           g == [k \in DOMAIN clients' |-> clients'[k].use.flows]
           total == SumFunctionOnSet(f, S)
<1>1. /\ FlowsAccounted <=> stats.flows = Add(stats.no_client, total)
      /\ FlowsAccounted' <=> stats'.flows
             = Add(stats'.no_client, SumFunctionOnSet(g, DOMAIN clients'))
  BY DEF FlowsAccounted, SumFunction, Add
<1>2. \A k \in S : f[k] \in Int
  <2>1. "flows" \in Measure
    BY DEF Measure
  <2> QED
    BY <2>1, UsesAreCounters, WidthAssumption DEF Counter
<1>0. IsFiniteSet(S)
  BY DEF FiniteTables
<1>3. total \in Int
  BY <1>0, <1>2, SumOfAny
<1>4. stats.flows \in Int /\ stats.no_client \in Int
  BY WidthAssumption DEF TypeOK, Stats, Counter
<1>5. CASE IngestClientFlow
  <2> DEFINE flow == Head(pending)
             key == ClientKey(flow)
             old == OldClient(flow).use.flows
  <2>1. /\ flow \in Flow /\ CountClient(flow)
        /\ stats'.flows = Add(stats.flows, 1) /\ stats'.no_client = stats.no_client
    BY <1>5, PendingType DEF TypeOK, IngestClientFlow, Stats
  <2> HIDE DEF flow
  <2>2. /\ DOMAIN clients' = S \cup {key}
        /\ clients'[key].use = Charged(OldClient(flow).use, flow)
        /\ \A k \in S : k # key => clients'[k] = clients[k]
    BY <2>1, ClientCharged
  <2>3. old \in Int
    BY <2>1, OldRowTypes, WidthAssumption DEF UseRow, Counter
  <2>4. (key \in S => old = f[key]) /\ (key \notin S => old = 0)
    BY DEF OldClient, Get, NewClient, NewRow
  <2>5. \A k \in S : k # key => g[k] = f[k]
    BY <2>2
  <2>6. g[key] = (old + 1) % U64
    BY <2>2 DEF Charged, Add
  <2> HIDE DEF S, f, g, key, old
  <2>7. SumFunctionOnSet(g, S \cup {key}) % U64 = ((total % U64) + 1) % U64
    <3> DEFINE n == 1
    <3>1. n \in Int /\ g[key] = (old + n) % U64
      BY <2>6
    <3> HIDE DEF n
    <3>2. Grows(f, g, S, key, old, n, U64)
      BY <1>0, <1>2, <2>3, <2>4, <2>5, <3>1, WidthAssumption DEF Grows
    <3>3. SumFunctionOnSet(g, S \cup {key}) % U64
              = ((SumFunctionOnSet(f, S) % U64) + n) % U64
      BY <3>2, SumPutWraps
    <3> QED
      BY <3>3 DEF n
  <2>8. SumFunctionOnSet(g, S \cup {key}) \in Int
    <3>1. IsFiniteSet(S \cup {key})
      BY <1>0, FS_AddElement
    <3>2. g[key] \in Int
      <4>1. old + 1 \in Int
        BY <2>3
      <4> QED
        BY <2>6, <4>1, WidthAssumption, Division
    <3>3. \A k \in S \cup {key} : g[k] \in Int
      BY <1>2, <2>5, <3>2
    <3> QED
      BY <3>1, <3>3, SumOfAny
  <2>9. Add(Add(stats.no_client, total), 1)
            = Add(stats.no_client, SumFunctionOnSet(g, S \cup {key}))
    <3>1. SumFunctionOnSet(g, S \cup {key}) % U64 = Add(total % U64, 1)
      BY <2>7 DEF Add
    <3> QED
      BY <1>3, <1>4, <2>8, <3>1, AddRight
  <2> QED
    BY <1>1, <2>1, <2>2, <2>9
<1>6. CASE IngestWanOnlyFlow
  <2>1. /\ UNCHANGED clients
        /\ stats'.flows = Add(stats.flows, 1)
        /\ stats'.no_client = Add(stats.no_client, 1)
    BY <1>6 DEF IngestWanOnlyFlow, TypeOK, Stats
  <2>2. SumFunctionOnSet(g, DOMAIN clients') = total
    BY <2>1
  <2>3. Add(Add(stats.no_client, total), 1) = Add(Add(stats.no_client, 1), total)
    BY <1>3, <1>4, AddLeft
  <2> HIDE DEF S, f, g, total
  <2> QED
    BY <1>1, <2>1, <2>2, <2>3
<1>7. CASE \/ OtherStep /\ ~IngestWanOnlyFlow
           \/ UNCHANGED vars
  <2>1. /\ DOMAIN clients' = DOMAIN clients
        /\ \A k \in DOMAIN clients : clients'[k].use = clients[k].use
    BY <1>7, OtherEffect DEF vars, tables
  <2>2. stats'.flows = stats.flows /\ stats'.no_client = stats.no_client
    BY <1>7 DEF OtherStep, LoadIdentityRow, DecodedDatagram, UnsupportedDatagram,
                UndecodableDatagram, ParsedSample, DroppedSample, vars, TypeOK, Stats
  <2>3. g = f
    BY <2>1
  <2> HIDE DEF f, g
  <2> QED
    BY <1>1, <2>1, <2>2, <2>3
<1> QED
  BY <1>5, <1>6, <1>7, StepSplit

\* Every flow the counters count is in one client row or was WAN-only, whatever
\* the order of the flows and however often the counters wrapped.
THEOREM FlowsHold == Spec => []FlowsAccounted
<1>1. Init => FlowsAccounted
  <2> SUFFICES ASSUME Init PROVE FlowsAccounted
    OBVIOUS
  <2>1. clients = NoEntry /\ stats.flows = 0 /\ stats.no_client = 0
    BY DEF Init
  <2>2. DOMAIN clients = {}
    BY <2>1 DEF NoEntry
  <2>3. SumFunction([k \in DOMAIN clients |-> clients[k].use.flows]) = 0
    BY <2>2, SumEmpty DEF SumFunction
  <2> QED
    BY <2>1, <2>3, WidthAssumption DEF FlowsAccounted
<1> QED
  BY <1>1, InitFinite, StaysFinite, NextFlows, TypeCorrect, PTL DEF Spec

-----------------------------------------------------------------------------
(* Collector implements Metering *)

\* The two totals of Metering, as Collector maps them.
HoursOf(day) == {k \in DOMAIN hourly : k[1] = day}
HourTotal(day) == SumFunctionOnSet(hourly, HoursOf(day)) % U64
Carried == [d \in Days |-> HourTotal(d)]
Used == [k \in Days \X Lan |-> AppTotal(k[1], k[2], "bytes")]

\* What waits in the queue came in a datagram.
Queued == \A i \in DOMAIN pending : pending[i] \in FlowsOf(Datagram)

\* The head of the queue is a flow of a datagram, and so is the rest.
LEMMA QueueHead ==
    ASSUME TypeOK, Queued, pending # <<>>
    PROVE  /\ Head(pending) \in Flow /\ Head(pending) \in FlowsOf(Datagram)
           /\ \A i \in DOMAIN Tail(pending) : Tail(pending)[i] \in FlowsOf(Datagram)
<1>1. Len(pending) \in Nat \ {0} /\ DOMAIN pending = 1 .. Len(pending)
  BY DEF TypeOK
<1>2. Head(pending) = pending[1] /\ Head(pending) \in Flow
  BY PendingType DEF TypeOK
<1>3. \A i \in DOMAIN Tail(pending) : i + 1 \in DOMAIN pending
                                      /\ Tail(pending)[i] = pending[i + 1]
  BY <1>1 DEF TypeOK
<1> QED
  BY <1>1, <1>2, <1>3 DEF Queued

\* A step takes flows off the queue or puts those of a datagram on it.
LEMMA NextQueued == TypeOK /\ Queued /\ [Next]_vars => Queued'
<1> SUFFICES ASSUME TypeOK, Queued, [Next]_vars PROVE Queued'
  OBVIOUS
<1>1. CASE IngestClientFlow \/ IngestWanOnlyFlow
  BY <1>1, QueueHead DEF IngestClientFlow, IngestWanOnlyFlow, Queued
<1>2. ASSUME NEW flows \in Datagram, DecodedDatagram(flows)
      PROVE  Queued'
  BY <1>2 DEF DecodedDatagram, Queued, FlowsOf
<1>3. CASE \/ \E row \in SidecarRow : LoadIdentityRow(row)
           \/ UnsupportedDatagram \/ UndecodableDatagram
           \/ \E frame \in Sample : ParsedSample(frame)
           \/ DroppedSample \/ UNCHANGED vars
  <2>1. UNCHANGED pending
    BY <1>3 DEF LoadIdentityRow, UnsupportedDatagram, UndecodableDatagram,
                ParsedSample, DroppedSample, vars
  <2> QED
    BY <2>1 DEF Queued
<1> QED
  BY <1>1, <1>2, <1>3 DEF Next

\* A flow adds to the total of its day, and to no other.
LEMMA HourTotalCharged ==
    ASSUME TypeOK, FiniteTables, NEW flow \in Flow, CountHour(flow), NEW day
    PROVE  HourTotal(day)' =
               IF day = DayOf(flow.hour)
               THEN Add(HourTotal(day), flow.bytes)
               ELSE HourTotal(day)
<1> DEFINE key == HourKey(flow)
           S == HoursOf(day)
           R == {k \in DOMAIN hourly' : k[1] = day}
<1>1. HourTotal(day)' = SumFunctionOnSet(hourly', R) % U64
  BY DEF HourTotal, HoursOf
<1>2. HourTotal(day) = SumFunctionOnSet(hourly, S) % U64
  BY DEF HourTotal
<1>3. /\ DOMAIN hourly' = DOMAIN hourly \cup {key}
      /\ hourly'[key] = Add(OldHour(flow), flow.bytes)
      /\ \A k \in DOMAIN hourly : k # key => hourly'[k] = hourly[k]
  BY HourCharged
<1>4. key[1] = DayOf(flow.hour)
  BY DEF HourKey
<1>5. IsFiniteSet(S) /\ S \subseteq DOMAIN hourly
  BY FS_Subset DEF FiniteTables, HoursOf
<1>6. \A k \in S : hourly[k] \in Int
  BY <1>5, WidthAssumption DEF TypeOK, TablesOK, IsTable, Counter
<1> HIDE DEF key
<1>7. \A k \in S : k # key => hourly'[k] = hourly[k]
  BY <1>3, <1>5
<1>8. CASE day = DayOf(flow.hour)
  <2> DEFINE old == OldHour(flow)
             amount == flow.bytes
  <2>1. R = S \cup {key}
    BY <1>3, <1>4, <1>8 DEF HoursOf
  <2>2. old \in Int /\ amount \in Int
    BY OldRowTypes, WidthAssumption DEF Counter, Flow
  <2>3. (key \in S => old = hourly[key]) /\ (key \notin S => old = 0)
    BY <1>4, <1>8 DEF OldHour, Get, HoursOf, key
  <2>4. hourly'[key] = (old + amount) % U64
    BY <1>3 DEF Add
  <2> HIDE DEF S, R, old, amount
  <2>5. SumFunctionOnSet(hourly', S \cup {key}) % U64
            = ((SumFunctionOnSet(hourly, S) % U64) + amount) % U64
    <3>1. Grows(hourly, hourly', S, key, old, amount, U64)
      BY <1>5, <1>6, <1>7, <2>2, <2>3, <2>4, WidthAssumption DEF Grows
    <3> QED
      BY <3>1, SumPutWraps
  <2> QED
    BY <1>1, <1>2, <1>8, <2>1, <2>5 DEF Add, amount
<1>9. CASE day # DayOf(flow.hour)
  <2>1. R = S
    BY <1>3, <1>4, <1>9 DEF HoursOf
  <2>2. \A k \in S : hourly'[k] = hourly[k]
    BY <1>4, <1>7, <1>9 DEF HoursOf
  <2> HIDE DEF S, R
  <2>3. SumFunctionOnSet(hourly', S) = SumFunctionOnSet(hourly, S)
    BY <1>5, <2>2, SumSame
  <2> QED
    BY <1>1, <1>2, <1>9, <2>1, <2>3
<1> QED
  BY <1>8, <1>9

\* Empty tables are empty totals.
LEMMA InitVolume == Init => Volume!Init
<1> SUFFICES ASSUME Init PROVE Volume!Init
  OBVIOUS
<1>1. hourly = NoEntry /\ apps = NoEntry /\ DOMAIN NoEntry = {}
  BY DEF Init, NoEntry
<1>2. \A d : {k \in DOMAIN hourly : k[1] = d} = {}
  BY <1>1
<1>3. \A d, c : {k \in DOMAIN apps : k[1] = d /\ k[2] = c} = {}
  BY <1>1
<1>4. 0 % U64 = 0
  BY WidthAssumption
<1>5. \A d : SumFunctionOnSet(hourly, {k \in DOMAIN hourly : k[1] = d}) % U64 = 0
  BY <1>2, <1>4, SumEmpty
<1>6. \A d, c : AppTotal(d, c, "bytes") = 0
  BY <1>3, <1>4, SumEmpty DEF AppTotal
<1> QED
  BY <1>5, <1>6 DEF Volume!Init

\* A flow that is added to its day and its client is a step of Metering.
LEMMA FlowIsMetered ==
    ASSUME NEW flow \in FlowsOf(Datagram), flow \in Flow,
           Carried' = [d \in Days |-> IF d = DayOf(flow.hour)
                                      THEN Add(Carried[d], flow.bytes)
                                      ELSE Carried[d]],
           Used' = [k \in Days \X Lan |->
                       IF k = <<DayOf(flow.hour), ClientIp(flow)>>
                       THEN Add(Used[k], flow.bytes) ELSE Used[k]]
    PROVE  Volume!Next
<1> DEFINE t == [day |-> DayOf(flow.hour), client |-> ClientIp(flow),
                 bytes |-> flow.bytes]
<1>1. t \in {[day |-> DayOf(f.hour), client |-> ClientIp(f),
              bytes |-> f.bytes] : f \in FlowsOf(Datagram)}
  OBVIOUS
<1>2. Carried' = [Carried EXCEPT ![t.day] = (@ + t.bytes) % U64]
  BY DEF Carried, Add
<1>3. Used' = [k \in Days \X Lan |->
                  IF k = <<t.day, t.client>>
                  THEN (Used[k] + t.bytes) % U64 ELSE Used[k]]
  BY DEF Add
<1>4. Volume!Meter(t)
  BY <1>2, <1>3 DEF Volume!Meter, Carried, Used, HourTotal, HoursOf
<1> QED
  BY <1>1, <1>4 DEF Volume!Next

\* Each step of Collector is a step of Metering or changes no total.
LEMMA NextVolume ==
    TypeOK /\ FiniteTables /\ Queued /\ [Next]_vars
        => [Volume!Next]_<<Carried, Used>>
<1> SUFFICES ASSUME TypeOK, FiniteTables, Queued, [Next]_vars
             PROVE  Volume!Next \/ UNCHANGED <<Carried, Used>>
  OBVIOUS
<1> DEFINE flow == Head(pending)
<1>1. CASE IngestClientFlow
  <2>1. /\ flow \in Flow /\ flow \in FlowsOf(Datagram)
        /\ ClientIp(flow) # None /\ CountHour(flow) /\ CountApp(flow)
    BY <1>1, QueueHead DEF IngestClientFlow
  <2> HIDE DEF flow
  <2>2. Carried' = [d \in Days |-> IF d = DayOf(flow.hour)
                                   THEN Add(Carried[d], flow.bytes)
                                   ELSE Carried[d]]
    BY <2>1, HourTotalCharged DEF Carried
  <2>3. Used' = [k \in Days \X Lan |->
                    IF k = <<DayOf(flow.hour), ClientIp(flow)>>
                    THEN Add(Used[k], flow.bytes) ELSE Used[k]]
    <3> SUFFICES ASSUME NEW d \in Days, NEW c \in Lan
                 PROVE  AppTotal(d, c, "bytes")' =
                            IF <<d, c>> = <<DayOf(flow.hour), ClientIp(flow)>>
                            THEN Add(AppTotal(d, c, "bytes"), flow.bytes)
                            ELSE AppTotal(d, c, "bytes")
      BY DEF Used
    <3>1. "bytes" \in Measure /\ Amount(flow, "bytes") = flow.bytes
      BY DEF Measure, Amount
    <3> QED
      BY <2>1, <3>1, AppTotalCharged DEF ClientKey
  <2> QED
    BY <2>1, <2>2, <2>3, FlowIsMetered
<1>2. CASE IngestWanOnlyFlow
  <2>1. /\ flow \in Flow /\ flow \in FlowsOf(Datagram)
        /\ ClientIp(flow) = None /\ CountHour(flow) /\ UNCHANGED apps
    BY <1>2, QueueHead DEF IngestWanOnlyFlow
  <2> HIDE DEF flow
  <2>2. Carried' = [d \in Days |-> IF d = DayOf(flow.hour)
                                   THEN Add(Carried[d], flow.bytes)
                                   ELSE Carried[d]]
    BY <2>1, HourTotalCharged DEF Carried
  <2>3. Used' = Used
    BY <2>1 DEF Used, AppTotal
  <2>4. None \notin Lan
    BY NoneAssumption DEF Addr
  <2>5. Used' = [k \in Days \X Lan |->
                    IF k = <<DayOf(flow.hour), ClientIp(flow)>>
                    THEN Add(Used[k], flow.bytes) ELSE Used[k]]
    BY <2>1, <2>3, <2>4 DEF Used
  <2> QED
    BY <2>1, <2>2, <2>5, FlowIsMetered
<1>3. CASE \/ OtherStep /\ ~IngestWanOnlyFlow
           \/ UNCHANGED vars
  <2>1. UNCHANGED <<hourly, apps>>
    BY <1>3 DEF OtherStep, LoadIdentityRow, DecodedDatagram, UnsupportedDatagram,
                UndecodableDatagram, ParsedSample, DroppedSample, vars, tables
  <2> QED
    BY <2>1 DEF Carried, Used, HourTotal, HoursOf, AppTotal
<1> QED
  BY <1>1, <1>2, <1>3, StepSplit

\* The three tables implement Metering: each flow is counted once for its day and
\* once for its client, however the counters wrap, and nothing else moves a total.
THEOREM VolumeIsMetered == Spec => MetersVolume
<1>1. Init => Queued
  BY DEF Init, Queued
<1>2. TypeOK /\ FiniteTables /\ Queued /\ [Next]_vars
          => [Volume!Next]_<<Carried, Used>>
  BY NextVolume
<1> QED
  BY <1>1, <1>2, InitVolume, InitFinite, StaysFinite, NextQueued, TypeCorrect, PTL
  DEF Spec, MetersVolume, Volume!Spec, Carried, Used, HourTotal, HoursOf
=============================================================================
