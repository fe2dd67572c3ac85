---------------------------- MODULE Decoder ----------------------------
(***************************************************************************)
(* netflow::Decoder: one template cache for every exporter, NetFlow v9 and *)
(* IPFIX alike, which lives as long as serve_udp.  UDP may lose, repeat    *)
(* and reorder the exporters' datagrams, so any datagram may arrive next,  *)
(* any number of times.                                                    *)
(*                                                                         *)
(* A datagram is cut into its sets already (module SetWalk has the cutting *)
(* with its offsets and lengths); a record is a sequence of bytes.  The    *)
(* field "meant" holds the flows the exporter wrote, for the properties    *)
(* only.  The record count of a header is read in v5 only.                 *)
(***************************************************************************)
EXTENDS Integers, Sequences, SequencesExt

CONSTANTS
    Datagram,       \* what the exporters send, numbered
    U64             \* modulus of be_int's u64

ASSUME WidthAssumption == U64 \in Nat \ {0}

\* fields.rs: the field types a record is searched for.
IN_BYTES == 1
IN_PKTS == 2
PROTOCOL == 4
TCP_FLAGS == 6
L4_SRC_PORT == 7
IPV4_SRC_ADDR == 8
L4_DST_PORT == 11
IPV4_DST_ADDR == 12
OUT_BYTES == 23
OUT_PKTS == 24

VARIABLES
    templates,      \* Decoder.templates: <<source, template id>> -> fields
    last,           \* the last datagram, and what decode returned for it
    announced       \* history: the keys of every template seen whole

vars == <<templates, last, announced>>

-----------------------------------------------------------------------------
(* fields.rs *)

RecLen(fields) == FoldLeft(LAMBDA n, f : n + f.len, 0, fields)

\* A fixed-width integer, big endian, of as many bytes as the template says.
BeInt(bytes) == FoldLeft(LAMBDA v, b : (v * 256 + b) % U64, 0, bytes)

Blank(unix_secs) ==
    [src |-> <<>>, dst |-> <<>>, src_port |-> 0, dst_port |-> 0, proto |-> 0,
     tcp_flags |-> 0, bytes |-> 0, packets |-> 0, unix_secs |-> unix_secs]

F(ty, len) == [ty |-> ty, len |-> len]

\* v5.rs: a record has 48 bytes, with its fields always at the same place; type 0
\* stands for what is passed over.
V5Fields ==
    << F(IPV4_SRC_ADDR, 4), F(IPV4_DST_ADDR, 4), F(0, 8), F(IN_PKTS, 4),
       F(IN_BYTES, 4), F(0, 8), F(L4_SRC_PORT, 2), F(L4_DST_PORT, 2), F(0, 1),
       F(TCP_FLAGS, 1), F(PROTOCOL, 1), F(0, 9) >>

\* What a field type sets in a flow, and the one length it is taken at; a counter is
\* taken at any.
Sets ==
    [ty \in {IPV4_SRC_ADDR, IPV4_DST_ADDR, L4_SRC_PORT, L4_DST_PORT, PROTOCOL,
             TCP_FLAGS, IN_BYTES, OUT_BYTES, IN_PKTS, OUT_PKTS} |->
        CASE ty = IPV4_SRC_ADDR -> "src"
          [] ty = IPV4_DST_ADDR -> "dst"
          [] ty = L4_SRC_PORT -> "src_port"
          [] ty = L4_DST_PORT -> "dst_port"
          [] ty = PROTOCOL -> "proto"
          [] ty = TCP_FLAGS -> "tcp_flags"
          [] ty \in {IN_BYTES, OUT_BYTES} -> "bytes"
          [] ty \in {IN_PKTS, OUT_PKTS} -> "packets"]
Length ==
    [src |-> 4, dst |-> 4, src_port |-> 2, dst_port |-> 2, proto |-> 1,
     tcp_flags |-> 1]

Taken(field) ==
    /\ field.ty \in DOMAIN Sets
    /\ Sets[field.ty] \in DOMAIN Length => field.len = Length[Sets[field.ty]]

SetField(flow, field, slice) ==
    IF ~Taken(field) THEN flow
    ELSE LET part == Sets[field.ty]
         IN  [flow EXCEPT ![part] =
                 IF part \in {"src", "dst"} THEN slice ELSE BeInt(slice)]

\* parse_record: at most one flow, none without both addresses, at the time of the
\* datagram's header.
ParseRecord(fields, rec, unix_secs) ==
    LET Take(acc, field) ==
            [flow |-> SetField(acc.flow, field,
                               SubSeq(rec, acc.off + 1, acc.off + field.len)),
             off |-> acc.off + field.len]
        flow == FoldLeft(Take, [flow |-> Blank(unix_secs), off |-> 0], fields).flow
    IN  IF flow.src # <<>> /\ flow.dst # <<>> THEN <<flow>> ELSE <<>>

-----------------------------------------------------------------------------
(* v9.rs decode_sets and parse_templates *)

\* The variant keeps one layout per template number, whoever announced it.
IdOnly(source, id) == <<0, id>>
Key(source, id) == <<source, id>>

\* As many whole records as the set's body holds; the rest is padding.
ParseRecords(fields, data, unix_secs) ==
    LET n == Len(data) \div RecLen(fields)
        Rec(i) == SubSeq(data, (i - 1) * RecLen(fields) + 1, i * RecLen(fields))
    IN  FlattenSeq([i \in 1 .. n |-> ParseRecord(fields, Rec(i), unix_secs)])

\* Template::from_fields refuses an empty record, parse_templates a low number;
\* the variant takes an empty record.
CacheableEmpty(def) == def.id >= 256
Cacheable(def) == def.id >= 256 /\ RecLen(def.fields) > 0

Insert(cache, source, def) ==
    [k \in DOMAIN cache \cup {Key(source, def.id)} |->
        IF k = Key(source, def.id) THEN def.fields ELSE cache[k]]

\* The templates of a set, up to the one that is cut short.
Learn(cache, source, set) ==
    FoldLeft(LAMBDA c, def : IF Cacheable(def) THEN Insert(c, source, def) ELSE c,
             cache, set.defs)

TemplateSetId(version) == IF version = 9 THEN 0 ELSE 2

\* What decode_sets has after some sets: the cache, the flows so far, and whether
\* it gave up.
State(cache, flows, failed) == [cache |-> cache, flows |-> flows, failed |-> failed]

\* One set: a bad length or a truncated template ends the datagram, templates are
\* cached, data of a known template is parsed, anything else is skipped.
TakeSet(datagram, acc, set) ==
    IF acc.failed THEN acc
    ELSE IF ~set.sized THEN State(acc.cache, acc.flows, TRUE)
    ELSE IF set.id = TemplateSetId(datagram.version)
    THEN State(Learn(acc.cache, datagram.source, set), acc.flows, set.truncated)
    ELSE IF set.id >= 256 /\ Key(datagram.source, set.id) \in DOMAIN acc.cache
    THEN State(acc.cache,
               acc.flows \o ParseRecords(acc.cache[Key(datagram.source, set.id)],
                                         set.data, datagram.unix_secs),
               FALSE)
    ELSE acc

\* The variant caches nothing unless the whole datagram is good.
DecodeSetsAtomically(datagram) ==
    LET done == FoldLeft(LAMBDA acc, set : TakeSet(datagram, acc, set),
                         State(templates, <<>>, FALSE), datagram.sets)
    IN  IF done.failed THEN State(templates, <<>>, TRUE) ELSE done
DecodeSets(datagram) ==
    FoldLeft(LAMBDA acc, set : TakeSet(datagram, acc, set),
             State(templates, <<>>, FALSE), datagram.sets)

-----------------------------------------------------------------------------
(* netflow/mod.rs Decoder::decode *)

Return(datagram, outcome, flows) ==
    last' = [datagram |-> datagram, outcome |-> outcome, flows |-> flows]

\* v5 needs no template: as many records as the header counts, or an error.
DecodeV5(datagram) ==
    /\ datagram.version = 5
    /\ LET size == datagram.count * RecLen(V5Fields)
       IN  IF datagram.headed /\ Len(datagram.body) >= size
           THEN Return(datagram, "ok",
                       ParseRecords(V5Fields, SubSeq(datagram.body, 1, size),
                                    datagram.unix_secs))
           ELSE Return(datagram, "decode_error", <<>>)
    /\ UNCHANGED <<templates, announced>>

\* A short header or, in IPFIX, a wrong total length.
DecodeHeaderless(datagram) ==
    /\ datagram.version \in {9, 10}
    /\ ~datagram.headed
    /\ Return(datagram, "decode_error", <<>>)
    /\ UNCHANGED <<templates, announced>>

\* The templates that are whole in what decode_sets gets to see.
Seen(datagram) ==
    LET bad == {i \in DOMAIN datagram.sets :
                    ~datagram.sets[i].sized \/ datagram.sets[i].truncated}
        upto == {i \in DOMAIN datagram.sets : \A b \in bad : i <= b}
    IN  {<<datagram.source, def.id>> :
            def \in {def \in UNION {ToSet(datagram.sets[i].defs) : i \in upto} :
                        Cacheable(def)}}

DecodeTemplated(datagram) ==
    /\ datagram.version \in {9, 10}
    /\ datagram.headed
    /\ LET done == DecodeSets(datagram)
       IN  /\ templates' = done.cache
           /\ IF done.failed
              THEN Return(datagram, "decode_error", <<>>)
              ELSE Return(datagram, "ok", done.flows)
    /\ announced' = announced \cup Seen(datagram)

DecodeOther(datagram) ==
    /\ datagram.version \notin {5, 9, 10}
    /\ Return(datagram, "unsupported", <<>>)
    /\ UNCHANGED <<templates, announced>>

Nothing ==
    [version |-> 0, source |-> 0, unix_secs |-> 0, headed |-> FALSE, sets |-> <<>>,
     count |-> 0, body |-> <<>>, meant |-> <<>>]

Init ==
    /\ templates = [k \in {} |-> <<>>]
    /\ last = [datagram |-> Nothing, outcome |-> "none", flows |-> <<>>]
    /\ announced = {}

Next ==
    \E n \in DOMAIN Datagram :
        \/ DecodeV5(Datagram[n])
        \/ DecodeHeaderless(Datagram[n])
        \/ DecodeTemplated(Datagram[n])
        \/ DecodeOther(Datagram[n])

Spec == Init /\ [][Next]_vars

-----------------------------------------------------------------------------
(* Types *)

Byte == 0 .. 255
Value == 0 .. U64 - 1
Address == [1 .. 4 -> Byte]
FieldSpec == [ty : Nat, len : Nat]
FlowRecord ==
    [src : Address, dst : Address, src_port : Value, dst_port : Value,
     proto : Value, tcp_flags : Value, bytes : Value, packets : Value,
     unix_secs : Nat]
SetRecord ==
    [id : Nat, sized : BOOLEAN, truncated : BOOLEAN,
     defs : Seq([id : Nat, fields : Seq(FieldSpec)]), data : Seq(Byte),
     meant : Seq(FlowRecord)]
DatagramRecord ==
    [version : Nat, source : Nat, unix_secs : Nat, headed : BOOLEAN,
     sets : Seq(SetRecord), count : Nat, body : Seq(Byte), meant : Seq(FlowRecord)]

\* Only a template set is cut into templates, and only one whose length is right.
ASSUME DatagramAssumption ==
    /\ Datagram \in Seq(DatagramRecord)
    /\ \A n \in DOMAIN Datagram : \A m \in DOMAIN Datagram[n].sets :
           LET set == Datagram[n].sets[m]
           IN  set.defs # <<>> \/ set.truncated =>
                   set.sized /\ set.id = TemplateSetId(Datagram[n].version)

-----------------------------------------------------------------------------
(* Properties *)

\* The cache holds records that have a length: a template of length 0 would keep
\* the loop over a set's records from ending.
TypeOK ==
    /\ \A k \in DOMAIN templates :
           /\ k \in Nat \X Nat /\ k[2] >= 256
           /\ templates[k] \in Seq(FieldSpec) /\ RecLen(templates[k]) > 0
    /\ last.outcome \in {"none", "ok", "decode_error", "unsupported"}
    /\ last.flows \in Seq(FlowRecord)

\* Every flow that reaches the store was written by the exporter into that very
\* datagram.  Padding is not traffic, and one exporter's layout is never applied to
\* another's records, although all share one cache, and number their templates alike.
NothingInvented ==
    \A i \in DOMAIN last.flows :
        \/ \E j \in DOMAIN last.datagram.meant :
               last.flows[i] = last.datagram.meant[j]
        \/ \E n \in DOMAIN last.datagram.sets :
               last.flows[i] \in ToSet(last.datagram.sets[n].meant)

\* docs/roadmap.md: a template cache, and no flow from a data set whose template is
\* missing.  A datagram that decodes yields, in order, exactly the flows of the data
\* sets whose template was announced before: in an earlier set, or in any earlier
\* datagram, even one whose decoding failed behind that template.
KnownBefore(known, datagram, n) ==
    LET id == datagram.sets[n].id
    IN  \/ <<datagram.source, id>> \in known
        \/ \E m \in 1 .. n - 1 : \E d \in DOMAIN datagram.sets[m].defs :
               datagram.sets[m].defs[d].id = id
Expected(known, datagram) ==
    FlattenSeq([n \in DOMAIN datagram.sets |->
                   IF KnownBefore(known, datagram, n)
                   THEN datagram.sets[n].meant ELSE <<>>])
KnownSetsAreWhole ==
    [][last'.datagram.version \in {9, 10} /\ last'.outcome = "ok" =>
           last'.flows = Expected(announced, last'.datagram)]_vars
=============================================================================
