---------------------------- MODULE Encoder ----------------------------
(***************************************************************************)
(* What v5::encode, v9::encode and ipfix::encode write: the exporter that  *)
(* the collector's own tests replay, and the layout that is the reference  *)
(* for the decoder.                                                        *)
(***************************************************************************)
EXTENDS Decoder

EXPORT_FIELDS ==
    << F(IPV4_SRC_ADDR, 4), F(IPV4_DST_ADDR, 4), F(L4_SRC_PORT, 2),
       F(L4_DST_PORT, 2), F(PROTOCOL, 1), F(TCP_FLAGS, 1), F(IN_BYTES, 4),
       F(IN_PKTS, 4) >>
TEMPLATE_ID == 256

\* A number without its low k bytes.
Shift(v, k) == FoldLeft(LAMBDA x, i : x \div 256, v, [i \in 1 .. k |-> i])

\* The low n bytes of a number, the high one first: "as u32" drops the rest.
BigEndian(v, n) == [i \in 1 .. n |-> Shift(v, n - i) % 256]

\* A record, field after field; what no part of a flow belongs to is zero.
WriteField(flow, field) ==
    IF ~Taken(field) THEN [i \in 1 .. field.len |-> 0]
    ELSE LET part == Sets[field.ty]
         IN  IF part \in {"src", "dst"} THEN flow[part]
             ELSE BigEndian(flow[part], field.len)
WriteRecord(fields, flow) ==
    FlattenSeq([i \in DOMAIN fields |-> WriteField(flow, fields[i])])
WriteRecords(fields, flows) ==
    FlattenSeq([i \in DOMAIN flows |-> WriteRecord(fields, flows[i])])

Pad4(len) == (4 - (len % 4)) % 4

Section(id, sized, truncated, defs, data, meant) ==
    [id |-> id, sized |-> sized, truncated |-> truncated, defs |-> defs,
     data |-> data, meant |-> meant]
TemplateSet(version, defs) ==
    Section(TemplateSetId(version), TRUE, FALSE, defs, <<>>, <<>>)
DataSet(id, data, meant) == Section(id, TRUE, FALSE, <<>>, data, meant)

Message(version, source, unix_secs, headed, sets, count, body, meant) ==
    [version |-> version, source |-> source, unix_secs |-> unix_secs,
     headed |-> headed, sets |-> sets, count |-> count, body |-> body,
     meant |-> meant]

\* A set as it is sent: lengths and numbers are written "as u16".
SetBytes(id, body) == BigEndian(id, 2) \o BigEndian(4 + Len(body), 2) \o body
TemplateBody(template) ==
    BigEndian(template.id, 2) \o BigEndian(Len(template.fields), 2) \o
    FlattenSeq([i \in DOMAIN template.fields |->
        BigEndian(template.fields[i].ty, 2) \o BigEndian(template.fields[i].len, 2)])

\* How decode_sets and parse_templates cut bytes, from an offset on.
U16At(bytes, at) == 256 * bytes[at + 1] + bytes[at + 2]
CutTemplates(body) ==
    LET From[at \in 0 .. Len(body)] ==
            IF at + 4 > Len(body) THEN [defs |-> <<>>, truncated |-> FALSE]
            ELSE LET n == U16At(body, at + 2)
                     fields == [i \in 1 .. n |-> F(U16At(body, at + 4 * i),
                                                   U16At(body, at + 4 * i + 2))]
                 IN  IF at + 4 + 4 * n > Len(body)
                     THEN [defs |-> <<>>, truncated |-> TRUE]
                     ELSE [From[at + 4 + 4 * n] EXCEPT !.defs =
                              <<[id |-> U16At(body, at), fields |-> fields]>> \o @]
    IN  From[0]
CutSets(version, bytes) ==
    LET From[at \in 0 .. Len(bytes)] ==
            IF at + 4 > Len(bytes) THEN <<>>
            ELSE LET id == U16At(bytes, at)
                     n == U16At(bytes, at + 2)
                     body == SubSeq(bytes, at + 5, at + n)
                     cut == CutTemplates(body)
                 IN  IF n < 4 \/ at + n > Len(bytes)
                     THEN <<Section(id, FALSE, FALSE, <<>>, <<>>, <<>>)>>
                     ELSE <<IF id = TemplateSetId(version)
                            THEN Section(id, TRUE, cut.truncated, cut.defs, <<>>, <<>>)
                            ELSE DataSet(id, body, <<>>)>> \o From[at + n]
    IN  From[0]

HeaderLen(version) == IF version = 9 THEN 20 ELSE 16

\* One template set, one data set padded to four bytes.  A data set too long for 16
\* bits is written with a wrapped length, so that what decode_sets cuts are sets no
\* one meant; a message too long for them is refused by ipfix::decode, which compares
\* the total, and not by v9::decode, whose header has none: its count of records,
\* which wraps as well (and panics a debug build at 65535 flows), is never read.
Encode(version, unix_secs, source, flows) ==
    LET data == WriteRecords(EXPORT_FIELDS, flows)
        pad == [i \in 1 .. Pad4(4 + Len(data)) |-> 0]
        template == [id |-> TEMPLATE_ID, fields |-> EXPORT_FIELDS]
        data_set_len == 4 + Len(data \o pad)
        total == HeaderLen(version) + 8 + 4 * Len(EXPORT_FIELDS) + data_set_len
        sets == IF data_set_len < 65536
                THEN << TemplateSet(version, <<template>>),
                        DataSet(TEMPLATE_ID, data \o pad, flows) >>
                ELSE CutSets(version,
                         SetBytes(TemplateSetId(version), TemplateBody(template))
                         \o SetBytes(TEMPLATE_ID, data \o pad))
    IN  Message(version, source, unix_secs, version = 9 \/ total < 65536, sets,
                0, <<>>, <<>>)

\* The record count is written "as u16".
EncodeV5(unix_secs, flows) ==
    Message(5, 0, unix_secs, TRUE, <<>>, Len(flows) % 65536,
            WriteRecords(V5Fields, flows), flows)

-----------------------------------------------------------------------------
(* What an exporter keeps to.  A layout is named by the exporter and the     *)
(* template number.                                                          *)

Carries(fields, part) ==
    \E i \in DOMAIN fields : Taken(fields[i]) /\ Sets[fields[i].ty] = part
HasAddresses(fields) == Carries(fields, "src") /\ Carries(fields, "dst")

\* A flow that a layout has room for: no number is too wide for its field, what has
\* no field is zero, and the time is the header's.
Fits(flow, fields, unix_secs) ==
    /\ flow.unix_secs = unix_secs
    /\ \A i \in DOMAIN fields :
           Taken(fields[i]) /\ Sets[fields[i].ty] \notin {"src", "dst"} =>
               Shift(flow[Sets[fields[i].ty]], fields[i].len) = 0
    /\ \A part \in {"src_port", "dst_port", "proto", "tcp_flags", "bytes", "packets"} :
           ~Carries(fields, part) => flow[part] = 0

\* The body holds the records of these flows, and then less than another record.
Written(fields, data, flows, unix_secs) ==
    /\ Len(data) \div RecLen(fields) = Len(flows)
    /\ SubSeq(data, 1, Len(flows) * RecLen(fields)) = WriteRecords(fields, flows)
    /\ \A i \in DOMAIN flows : Fits(flows[i], fields, unix_secs)

\* Each exporter lays the records of a template number out in one way for good,
\* announces that way, and means a flow by each record with both addresses.
KeepsLayouts(datagram, layout) ==
    /\ datagram.version = 5 =>
           Written(V5Fields, datagram.body, datagram.meant, datagram.unix_secs)
    /\ \A m \in DOMAIN datagram.sets :
           LET set == datagram.sets[m]
               fields == layout[<<datagram.source, set.id>>]
           IN  /\ \A d \in DOMAIN set.defs :
                      set.defs[d].fields = layout[<<datagram.source, set.defs[d].id>>]
               /\ set.id >= 256 => fields \in Seq(FieldSpec)
               /\ set.sized =>
                      IF set.id >= 256 /\ HasAddresses(fields)
                      THEN Written(fields, set.data, set.meant, datagram.unix_secs)
                      ELSE set.meant = <<>>
=============================================================================
