--------------------------- MODULE MCDecoder ---------------------------
(***************************************************************************)
(* Exporters for TLC: one that speaks v9 and one that speaks IPFIX, which  *)
(* number their templates alike and lay them out differently (each keeps   *)
(* to one layout per number); one that is the encoder of the source; and   *)
(* one that speaks v5.                                                     *)
(***************************************************************************)
EXTENDS Encoder

\* Without ports; and with, in an order of its own, a field nobody knows between.
LayoutA == <<F(IPV4_SRC_ADDR, 4), F(IPV4_DST_ADDR, 4), F(IN_BYTES, 2), F(IN_PKTS, 1)>>
LayoutB == <<F(OUT_PKTS, 2), F(99, 1), F(IPV4_DST_ADDR, 4), F(L4_DST_PORT, 2),
             F(TCP_FLAGS, 1), F(OUT_BYTES, 2), F(PROTOCOL, 1), F(L4_SRC_PORT, 2),
             F(IPV4_SRC_ADDR, 4)>>
NoSource == <<F(IPV4_DST_ADDR, 4), F(IN_BYTES, 2)>>

\* A flow with the number n, sent at a time; in its bare form without an L4 part.
FlowOf(n, unix_secs, src_port, dst_port, proto, tcp_flags) ==
    [src |-> <<10, 0, 0, n>>, dst |-> <<1, 1, 1, n>>, src_port |-> src_port,
     dst_port |-> dst_port, proto |-> proto, tcp_flags |-> tcp_flags,
     bytes |-> 300 * n, packets |-> n, unix_secs |-> unix_secs]
Flow(n, unix_secs) == FlowOf(n, unix_secs, 50000 + n, 443, 6, 24)
Bare(n, unix_secs) == FlowOf(n, unix_secs, 0, 0, 0, 0)

Set(id, data, meant) == DataSet(id, data, meant)
Data(id, layout, flows, padding) ==
    DataSet(id, WriteRecords(layout, flows) \o padding, flows)
Def(id, fields) == [id |-> id, fields |-> fields]
Unsized(id) == Section(id, FALSE, FALSE, <<>>, <<>>, <<>>)
CutShort(defs) == Section(0, TRUE, TRUE, defs, <<>>, <<>>)

\* The exporters' clocks differ: an exporter's time is its number.
Msg(version, source, sets) ==
    Message(version, source, source, TRUE, sets, 0, <<>>, <<>>)
Headless(version, source, sets) ==
    Message(version, source, source, FALSE, sets, 0, <<>>, <<>>)
V5(count, flows) ==
    Message(5, 0, 5, TRUE, <<>>, count, WriteRecords(V5Fields, flows), flows)

a1 == Bare(1, 1)
a2 == Bare(2, 1)
b1 == Flow(1, 2)
v5flows == <<Flow(1, 5), Flow(2, 5)>>

MCDatagram ==
    << \* template, data, padding; data alone
      Msg(9, 1, <<TemplateSet(9, <<Def(256, LayoutA)>>),
                  Data(256, LayoutA, <<a1, a2>>, <<0, 0>>)>>),
      Msg(9, 1, <<Data(256, LayoutA, <<a2>>, <<0>>)>>),
      \* the data before its template
      Msg(9, 1, <<Data(256, LayoutA, <<a1>>, <<>>),
                  TemplateSet(9, <<Def(256, LayoutA)>>)>>),
      \* a template, then something broken
      Msg(9, 1, <<TemplateSet(9, <<Def(257, LayoutB)>>), Unsized(257)>>),
      Msg(9, 1, <<CutShort(<<Def(258, NoSource)>>),
                  TemplateSet(9, <<Def(256, LayoutA)>>)>>),
      Msg(9, 1, <<Data(257, LayoutB, <<Flow(2, 1)>>, <<>>),
                  Data(256, LayoutA, <<a1>>, <<>>)>>),
      Msg(9, 1, <<Set(258, WriteRecords(NoSource, <<a1>>), <<>>)>>),
      \* templates that are not cached, and sets that are skipped
      Msg(9, 1, <<TemplateSet(9, <<Def(259, <<>>), Def(255, LayoutA)>>)>>),
      Msg(9, 1, <<Set(1, <<>>, <<>>), TemplateSet(10, <<>>)>>),
      \* the other exporter
      Msg(10, 2, <<TemplateSet(10, <<Def(256, LayoutB), Def(257, LayoutA)>>),
                   Data(257, LayoutA, <<Bare(2, 2)>>, <<0, 0, 0>>)>>),
      Msg(10, 2, <<Data(256, LayoutB, <<b1>>, <<>>)>>),
      Headless(10, 2, <<Data(256, LayoutB, <<b1>>, <<>>)>>),
      \* the encoder's own, in both versions
      Encode(9, 3, 3, <<Flow(1, 3), Flow(2, 3)>>),
      Encode(10, 4, 3, <<Flow(2, 4)>>),
      \* v5: whole, with a trailer, truncated; and a version nobody speaks
      EncodeV5(5, v5flows), V5(1, v5flows), V5(3, v5flows),
      Msg(8, 0, <<>>) >>

\* The layouts of these exporters, which keep to them.
MCLayout ==
    <<1, 255>> :> LayoutA @@ <<1, 256>> :> LayoutA @@ <<1, 257>> :> LayoutB @@
    <<1, 258>> :> NoSource @@ <<1, 259>> :> <<>> @@
    <<2, 256>> :> LayoutB @@ <<2, 257>> :> LayoutA @@
    <<3, TEMPLATE_ID>> :> EXPORT_FIELDS
ASSUME LayoutsKept ==
    \A n \in DOMAIN Datagram : KeepsLayouts(Datagram[n], MCLayout)

\* The sets that Encode names are those decode_sets cuts its bytes into.
Unmeant(set) == [set EXCEPT !.meant = <<>>]
ASSUME BytesAreCut ==
    \A version \in {9, 10}, n \in 0 .. 3 :
        LET sets == Encode(version, 3, 3, [i \in 1 .. n |-> Flow(i, 3)]).sets
            template == SetBytes(TemplateSetId(version),
                                 TemplateBody(sets[1].defs[1]))
        IN  CutSets(version, template \o SetBytes(TEMPLATE_ID, sets[2].data))
                = <<Unmeant(sets[1]), Unmeant(sets[2])>>
=============================================================================
