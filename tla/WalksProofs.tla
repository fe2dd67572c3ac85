-------------------------- MODULE WalksProofs --------------------------
(***************************************************************************)
(* No parser of rosflowd panics or hangs on a datagram: for every length,  *)
(* every value of the integers in it and every size of the fixed parts.    *)
(***************************************************************************)
EXTENDS Walks, SequenceTheorems, TLAPS

LEMMA Widths == Length \subseteq Nat /\ Byte \subseteq Nat /\ Word \subseteq Nat
                /\ Varint \subseteq Nat /\ Count \subseteq Nat
BY LengthAssumption, WidthAssumption

LEMMA Sizes == AckLen \in Nat \ {0} /\ RandomLen \in Nat /\ MaxHops \in Nat
BY AckAssumption, RandomAssumption, HopsAssumption

\* Where a frame's bytes start, behind its type and two varints, and where they end.
LEMMA FrameBytes ==
  ASSUME NEW p \in Nat, NEW h \in Nat, NEW n \in Nat
  PROVE  p + 1 + h \in Nat /\ p + 1 + h + n \in Nat /\ p + 1 + h <= p + 1 + h + n
OBVIOUS

\* The same interval counted from 0, as the code does, and from 1.
LEMMA FromOne ==
  ASSUME NEW off \in Nat, NEW n \in Nat, NEW k \in Nat
  PROVE  k - 1 \in off .. off + n - 1 <=> k \in off + 1 .. off + n
OBVIOUS

\* What every step of every walk must do.
Good == TypeOK' /\ ReadsInBounds' /\ Below(Measure', Measure)

-----------------------------------------------------------------------------
(* The order of the measures: which component falls *)

LEMMA StageFalls == Stage' < Stage => Below(Measure', Measure)
BY DEF Below, Measure

LEMMA RankFalls == Stage' = Stage /\ Rank' < Rank => Below(Measure', Measure)
BY DEF Below, Measure

LEMMA ItemsFall ==
    Stage' = Stage /\ Rank' = Rank /\ Items' < Items => Below(Measure', Measure)
BY DEF Below, Measure

LEMMA HopsFall ==
    Stage' = Stage /\ Rank' = Rank /\ Items' = Items /\ Hops' < Hops
        => Below(Measure', Measure)
BY DEF Below, Measure

LEMMA BytesFall ==
    Stage' = Stage /\ Rank' = Rank /\ Items' = Items /\ Hops' = Hops /\ Bytes' < Bytes
        => Below(Measure', Measure)
BY DEF Below, Measure

\* A parser's return: the next one's stage is lower.
LEMMA LeaveGood ==
  ASSUME TypeOK, ReadsInBounds, phase \notin Ended, phase \notin FramePhases, Leave
  PROVE  Good
<1> USE DEF TypeOK, Types, Leave
<1>1. /\ phase' \in Parser \cup {"done"} /\ todo' \in Seq(Parser)
      /\ Len(todo') <= 3
      /\ phase' # "done" => Len(todo') < Len(todo)
  <2>1. CASE todo = <<>>
    BY <2>1
  <2>2. CASE todo # <<>>
    <3>1. /\ Head(todo) \in Parser /\ Tail(todo) \in Seq(Parser)
          /\ Len(Tail(todo)) = Len(todo) - 1 /\ Len(todo) \in Nat
      BY <2>2, HeadTailProperties
    <3> QED
      BY <2>2, <3>1
  <2> QED
    BY <2>1, <2>2
<1>2. buf' \in Seq(Nat \cup {Hole})
  OBVIOUS
<1>3. Types'
  BY <1>1, <1>2 DEF Phase, Ended, Returned
<1>4. Nested' /\ NameInMessage'
  BY <1>1 DEF Nested, NameInMessage, Ended, Returned, Parser, NamePhases, Sliced, Unchecked, InSet
<1>5. Stage' < Stage
  <2>1. Len(todo) \in Nat /\ Len(todo') \in Nat
    BY <1>1
  <2>2. Stage = Len(todo) + 1
    BY DEF Stage
  <2>3. CASE phase' = "done"
    BY <2>1, <2>2, <2>3 DEF Stage, Ended, Returned
  <2>4. CASE phase' \in Parser
    BY <1>1, <2>1, <2>2, <2>4 DEF Stage, Ended, Returned, FramePhases, Parser
  <2> QED
    BY <1>1, <2>3, <2>4
<1> QED
  BY <1>1, <1>3, <1>4, <1>5, StageFalls DEF Good, ReadsInBounds

-----------------------------------------------------------------------------
(* decode_sets *)

LEMMA SetsType ==
  ASSUME TypeOK, ReadsInBounds, SetsNext
  PROVE  TypeOK' /\ ReadsInBounds'
<1> USE Widths, Sizes DEF TypeOK, Types, Nested, NameInMessage, ReadsInBounds, Slice,
        Go, locals, names, stream, Phase, Ended, Returned, FramePhases, Parser, NamePhases, InSet,
        HelloPhases, InitialPhases, Sliced, Unchecked
<1>1. CASE EndOfSets
  BY <1>1 DEF EndOfSets
<1>2. ASSUME NEW set_len \in Word, BadSet(set_len) PROVE TypeOK' /\ ReadsInBounds'
  BY <1>2 DEF BadSet, Room
<1>3. ASSUME NEW set_len \in Word, TemplateSet(set_len) PROVE TypeOK' /\ ReadsInBounds'
  BY <1>3 DEF TemplateSet, OpenSet, Sized, Room
<1>4. ASSUME NEW set_len \in Word, NEW n \in Word \ {0}, DataSet(set_len, n)
      PROVE  TypeOK' /\ ReadsInBounds'
  BY <1>4 DEF DataSet, OpenSet, Sized, Room
<1>5. ASSUME NEW set_len \in Word, SkipSet(set_len) PROVE TypeOK' /\ ReadsInBounds'
  BY <1>5 DEF SkipSet, Sized, Room
<1>6. ASSUME NEW field_count \in Word, ReadTemplate(field_count)
      PROVE  TypeOK' /\ ReadsInBounds'
  BY <1>6 DEF ReadTemplate
<1>7. ASSUME NEW field_count \in Word, TruncatedTemplate(field_count)
      PROVE  TypeOK' /\ ReadsInBounds'
  BY <1>7 DEF TruncatedTemplate
<1>8. CASE EndOfTemplates
  BY <1>8 DEF EndOfTemplates, NextSet
<1>9. CASE ReadRecord
  BY <1>9 DEF ReadRecord
<1>10. CASE EndOfRecords
  BY <1>10 DEF EndOfRecords, NextSet
<1> QED
  BY <1>1, <1>2, <1>3, <1>4, <1>5, <1>6, <1>7, <1>8, <1>9, <1>10 DEF SetsNext

LEMMA SetsFalls ==
  ASSUME TypeOK, ReadsInBounds, SetsNext
  PROVE  Below(Measure', Measure)
<1> USE Widths, Sizes DEF TypeOK, Types, Nested, Go, locals, names, stream, Ended, Returned,
        FramePhases, InSet, Parser, HelloPhases, Sliced, Unchecked, Stage, Rank,
        Items, Hops, Bytes, Left
<1>1. CASE EndOfSets
  BY <1>1, StageFalls DEF EndOfSets
<1>2. ASSUME NEW set_len \in Word, BadSet(set_len) PROVE Below(Measure', Measure)
  BY <1>2, StageFalls DEF BadSet, Room
<1>3. ASSUME NEW set_len \in Word, TemplateSet(set_len) PROVE Below(Measure', Measure)
  BY <1>3, BytesFall DEF TemplateSet, OpenSet, Sized, Room
<1>4. ASSUME NEW set_len \in Word, NEW n \in Word \ {0}, DataSet(set_len, n)
      PROVE  Below(Measure', Measure)
  BY <1>4, BytesFall DEF DataSet, OpenSet, Sized, Room
<1>5. ASSUME NEW set_len \in Word, SkipSet(set_len) PROVE Below(Measure', Measure)
  BY <1>5, BytesFall DEF SkipSet, Sized, Room
<1>6. ASSUME NEW field_count \in Word, ReadTemplate(field_count)
      PROVE  Below(Measure', Measure)
  BY <1>6, BytesFall DEF ReadTemplate
<1>7. ASSUME NEW field_count \in Word, TruncatedTemplate(field_count)
      PROVE  Below(Measure', Measure)
  BY <1>7, StageFalls DEF TruncatedTemplate
<1>8. CASE EndOfTemplates
  BY <1>8, BytesFall DEF EndOfTemplates, NextSet
<1>9. CASE ReadRecord
  BY <1>9, BytesFall DEF ReadRecord
<1>10. CASE EndOfRecords
  BY <1>10, BytesFall DEF EndOfRecords, NextSet
<1> QED
  BY <1>1, <1>2, <1>3, <1>4, <1>5, <1>6, <1>7, <1>8, <1>9, <1>10 DEF SetsNext

-----------------------------------------------------------------------------
(* process_tzsp up to the payload *)

\* A payload's parsers wait behind its first: the stage falls below the frame's.
LEMMA PayloadGood ==
  ASSUME TypeOK, ReadsInBounds, phase \in FramePhases, end = len,
         NEW from \in Nat, from <= end,
         NEW parsers \in UdpParsers \cup {<<"hello">>}, OpenPayload(from, parsers)
  PROVE  Good
<1>1. /\ parsers \in Seq(Parser) /\ parsers # <<>>
      /\ Len(parsers) \in Nat /\ Len(parsers) <= 4
  <2>1. CASE parsers = <<"hello">>
    BY <2>1 DEF Parser
  <2>2. CASE parsers = <<"hello", "initial">>
    BY <2>2 DEF Parser
  <2>3. CASE parsers = <<"dhcp", "hello", "initial">>
    BY <2>3 DEF Parser
  <2>4. CASE parsers = <<"dns", "hello", "initial">>
    BY <2>4 DEF Parser
  <2>5. CASE parsers = <<"dhcp", "dns", "hello", "initial">>
    BY <2>5 DEF Parser
  <2> QED
    BY <2>1, <2>2, <2>3, <2>4, <2>5 DEF UdpParsers
<1>2. /\ phase' \in Parser /\ todo' \in Seq(Parser)
      /\ Len(todo') = Len(parsers) - 1
  BY <1>1, HeadTailProperties DEF OpenPayload
<1>3. TypeOK' /\ ReadsInBounds'
  <2> USE Widths, Sizes DEF TypeOK, Types, Nested, NameInMessage, ReadsInBounds, Slice,
          Go, locals, names, stream, Phase, Ended, Returned, FramePhases, Parser, NamePhases, InSet,
          HelloPhases, InitialPhases, Sliced, Unchecked
  <2> QED
    BY <1>1, <1>2 DEF OpenPayload
<1>4. Stage' < Stage
  BY <1>1, <1>2 DEF Stage, Ended, Returned, FramePhases, Parser
<1> QED
  BY <1>3, <1>4, StageFalls DEF Good

LEMMA FrameType ==
  ASSUME TypeOK, ReadsInBounds, FrameNext
  PROVE  TypeOK' /\ ReadsInBounds'
<1> USE Widths, Sizes DEF TypeOK, Types, Nested, NameInMessage, ReadsInBounds, Slice,
        Go, locals, names, stream, Phase, Ended, Returned, FramePhases, Parser, NamePhases, InSet,
        HelloPhases, InitialPhases, Sliced, Unchecked
<1>1. CASE TzspHeader
  BY <1>1 DEF TzspHeader
<1>2. CASE PaddingTag
  BY <1>2 DEF PaddingTag
<1>3. ASSUME NEW n \in Byte, Tag(n) PROVE TypeOK' /\ ReadsInBounds'
  BY <1>3 DEF Tag
<1>4. CASE EndTag
  BY <1>4 DEF EndTag
<1>5. ASSUME NEW header \in {14, 18}, OpenIp(header) PROVE TypeOK' /\ ReadsInBounds'
  BY <1>5 DEF OpenIp
<1>6. ASSUME NEW ihl \in Byte, OpenSegment(ihl) PROVE TypeOK' /\ ReadsInBounds'
  BY <1>6 DEF OpenSegment, WholeHeader
<1>7. ASSUME NEW parsers \in UdpParsers, Udp(parsers) PROVE TypeOK' /\ ReadsInBounds'
  <2>1. pos + 8 \in Nat /\ pos + 8 <= end /\ end = len
    BY <1>7 DEF Udp
  <2> QED
    BY <1>7, <2>1, PayloadGood DEF Udp, Good
<1>8. ASSUME NEW doff \in Byte, Tcp(doff) PROVE TypeOK' /\ ReadsInBounds'
  <2>1. pos + 4 * doff \in Nat /\ pos + 4 * doff <= end /\ end = len
    BY <1>8 DEF Tcp, DataOffset
  <2> QED
    BY <1>8, <2>1, PayloadGood DEF Tcp, Good
<1>9. CASE NoPacket
  BY <1>9 DEF NoPacket
<1> QED
  BY <1>1, <1>2, <1>3, <1>4, <1>5, <1>6, <1>7, <1>8, <1>9 DEF FrameNext

LEMMA FrameFalls ==
  ASSUME TypeOK, ReadsInBounds, FrameNext
  PROVE  Below(Measure', Measure)
<1> USE Widths, Sizes DEF TypeOK, Types, Nested, Go, locals, names, stream, Ended, Returned,
        FramePhases, InSet, Parser, HelloPhases, Sliced, Unchecked, Stage, Rank,
        Items, Hops, Bytes, Left
<1>1. CASE TzspHeader
  BY <1>1, BytesFall DEF TzspHeader
<1>2. CASE PaddingTag
  BY <1>2, BytesFall DEF PaddingTag
<1>3. ASSUME NEW n \in Byte, Tag(n) PROVE Below(Measure', Measure)
  BY <1>3, BytesFall DEF Tag
<1>4. CASE EndTag
  BY <1>4, BytesFall DEF EndTag
<1>5. ASSUME NEW header \in {14, 18}, OpenIp(header) PROVE Below(Measure', Measure)
  BY <1>5, BytesFall DEF OpenIp
<1>6. ASSUME NEW ihl \in Byte, OpenSegment(ihl) PROVE Below(Measure', Measure)
  BY <1>6, BytesFall DEF OpenSegment, WholeHeader
<1>7. ASSUME NEW parsers \in UdpParsers, Udp(parsers) PROVE Below(Measure', Measure)
  <2>1. pos + 8 \in Nat /\ pos + 8 <= end /\ end = len
    BY <1>7 DEF Udp
  <2> QED
    BY <1>7, <2>1, PayloadGood DEF Udp, Good
<1>8. ASSUME NEW doff \in Byte, Tcp(doff) PROVE Below(Measure', Measure)
  <2>1. pos + 4 * doff \in Nat /\ pos + 4 * doff <= end /\ end = len
    BY <1>8 DEF Tcp, DataOffset
  <2> QED
    BY <1>8, <2>1, PayloadGood DEF Tcp, Good
<1>9. CASE NoPacket
  BY <1>9, StageFalls DEF NoPacket
<1> QED
  BY <1>1, <1>2, <1>3, <1>4, <1>5, <1>6, <1>7, <1>8, <1>9 DEF FrameNext

-----------------------------------------------------------------------------
(* parse_ack *)

LEMMA LeaseType ==
  ASSUME TypeOK, ReadsInBounds, LeaseNext
  PROVE  TypeOK' /\ ReadsInBounds'
<1> USE Widths, Sizes DEF TypeOK, Types, Nested, NameInMessage, ReadsInBounds, Slice,
        Go, locals, names, stream, Phase, Ended, Returned, FramePhases, Parser, NamePhases, InSet,
        HelloPhases, InitialPhases, Sliced, Unchecked
<1>1. CASE AckHeader
  BY <1>1 DEF AckHeader
<1>2. CASE NoAck \/ EndOfOptions
  BY <1>2, LeaveGood DEF NoAck, EndOfOptions, Good
<1>3. CASE PadOption
  BY <1>3 DEF PadOption
<1>4. ASSUME NEW n \in Byte, Option(n) PROVE TypeOK' /\ ReadsInBounds'
  BY <1>4 DEF Option
<1> QED
  BY <1>1, <1>2, <1>3, <1>4 DEF LeaseNext

LEMMA LeaseFalls ==
  ASSUME TypeOK, ReadsInBounds, LeaseNext
  PROVE  Below(Measure', Measure)
<1> USE Widths, Sizes DEF TypeOK, Types, Nested, Go, locals, names, stream, Ended, Returned,
        FramePhases, InSet, Parser, HelloPhases, Sliced, Unchecked, Stage, Rank,
        Items, Hops, Bytes, Left
<1>1. CASE AckHeader
  BY <1>1, BytesFall DEF AckHeader
<1>2. CASE NoAck \/ EndOfOptions
  BY <1>2, LeaveGood DEF NoAck, EndOfOptions, Good
<1>3. CASE PadOption
  BY <1>3, BytesFall DEF PadOption
<1>4. ASSUME NEW n \in Byte, Option(n) PROVE Below(Measure', Measure)
  BY <1>4, BytesFall DEF Option
<1> QED
  BY <1>1, <1>2, <1>3, <1>4 DEF LeaseNext

-----------------------------------------------------------------------------
(* a_records and read_name *)

LEMMA AnswerType ==
  ASSUME TypeOK, ReadsInBounds, AnswerNext
  PROVE  TypeOK' /\ ReadsInBounds'
<1> USE Widths, Sizes DEF TypeOK, Types, Nested, NameInMessage, ReadsInBounds, Slice,
        Go, locals, names, stream, Phase, Ended, Returned, FramePhases, Parser, NamePhases, InSet,
        HelloPhases, InitialPhases, Sliced, Unchecked
<1>1. ASSUME NEW qdcount \in Count, NEW ancount \in Count, AnswerHeader(qdcount, ancount)
      PROVE  TypeOK' /\ ReadsInBounds'
  <2>1. Types' /\ Len(todo') <= 3 /\ rec_len' > 0
    BY <1>1 DEF AnswerHeader, CallReadName
  <2>2. Nested' /\ NameInMessage'
    BY <1>1 DEF AnswerHeader, CallReadName
  <2>3. ReadsInBounds'
    BY <1>1 DEF AnswerHeader, CallReadName
  <2> QED
    BY <2>1, <2>2, <2>3
<1>2. CASE NoAnswer \/ BadName
  BY <1>2, LeaveGood DEF NoAnswer, BadName, Good
<1>3. ASSUME NEW n \in Byte, Label(n) PROVE TypeOK' /\ ReadsInBounds'
  BY <1>3 DEF Label, Reading, After
<1>4. ASSUME NEW target \in Word, Pointer(target) PROVE TypeOK' /\ ReadsInBounds'
  BY <1>4 DEF Pointer, Reading, After
<1>5. CASE EndQuestionName
  <2>0. /\ questions' \in Nat /\ answers' = answers /\ read' \in Nat \X Nat \X Nat
        /\ pos' \in Nat /\ after' = pos'
    BY <1>5 DEF EndQuestionName, Reading, After, CallReadName
  <2>1. Types' /\ Len(todo') <= 3 /\ rec_len' > 0
    BY <1>5, <2>0 DEF EndQuestionName, CallReadName
  <2>2. Nested' /\ NameInMessage'
    BY <1>5, <2>0 DEF EndQuestionName, CallReadName, Reading, After
  <2>3. ReadsInBounds'
    BY <1>5, <2>0 DEF EndQuestionName, CallReadName, Reading, After
  <2> QED
    BY <2>1, <2>2, <2>3
<1>6. CASE EndAnswerName
  <2>1. Types' /\ Len(todo') <= 3 /\ rec_len' > 0
    BY <1>6 DEF EndAnswerName, Reading, After
  <2>2. Nested' /\ NameInMessage'
    BY <1>6 DEF EndAnswerName, Reading, After
  <2>3. ReadsInBounds'
    BY <1>6 DEF EndAnswerName, Reading, After
  <2> QED
    BY <2>1, <2>2, <2>3
<1>7. ASSUME NEW rdlen \in Word, NextAnswer(rdlen) PROVE TypeOK' /\ ReadsInBounds'
  <2>0. /\ questions' = questions /\ answers' \in Nat /\ answers' > 0
        /\ read' \in Nat \X Nat \X Nat /\ pos' \in Nat /\ after' = pos'
    BY <1>7 DEF NextAnswer, CallReadName, RecordFits
  <2>1. Types' /\ Len(todo') <= 3 /\ rec_len' > 0
    BY <1>7, <2>0 DEF NextAnswer, CallReadName
  <2>2. Nested' /\ NameInMessage'
    BY <1>7, <2>0 DEF NextAnswer, CallReadName, RecordFits
  <2>3. ReadsInBounds'
    BY <1>7, <2>0 DEF NextAnswer, CallReadName, RecordFits
  <2> QED
    BY <2>1, <2>2, <2>3
<1>8. ASSUME NEW rdlen \in Word, LastAnswer(rdlen) \/ BadAnswer(rdlen)
      PROVE  TypeOK' /\ ReadsInBounds'
  BY <1>8, LeaveGood DEF LastAnswer, BadAnswer, Good
<1> QED
  BY <1>1, <1>2, <1>3, <1>4, <1>5, <1>6, <1>7, <1>8 DEF AnswerNext

LEMMA AnswerFalls ==
  ASSUME TypeOK, ReadsInBounds, AnswerNext
  PROVE  Below(Measure', Measure)
<1> USE Widths, Sizes DEF TypeOK, Types, Nested, Go, locals, names, stream, Ended, Returned,
        FramePhases, InSet, Parser, HelloPhases, Sliced, Unchecked, Stage, Rank,
        Items, Hops, Bytes, Left
<1>1. ASSUME NEW qdcount \in Count, NEW ancount \in Count, AnswerHeader(qdcount, ancount)
      PROVE  Below(Measure', Measure)
  BY <1>1, RankFalls DEF AnswerHeader, CallReadName
<1>2. CASE NoAnswer \/ BadName
  BY <1>2, LeaveGood DEF NoAnswer, BadName, Good
<1>3. ASSUME NEW n \in Byte, Label(n) PROVE Below(Measure', Measure)
  BY <1>3, BytesFall DEF Label, Reading, After
<1>4. ASSUME NEW target \in Word, Pointer(target) PROVE Below(Measure', Measure)
  BY <1>4, HopsFall DEF Pointer, Reading, After
<1>5. CASE EndQuestionName
  BY <1>5, ItemsFall DEF EndQuestionName, CallReadName, Reading, After
<1>6. CASE EndAnswerName
  BY <1>6, ItemsFall DEF EndAnswerName, Reading, After
<1>7. ASSUME NEW rdlen \in Word, NextAnswer(rdlen) PROVE Below(Measure', Measure)
  BY <1>7, ItemsFall DEF NextAnswer, CallReadName, RecordFits
<1>8. ASSUME NEW rdlen \in Word, LastAnswer(rdlen) \/ BadAnswer(rdlen)
      PROVE  Below(Measure', Measure)
  BY <1>8, LeaveGood DEF LastAnswer, BadAnswer, Good
<1> QED
  BY <1>1, <1>2, <1>3, <1>4, <1>5, <1>6, <1>7, <1>8 DEF AnswerNext

-----------------------------------------------------------------------------
(* client_hello_sni and handshake_sni *)

\* Every level of a ClientHello takes at least a byte.
LEMMA HeadSizes ==
  ASSUME NEW p \in HelloPhases
  PROVE  AtLeast[p] \in Nat /\ Fixed[p] \in Nat \ {0}
BY Sizes DEF HelloPhases, AtLeast, Fixed

LEMMA Apart ==
  ASSUME NEW p \in HelloPhases
  PROVE  p \notin Parser \cup FramePhases \cup NamePhases \cup InSet \cup Unchecked
                    \cup {"tzsp", "frames"}
BY DEF HelloPhases, Parser, FramePhases, NamePhases, InSet, Unchecked, Ended, Returned

LEMMA HelloType ==
  ASSUME TypeOK, ReadsInBounds, HelloNext
  PROVE  TypeOK' /\ ReadsInBounds'
<1> USE Widths, Sizes DEF TypeOK, Types, Nested, NameInMessage, ReadsInBounds, Slice,
        Go, locals, names, stream, Phase, Ended, Returned, FramePhases, Parser, NamePhases, InSet,
        InitialPhases, Sliced, Unchecked
<1>1. ASSUME NEW n \in Word, HelloRecord(n) PROVE TypeOK' /\ ReadsInBounds'
  BY <1>1 DEF HelloRecord, HelloPhases
<1>2. CASE NoRecord
  BY <1>2 DEF NoRecord, HelloPhases
<1>3. ASSUME NEW n \in Word, NEW from \in HelloPhases, NEW to \in HelloPhases,
             Enter(from, to, n)
      PROVE  TypeOK' /\ ReadsInBounds'
  <2>0. PICK f \in Nat : f = Fixed[from] /\ f > 0
    BY HeadSizes
  <2>1. f \in Nat /\ f > 0 /\ n \in Nat
    BY <2>0
  <2>2. /\ phase = from /\ phase' = to
        /\ pos' = pos + f /\ end' = pos + f + n
        /\ read' = <<pos + f, pos + f + n, len>>
        /\ pos + f + n <= end
        /\ UNCHANGED <<len, todo, rec_len, names, stream>>
    BY <1>3, <2>0 DEF Enter, Fits
  <2>3. end <= len
    BY <2>2, Apart
  <2>4. pos' \in Nat /\ end' \in Nat /\ pos' <= end' /\ end' <= len
    BY <2>1, <2>2, <2>3
  <2>5. read' \in Nat \X Nat \X Nat /\ ReadsInBounds'
    BY <2>1, <2>2, <2>3
  <2>6. Types' /\ Len(todo') <= 3 /\ rec_len' > 0
    BY <2>2, <2>4, <2>5
  <2>7. Nested' /\ NameInMessage'
    BY <2>2, <2>4, Apart
  <2> QED
    BY <2>5, <2>6, <2>7
<1>4. ASSUME NEW n \in Word, NEW from \in HelloPhases, NEW to \in HelloPhases,
             Skip(from, to, n)
      PROVE  TypeOK' /\ ReadsInBounds'
  <2>0. PICK f \in Nat : f = Fixed[from] /\ f > 0
    BY HeadSizes
  <2>1. f \in Nat /\ f > 0 /\ n \in Nat
    BY <2>0
  <2>2. /\ phase = from /\ phase' = to
        /\ pos' = pos + f + n /\ end' = end
        /\ read' = <<pos + f, pos + f + n, len>>
        /\ pos + f + n <= end
        /\ UNCHANGED <<len, todo, rec_len, names, stream>>
    BY <1>4, <2>0 DEF Skip, Fits
  <2>3. end <= len
    BY <2>2, Apart
  <2>4. pos' \in Nat /\ end' \in Nat /\ pos' <= end' /\ end' <= len
    BY <2>1, <2>2, <2>3
  <2>5. read' \in Nat \X Nat \X Nat /\ ReadsInBounds'
    BY <2>1, <2>2, <2>3
  <2>6. Types' /\ Len(todo') <= 3 /\ rec_len' > 0
    BY <2>2, <2>4, <2>5
  <2>7. Nested' /\ NameInMessage'
    BY <2>2, <2>4, Apart
  <2> QED
    BY <2>5, <2>6, <2>7
<1>5. ASSUME NEW n \in Word, HostName(n) PROVE TypeOK' /\ ReadsInBounds'
  <2>1. AtLeast["host"] = 3 /\ Fixed["host"] = 3
    BY DEF AtLeast, Fixed
  <2> QED
    BY <1>5, <2>1 DEF HostName, Fits, HelloPhases
<1>6. ASSUME NEW n \in Word, BadRecord(n) \/ NoHello(n) PROVE TypeOK' /\ ReadsInBounds'
  BY <1>6, LeaveGood DEF BadRecord, NoHello, HelloPhases, Good
<1> QED
  BY <1>1, <1>2, <1>3, <1>4, <1>5, <1>6 DEF HelloNext, Hello, HelloPhases

LEMMA HelloFalls ==
  ASSUME TypeOK, ReadsInBounds, HelloNext
  PROVE  Below(Measure', Measure)
<1> USE Widths, Sizes DEF TypeOK, Types, Nested, Go, locals, names, stream, Ended, Returned,
        FramePhases, InSet, Parser, Sliced, Unchecked, Stage, Rank,
        Items, Hops, Bytes, Left
<1>1. ASSUME NEW n \in Word, HelloRecord(n) PROVE Below(Measure', Measure)
  BY <1>1, RankFalls DEF HelloRecord, HelloPhases
<1>2. CASE NoRecord
  BY <1>2, RankFalls DEF NoRecord, HelloPhases
<1>3. ASSUME NEW n \in Word, NEW from \in HelloPhases, NEW to \in HelloPhases,
             Enter(from, to, n)
      PROVE  Below(Measure', Measure)
  <2>0. PICK f \in Nat : f = Fixed[from] /\ f > 0
    BY HeadSizes
  <2>1. f \in Nat /\ f > 0 /\ n \in Nat
    BY <2>0
  <2>2. /\ phase = from /\ phase' = to /\ len' = len /\ end <= len
        /\ pos' = pos + f /\ pos + f + n <= end
    BY <1>3, <2>0, Apart DEF Enter, Fits
  <2>3. Stage' = Stage /\ Rank' = Rank /\ Items' = Items /\ Hops' = Hops
    BY <1>3, <2>2, Apart DEF Enter
  <2>4. Bytes' < Bytes
    BY <2>1, <2>2, Apart
  <2> QED
    BY <2>3, <2>4, BytesFall
<1>4. ASSUME NEW n \in Word, NEW from \in HelloPhases, NEW to \in HelloPhases,
             Skip(from, to, n)
      PROVE  Below(Measure', Measure)
  <2>0. PICK f \in Nat : f = Fixed[from] /\ f > 0
    BY HeadSizes
  <2>1. f \in Nat /\ f > 0 /\ n \in Nat
    BY <2>0
  <2>2. /\ phase = from /\ phase' = to /\ len' = len /\ end <= len
        /\ pos' = pos + f + n /\ pos + f + n <= end
    BY <1>4, <2>0, Apart DEF Skip, Fits
  <2>3. Stage' = Stage /\ Rank' = Rank /\ Items' = Items /\ Hops' = Hops
    BY <1>4, <2>2, Apart DEF Skip
  <2>4. Bytes' < Bytes
    BY <2>1, <2>2, Apart
  <2> QED
    BY <2>3, <2>4, BytesFall
<1>5. ASSUME NEW n \in Word, HostName(n) PROVE Below(Measure', Measure)
  BY <1>5, StageFalls DEF HostName, Fits, HelloPhases
<1>6. ASSUME NEW n \in Word, BadRecord(n) \/ NoHello(n) PROVE Below(Measure', Measure)
  BY <1>6, LeaveGood DEF BadRecord, NoHello, HelloPhases, Good
<1> QED
  BY <1>1, <1>2, <1>3, <1>4, <1>5, <1>6 DEF HelloNext, Hello, HelloPhases

-----------------------------------------------------------------------------
(* decrypt_client_initial and crypto_stream *)

LEMMA CopiedType ==
  ASSUME NEW off \in Nat, NEW n \in Nat, buf \in Seq(Nat \cup {Hole})
  PROVE  /\ Copied(off, n) \in Seq(Nat \cup {Hole})
         /\ Len(Copied(off, n)) = Larger(off + n, Len(buf))
<1>1. Larger(off + n, Len(buf)) \in Nat
  BY DEF Larger
<1>2. \A k \in 1 .. Larger(off + n, Len(buf)) :
        (IF k \in off + 1 .. off + n THEN k - 1
         ELSE IF k <= Len(buf) THEN buf[k] ELSE Hole) \in Nat \cup {Hole}
  OBVIOUS
<1> QED
  BY <1>1, <1>2 DEF Copied

LEMMA InitialType ==
  ASSUME TypeOK, ReadsInBounds, InitialNext
  PROVE  TypeOK' /\ ReadsInBounds'
<1> USE Widths, Sizes DEF TypeOK, Types, Nested, NameInMessage, ReadsInBounds, Slice,
        Go, locals, names, stream, Phase, Ended, Returned, FramePhases, Parser, NamePhases, InSet,
        HelloPhases, InitialPhases, Sliced, Unchecked
<1>1. ASSUME NEW dcid_len \in Byte, NEW scid_len \in Byte, InitialIds(dcid_len, scid_len)
      PROVE  TypeOK' /\ ReadsInBounds'
  BY <1>1 DEF InitialIds
<1>2. ASSUME NEW n \in VarintLen, NEW v \in Varint, InitialToken(n, v)
      PROVE  TypeOK' /\ ReadsInBounds'
  BY <1>2 DEF InitialToken, VarintLen
<1>3. ASSUME NEW n \in VarintLen, NEW v \in Varint, InitialLength(n, v)
      PROVE  TypeOK' /\ ReadsInBounds'
  BY <1>3 DEF InitialLength, VarintLen
<1>4. ASSUME NEW pn_len \in Byte, DecryptFrames(pn_len) PROVE TypeOK' /\ ReadsInBounds'
  BY <1>4 DEF DecryptFrames, Covered
<1>5. CASE NoInitial \/ NoStream
  BY <1>5, LeaveGood DEF NoInitial, NoStream, Good
<1>6. CASE PaddingFrame
  BY <1>6 DEF PaddingFrame
<1>7. ASSUME NEW k \in VarintLen, NEW m \in VarintLen,
             NEW off \in Varint, NEW n \in Varint, CryptoFrame(k + m, off, n)
      PROVE  TypeOK' /\ ReadsInBounds'
  <2>1. off \in Nat /\ n \in Nat /\ k + m \in Nat
    BY DEF VarintLen
  <2>2. buf' \in Seq(Nat \cup {Hole}) /\ Len(buf') = Larger(off + n, Len(buf))
    BY <1>7, <2>1, CopiedType DEF CryptoFrame
  <2>3. max' \in Nat /\ max' <= Len(buf')
    <3>1. max <= Len(buf) /\ Len(buf) \in Nat /\ max' = Larger(max, off + n)
      BY <1>7 DEF CryptoFrame
    <3> QED
      BY <2>1, <2>2, <3>1 DEF Larger
  <2>4. brought' \subseteq Nat
    BY <1>7, <2>1 DEF CryptoFrame
  <2>5. /\ pos' = pos + 1 + (k + m) + n /\ pos' \in Nat /\ pos' <= len
        /\ read' = <<pos + 1 + (k + m), pos', len>> /\ pos + 1 + (k + m) <= pos'
        /\ phase = "frames" /\ phase' = "frames"
        /\ UNCHANGED <<len, end, todo, rec_len, names>>
    <3>1. /\ phase = "frames" /\ pos + 1 + (k + m) + n <= len
          /\ read' = <<pos + 1 + (k + m), pos + 1 + (k + m) + n, len>>
          /\ phase' = "frames" /\ pos' = pos + 1 + (k + m) + n
          /\ UNCHANGED <<len, end, todo, rec_len, names>>
      BY <1>7 DEF CryptoFrame
    <3>2. pos \in Nat /\ len \in Nat
      OBVIOUS
    <3>3. /\ pos + 1 + (k + m) \in Nat /\ pos + 1 + (k + m) + n \in Nat
          /\ pos + 1 + (k + m) <= pos + 1 + (k + m) + n
      BY ONLY <2>1, <3>2, FrameBytes
    <3> QED
      BY ONLY <3>1, <3>3, Zenon
  <2>6. read' \in Nat \X Nat \X Nat
    <3>1. pos \in Nat /\ len \in Nat
      OBVIOUS
    <3>2. pos + 1 + (k + m) \in Nat
      BY ONLY <2>1, <3>1, FrameBytes
    <3> QED
      BY ONLY <2>5, <3>1, <3>2
  <2>7. Types' /\ Len(todo') <= 3 /\ rec_len' > 0
    BY <2>2, <2>3, <2>4, <2>5, <2>6
  <2> QED
    BY <2>3, <2>5, <2>7
<1>8. CASE StreamEnds
  BY <1>8 DEF StreamEnds
<1>9. ASSUME NEW k \in VarintLen, NEW m \in VarintLen,
             NEW off \in Varint, NEW n \in Varint, CryptoNoMemory(k + m, off, n)
      PROVE  TypeOK' /\ ReadsInBounds'
  <2>1. /\ phase = "frames" /\ phase' = "aborted" /\ pos + 1 + (k + m) + n <= len
        /\ read' = <<pos + 1 + (k + m), pos + 1 + (k + m) + n, len>>
        /\ UNCHANGED <<len, pos, end, todo, rec_len, names, stream>>
    BY <1>9 DEF CryptoNoMemory
  <2>2. n \in Nat /\ k + m \in Nat /\ pos \in Nat /\ len \in Nat
    BY DEF VarintLen
  <2>3. /\ pos + 1 + (k + m) \in Nat /\ pos + 1 + (k + m) + n \in Nat
        /\ pos + 1 + (k + m) <= pos + 1 + (k + m) + n
    BY <2>2
  <2>4. read' \in Nat \X Nat \X Nat
    BY <2>1, <2>2, <2>3
  <2>5. Types' /\ Len(todo') <= 3 /\ rec_len' > 0
    BY <2>1, <2>4
  <2> QED
    BY <2>1, <2>3, <2>5
<1> QED
  BY <1>1, <1>2, <1>3, <1>4, <1>5, <1>6, <1>7, <1>8, <1>9 DEF InitialNext

LEMMA InitialFalls ==
  ASSUME TypeOK, ReadsInBounds, InitialNext
  PROVE  Below(Measure', Measure)
<1> USE Widths, Sizes DEF TypeOK, Types, Nested, Go, locals, names, stream, Ended, Returned,
        FramePhases, InSet, Parser, HelloPhases, Sliced, Unchecked, Stage, Rank,
        Items, Hops, Bytes, Left
<1>1. ASSUME NEW dcid_len \in Byte, NEW scid_len \in Byte, InitialIds(dcid_len, scid_len)
      PROVE  Below(Measure', Measure)
  BY <1>1, BytesFall DEF InitialIds
<1>2. ASSUME NEW n \in VarintLen, NEW v \in Varint, InitialToken(n, v)
      PROVE  Below(Measure', Measure)
  BY <1>2, BytesFall DEF InitialToken, VarintLen
<1>3. ASSUME NEW n \in VarintLen, NEW v \in Varint, InitialLength(n, v)
      PROVE  Below(Measure', Measure)
  BY <1>3, BytesFall DEF InitialLength, VarintLen
<1>4. ASSUME NEW pn_len \in Byte, DecryptFrames(pn_len) PROVE Below(Measure', Measure)
  BY <1>4, RankFalls DEF DecryptFrames, Covered
<1>5. CASE NoInitial \/ NoStream
  BY <1>5, LeaveGood DEF NoInitial, NoStream, Good
<1>6. CASE PaddingFrame
  BY <1>6, BytesFall DEF PaddingFrame
<1>7. ASSUME NEW k \in VarintLen, NEW m \in VarintLen,
             NEW off \in Varint, NEW n \in Varint, CryptoFrame(k + m, off, n)
      PROVE  Below(Measure', Measure)
  BY <1>7, BytesFall DEF CryptoFrame, VarintLen
<1>8. CASE StreamEnds
  BY <1>8, RankFalls DEF StreamEnds
<1>9. ASSUME NEW k \in VarintLen, NEW m \in VarintLen,
             NEW off \in Varint, NEW n \in Varint, CryptoNoMemory(k + m, off, n)
      PROVE  Below(Measure', Measure)
  <2>1. phase = "frames" /\ phase' = "aborted"
    BY <1>9 DEF CryptoNoMemory
  <2>2. Stage' = 0 /\ Stage = Len(todo) + 1 /\ Len(todo) \in Nat
    BY <2>1
  <2> QED
    BY <2>2 DEF Below, Measure
<1> QED
  BY <1>1, <1>2, <1>3, <1>4, <1>5, <1>6, <1>7, <1>8, <1>9 DEF InitialNext

-----------------------------------------------------------------------------
(* The whole datagram *)

LEMMA InitType == Init => TypeOK /\ ReadsInBounds
<1> SUFFICES ASSUME Init PROVE TypeOK /\ ReadsInBounds
  OBVIOUS
<1>1. CASE SetsInit
  <2>1. PICK header \in {16, 20} : Start("sets", header) /\ len >= header
    BY <1>1 DEF SetsInit, HeaderLen
  <2>2. len \in Nat
    BY <2>1, LengthAssumption DEF Start
  <2>3. Types /\ Len(todo) <= 3 /\ rec_len > 0
    <3>1. buf \in Seq(Nat \cup {Hole}) /\ todo \in Seq(Parser) /\ Len(todo) = 0
      BY <2>1 DEF Start
    <3>2. read \in Nat \X Nat \X Nat /\ brought \subseteq Nat
      BY <2>1, <2>2 DEF Start
    <3>3. phase \in Phase
      BY <2>1 DEF Start, Phase
    <3>4. jumped \in BOOLEAN
      BY <2>1 DEF Start
    <3>5. /\ pos \in Nat /\ end \in Nat /\ rec_len = 1 /\ max = 0
          /\ questions = 0 /\ answers = 0 /\ hops = 0 /\ after = 0
      BY <2>1, <2>2 DEF Start
    <3> QED
      BY <2>2, <3>1, <3>2, <3>3, <3>4, <3>5 DEF Types
  <2>4. Nested /\ NameInMessage
    BY <2>1, <2>2 DEF Start, Nested, NameInMessage, Parser, NamePhases, InSet
  <2> QED
    BY <2>1, <2>2, <2>3, <2>4 DEF Start, TypeOK, ReadsInBounds
<1>2. CASE FrameInit
  <2>1. Start("tzsp", 0) /\ len \in Nat
    BY <1>2, LengthAssumption DEF FrameInit, Start
  <2>2. Types /\ Len(todo) <= 3 /\ rec_len > 0
    <3>1. buf \in Seq(Nat \cup {Hole}) /\ todo \in Seq(Parser) /\ Len(todo) = 0
      BY <2>1 DEF Start
    <3>2. read \in Nat \X Nat \X Nat /\ brought \subseteq Nat
      BY <2>1 DEF Start
    <3>3. phase \in Phase
      BY <2>1 DEF Start, Phase, FramePhases
    <3>4. jumped \in BOOLEAN
      BY <2>1 DEF Start
    <3>5. /\ pos \in Nat /\ end \in Nat /\ rec_len = 1 /\ max = 0
          /\ questions = 0 /\ answers = 0 /\ hops = 0 /\ after = 0
      BY <2>1 DEF Start
    <3> QED
      BY <2>1, <3>1, <3>2, <3>3, <3>4, <3>5 DEF Types
  <2>3. Nested /\ NameInMessage
    BY <2>1 DEF Start, Nested, NameInMessage, NamePhases, InSet
  <2> QED
    BY <2>1, <2>2, <2>3 DEF Start, TypeOK, ReadsInBounds
<1> QED
  BY <1>1, <1>2 DEF Init

LEMMA NextType ==
  TypeOK /\ ReadsInBounds /\ [Next]_vars => TypeOK' /\ ReadsInBounds'
<1> SUFFICES ASSUME TypeOK, ReadsInBounds, [Next]_vars
             PROVE  TypeOK' /\ ReadsInBounds'
  OBVIOUS
<1>1. CASE UNCHANGED vars
  BY <1>1 DEF vars, locals, names, stream, TypeOK, Types, Nested, NameInMessage,
     ReadsInBounds
<1>2. CASE Next
  BY <1>2, SetsType, FrameType, LeaseType, AnswerType, HelloType, InitialType DEF Next
<1> QED
  BY <1>1, <1>2

\* Wherever the lengths and pointers of a datagram lead, the walk stays inside its
\* slice and the slice inside the buffer.
THEOREM PositionsNest == Spec => []TypeOK
BY InitType, NextType, PTL DEF Spec

\* No length, count, offset or pointer in a datagram makes a parser slice outside of
\* its buffer.
THEOREM NoPanic == Spec => []ReadsInBounds
BY InitType, NextType, PTL DEF Spec

\* Every step of every parser consumes: a tuple of naturals falls with each, so all
\* the loops end on every datagram.
THEOREM WalksAdvance == Spec => AlwaysAdvances
<1>1. TypeOK /\ ReadsInBounds /\ Next => Below(Measure', Measure)
  BY SetsFalls, FrameFalls, LeaseFalls, AnswerFalls, HelloFalls, InitialFalls DEF Next
<1>2. TypeOK /\ ReadsInBounds /\ [Next]_vars => [Below(Measure', Measure)]_vars
  BY <1>1
<1> QED
  BY <1>2, InitType, NextType, PTL DEF Spec, AlwaysAdvances

\* The measure is a tuple of naturals, so it cannot fall forever.
THEOREM MeasureIsNatural == TypeOK => Measure \in Nat \X Nat \X Nat \X Nat \X Nat
<1> SUFFICES ASSUME TypeOK PROVE Measure \in Nat \X Nat \X Nat \X Nat \X Nat
  OBVIOUS
<1> USE DEF TypeOK, Types
<1>1. Stage \in Nat
  BY DEF Stage
<1>2. Rank \in Nat /\ Items \in Nat
  BY DEF Rank, Items
<1>3. Hops \in Nat
  BY Sizes DEF Hops, NameInMessage
<1>4. Bytes \in Nat
  BY DEF Bytes, Left
<1> QED
  BY <1>1, <1>2, <1>3, <1>4 DEF Measure

-----------------------------------------------------------------------------
(* a_records *)

\* The records of a DNS message are read one behind the other.
LEMMA NextMovesOn ==
  ASSUME TypeOK, Next, phase \in NamePhases, phase' \in NamePhases
  PROVE  MovesOn
<1> USE Widths DEF TypeOK, Types, NameInMessage, NamePhases, MovesOn, Go, Slice, After
<1>1. ASSUME NEW n \in Byte, Label(n) PROVE MovesOn
  BY <1>1 DEF Label, Reading
<1>2. ASSUME NEW target \in Word, Pointer(target) PROVE MovesOn
  BY <1>2 DEF Pointer, Reading
<1>3. CASE EndQuestionName
  BY <1>3 DEF EndQuestionName, CallReadName, Reading
<1>4. CASE EndAnswerName
  BY <1>4 DEF EndAnswerName, Reading
<1>5. ASSUME NEW rdlen \in Word, NextAnswer(rdlen) PROVE MovesOn
  BY <1>5 DEF NextAnswer, CallReadName, RecordFits
<1>6. ~Leave
  <2>1. SUFFICES ASSUME Leave PROVE FALSE
    OBVIOUS
  <2>2. todo # <<>> => Head(todo) \in Parser
    BY HeadTailProperties
  <2> QED
    BY <2>1, <2>2 DEF Leave, Parser
<1>7. ~SetsNext /\ ~FrameNext /\ ~LeaseNext /\ ~HelloNext /\ ~InitialNext
  <2>1. ~SetsNext /\ ~LeaseNext
    BY DEF SetsNext, EndOfSets, BadSet, TemplateSet, DataSet, OpenSet, SkipSet,
       ReadTemplate, TruncatedTemplate, EndOfTemplates, ReadRecord, EndOfRecords,
       LeaseNext, AckHeader, NoAck, PadOption, Option, EndOfOptions
  <2>2. ~FrameNext
    BY DEF FrameNext, TzspHeader, PaddingTag, Tag, EndTag, OpenIp, OpenSegment, Udp,
       Tcp, NoPacket
  <2>3. ~HelloNext
    BY DEF HelloNext, HelloRecord, BadRecord, Hello, Enter, Skip, HostName, NoHello,
       NoRecord, HelloPhases
  <2>4. ~InitialNext
    BY DEF InitialNext, InitialIds, InitialToken, InitialLength, DecryptFrames,
       NoInitial, PaddingFrame, CryptoFrame, CryptoNoMemory, StreamEnds, NoStream
  <2> QED
    BY <2>1, <2>2, <2>3, <2>4
<1>8. CASE AnswerNext
  BY <1>1, <1>2, <1>3, <1>4, <1>5, <1>6, <1>8
     DEF AnswerNext, AnswerHeader, NoAnswer, BadName, LastAnswer, BadAnswer
<1> QED
  BY <1>7, <1>8 DEF Next

\* Pointers never take a_records back: its records lie one behind the other.
THEOREM RecordsInOrder == Spec => RecordsFollowEachOther
<1>1. TypeOK /\ [Next]_vars
        => [{phase, phase'} \subseteq NamePhases => MovesOn]_vars
  BY NextMovesOn
<1> QED
  BY <1>1, PositionsNest, PTL DEF Spec, RecordsFollowEachOther

-----------------------------------------------------------------------------
(* crypto_stream *)

LEMMA CryptoFrameKeeps ==
  ASSUME TypeOK, StreamIsWhatCame,
         NEW m, NEW off \in Nat, NEW n \in Nat, CryptoFrame(m, off, n)
  PROVE  StreamIsWhatCame'
<1> USE DEF StreamIsWhatCame, TypeOK, Types
<1>1. ASSUME NEW k \in brought' PROVE k < max'
  BY <1>1 DEF CryptoFrame, Larger
<1>2. ASSUME NEW k \in DOMAIN buf'
      PROVE  buf'[k] = IF k - 1 \in brought' THEN k - 1 ELSE Hole
  <2>1. k \in Nat \ {0} /\ k <= Larger(off + n, Len(buf))
    BY <1>2 DEF CryptoFrame, Copied, Larger
  <2>2. buf'[k] = IF k \in off + 1 .. off + n THEN k - 1
                  ELSE IF k <= Len(buf) THEN buf[k] ELSE Hole
    BY <1>2, <2>1 DEF CryptoFrame, Copied
  <2>3. k - 1 \in brought' <=> k \in off + 1 .. off + n \/ k - 1 \in brought
    <3>1. brought' = brought \cup (off .. off + n - 1)
      BY DEF CryptoFrame
    <3>2. k - 1 \in off .. off + n - 1 <=> k \in off + 1 .. off + n
      BY ONLY <2>1, off \in Nat, n \in Nat, FromOne
    <3> QED
      BY <3>1, <3>2
  <2>4. CASE k \in off + 1 .. off + n
    BY <2>2, <2>3, <2>4
  <2>5. CASE k \notin off + 1 .. off + n /\ k <= Len(buf)
    BY <2>1, <2>2, <2>3, <2>5
  <2>6. CASE k \notin off + 1 .. off + n /\ ~(k <= Len(buf))
    <3>1. k - 1 \notin brought
      BY <2>1, <2>6 DEF CryptoFrame, Nested
    <3> QED
      BY <2>2, <2>3, <2>6, <3>1
  <2> QED
    BY <2>4, <2>5, <2>6
<1> QED
  BY <1>1, <1>2

LEMMA NextStream ==
  TypeOK /\ StreamIsWhatCame /\ [Next]_vars => StreamIsWhatCame'
<1> SUFFICES ASSUME TypeOK, StreamIsWhatCame, [Next]_vars PROVE StreamIsWhatCame'
  OBVIOUS
<1>1. CASE UNCHANGED stream
  BY <1>1 DEF stream, StreamIsWhatCame
<1>2. CASE Leave
  BY <1>2 DEF Leave, StreamIsWhatCame
<1>3. ASSUME NEW pn_len \in Byte, DecryptFrames(pn_len) PROVE StreamIsWhatCame'
  BY <1>3, Widths DEF DecryptFrames, Covered, StreamIsWhatCame, TypeOK, Types
<1>4. ASSUME NEW m, NEW off \in Varint, NEW n \in Varint, CryptoFrame(m, off, n)
      PROVE  StreamIsWhatCame'
  BY <1>4, Widths, CryptoFrameKeeps
<1>5. CASE StreamEnds
  <2>1. max \in Nat /\ max <= Len(buf) /\ buf \in Seq(Nat \cup {Hole})
    BY <1>5 DEF StreamEnds, TypeOK, Types, Nested
  <2>2. /\ DOMAIN buf' = 1 .. max /\ 1 .. max \subseteq DOMAIN buf
        /\ \A k \in 1 .. max : buf'[k] = buf[k]
    BY <1>5, <2>1 DEF StreamEnds
  <2> QED
    BY <1>5, <2>2 DEF StreamEnds, StreamIsWhatCame
<1>6. SetsNext \/ FrameNext \/ HelloNext => UNCHANGED stream \/ Leave
  BY DEF locals, SetsNext, EndOfSets, BadSet, TemplateSet, DataSet, OpenSet, SkipSet,
     ReadTemplate, TruncatedTemplate, EndOfTemplates, ReadRecord, EndOfRecords, NextSet,
     FrameNext, TzspHeader, PaddingTag, Tag, EndTag, OpenIp, OpenSegment, Udp, Tcp,
     OpenPayload, NoPacket, HelloNext, HelloRecord, BadRecord, Hello, Enter, Skip,
     HostName, NoHello, NoRecord
<1>7. LeaseNext \/ AnswerNext => UNCHANGED stream \/ Leave
  BY DEF locals, LeaseNext, AckHeader, NoAck, PadOption, Option, EndOfOptions, AnswerNext,
     AnswerHeader, CallReadName, NoAnswer, Label, Pointer, EndQuestionName,
     EndAnswerName, BadName, NextAnswer, LastAnswer, BadAnswer
<1>8. CASE InitialNext
  BY <1>1, <1>2, <1>3, <1>4, <1>5, <1>8
     DEF InitialNext, locals, InitialIds, InitialToken, InitialLength, NoInitial,
         PaddingFrame, CryptoNoMemory, NoStream
<1>9. UNCHANGED vars => UNCHANGED stream
  BY DEF vars, locals
<1> QED
  BY <1>1, <1>2, <1>6, <1>7, <1>8, <1>9 DEF Next

\* However the client cuts, orders, repeats or overlaps its CRYPTO frames, every byte
\* that crypto_stream hands on is the one of its place, or a zero where none came.
THEOREM StreamInPlace == Spec => []StreamIsWhatCame
<1>1. Init => StreamIsWhatCame
  BY DEF Init, SetsInit, FrameInit, Start, StreamIsWhatCame
<1> QED
  BY <1>1, NextStream, PositionsNest, PTL DEF Spec
=============================================================================
