-------------------------- MODULE DecoderProofs --------------------------
(***************************************************************************)
(* Machine-checked properties of the decoder, for every cache, every       *)
(* datagram and every width of a counter.  A record, a body and a datagram *)
(* are folds over sequences: each is given a table of its intermediate     *)
(* results, and what the code does at every step is read off the table.    *)
(* The types and the cache come first; then what an exporter writes is     *)
(* shown to be read back, and from both follows what decode returns.       *)
(***************************************************************************)
EXTENDS Encoder, FiniteSetTheorems, SequenceTheorems, TLAPS

-----------------------------------------------------------------------------
(* Folds as tables over their indices *)

\* The element FoldLeft takes first: the highest index.
Largest(S) == Max(S)

\* A set of indices has a largest element, and that is what Largest names.
LEMMA LargestPicks ==
    ASSUME NEW n \in Nat
    PROVE  \A T \in SUBSET (1 .. n) :
               T # {} => Largest(T) \in T /\ \A i \in T : Largest(T) >= i
<1> SUFFICES ASSUME NEW T \in SUBSET (1 .. n), T # {}
             PROVE  Largest(T) \in T /\ \A i \in T : Largest(T) >= i
  OBVIOUS
<1> DEFINE Up == {n - x : x \in T}
<1>1. \A x \in T : x \in Int /\ x <= n
  OBVIOUS
<1>2. Up # {} /\ Up \subseteq Nat
  <2>1. \A x \in T : n - x \in Nat
    BY <1>1
  <2> QED
    BY <2>1
<1>3. PICK u \in Up : \A v \in Up : <<v, u>> \notin OpToRel(<, Nat)
  BY <1>2, NatLessThanWellFounded, WFMin
<1>4. PICK x \in T : u = n - x
  OBVIOUS
<1>5. ASSUME NEW y \in T
      PROVE  x >= y
  <2>1. n - y \in Up /\ n - y \in Nat /\ u \in Nat
    BY <1>2
  <2>2. ~(n - y < u)
    BY <1>3, <2>1 DEF OpToRel
  <2> QED
    BY <1>1, <1>4, <2>2
<1> QED
  BY <1>5 DEF Largest, Max

\* The folds of the decoder, each as a fold over its table of indices.
AddLen(ctx, f, n) == n + f.len
Lens == INSTANCE FoldTheory WITH op <- AddLen, pick <- Largest

\* RecLen adds the lengths up, field after field.
LEMMA RecLenIsFold ==
    ASSUME NEW fields
    PROVE  RecLen(fields) = Lens!Fold(0, 0, fields, DOMAIN fields)
BY DEF RecLen, FoldLeft, Lens!Fold, AddLen, Largest, MapThenFoldSet, Lens!MapThenFoldSet

\* A byte enters a number from below.
AddByte(ctx, b, v) == (v * 256 + b) % U64
Ints == INSTANCE FoldTheory WITH op <- AddByte, pick <- Largest

\* BeInt takes the bytes in order, the high one first.
LEMMA BeIntIsFold ==
    ASSUME NEW bytes
    PROVE  BeInt(bytes) = Ints!Fold(0, 0, bytes, DOMAIN bytes)
BY DEF BeInt, FoldLeft, Ints!Fold, AddByte, Largest, MapThenFoldSet, Ints!MapThenFoldSet

\* A field takes the bytes behind the one before it.
TakeField(rec, field, acc) ==
    [flow |-> SetField(acc.flow, field, SubSeq(rec, acc.off + 1, acc.off + field.len)),
     off |-> acc.off + field.len]
Fields == INSTANCE FoldTheory WITH op <- TakeField, pick <- Largest
RecFlow(fields, rec, unix_secs) ==
    Fields!Fold(rec, [flow |-> Blank(unix_secs), off |-> 0], fields, DOMAIN fields).flow

\* ParseRecord takes the fields in order, and drops a flow without an address.
LEMMA RecordIsFold ==
    ASSUME NEW fields, NEW rec, NEW unix_secs
    PROVE  ParseRecord(fields, rec, unix_secs) =
               LET flow == RecFlow(fields, rec, unix_secs)
               IN  IF flow.src # <<>> /\ flow.dst # <<>> THEN <<flow>> ELSE <<>>
BY DEF ParseRecord, RecFlow, FoldLeft, Fields!Fold, TakeField, Largest, MapThenFoldSet,
       Fields!MapThenFoldSet

\* One template of a set enters the cache, if it may.
LearnOne(source, def, c) == IF Cacheable(def) THEN Insert(c, source, def) ELSE c
Defs == INSTANCE FoldTheory WITH op <- LearnOne, pick <- Largest

\* Learn takes the templates of a set in order.
LEMMA LearnIsFold ==
    ASSUME NEW cache, NEW source, NEW set
    PROVE  Learn(cache, source, set) = Defs!Fold(source, cache, set.defs, DOMAIN set.defs)
BY DEF Learn, FoldLeft, Defs!Fold, LearnOne, Largest, MapThenFoldSet, Defs!MapThenFoldSet

\* One set after another.
TakeNext(datagram, set, acc) == TakeSet(datagram, acc, set)
Sections == INSTANCE FoldTheory WITH op <- TakeNext, pick <- Largest

\* DecodeSets takes the sets in order, from the cache and no flows.
LEMMA DatagramIsFold ==
    ASSUME NEW datagram
    PROVE  DecodeSets(datagram) =
               Sections!Fold(datagram, State(templates, <<>>, FALSE), datagram.sets,
                             DOMAIN datagram.sets)
BY DEF DecodeSets, FoldLeft, Sections!Fold, TakeNext, Largest, MapThenFoldSet,
       Sections!MapThenFoldSet

\* Induction up to the length of a sequence.
LEMMA UpTo ==
    ASSUME NEW n \in Nat, NEW S, 0 \in S, \A i \in 1 .. n : i - 1 \in S => i \in S
    PROVE  \A i \in 0 .. n : i \in S
<1> DEFINE N == {m \in Nat : m <= n => m \in S}
<1>1. 0 \in N
  OBVIOUS
<1>2. ASSUME NEW m \in Nat, m \in N
      PROVE  m + 1 \in N
  <2>1. CASE m + 1 <= n
    <3>1. m + 1 \in 1 .. n /\ (m + 1) - 1 = m /\ m <= n
      BY <2>1
    <3> QED
      BY <1>2, <3>1
  <2>2. CASE ~(m + 1 <= n)
    BY <2>2
  <2> QED
    BY <2>1, <2>2
<1> HIDE DEF N
<1>3. \A m \in Nat : m \in N
  BY <1>1, <1>2, Lens!AllNaturals
<1> QED
  BY <1>3 DEF N

\* The fields of a layout, their number and their types.
LEMMA FieldTypes ==
    ASSUME NEW fields \in Seq(FieldSpec)
    PROVE  /\ Len(fields) \in Nat
           /\ DOMAIN fields = 1 .. Len(fields)
           /\ \A i \in 1 .. Len(fields) : /\ fields[i] \in FieldSpec
                                          /\ fields[i].ty \in Nat
                                          /\ fields[i].len \in Nat
<1>1. \A i \in 1 .. Len(fields) : fields[i] \in FieldSpec
  BY ElementOfSeq
<1> QED
  BY <1>1, LenProperties DEF FieldSpec

\* Where the fields of a record end.
Ends(fields, off) ==
    /\ off \in [0 .. Len(fields) -> Nat]
    /\ off[0] = 0
    /\ \A i \in 1 .. Len(fields) : off[i] = off[i - 1] + fields[i].len
    /\ off[Len(fields)] = RecLen(fields)

\* Every layout has a table of ends, the last of them its length.
LEMMA RecordEnds ==
    ASSUME NEW fields \in Seq(FieldSpec)
    PROVE  \E off : Ends(fields, off)
<1> DEFINE n == Len(fields)
<1>1. n \in Nat /\ DOMAIN fields = 1 .. n
  BY FieldTypes
<1>2. \A i \in 1 .. n : fields[i].len \in Nat
  BY FieldTypes
<1>3. PICK acc : Lens!Runs(0, 0, fields, n, acc)
  <2> HIDE DEF n
  <2>1. Lens!TakesLast(n)
    BY <1>1, LargestPicks DEF Lens!TakesLast
  <2> QED
    BY <1>1, <2>1, Lens!FoldOfSequence
<1>6. /\ acc[0] = 0
      /\ \A i \in 1 .. n : acc[i] = acc[i - 1] + fields[i].len
      /\ acc[n] = RecLen(fields)
  BY <1>1, <1>3, RecLenIsFold DEF Lens!Runs, AddLen
<1> DEFINE off == [i \in 0 .. n |-> acc[i]]
           Good == {i \in 0 .. n : acc[i] \in Nat}
<1>4. \A i \in 0 .. n : i \in Good
  <2>1. 0 \in Good
    BY <1>1, <1>6
  <2>2. ASSUME NEW i \in 1 .. n, i - 1 \in Good
        PROVE  i \in Good
    <3>1. acc[i - 1] \in Nat
      BY <2>2
    <3>2. acc[i] = acc[i - 1] + fields[i].len /\ fields[i].len \in Nat
      BY <1>2, <1>6
    <3>3. acc[i] \in Nat
      BY <3>1, <3>2
    <3> QED
      BY <1>1, <3>3
  <2> HIDE DEF Good, n
  <2> QED
    BY <1>1, <2>1, <2>2, UpTo
<1>5. Ends(fields, off)
  BY <1>1, <1>4, <1>6 DEF Ends
<1> QED
  BY <1>5

\* The fields lie one behind the other.
LEMMA EndsInOrder ==
    ASSUME NEW fields \in Seq(FieldSpec), NEW off, Ends(fields, off)
    PROVE  \A i \in 0 .. Len(fields) : off[i] <= RecLen(fields)
<1> DEFINE n == Len(fields)
           Good == {i \in 0 .. n : off[n - i] <= off[n]}
<1>1. n \in Nat /\ \A i \in 1 .. n : fields[i].len \in Nat
  BY FieldTypes
<1>2. 0 \in Good
  BY <1>1 DEF Ends
<1>3. ASSUME NEW i \in 1 .. n, i - 1 \in Good
      PROVE  i \in Good
  <2>1. n - (i - 1) \in 1 .. n /\ (n - (i - 1)) - 1 = n - i
    BY <1>1
  <2>2. off[n - (i - 1)] = off[n - i] + fields[n - (i - 1)].len
    BY <2>1 DEF Ends
  <2>3. off[n - i] \in Nat /\ off[n - (i - 1)] \in Nat /\ off[n] \in Nat
    BY <1>1 DEF Ends
  <2>4. off[n - (i - 1)] <= off[n]
    BY <1>3
  <2>5. fields[n - (i - 1)].len \in Nat
    BY <1>1, <2>1
  <2>6. off[n - i] <= off[n]
    BY <2>2, <2>3, <2>4, <2>5
  <2> QED
    BY <1>1, <2>6
<1>4. \A i \in 0 .. n : i \in Good
  <2> HIDE DEF Good, n
  <2> QED
    BY <1>1, <1>2, <1>3, UpTo
<1>5. ASSUME NEW i \in 0 .. n
      PROVE  off[i] <= RecLen(fields)
  <2>1. n - i \in Good /\ n - (n - i) = i
    BY <1>1, <1>4
  <2> QED
    BY <2>1 DEF Ends
<1> QED
  BY <1>5

\* The length of a record is a number.
LEMMA RecLenType ==
    ASSUME NEW fields \in Seq(FieldSpec)
    PROVE  RecLen(fields) \in Nat
<1>1. PICK off : Ends(fields, off)
  BY RecordEnds
<1> QED
  BY <1>1 DEF Ends

-----------------------------------------------------------------------------
(* Numbers, addresses and single fields *)

\* What a field type sets.
LEMMA SetsTable ==
    /\ DOMAIN Sets = {8, 12, 7, 11, 4, 6, 1, 23, 2, 24}
    /\ Sets[8] = "src" /\ Sets[12] = "dst" /\ Sets[7] = "src_port"
    /\ Sets[11] = "dst_port" /\ Sets[4] = "proto" /\ Sets[6] = "tcp_flags"
    /\ Sets[1] = "bytes" /\ Sets[23] = "bytes"
    /\ Sets[2] = "packets" /\ Sets[24] = "packets"
BY DEF Sets, IPV4_SRC_ADDR, IPV4_DST_ADDR, L4_SRC_PORT, L4_DST_PORT, PROTOCOL,
       TCP_FLAGS, IN_BYTES, OUT_BYTES, IN_PKTS, OUT_PKTS

\* The bytes of a body, one at a time.
LEMMA ByteTypes ==
    ASSUME NEW bytes \in Seq(Byte)
    PROVE  /\ Len(bytes) \in Nat
           /\ DOMAIN bytes = 1 .. Len(bytes)
           /\ \A i \in 1 .. Len(bytes) : bytes[i] \in Byte /\ bytes[i] \in Int
<1>1. \A i \in 1 .. Len(bytes) : bytes[i] \in Byte
  BY ElementOfSeq
<1>2. \A b \in Byte : b \in Int
  BY DEF Byte
<1> QED
  BY <1>1, <1>2, LenProperties

\* be_int yields a value of its width, however many bytes it reads.
LEMMA BeIntType ==
    ASSUME NEW bytes \in Seq(Byte)
    PROVE  BeInt(bytes) \in Value
<1> DEFINE n == Len(bytes)
<1>1. n \in Nat /\ DOMAIN bytes = 1 .. n /\ \A i \in 1 .. n : bytes[i] \in Int
  BY ByteTypes
<1>2. PICK acc : Ints!Runs(0, 0, bytes, n, acc)
  <2> HIDE DEF n
  <2>1. Ints!TakesLast(n)
    BY <1>1, LargestPicks DEF Ints!TakesLast
  <2> QED
    BY <1>1, <2>1, Ints!FoldOfSequence
<1>3. /\ acc[0] = 0
      /\ \A i \in 1 .. n : acc[i] = (acc[i - 1] * 256 + bytes[i]) % U64
      /\ acc[n] = BeInt(bytes)
  BY <1>1, <1>2, BeIntIsFold DEF Ints!Runs, AddByte
<1> DEFINE Good == {i \in 0 .. n : acc[i] \in Value}
<1>4. 0 \in Good
  BY <1>1, <1>3, WidthAssumption DEF Value
<1>5. ASSUME NEW i \in 1 .. n, i - 1 \in Good
      PROVE  i \in Good
  <2>1. acc[i - 1] * 256 + bytes[i] \in Int
    <3>1. acc[i - 1] \in Int
      BY <1>5, WidthAssumption DEF Value
    <3>2. bytes[i] \in Int
      BY <1>1
    <3> QED
      BY <3>1, <3>2
  <2>2. \A x \in Int : x % U64 \in Value
    BY WidthAssumption DEF Value
  <2> QED
    BY <1>3, <2>1, <2>2
<1>6. n \in Good
  <2> HIDE DEF Good, n
  <2>1. \A i \in 0 .. n : i \in Good
    BY <1>1, <1>4, <1>5, UpTo
  <2> QED
    BY <1>1, <2>1
<1> QED
  BY <1>3, <1>6

\* A flow while its record is read: an address may still be missing.
Draft ==
    [src : Address \cup {<<>>}, dst : Address \cup {<<>>}, src_port : Value,
     dst_port : Value, proto : Value, tcp_flags : Value, bytes : Value,
     packets : Value, unix_secs : Nat]

\* A record is read into a blank draft.
LEMMA BlankType == ASSUME NEW unix_secs \in Nat PROVE Blank(unix_secs) \in Draft
BY WidthAssumption DEF Blank, Draft, Value

\* A field sets a part of a draft to a value of its type.
LEMMA SetFieldType ==
    ASSUME NEW flow \in Draft, NEW field \in FieldSpec,
           NEW slice \in Seq(Byte), Len(slice) = field.len
    PROVE  SetField(flow, field, slice) \in Draft
<1>1. CASE ~Taken(field)
  BY <1>1 DEF SetField
<1>2. CASE Taken(field)
  <2> DEFINE part == Sets[field.ty]
  <2>1. /\ part \in {"src", "dst", "src_port", "dst_port", "proto", "tcp_flags",
                     "bytes", "packets"}
        /\ part \in {"src", "dst"} => field.len = 4
    BY <1>2, SetsTable DEF Taken, Length
  <2>2. BeInt(slice) \in Value
    BY BeIntType
  <2>3. field.len = 4 => slice \in Address
    BY LenProperties DEF Address
  <2>4. SetField(flow, field, slice) =
            [flow EXCEPT ![part] = IF part \in {"src", "dst"} THEN slice
                                   ELSE BeInt(slice)]
    BY <1>2 DEF SetField
  <2> HIDE DEF part
  <2> QED
    BY <2>1, <2>2, <2>3, <2>4 DEF Draft
<1> QED
  BY <1>1, <1>2

-----------------------------------------------------------------------------
(* Records, field after field *)

\* The flow after each field of a record.
Drafts(fields, rec, unix_secs, off, draft) ==
    /\ draft[0] = Blank(unix_secs)
    /\ \A i \in 1 .. Len(fields) :
           draft[i] = SetField(draft[i - 1], fields[i],
                               SubSeq(rec, off[i - 1] + 1, off[i]))
    /\ draft[Len(fields)] = RecFlow(fields, rec, unix_secs)

\* What taking a field does to the draft and to the offset.
LEMMA TakeFieldParts ==
    ASSUME NEW rec, NEW field, NEW acc
    PROVE  /\ TakeField(rec, field, acc).off = acc.off + field.len
           /\ TakeField(rec, field, acc).flow =
                  SetField(acc.flow, field,
                           SubSeq(rec, acc.off + 1, acc.off + field.len))
BY DEF TakeField

\* Every record has its table of drafts.
LEMMA RecordDrafts ==
    ASSUME NEW fields \in Seq(FieldSpec), NEW off, Ends(fields, off),
           NEW rec, NEW unix_secs
    PROVE  \E draft : Drafts(fields, rec, unix_secs, off, draft)
<1> DEFINE n == Len(fields)
           first == [flow |-> Blank(unix_secs), off |-> 0]
<1>1. /\ n \in Nat /\ DOMAIN fields = 1 .. n
      /\ \A i \in 1 .. n : fields[i].len \in Nat
  BY FieldTypes
<1>2. PICK acc : Fields!Runs(rec, first, fields, n, acc)
  <2> HIDE DEF n, first
  <2>1. Fields!TakesLast(n)
    BY <1>1, LargestPicks DEF Fields!TakesLast
  <2> QED
    BY <1>1, <2>1, Fields!FoldOfSequence
<1>3. /\ acc[0] = first
      /\ \A i \in 1 .. n : acc[i] = TakeField(rec, fields[i], acc[i - 1])
      /\ acc[n].flow = RecFlow(fields, rec, unix_secs)
  BY <1>1, <1>2 DEF Fields!Runs, RecFlow
<1> DEFINE Good == {i \in 0 .. n : acc[i].off = off[i]}
<1>4. 0 \in Good
  BY <1>1, <1>3 DEF Ends
<1>5. ASSUME NEW i \in 1 .. n, i - 1 \in Good
      PROVE  i \in Good
  <2>1. acc[i].off = acc[i - 1].off + fields[i].len
    <3>1. acc[i] = TakeField(rec, fields[i], acc[i - 1])
      BY <1>3
    <3> QED
      BY <3>1, TakeFieldParts
  <2>2. off[i] = off[i - 1] + fields[i].len
    BY DEF Ends
  <2> QED
    BY <1>5, <2>1, <2>2
<1>6. \A i \in 0 .. n : acc[i].off = off[i]
  <2> HIDE DEF Good, n
  <2>1. \A i \in 0 .. n : i \in Good
    BY <1>1, <1>4, <1>5, UpTo
  <2> QED
    BY <2>1 DEF Good
<1> DEFINE draft == [i \in 0 .. n |-> acc[i].flow]
<1>7. ASSUME NEW i \in 1 .. n
      PROVE  draft[i] = SetField(draft[i - 1], fields[i],
                                 SubSeq(rec, off[i - 1] + 1, off[i]))
  <2>1. i - 1 \in 0 .. n /\ i \in 0 .. n
    BY <1>1
  <2>2. acc[i - 1].off = off[i - 1] /\ off[i] = off[i - 1] + fields[i].len
    BY <1>6, <2>1 DEF Ends
  <2>3. acc[i].flow = SetField(acc[i - 1].flow, fields[i],
                               SubSeq(rec, off[i - 1] + 1, off[i]))
    <3>1. acc[i] = TakeField(rec, fields[i], acc[i - 1])
      BY <1>3
    <3>2. acc[i].flow = SetField(acc[i - 1].flow, fields[i],
                                 SubSeq(rec, acc[i - 1].off + 1,
                                        acc[i - 1].off + fields[i].len))
      BY <3>1, TakeFieldParts
    <3> QED
      BY <2>2, <3>2
  <2> QED
    BY <2>1, <2>3
<1>8. draft[0] = Blank(unix_secs) /\ draft[n] = RecFlow(fields, rec, unix_secs)
  BY <1>1, <1>3
<1>9. Drafts(fields, rec, unix_secs, off, draft)
  BY <1>7, <1>8 DEF Drafts
<1> QED
  BY <1>9

\* A slice of a record, as long as its field.
LEMMA SliceType ==
    ASSUME NEW fields \in Seq(FieldSpec), NEW off, Ends(fields, off),
           NEW rec \in Seq(Byte), Len(rec) >= RecLen(fields),
           NEW i \in 1 .. Len(fields)
    PROVE  /\ SubSeq(rec, off[i - 1] + 1, off[i]) \in Seq(Byte)
           /\ Len(SubSeq(rec, off[i - 1] + 1, off[i])) = fields[i].len
           /\ \A j \in 1 .. fields[i].len :
                  SubSeq(rec, off[i - 1] + 1, off[i])[j] = rec[off[i - 1] + j]
<1> DEFINE a == off[i - 1]
           b == off[i]
           l == fields[i].len
<1>1. i - 1 \in 0 .. Len(fields) /\ i \in 0 .. Len(fields)
  BY FieldTypes
<1>2. a \in Nat /\ b \in Nat /\ l \in Nat /\ b = a + l
  BY <1>1, FieldTypes DEF Ends
<1>3. b <= Len(rec) /\ Len(rec) \in Nat
  BY <1>1, <1>2, EndsInOrder, RecLenType, ByteTypes
<1> HIDE DEF a, b, l
<1>4. \A j \in a + 1 .. b : rec[j] \in Byte
  <2>1. \A j \in a + 1 .. b : j \in 1 .. Len(rec)
    BY <1>2, <1>3
  <2> QED
    BY <2>1, ByteTypes
<1>5. a + 1 \in Int /\ b \in Int
  BY <1>2
<1>6. /\ SubSeq(rec, a + 1, b) \in Seq(Byte)
      /\ Len(SubSeq(rec, a + 1, b)) = IF a + 1 <= b THEN b - (a + 1) + 1 ELSE 0
      /\ \A j \in 1 .. b - (a + 1) + 1 : SubSeq(rec, a + 1, b)[j] = rec[(a + 1) + j - 1]
  BY <1>4, <1>5, SubSeqProperties
<1>7. Len(SubSeq(rec, a + 1, b)) = l
  BY <1>2, <1>6
<1>8. \A j \in 1 .. l : SubSeq(rec, a + 1, b)[j] = rec[a + j]
  <2>1. \A j \in 1 .. l : j \in 1 .. b - (a + 1) + 1 /\ (a + 1) + j - 1 = a + j
    BY <1>2
  <2> QED
    BY <1>6, <2>1
<1> QED
  BY <1>6, <1>7, <1>8 DEF a, b, l

\* A record gives a flow or none.
LEMMA ParseRecordType ==
    ASSUME NEW fields \in Seq(FieldSpec), NEW rec \in Seq(Byte),
           Len(rec) >= RecLen(fields), NEW unix_secs \in Nat
    PROVE  ParseRecord(fields, rec, unix_secs) \in Seq(FlowRecord)
<1> DEFINE n == Len(fields)
<1>1. PICK off : Ends(fields, off)
  BY RecordEnds
<1>2. PICK draft : Drafts(fields, rec, unix_secs, off, draft)
  BY <1>1, RecordDrafts
<1> DEFINE Good == {i \in 0 .. n : draft[i] \in Draft}
<1>3. n \in Nat
  BY FieldTypes
<1>4. 0 \in Good
  BY <1>2, <1>3, BlankType DEF Drafts
<1>5. ASSUME NEW i \in 1 .. n, i - 1 \in Good
      PROVE  i \in Good
  <2> DEFINE slice == SubSeq(rec, off[i - 1] + 1, off[i])
  <2>1. slice \in Seq(Byte) /\ Len(slice) = fields[i].len
    BY <1>1, SliceType
  <2>2. fields[i] \in FieldSpec /\ draft[i - 1] \in Draft
    BY <1>5, FieldTypes
  <2>3. draft[i] = SetField(draft[i - 1], fields[i], slice)
    BY <1>2 DEF Drafts
  <2> HIDE DEF slice
  <2>4. draft[i] \in Draft
    BY <2>1, <2>2, <2>3, SetFieldType
  <2> QED
    BY <1>3, <2>4
<1>6. RecFlow(fields, rec, unix_secs) \in Draft
  <2> HIDE DEF Good, n
  <2>1. \A i \in 0 .. n : i \in Good
    BY <1>3, <1>4, <1>5, UpTo
  <2> QED
    BY <1>2, <1>3, <2>1 DEF Good, Drafts, n
<1>7. \A flow \in Draft :
          flow.src # <<>> /\ flow.dst # <<>> => flow \in FlowRecord
  BY DEF Draft, FlowRecord
<1> DEFINE flow == RecFlow(fields, rec, unix_secs)
<1>8. ParseRecord(fields, rec, unix_secs) =
          IF flow.src # <<>> /\ flow.dst # <<>> THEN <<flow>> ELSE <<>>
  BY RecordIsFold
<1> HIDE DEF flow
<1>9. flow.src # <<>> /\ flow.dst # <<>> => flow \in FlowRecord
  BY <1>6, <1>7 DEF flow
<1> QED
  BY <1>8, <1>9

-----------------------------------------------------------------------------
(* Flattened sequences *)

\* FlattenSeq's equation up to the m-th sequence, for a table of results g.
IsFlat(seqs, m, g) ==
    g = [i \in 1 .. m |-> IF i = 1 THEN seqs[i] ELSE g[i - 1] \o seqs[i]]

\* FlattenSeq has a table of results, one for each number of sequences.
LEMMA FlatExists ==
    ASSUME NEW seqs, NEW n \in Nat
    PROVE  \E g : IsFlat(seqs, n, g)
<1> DEFINE Good == {m \in 0 .. n : \E g : IsFlat(seqs, m, g)}
<1>1. 0 \in Good
  <2> DEFINE g == [i \in 1 .. 0 |-> seqs[i]]
  <2>1. IsFlat(seqs, 0, g)
    BY DEF IsFlat
  <2> QED
    BY <2>1
<1>2. ASSUME NEW m \in 1 .. n, m - 1 \in Good
      PROVE  m \in Good
  <2>1. PICK g : g = [i \in 1 .. (m - 1) |->
                         IF i = 1 THEN seqs[i] ELSE g[i - 1] \o seqs[i]]
    BY <1>2 DEF IsFlat
  <2> DEFINE h == [i \in 1 .. m |-> IF i = 1 THEN seqs[i] ELSE g[i - 1] \o seqs[i]]
  <2>2. ASSUME NEW i \in 1 .. (m - 1)
        PROVE  i \in 1 .. m /\ h[i] = g[i]
    <3>1. i \in 1 .. m
      OBVIOUS
    <3>2. h[i] = IF i = 1 THEN seqs[i] ELSE g[i - 1] \o seqs[i]
      BY <3>1
    <3>3. g[i] = IF i = 1 THEN seqs[i] ELSE g[i - 1] \o seqs[i]
      BY <2>1, Zenon
    <3> QED
      BY <3>1, <3>2, <3>3
  <2>3. \A i \in 1 .. m : i # 1 => i - 1 \in 1 .. (m - 1)
    OBVIOUS
  <2>4. \A i \in 1 .. m : i # 1 => h[i - 1] = g[i - 1]
    BY <2>2, <2>3
  <2>5. IsFlat(seqs, m, h)
    <3>1. \A i \in 1 .. m : h[i] = IF i = 1 THEN seqs[i] ELSE h[i - 1] \o seqs[i]
      BY <2>4
    <3>2. h = [i \in 1 .. m |-> h[i]]
      OBVIOUS
    <3> HIDE DEF h
    <3> QED
      BY <3>1, <3>2 DEF IsFlat
  <2> HIDE DEF h
  <2> QED
    BY <2>5
<1> HIDE DEF Good
<1>3. \A m \in 0 .. n : m \in Good
  BY <1>1, <1>2, UpTo
<1> QED
  BY <1>3 DEF Good

\* FlattenSeq puts one sequence after the other: flat is what it has after each.
Flattens(T, seqs, n, flat) ==
    /\ flat[0] = <<>>
    /\ \A i \in 1 .. n : flat[i] = flat[i - 1] \o seqs[i]
    /\ \A i \in 0 .. n : flat[i] \in Seq(T)
    /\ flat[n] = FlattenSeq(seqs)

\* Every flattened sequence has its table of what is there after each piece.
LEMMA FlattenRuns ==
    ASSUME NEW T, NEW n \in Nat, NEW seqs \in [1 .. n -> Seq(T)]
    PROVE  \E flat : Flattens(T, seqs, n, flat)
<1>1. PICK g : /\ IsFlat(seqs, n, g)
               /\ n # 0 => FlattenSeq(seqs) = g[n]
  <2> DEFINE g == CHOOSE g : IsFlat(seqs, n, g)
  <2>1. IsFlat(seqs, n, g)
    BY FlatExists
  <2>2. Len(seqs) = n
    OBVIOUS
  <2>3. n # 0 => FlattenSeq(seqs) = g[n]
    BY <2>2 DEF FlattenSeq, IsFlat
  <2> HIDE DEF g
  <2> QED
    BY <2>1, <2>3
<1> DEFINE flat == [i \in 0 .. n |-> IF i = 0 THEN <<>> ELSE g[i]]
           Good == {i \in 0 .. n : flat[i] \in Seq(T)}
<1>2. \A i \in 1 .. n : g[i] = IF i = 1 THEN seqs[i] ELSE g[i - 1] \o seqs[i]
  BY <1>1 DEF IsFlat
<1>3. ASSUME NEW i \in 1 .. n
      PROVE  flat[i] = flat[i - 1] \o seqs[i]
  <2>1. seqs[i] \in Seq(T) /\ i \in 0 .. n /\ i - 1 \in 0 .. n
    OBVIOUS
  <2>2. CASE i = 1
    <3>1. flat[1] = seqs[1] /\ flat[0] = <<>>
      BY <1>2, <2>2
    <3>2. <<>> \o seqs[1] = seqs[1]
      BY <2>1, <2>2, ConcatEmptySeq
    <3> QED
      BY <2>2, <3>1, <3>2
  <2>3. CASE i # 1
    <3>1. flat[i] = g[i] /\ flat[i - 1] = g[i - 1]
      BY <2>1, <2>3
    <3>2. g[i] = g[i - 1] \o seqs[i]
      BY <1>2, <2>3
    <3> QED
      BY <3>1, <3>2
  <2> QED
    BY <2>2, <2>3
<1>4. flat[0] = <<>>
  OBVIOUS
<1>5. \A i \in 0 .. n : flat[i] \in Seq(T)
  <2>1. 0 \in Good
    BY <1>4
  <2>2. ASSUME NEW i \in 1 .. n, i - 1 \in Good
        PROVE  i \in Good
    <3> HIDE DEF flat
    <3>1. flat[i - 1] \in Seq(T) /\ seqs[i] \in Seq(T)
      BY <2>2
    <3>2. flat[i - 1] \o seqs[i] \in Seq(T)
      BY <3>1, ConcatProperties
    <3>3. flat[i] \in Seq(T)
      BY <1>3, <3>2
    <3> QED
      BY <3>3
  <2> HIDE DEF Good
  <2>3. \A i \in 0 .. n : i \in Good
    BY <2>1, <2>2, UpTo
  <2> QED
    BY <2>3 DEF Good
<1>6. flat[n] = FlattenSeq(seqs)
  <2>1. CASE n = 0
    <3>1. seqs = <<>> /\ Len(seqs) = 0
      BY <2>1
    <3> QED
      BY <2>1, <3>1 DEF FlattenSeq
  <2>2. CASE n # 0
    BY <1>1, <2>2
  <2> QED
    BY <2>1, <2>2
<1> HIDE DEF flat
<1>7. Flattens(T, seqs, n, flat)
  BY <1>3, <1>4, <1>5, <1>6 DEF Flattens
<1> QED
  BY <1>7

-----------------------------------------------------------------------------
(* Bodies, record after record *)

\* Whole records in a body: how many, and where.
Whole(fields, data) == Len(data) \div RecLen(fields)
RecordAt(fields, data, i) ==
    SubSeq(data, (i - 1) * RecLen(fields) + 1, i * RecLen(fields))

\* Multiples of a length, in order.
LEMMA Products ==
    ASSUME NEW l \in Nat, NEW i \in Nat, NEW n \in Nat, i <= n
    PROVE  i * l \in Nat /\ n * l \in Nat /\ i * l <= n * l
<1>1. (n - i) * l >= 0 /\ (n - i) * l = n * l - i * l
  OBVIOUS
<1> QED
  BY <1>1

\* A multiple of a length and less than the length over is divided by it.
LEMMA Quotient ==
    ASSUME NEW l \in Nat \ {0}, NEW n \in Nat, NEW p \in 0 .. l - 1,
           NEW d, d = n * l + p
    PROVE  d \div l = n
<1> DEFINE q == d \div l
           r == d % l
<1>1. n * l \in Nat /\ p \in Nat /\ d \in Nat
  <2>1. n * l \in Nat
    BY Products
  <2> QED
    BY <2>1
<1>2. q \in Int /\ r \in 0 .. l - 1 /\ d = q * l + r
  BY <1>1
<1> HIDE DEF q, r
<1>3. (n - q) * l = r - p
  BY <1>1, <1>2
<1>4. n - q \in Int /\ -l < r - p /\ r - p < l
  BY <1>2
<1> DEFINE e == n - q
<1>5. e * l = r - p /\ e \in Int
  BY <1>3, <1>4
<1> HIDE DEF e
<1>6. ~ (e >= 1)
  BY <1>4, <1>5
<1>7. ~ (e <= -1)
  BY <1>4, <1>5
<1>8. e = 0
  BY <1>5, <1>6, <1>7
<1>9. q = n
  BY <1>2, <1>8 DEF e
<1> QED
  BY <1>9 DEF q

\* The records of a body lie within it.
LEMMA WholeType ==
    ASSUME NEW l \in Nat \ {0}, NEW size \in Nat
    PROVE  /\ size \div l \in Nat
           /\ \A i \in 1 .. (size \div l) :
                  /\ i - 1 \in Nat
                  /\ (i - 1) * l \in Nat
                  /\ i * l = (i - 1) * l + l
                  /\ i * l <= size
<1> DEFINE n == size \div l
           r == size % l
<1>1. n \in Int /\ r \in 0 .. l - 1 /\ size = l * n + r
  OBVIOUS
<1> HIDE DEF n, r
<1>2. n \in Nat
  <2>1. CASE n < 0
    <3>1. l * n <= -l
      BY <1>1, <2>1
    <3> QED
      BY <1>1, <3>1
  <2> QED
    BY <1>1, <2>1
<1>3. n * l <= size /\ n * l = l * n
  BY <1>1, <1>2
<1>4. ASSUME NEW i \in 1 .. n
      PROVE  /\ i - 1 \in Nat /\ (i - 1) * l \in Nat
             /\ i * l = (i - 1) * l + l /\ i * l <= size
  <2>1. i \in Nat /\ i - 1 \in Nat /\ i <= n
    BY <1>2
  <2>2. i * l <= n * l /\ i * l \in Nat /\ n * l \in Nat
    BY <1>2, <2>1, Products
  <2>3. (i - 1) * l \in Nat
    BY <2>1
  <2>4. i * l = (i - 1) * l + l
    BY <2>1
  <2> QED
    BY <1>3, <2>1, <2>2, <2>3, <2>4
<1> QED
  BY <1>2, <1>4 DEF n

\* A stretch of a sequence of bytes.
LEMMA Stretch ==
    ASSUME NEW bytes \in Seq(Byte), NEW a \in Nat, NEW l \in Nat, a + l <= Len(bytes)
    PROVE  /\ SubSeq(bytes, a + 1, a + l) \in Seq(Byte)
           /\ Len(SubSeq(bytes, a + 1, a + l)) = l
           /\ \A j \in 1 .. l : SubSeq(bytes, a + 1, a + l)[j] = bytes[a + j]
<1> DEFINE b == a + l
<1>1. b \in Nat /\ a + 1 \in Int /\ b \in Int
  OBVIOUS
<1>2. \A j \in a + 1 .. b : j \in 1 .. Len(bytes)
  BY ByteTypes
<1>3. \A j \in a + 1 .. b : bytes[j] \in Byte
  BY <1>2, ByteTypes
<1> HIDE DEF b
<1>4. /\ SubSeq(bytes, a + 1, b) \in Seq(Byte)
      /\ Len(SubSeq(bytes, a + 1, b)) = IF a + 1 <= b THEN b - (a + 1) + 1 ELSE 0
      /\ \A j \in 1 .. b - (a + 1) + 1 : SubSeq(bytes, a + 1, b)[j] = bytes[(a + 1) + j - 1]
  BY <1>1, <1>3, SubSeqProperties
<1>5. b = a + l
  BY DEF b
<1>6. Len(SubSeq(bytes, a + 1, b)) = l
  BY <1>1, <1>4, <1>5
<1>7. \A j \in 1 .. l : SubSeq(bytes, a + 1, b)[j] = bytes[a + j]
  <2>1. \A j \in 1 .. l : j \in 1 .. b - (a + 1) + 1 /\ (a + 1) + j - 1 = a + j
    BY <1>5
  <2> QED
    BY <1>4, <2>1
<1> QED
  BY <1>4, <1>6, <1>7 DEF b

\* A record of a body is a sequence of bytes of the length of its layout.
LEMMA RecordAtType ==
    ASSUME NEW fields \in Seq(FieldSpec), RecLen(fields) > 0,
           NEW data \in Seq(Byte), NEW i \in 1 .. Whole(fields, data)
    PROVE  /\ RecordAt(fields, data, i) \in Seq(Byte)
           /\ Len(RecordAt(fields, data, i)) = RecLen(fields)
<1> DEFINE l == RecLen(fields)
           a == (i - 1) * l
<1>1. l \in Nat \ {0} /\ Len(data) \in Nat
  BY RecLenType, ByteTypes
<1>2. a \in Nat /\ i * l = a + l /\ i * l <= Len(data)
  BY <1>1, WholeType DEF Whole
<1> HIDE DEF a, l
<1>3. /\ SubSeq(data, a + 1, a + l) \in Seq(Byte)
      /\ Len(SubSeq(data, a + 1, a + l)) = l
  BY <1>1, <1>2, Stretch
<1>4. RecordAt(fields, data, i) = SubSeq(data, a + 1, a + l)
  BY <1>2 DEF RecordAt, a, l
<1> QED
  BY <1>3, <1>4 DEF l

\* The records of a body, one after the other.
LEMMA ParseRecordsRuns ==
    ASSUME NEW fields \in Seq(FieldSpec), RecLen(fields) > 0,
           NEW data \in Seq(Byte), NEW unix_secs \in Nat
    PROVE  /\ Whole(fields, data) \in Nat
           /\ LET piece == [i \in 1 .. Whole(fields, data) |->
                               ParseRecord(fields, RecordAt(fields, data, i), unix_secs)]
              IN  /\ piece \in [1 .. Whole(fields, data) -> Seq(FlowRecord)]
                  /\ ParseRecords(fields, data, unix_secs) = FlattenSeq(piece)
<1>1. Whole(fields, data) \in Nat
  BY RecLenType, ByteTypes, WholeType DEF Whole
<1>2. \A i \in 1 .. Whole(fields, data) :
          ParseRecord(fields, RecordAt(fields, data, i), unix_secs) \in Seq(FlowRecord)
  <2>1. \A i \in 1 .. Whole(fields, data) :
            /\ RecordAt(fields, data, i) \in Seq(Byte)
            /\ Len(RecordAt(fields, data, i)) >= RecLen(fields)
    BY RecordAtType, RecLenType
  <2> QED
    BY <2>1, ParseRecordType
<1>3. ParseRecords(fields, data, unix_secs) =
          FlattenSeq([i \in 1 .. Whole(fields, data) |->
                         ParseRecord(fields, RecordAt(fields, data, i), unix_secs)])
  BY DEF ParseRecords, Whole, RecordAt
<1> QED
  BY <1>1, <1>2, <1>3

\* What a body yields are flows.
LEMMA ParseRecordsType ==
    ASSUME NEW fields \in Seq(FieldSpec), RecLen(fields) > 0,
           NEW data \in Seq(Byte), NEW unix_secs \in Nat
    PROVE  ParseRecords(fields, data, unix_secs) \in Seq(FlowRecord)
<1> DEFINE n == Whole(fields, data)
           piece == [i \in 1 .. n |->
                        ParseRecord(fields, RecordAt(fields, data, i), unix_secs)]
<1>1. /\ n \in Nat /\ piece \in [1 .. n -> Seq(FlowRecord)]
      /\ ParseRecords(fields, data, unix_secs) = FlattenSeq(piece)
  BY ParseRecordsRuns
<1> HIDE DEF piece, n
<1>2. PICK flat : Flattens(FlowRecord, piece, n, flat)
  BY <1>1, FlattenRuns
<1>3. FlattenSeq(piece) = flat[n] /\ flat[n] \in Seq(FlowRecord)
  BY <1>1, <1>2 DEF Flattens
<1> QED
  BY <1>1, <1>3

-----------------------------------------------------------------------------
(* The templates of a set, and one set *)

\* A template of a template set.
TemplateDef == [id : Nat, fields : Seq(FieldSpec)]

\* The parts of a set, and those of its templates.
LEMMA SetTypes ==
    ASSUME NEW set \in SetRecord
    PROVE  /\ set.id \in Nat /\ set.sized \in BOOLEAN /\ set.truncated \in BOOLEAN
           /\ set.data \in Seq(Byte)
           /\ set.meant \in Seq(FlowRecord)
           /\ set.defs \in Seq(TemplateDef)
           /\ Len(set.defs) \in Nat /\ DOMAIN set.defs = 1 .. Len(set.defs)
           /\ \A d \in DOMAIN set.defs : /\ set.defs[d] \in TemplateDef
                                         /\ set.defs[d].id \in Nat
                                         /\ set.defs[d].fields \in Seq(FieldSpec)
<1>1. /\ set.id \in Nat /\ set.sized \in BOOLEAN /\ set.truncated \in BOOLEAN
      /\ set.data \in Seq(Byte)
      /\ set.meant \in Seq(FlowRecord)
      /\ set.defs \in Seq(TemplateDef)
  BY DEF SetRecord, TemplateDef
<1>2. Len(set.defs) \in Nat /\ DOMAIN set.defs = 1 .. Len(set.defs)
  BY <1>1, LenProperties
<1>3. \A d \in DOMAIN set.defs : set.defs[d] \in TemplateDef
  BY <1>1, <1>2, ElementOfSeq
<1> QED
  BY <1>1, <1>2, <1>3 DEF TemplateDef

\* The keys of the templates of a set.
NewKeys(source, set) ==
    {<<source, set.defs[d].id>> :
        d \in {d \in DOMAIN set.defs : Cacheable(set.defs[d])}}

\* An entry of a cache is an old one or a template of the set.
EntriesFrom(cache, source, set, learned) ==
    \A k \in DOMAIN learned :
        \/ k \in DOMAIN cache /\ learned[k] = cache[k]
        \/ \E d \in DOMAIN set.defs : /\ Cacheable(set.defs[d])
                                      /\ k = <<source, set.defs[d].id>>
                                      /\ learned[k] = set.defs[d].fields

\* What a cache is after the templates of a set: an entry is an old one or new.
LEMMA LearnEntries ==
    ASSUME NEW cache, NEW source, NEW set \in SetRecord,
           NEW learned, learned = Learn(cache, source, set)
    PROVE  /\ DOMAIN learned =
                  DOMAIN cache \cup NewKeys(source, set)
           /\ EntriesFrom(cache, source, set, learned)
<1> DEFINE defs == set.defs
           n == Len(defs)
           New(i) == {<<source, defs[d].id>> : d \in {d \in 1 .. i : Cacheable(defs[d])}}
<1>1. n \in Nat /\ DOMAIN defs = 1 .. n
  BY SetTypes
<1>2. PICK acc : Defs!Runs(source, cache, defs, n, acc)
  <2> HIDE DEF n, defs
  <2>1. Defs!TakesLast(n)
    BY <1>1, LargestPicks DEF Defs!TakesLast
  <2> QED
    BY <1>1, <2>1, Defs!FoldOfSequence
<1>3. /\ acc[0] = cache
      /\ \A i \in 1 .. n : acc[i] = IF Cacheable(defs[i])
                                    THEN Insert(acc[i - 1], source, defs[i])
                                    ELSE acc[i - 1]
      /\ acc[n] = Learn(cache, source, set)
  BY <1>1, <1>2, LearnIsFold DEF Defs!Runs, LearnOne
<1> DEFINE Good == {i \in 0 .. n :
               /\ DOMAIN acc[i] = DOMAIN cache \cup New(i)
               /\ \A k \in DOMAIN acc[i] :
                      \/ k \in DOMAIN cache /\ acc[i][k] = cache[k]
                      \/ \E d \in 1 .. i : /\ Cacheable(defs[d])
                                           /\ k = <<source, defs[d].id>>
                                           /\ acc[i][k] = defs[d].fields}
<1>4. 0 \in Good
  BY <1>1, <1>3
<1>5. ASSUME NEW i \in 1 .. n, i - 1 \in Good
      PROVE  i \in Good
  <2> DEFINE old == acc[i - 1]
             def == defs[i]
  <2>1. /\ DOMAIN old = DOMAIN cache \cup New(i - 1)
        /\ \A k \in DOMAIN old :
               \/ k \in DOMAIN cache /\ old[k] = cache[k]
               \/ \E d \in 1 .. (i - 1) : /\ Cacheable(defs[d])
                                          /\ k = <<source, defs[d].id>>
                                          /\ old[k] = defs[d].fields
    BY <1>5
  <2>2. 1 .. i = 1 .. (i - 1) \cup {i} /\ i \in 0 .. n
    BY <1>1
  <2>3. CASE ~Cacheable(def)
    <3>1. acc[i] = old
      BY <1>3, <2>3
    <3>2. New(i) = New(i - 1)
      BY <2>2, <2>3
    <3> HIDE DEF old, New, def, defs
    <3> QED
      BY <2>1, <2>2, <3>1, <3>2
  <2>4. CASE Cacheable(def)
    <3> DEFINE key == <<source, def.id>>
    <3>1. acc[i] = Insert(old, source, def)
      BY <1>3, <2>4
    <3>2. New(i) = New(i - 1) \cup {key}
      BY <2>2, <2>4
    <3>3. key = <<source, defs[i].id>> /\ i \in 1 .. i
      OBVIOUS
    <3> HIDE DEF old, New, key
    <3>4. acc[i] = [k \in DOMAIN old \cup {key} |-> IF k = key THEN def.fields ELSE old[k]]
      BY <3>1 DEF Insert, Key, key
    <3>5. DOMAIN acc[i] = DOMAIN cache \cup New(i)
      BY <2>1, <3>2, <3>4
    <3>6. ASSUME NEW k \in DOMAIN acc[i]
          PROVE  \/ k \in DOMAIN cache /\ acc[i][k] = cache[k]
                 \/ \E d \in 1 .. i : /\ Cacheable(defs[d])
                                      /\ k = <<source, defs[d].id>>
                                      /\ acc[i][k] = defs[d].fields
      <4>1. CASE k = key
        BY <2>4, <3>3, <3>4, <4>1
      <4>2. CASE k # key
        <5>1. k \in DOMAIN old /\ acc[i][k] = old[k]
          BY <3>4, <4>2
        <5> QED
          BY <2>1, <2>2, <5>1
      <4> QED
        BY <4>1, <4>2
    <3> QED
      BY <2>2, <3>5, <3>6
  <2> QED
    BY <2>3, <2>4
<1>6. n \in Good
  <2> HIDE DEF Good, n
  <2>1. \A i \in 0 .. n : i \in Good
    BY <1>1, <1>4, <1>5, UpTo
  <2> QED
    BY <1>1, <2>1
<1>7. New(n) = NewKeys(source, set)
  BY <1>1 DEF NewKeys
<1>8. /\ DOMAIN acc[n] = DOMAIN cache \cup New(n)
      /\ \A k \in DOMAIN acc[n] :
             \/ k \in DOMAIN cache /\ acc[n][k] = cache[k]
             \/ \E d \in 1 .. n : /\ Cacheable(defs[d])
                                  /\ k = <<source, defs[d].id>>
                                  /\ acc[n][k] = defs[d].fields
  BY <1>6
<1>9. acc[n] = learned
  BY <1>3
<1> HIDE DEF New, n
<1>10. DOMAIN learned = DOMAIN cache \cup NewKeys(source, set)
  BY <1>7, <1>8, <1>9, Zenon
<1>11. ASSUME NEW k \in DOMAIN learned
       PROVE  \/ k \in DOMAIN cache /\ learned[k] = cache[k]
              \/ \E d \in DOMAIN set.defs : /\ Cacheable(set.defs[d])
                                            /\ k = <<source, set.defs[d].id>>
                                            /\ learned[k] = set.defs[d].fields
  BY <1>1, <1>8, <1>9, Zenon
<1> QED
  BY <1>10, <1>11, Zenon DEF EntriesFrom

\* The state of decode_sets behind a set.
IsState(acc) ==
    acc = [cache |-> acc.cache, flows |-> acc.flows, failed |-> acc.failed]

\* A set that is read for its templates, and one that is read for its records.
Learns(datagram, acc, set) ==
    ~acc.failed /\ set.sized /\ set.id = TemplateSetId(datagram.version)
Reads(datagram, acc, set) ==
    /\ ~acc.failed /\ set.sized /\ set.id # TemplateSetId(datagram.version)
    /\ set.id >= 256 /\ Key(datagram.source, set.id) \in DOMAIN acc.cache

\* The parts of a state of decode_sets.
LEMMA StateParts ==
    ASSUME NEW c, NEW f, NEW e
    PROVE  /\ State(c, f, e).cache = c /\ State(c, f, e).flows = f
           /\ State(c, f, e).failed = e
           /\ IsState(State(c, f, e))
BY DEF State, IsState

\* A state that gave up, and one that did not.
Stopped(c, f) == State(c, f, TRUE)
Going(c, f) == State(c, f, FALSE)

\* A state gave up or it did not.
LEMMA StateEnds ==
    ASSUME NEW c, NEW f
    PROVE  /\ Stopped(c, f).cache = c /\ Stopped(c, f).flows = f
           /\ IsState(Stopped(c, f))
           /\ Stopped(c, f).failed \in BOOLEAN /\ Stopped(c, f).failed
           /\ Going(c, f).cache = c /\ Going(c, f).flows = f
           /\ IsState(Going(c, f))
           /\ Going(c, f).failed \in BOOLEAN /\ ~Going(c, f).failed
BY DEF State, IsState, Stopped, Going

\* What a set does to the state.
Took(datagram, acc, set, next) ==
    /\ IsState(next)
    /\ next.failed \in BOOLEAN
    /\ next.failed <=> (\/ acc.failed
                        \/ ~set.sized
                        \/ set.id = TemplateSetId(datagram.version)
                           /\ set.truncated)
    /\ Learns(datagram, acc, set) =>
           next.cache = Learn(acc.cache, datagram.source, set)
    /\ ~Learns(datagram, acc, set) => next.cache = acc.cache
    /\ Reads(datagram, acc, set) =>
           next.flows = acc.flows \o
               ParseRecords(acc.cache[Key(datagram.source, set.id)],
                            set.data, datagram.unix_secs)
    /\ ~Reads(datagram, acc, set) => next.flows = acc.flows

\* Every set does one of four things: nothing, give up, learn or read.
LEMMA TakeSetParts ==
    ASSUME NEW datagram, NEW acc, IsState(acc), acc.failed \in BOOLEAN,
           NEW set \in SetRecord,
           NEW next, next = TakeSet(datagram, acc, set)
    PROVE  Took(datagram, acc, set, next)
<1> DEFINE c == acc.cache
           f == acc.flows
           e == acc.failed
           learned == Learn(c, datagram.source, set)
           more == f \o ParseRecords(c[Key(datagram.source, set.id)],
                                     set.data, datagram.unix_secs)
<1>1. /\ set.sized \in BOOLEAN /\ set.truncated \in BOOLEAN /\ e \in BOOLEAN
      /\ acc = State(c, f, e)
  BY SetTypes DEF IsState, State
<1>2. next = IF e THEN State(c, f, e)
             ELSE IF ~set.sized THEN State(c, f, TRUE)
             ELSE IF set.id = TemplateSetId(datagram.version)
             THEN State(learned, f, set.truncated)
             ELSE IF set.id >= 256 /\ Key(datagram.source, set.id) \in DOMAIN c
             THEN State(c, more, FALSE)
             ELSE State(c, f, e)
  BY <1>1 DEF TakeSet
<1>3. /\ Learns(datagram, acc, set) <=>
             ~e /\ set.sized /\ set.id = TemplateSetId(datagram.version)
      /\ Reads(datagram, acc, set) <=>
             /\ ~e /\ set.sized /\ set.id # TemplateSetId(datagram.version)
             /\ set.id >= 256 /\ Key(datagram.source, set.id) \in DOMAIN c
  BY DEF Learns, Reads
<1> HIDE DEF c, f, e, learned, more
<1>4. CASE e
  <2>1. next = State(c, f, e)
    BY <1>1, <1>2, <1>3, <1>4
  <2>2. /\ IsState(next)
        /\ next.failed = e /\ next.cache = c /\ next.flows = f
    BY <2>1, StateParts
  <2>3. ~Learns(datagram, acc, set) /\ ~Reads(datagram, acc, set)
    BY <1>1, <1>3, <1>4
  <2>4. next.failed \in BOOLEAN /\ next.failed
    BY <1>1, <1>4, <2>2
  <2> HIDE DEF IsState, Learns, Reads
  <2> QED
    BY <1>1, <1>4, <2>2, <2>3, <2>4, Zenon DEF Took, c, f, e, learned, more
<1>5. CASE ~e /\ ~set.sized
  <2>1. next = Stopped(c, f)
    BY <1>1, <1>2, <1>3, <1>5 DEF Stopped
  <2>2. /\ IsState(next)
        /\ next.failed \in BOOLEAN /\ next.failed /\ next.cache = c /\ next.flows = f
    BY <2>1, StateEnds
  <2>3. ~Learns(datagram, acc, set) /\ ~Reads(datagram, acc, set)
    BY <1>1, <1>3, <1>5
  <2>4. next.failed \in BOOLEAN /\ next.failed
    BY <1>1, <1>5, <2>2
  <2> HIDE DEF IsState, Learns, Reads
  <2> QED
    BY <1>1, <1>5, <2>2, <2>3, <2>4, Zenon DEF Took, c, f, e, learned, more
<1>6. CASE ~e /\ set.sized /\ set.id = TemplateSetId(datagram.version)
  <2>1. next = State(learned, f, set.truncated)
    BY <1>1, <1>2, <1>3, <1>6
  <2>2. /\ IsState(next)
        /\ next.failed = set.truncated /\ next.cache = learned /\ next.flows = f
    BY <2>1, StateParts
  <2>3. Learns(datagram, acc, set) /\ ~Reads(datagram, acc, set)
    BY <1>1, <1>3, <1>6
  <2>4. next.failed \in BOOLEAN /\ (next.failed <=> set.truncated)
    BY <1>1, <1>6, <2>2
  <2> HIDE DEF IsState, Learns, Reads
  <2> QED
    BY <1>1, <1>6, <2>2, <2>3, <2>4, Zenon DEF Took, c, f, e, learned, more
<1>7. CASE /\ ~e /\ set.sized /\ set.id # TemplateSetId(datagram.version)
           /\ Reads(datagram, acc, set)
  <2>1. next = Going(c, more)
    BY <1>1, <1>2, <1>3, <1>7 DEF Going
  <2>2. /\ IsState(next)
        /\ next.failed \in BOOLEAN /\ ~next.failed /\ next.cache = c /\ next.flows = more
    BY <2>1, StateEnds
  <2>3. ~Learns(datagram, acc, set) /\ Reads(datagram, acc, set)
    BY <1>1, <1>3, <1>7
  <2>4. next.failed \in BOOLEAN /\ ~next.failed
    BY <1>1, <1>7, <2>2
  <2> HIDE DEF IsState, Learns, Reads
  <2> QED
    BY <1>1, <1>7, <2>2, <2>3, <2>4, Zenon DEF Took, c, f, e, learned, more
<1>8. CASE /\ ~e /\ set.sized /\ set.id # TemplateSetId(datagram.version)
           /\ ~Reads(datagram, acc, set)
  <2>1. next = State(c, f, e)
    BY <1>1, <1>2, <1>3, <1>8
  <2>2. /\ IsState(next)
        /\ next.failed = e /\ next.cache = c /\ next.flows = f
    BY <2>1, StateParts
  <2>3. ~Learns(datagram, acc, set) /\ ~Reads(datagram, acc, set)
    BY <1>1, <1>3, <1>8
  <2>4. next.failed \in BOOLEAN /\ ~next.failed
    BY <1>1, <1>8, <2>2
  <2> HIDE DEF IsState, Learns, Reads
  <2> QED
    BY <1>1, <1>8, <2>2, <2>3, <2>4, Zenon DEF Took, c, f, e, learned, more
<1>9. \/ e
      \/ ~e /\ ~set.sized
      \/ ~e /\ set.sized /\ set.id = TemplateSetId(datagram.version)
      \/ /\ ~e /\ set.sized /\ set.id # TemplateSetId(datagram.version)
         /\ Reads(datagram, acc, set)
      \/ /\ ~e /\ set.sized /\ set.id # TemplateSetId(datagram.version)
         /\ ~Reads(datagram, acc, set)
  BY <1>1
<1> QED
  BY <1>4, <1>5, <1>6, <1>7, <1>8, <1>9, Zenon

-----------------------------------------------------------------------------
(* A datagram, and the types *)

\* A cache of templates that have a length, under the keys of data sets.
CacheOK(cache) ==
    \A k \in DOMAIN cache :
        /\ k \in Nat \X Nat /\ k[2] >= 256
        /\ cache[k] \in Seq(FieldSpec) /\ RecLen(cache[k]) > 0

\* The types of the state of decode_sets.
StateOK(acc) ==
    /\ IsState(acc) /\ acc.failed \in BOOLEAN
    /\ CacheOK(acc.cache) /\ acc.flows \in Seq(FlowRecord)

\* The parts of a datagram.
LEMMA DatagramTypes ==
    ASSUME NEW datagram \in DatagramRecord
    PROVE  /\ datagram.source \in Nat /\ datagram.unix_secs \in Nat
           /\ datagram.headed \in BOOLEAN /\ datagram.count \in Nat
           /\ datagram.body \in Seq(Byte) /\ datagram.meant \in Seq(FlowRecord)
           /\ Len(datagram.sets) \in Nat
           /\ DOMAIN datagram.sets = 1 .. Len(datagram.sets)
           /\ \A i \in 1 .. Len(datagram.sets) : datagram.sets[i] \in SetRecord
<1>1. /\ datagram.source \in Nat /\ datagram.unix_secs \in Nat
      /\ datagram.headed \in BOOLEAN /\ datagram.count \in Nat
      /\ datagram.body \in Seq(Byte) /\ datagram.meant \in Seq(FlowRecord)
      /\ datagram.sets \in Seq(SetRecord)
  BY DEF DatagramRecord
<1>2. /\ Len(datagram.sets) \in Nat
      /\ DOMAIN datagram.sets = 1 .. Len(datagram.sets)
      /\ \A i \in 1 .. Len(datagram.sets) : datagram.sets[i] \in SetRecord
  BY <1>1, LenProperties, ElementOfSeq
<1> QED
  BY <1>1, <1>2

\* Only templates that have a length and a data set's number enter the cache.
LEMMA LearnType ==
    ASSUME NEW cache, CacheOK(cache), NEW source \in Nat, NEW set \in SetRecord
    PROVE  CacheOK(Learn(cache, source, set))
<1> DEFINE learned == Learn(cache, source, set)
<1>0. learned = Learn(cache, source, set)
  OBVIOUS
<1> HIDE DEF learned
<1>1. ASSUME NEW k \in DOMAIN learned
      PROVE  /\ k \in Nat \X Nat /\ k[2] >= 256
             /\ learned[k] \in Seq(FieldSpec) /\ RecLen(learned[k]) > 0
  <2>1. \/ k \in DOMAIN cache /\ learned[k] = cache[k]
        \/ \E d \in DOMAIN set.defs : /\ Cacheable(set.defs[d])
                                      /\ k = <<source, set.defs[d].id>>
                                      /\ learned[k] = set.defs[d].fields
    <3>1. EntriesFrom(cache, source, set, learned)
      BY <1>0, LearnEntries
    <3> QED
      BY <3>1 DEF EntriesFrom
  <2>2. CASE k \in DOMAIN cache /\ learned[k] = cache[k]
    BY <2>2 DEF CacheOK
  <2>3. CASE \E d \in DOMAIN set.defs : /\ Cacheable(set.defs[d])
                                        /\ k = <<source, set.defs[d].id>>
                                        /\ learned[k] = set.defs[d].fields
    <3>1. PICK d \in DOMAIN set.defs : /\ Cacheable(set.defs[d])
                                       /\ k = <<source, set.defs[d].id>>
                                       /\ learned[k] = set.defs[d].fields
      BY <2>3
    <3>2. set.defs[d].id \in Nat /\ set.defs[d].fields \in Seq(FieldSpec)
      BY SetTypes
    <3> QED
      BY <3>1, <3>2 DEF Cacheable
  <2> QED
    BY <2>1, <2>2, <2>3
<1>2. CacheOK(learned)
  BY <1>1 DEF CacheOK
<1> QED
  BY <1>2 DEF learned

\* A set keeps the types of the state.
LEMMA TakeSetType ==
    ASSUME NEW datagram \in DatagramRecord, NEW acc, StateOK(acc),
           NEW set \in SetRecord
    PROVE  StateOK(TakeSet(datagram, acc, set))
<1> DEFINE next == TakeSet(datagram, acc, set)
           layout == acc.cache[Key(datagram.source, set.id)]
           parsed == ParseRecords(layout, set.data, datagram.unix_secs)
<1>1. /\ IsState(acc) /\ acc.failed \in BOOLEAN
      /\ CacheOK(acc.cache) /\ acc.flows \in Seq(FlowRecord)
  BY DEF StateOK
<1>2. /\ IsState(next) /\ next.failed \in BOOLEAN
      /\ Learns(datagram, acc, set) =>
             next.cache = Learn(acc.cache, datagram.source, set)
      /\ ~Learns(datagram, acc, set) => next.cache = acc.cache
      /\ Reads(datagram, acc, set) => next.flows = acc.flows \o parsed
      /\ ~Reads(datagram, acc, set) => next.flows = acc.flows
  <2> HIDE DEF next
  <2>1. next = TakeSet(datagram, acc, set)
    BY DEF next
  <2> QED
    <3>1. Took(datagram, acc, set, next)
      BY <1>1, <2>1, TakeSetParts
    <3> QED
      BY <3>1, Zenon DEF Took
<1>3. /\ datagram.source \in Nat /\ datagram.unix_secs \in Nat
      /\ set.data \in Seq(Byte)
  BY DatagramTypes, SetTypes
<1> HIDE DEF next
<1>4. CacheOK(next.cache)
  BY <1>1, <1>2, <1>3, LearnType
<1>5. next.flows \in Seq(FlowRecord)
  <2>1. CASE Reads(datagram, acc, set)
    <3>1. layout \in Seq(FieldSpec) /\ RecLen(layout) > 0
      BY <1>1, <2>1 DEF Reads, CacheOK
    <3>2. parsed \in Seq(FlowRecord)
      BY <1>3, <3>1, ParseRecordsType
    <3> HIDE DEF parsed, layout
    <3> QED
      BY <1>1, <1>2, <2>1, <3>2, ConcatProperties
  <2>2. CASE ~Reads(datagram, acc, set)
    BY <1>1, <1>2, <2>2
  <2> QED
    BY <2>1, <2>2
<1> QED
  BY <1>2, <1>4, <1>5 DEF StateOK, next

\* What decode_sets has behind each set of a datagram.
Passes(datagram, acc) ==
    /\ acc[0] = State(templates, <<>>, FALSE)
    /\ \A i \in 1 .. Len(datagram.sets) :
           acc[i] = TakeSet(datagram, acc[i - 1], datagram.sets[i])
    /\ acc[Len(datagram.sets)] = DecodeSets(datagram)

\* Every datagram has its table of states, one behind each set.
LEMMA DatagramPasses ==
    ASSUME NEW datagram \in DatagramRecord
    PROVE  \E acc : Passes(datagram, acc)
<1> DEFINE n == Len(datagram.sets)
           first == State(templates, <<>>, FALSE)
<1>1. n \in Nat /\ DOMAIN datagram.sets = 1 .. n
  BY DatagramTypes
<1>2. PICK acc : Sections!Runs(datagram, first, datagram.sets, n, acc)
  <2> HIDE DEF n, first
  <2>1. Sections!TakesLast(n)
    BY <1>1, LargestPicks DEF Sections!TakesLast
  <2> QED
    BY <1>1, <2>1, Sections!FoldOfSequence
<1>3. Passes(datagram, acc)
  BY <1>1, <1>2, DatagramIsFold DEF Sections!Runs, TakeNext, Passes
<1> QED
  BY <1>3

\* decode_sets starts with the cache it was given and no flows.
LEMMA FirstType ==
    ASSUME NEW cache, CacheOK(cache)
    PROVE  StateOK(Going(cache, <<>>))
<1>1. <<>> \in Seq(FlowRecord)
  BY EmptySeq
<1> DEFINE none == <<>>
<1> HIDE DEF none
<1>2. /\ Going(cache, none).cache = cache /\ Going(cache, none).flows = none
      /\ IsState(Going(cache, none)) /\ Going(cache, none).failed \in BOOLEAN
  BY StateEnds
<1>3. StateOK(Going(cache, none))
  BY <1>1, <1>2 DEF StateOK, none
<1> QED
  BY <1>3 DEF none

\* The state has its types behind each set.
LEMMA PassTypes ==
    ASSUME NEW datagram \in DatagramRecord, CacheOK(templates),
           NEW acc, Passes(datagram, acc)
    PROVE  \A i \in 0 .. Len(datagram.sets) : StateOK(acc[i])
<1> DEFINE n == Len(datagram.sets)
           Good == {i \in 0 .. n : StateOK(acc[i])}
<1>1. n \in Nat /\ \A i \in 1 .. n : datagram.sets[i] \in SetRecord
  BY DatagramTypes
<1>2. 0 \in Good
  <2>1. acc[0] = Going(templates, <<>>)
    BY DEF Passes, Going
  <2>3. StateOK(acc[0])
    BY <2>1, FirstType
  <2> QED
    BY <1>1, <2>3
<1>3. ASSUME NEW i \in 1 .. n, i - 1 \in Good
      PROVE  i \in Good
  <2>1. StateOK(acc[i - 1]) /\ i \in 0 .. n /\ datagram.sets[i] \in SetRecord
    BY <1>1, <1>3
  <2>2. acc[i] = TakeSet(datagram, acc[i - 1], datagram.sets[i])
    BY DEF Passes
  <2> QED
    BY <2>1, <2>2, TakeSetType
<1>4. \A i \in 0 .. n : i \in Good
  <2> HIDE DEF Good, n
  <2> QED
    BY <1>1, <1>2, <1>3, UpTo
<1> QED
  BY <1>4

\* What decode_sets returns has its types.
LEMMA DecodeType ==
    ASSUME NEW datagram \in DatagramRecord, CacheOK(templates)
    PROVE  StateOK(DecodeSets(datagram))
<1>1. PICK acc : Passes(datagram, acc)
  BY DatagramPasses
<1>2. \A i \in 0 .. Len(datagram.sets) : StateOK(acc[i])
  BY <1>1, PassTypes
<1>3. Len(datagram.sets) \in 0 .. Len(datagram.sets)
  BY DatagramTypes
<1>4. acc[Len(datagram.sets)] = DecodeSets(datagram)
  BY <1>1 DEF Passes
<1> QED
  BY <1>2, <1>3, <1>4

\* A v5 record has a length.
LEMMA V5Type == V5Fields \in Seq(FieldSpec) /\ RecLen(V5Fields) > 0
<1>1. V5Fields \in Seq(FieldSpec) /\ Len(V5Fields) = 12 /\ V5Fields[12].len = 9
  BY DEF V5Fields, F, FieldSpec, IPV4_SRC_ADDR, IPV4_DST_ADDR, IN_PKTS, IN_BYTES,
         L4_SRC_PORT, L4_DST_PORT, TCP_FLAGS, PROTOCOL
<1>2. PICK off : Ends(V5Fields, off)
  BY <1>1, RecordEnds
<1>3. off[12] = off[11] + 9 /\ off[11] \in Nat /\ off[12] = RecLen(V5Fields)
  <2>1. 12 \in 1 .. Len(V5Fields) /\ 11 \in 0 .. Len(V5Fields) /\ 12 - 1 = 11
    BY <1>1
  <2> QED
    BY <1>1, <1>2, <2>1 DEF Ends
<1> QED
  BY <1>1, <1>3

\* The records of a v5 datagram yield flows.
LEMMA V5FlowsType ==
    ASSUME NEW datagram \in DatagramRecord,
           Len(datagram.body) >= datagram.count * RecLen(V5Fields)
    PROVE  ParseRecords(V5Fields,
                        SubSeq(datagram.body, 1, datagram.count * RecLen(V5Fields)),
                        datagram.unix_secs) \in Seq(FlowRecord)
<1> DEFINE size == datagram.count * RecLen(V5Fields)
<1>1. /\ datagram.count \in Nat /\ datagram.body \in Seq(Byte)
      /\ datagram.unix_secs \in Nat /\ RecLen(V5Fields) \in Nat
  BY DatagramTypes, V5Type, RecLenType
<1>2. size \in Nat
  BY <1>1
<1>3. size <= Len(datagram.body) /\ Len(datagram.body) \in Nat
  BY <1>1, <1>2, ByteTypes
<1> HIDE DEF size
<1>4. 0 + size <= Len(datagram.body) /\ 0 + 1 = 1 /\ 0 + size = size
  BY <1>2, <1>3
<1>5. SubSeq(datagram.body, 0 + 1, 0 + size) \in Seq(Byte)
  BY <1>1, <1>2, <1>4, Stretch
<1>6. SubSeq(datagram.body, 1, size) \in Seq(Byte)
  BY <1>4, <1>5
<1> QED
  BY <1>1, <1>6, V5Type, ParseRecordsType DEF size

\* A step takes one of the datagrams that may be sent.
LEMMA SentTypes ==
    /\ \A n \in DOMAIN Datagram : Datagram[n] \in DatagramRecord
<1>1. DOMAIN Datagram = 1 .. Len(Datagram)
  BY DatagramAssumption, LenProperties
<1> QED
  BY <1>1, DatagramAssumption, ElementOfSeq

\* The types survive every datagram, of whatever version and however broken.
LEMMA TypeStep == TypeOK /\ [Next]_vars => TypeOK'
<1> SUFFICES ASSUME TypeOK, [Next]_vars
             PROVE  TypeOK'
  OBVIOUS
<1>0. CacheOK(templates) /\ last.flows \in Seq(FlowRecord)
  BY DEF TypeOK, CacheOK
<1>2. ASSUME NEW n \in DOMAIN Datagram, DecodeV5(Datagram[n])
      PROVE  TypeOK'
  <2> DEFINE datagram == Datagram[n]
  <2>1. datagram \in DatagramRecord
    BY SentTypes
  <2> HIDE DEF datagram
  <2>2. /\ last'.outcome \in {"ok", "decode_error"}
        /\ last'.flows \in Seq(FlowRecord)
    <3>1. CASE datagram.headed
               /\ Len(datagram.body) >= datagram.count * RecLen(V5Fields)
      <4> DEFINE flows ==
              ParseRecords(V5Fields,
                           SubSeq(datagram.body, 1, datagram.count * RecLen(V5Fields)),
                           datagram.unix_secs)
      <4>1. flows \in Seq(FlowRecord)
        BY <2>1, <3>1, V5FlowsType
      <4>2. last' = [datagram |-> datagram, outcome |-> "ok", flows |-> flows]
        BY <1>2, <3>1 DEF DecodeV5, Return, datagram
      <4> HIDE DEF flows
      <4> QED
        BY <4>1, <4>2
    <3>2. CASE ~(datagram.headed
                 /\ Len(datagram.body) >= datagram.count * RecLen(V5Fields))
      <4>1. last' = [datagram |-> datagram, outcome |-> "decode_error", flows |-> <<>>]
        BY <1>2, <3>2 DEF DecodeV5, Return, datagram
      <4> QED
        BY <4>1, EmptySeq
    <3> QED
      BY <3>1, <3>2
  <2> QED
    BY <1>0, <1>2, <2>2 DEF DecodeV5, TypeOK, CacheOK
<1>3. ASSUME NEW n \in DOMAIN Datagram, DecodeHeaderless(Datagram[n])
      PROVE  TypeOK'
  BY <1>0, <1>3, EmptySeq DEF DecodeHeaderless, Return, TypeOK, CacheOK
<1>4. ASSUME NEW n \in DOMAIN Datagram, DecodeTemplated(Datagram[n])
      PROVE  TypeOK'
  <2> DEFINE done == DecodeSets(Datagram[n])
  <2>1. StateOK(done)
    BY <1>0, SentTypes, DecodeType
  <2> HIDE DEF done
  <2>2. templates' = done.cache
    BY <1>4 DEF DecodeTemplated, done
  <2>3. /\ last'.outcome \in {"ok", "decode_error"}
        /\ last'.flows \in Seq(FlowRecord)
    <3>1. \/ last' = [datagram |-> Datagram[n], outcome |-> "decode_error", flows |-> <<>>]
          \/ last' = [datagram |-> Datagram[n], outcome |-> "ok", flows |-> done.flows]
      BY <1>4 DEF DecodeTemplated, Return, done
    <3>2. <<>> \in Seq(FlowRecord) /\ done.flows \in Seq(FlowRecord)
      BY <2>1, EmptySeq DEF StateOK
    <3>3. ASSUME NEW outcome \in {"ok", "decode_error"}, NEW flows \in Seq(FlowRecord),
                 last' = [datagram |-> Datagram[n], outcome |-> outcome, flows |-> flows]
          PROVE  last'.outcome \in {"ok", "decode_error"} /\ last'.flows \in Seq(FlowRecord)
      BY <3>3
    <3> QED
      BY <3>1, <3>2, <3>3
  <2> QED
    BY <2>1, <2>2, <2>3 DEF StateOK, CacheOK, TypeOK
<1>5. ASSUME NEW n \in DOMAIN Datagram, DecodeOther(Datagram[n])
      PROVE  TypeOK'
  BY <1>0, <1>5, EmptySeq DEF DecodeOther, Return, TypeOK, CacheOK
<1>6. CASE UNCHANGED vars
  BY <1>6 DEF vars, TypeOK
<1> QED
  BY <1>2, <1>3, <1>4, <1>5, <1>6 DEF Next

\* The cache holds only templates with a length, under the keys of data sets, and what
\* decode returns are flows with whole addresses and counters of their width.
THEOREM TypeCorrect == Spec => []TypeOK
<1>1. Init => TypeOK
  BY EmptySeq DEF Init, TypeOK
<1>2. TypeOK /\ [Next]_vars => TypeOK'
  BY TypeStep
<1> QED
  BY <1>1, <1>2, PTL DEF Spec

-----------------------------------------------------------------------------
(* What the sets of a datagram announce *)

\* What the sets of a datagram mean, when a data set is read by its exporter's layout.
Means(datagram, layout) ==
    \A m \in 1 .. Len(datagram.sets) :
        LET set == datagram.sets[m]
            fields == layout[<<datagram.source, set.id>>]
        IN  /\ \A d \in DOMAIN set.defs :
                   set.defs[d].fields = layout[<<datagram.source, set.defs[d].id>>]
            /\ set.sized /\ set.id >= 256 /\ RecLen(fields) > 0 =>
                   set.meant = ParseRecords(fields, set.data, datagram.unix_secs)
            /\ set.sized /\ ~(set.id >= 256 /\ RecLen(fields) > 0) =>
                   set.meant = <<>>
            /\ set.defs # <<>> \/ set.truncated =>
                   set.sized /\ set.id = TemplateSetId(datagram.version)

\* A set that stops decode_sets, and the sets from there on.
Bad(datagram, i) == ~datagram.sets[i].sized \/ datagram.sets[i].truncated
GoneWrong(datagram, i) == \E j \in 1 .. i : Bad(datagram, j)

\* What the sets up to the i-th announce, but those behind a bad one.
Announces(datagram, i) ==
    {k \in Nat \X Nat :
        \E j \in 1 .. i : \E d \in DOMAIN datagram.sets[j].defs :
            /\ ~GoneWrong(datagram, j - 1)
            /\ Cacheable(datagram.sets[j].defs[d])
            /\ k = <<datagram.source, datagram.sets[j].defs[d].id>>}

\* The cache holds what was announced, as its exporter laid it out.
Holds(cache, known, layout) ==
    /\ DOMAIN cache = known
    /\ \A k \in DOMAIN cache : cache[k] = layout[k]

\* The cache stays what was announced when a set of its exporter is learned.
LEMMA LearnHolds ==
    ASSUME NEW datagram \in DatagramRecord, NEW layout, Means(datagram, layout),
           NEW i \in 1 .. Len(datagram.sets), NEW cache, NEW known,
           Holds(cache, known, layout)
    PROVE  Holds(Learn(cache, datagram.source, datagram.sets[i]),
                 known \cup NewKeys(datagram.source, datagram.sets[i]),
                 layout)
<1> DEFINE set == datagram.sets[i]
           source == datagram.source
           learned == Learn(cache, source, set)
<1>1. set \in SetRecord
  BY DatagramTypes
<1>2. learned = Learn(cache, source, set)
  OBVIOUS
<1>3. \A d \in DOMAIN set.defs : set.defs[d].fields = layout[<<source, set.defs[d].id>>]
  BY DEF Means
<1> HIDE DEF set, source, learned
<1>4. /\ DOMAIN learned = DOMAIN cache \cup NewKeys(source, set)
      /\ EntriesFrom(cache, source, set, learned)
  BY <1>1, <1>2, LearnEntries
<1>5. ASSUME NEW k \in DOMAIN learned
      PROVE  learned[k] = layout[k]
  <2>1. CASE k \in DOMAIN cache /\ learned[k] = cache[k]
    BY <2>1 DEF Holds
  <2>2. CASE \E d \in DOMAIN set.defs : /\ Cacheable(set.defs[d])
                                        /\ k = <<source, set.defs[d].id>>
                                        /\ learned[k] = set.defs[d].fields
    BY <1>3, <2>2
  <2> QED
    BY <1>4, <2>1, <2>2 DEF EntriesFrom
<1>6. Holds(learned, known \cup NewKeys(source, set), layout)
  BY <1>4, <1>5, Zenon DEF Holds
<1> QED
  BY <1>6, Zenon DEF set, source, learned

\* Before the first set nothing is announced.
LEMMA AnnouncesNone ==
    ASSUME NEW datagram
    PROVE  Announces(datagram, 0) = {} /\ ~GoneWrong(datagram, 0)
BY DEF Announces, GoneWrong

\* Each set announces its templates, unless a set before it was bad.
LEMMA AnnouncesMore ==
    ASSUME NEW datagram \in DatagramRecord, NEW i \in 1 .. Len(datagram.sets)
    PROVE  /\ GoneWrong(datagram, i) <=> GoneWrong(datagram, i - 1) \/ Bad(datagram, i)
           /\ Announces(datagram, i) =
                  Announces(datagram, i - 1) \cup
                  IF GoneWrong(datagram, i - 1) THEN {}
                  ELSE NewKeys(datagram.source, datagram.sets[i])
<1>1. i \in Int /\ 1 .. i = 1 .. (i - 1) \cup {i}
  BY DatagramTypes
<1>2. GoneWrong(datagram, i) <=> GoneWrong(datagram, i - 1) \/ Bad(datagram, i)
  BY <1>1 DEF GoneWrong
<1> DEFINE New == NewKeys(datagram.source, datagram.sets[i])
<1>3. New \subseteq Nat \X Nat
  <2>1. datagram.sets[i] \in SetRecord /\ datagram.source \in Nat
    BY DatagramTypes
  <2> QED
    BY <2>1, SetTypes DEF NewKeys
<1>4. \A k \in Nat \X Nat :
          k \in New <=> \E d \in DOMAIN datagram.sets[i].defs :
                            /\ Cacheable(datagram.sets[i].defs[d])
                            /\ k = <<datagram.source, datagram.sets[i].defs[d].id>>
  BY DEF NewKeys
<1> HIDE DEF New
<1>5. CASE GoneWrong(datagram, i - 1)
  <2>1. Announces(datagram, i) = Announces(datagram, i - 1)
    BY <1>1, <1>5 DEF Announces
  <2> QED
    BY <1>2, <1>5, <2>1
<1>6. CASE ~GoneWrong(datagram, i - 1)
  <2>1. Announces(datagram, i) = Announces(datagram, i - 1) \cup New
    BY <1>1, <1>3, <1>4, <1>6 DEF Announces
  <2> QED
    BY <1>2, <1>6, <2>1 DEF New
<1> QED
  BY <1>5, <1>6

\* Every template of a set, up to the first bad one, is whole: what decode_sets saw.
LEMMA SeenIsAnnounced ==
    ASSUME NEW datagram \in DatagramRecord, NEW layout, Means(datagram, layout)
    PROVE  Seen(datagram) = Announces(datagram, Len(datagram.sets))
<1> DEFINE n == Len(datagram.sets)
           sets == datagram.sets
           bad == {i \in DOMAIN sets : ~sets[i].sized \/ sets[i].truncated}
           upto == {i \in DOMAIN sets : \A b \in bad : i <= b}
<1>1. n \in Nat /\ DOMAIN sets = 1 .. n /\ \A i \in 1 .. n : sets[i] \in SetRecord
  BY DatagramTypes
<1>2. ASSUME NEW i \in 1 .. n
      PROVE  i \in upto <=> ~GoneWrong(datagram, i - 1)
  BY <1>1 DEF GoneWrong, Bad
<1>3. ASSUME NEW k \in Seen(datagram)
      PROVE  k \in Announces(datagram, n)
  <2>1. PICK def \in UNION {ToSet(sets[i].defs) : i \in upto} :
            Cacheable(def) /\ k = <<datagram.source, def.id>>
    BY <1>3 DEF Seen
  <2>2. PICK i \in upto : def \in ToSet(sets[i].defs)
    BY <2>1
  <2>3. i \in 1 .. n
    BY <1>1, <2>2
  <2>4. PICK d \in DOMAIN sets[i].defs : def = sets[i].defs[d]
    BY <2>2 DEF ToSet
  <2>5. ~GoneWrong(datagram, i - 1)
    BY <1>2, <2>2, <2>3
  <2>6. def.id \in Nat /\ datagram.source \in Nat
    BY <1>1, <2>3, <2>4, SetTypes, DatagramTypes
  <2> QED
    BY <2>1, <2>3, <2>4, <2>5, <2>6 DEF Announces
<1>4. ASSUME NEW k \in Announces(datagram, n)
      PROVE  k \in Seen(datagram)
  <2>1. PICK i \in 1 .. n : \E d \in DOMAIN sets[i].defs :
            /\ ~GoneWrong(datagram, i - 1)
            /\ Cacheable(sets[i].defs[d])
            /\ k = <<datagram.source, sets[i].defs[d].id>>
    BY <1>4 DEF Announces
  <2>2. PICK d \in DOMAIN sets[i].defs :
            /\ ~GoneWrong(datagram, i - 1)
            /\ Cacheable(sets[i].defs[d])
            /\ k = <<datagram.source, sets[i].defs[d].id>>
    BY <2>1
  <2>3. i \in upto
    BY <1>2, <2>2
  <2>4. sets[i].defs[d] \in ToSet(sets[i].defs)
    BY <2>2 DEF ToSet
  <2>5. sets[i].defs[d] \in UNION {ToSet(sets[j].defs) : j \in upto}
    BY <2>3, <2>4
  <2> QED
    BY <2>2, <2>5 DEF Seen
<1> QED
  BY <1>3, <1>4

\* The cache behind each set.
LEMMA PassHolds ==
    ASSUME NEW datagram \in DatagramRecord, NEW layout, Means(datagram, layout),
           CacheOK(templates), NEW known, Holds(templates, known, layout),
           NEW acc, Passes(datagram, acc)
    PROVE  \A i \in 0 .. Len(datagram.sets) :
               /\ acc[i].failed <=> GoneWrong(datagram, i)
               /\ Holds(acc[i].cache, known \cup Announces(datagram, i), layout)
<1> DEFINE n == Len(datagram.sets)
           Good == {i \in 0 .. n :
                       /\ acc[i].failed <=> GoneWrong(datagram, i)
                       /\ Holds(acc[i].cache, known \cup Announces(datagram, i), layout)}
<1>1. n \in Nat /\ \A i \in 1 .. n : datagram.sets[i] \in SetRecord
  BY DatagramTypes
<1>2. 0 \in Good
  <2>1. acc[0] = Going(templates, <<>>)
    BY DEF Passes, Going
  <2> DEFINE none == <<>>
  <2> HIDE DEF none
  <2>2. Going(templates, none).cache = templates /\ ~Going(templates, none).failed
    BY StateEnds
  <2>3. acc[0].cache = templates /\ ~acc[0].failed
    BY <2>1, <2>2 DEF none
  <2>4. known \cup Announces(datagram, 0) = known /\ ~GoneWrong(datagram, 0)
    BY AnnouncesNone
  <2>5. 0 \in 0 .. n
    BY <1>1
  <2> QED
    BY <2>3, <2>4, <2>5
<1>3. ASSUME NEW i \in 1 .. n, i - 1 \in Good
      PROVE  i \in Good
  <2> DEFINE set == datagram.sets[i]
             old == acc[i - 1]
             next == acc[i]
             New == NewKeys(datagram.source, set)
             before == known \cup Announces(datagram, i - 1)
             after == known \cup Announces(datagram, i)
  <2>1. set \in SetRecord /\ i - 1 \in 0 .. n /\ i \in 0 .. n
    BY <1>1
  <2>2. StateOK(old)
    BY <2>1, PassTypes
  <2>3. next = TakeSet(datagram, old, set)
    BY DEF Passes
  <2>4. Took(datagram, old, set, next)
    <3> HIDE DEF set, old, next
    <3> QED
      BY <2>1, <2>2, <2>3, TakeSetParts DEF StateOK
  <2>5. /\ old.failed <=> GoneWrong(datagram, i - 1)
        /\ Holds(old.cache, before, layout)
    BY <1>3
  <2>6. /\ GoneWrong(datagram, i) <=> GoneWrong(datagram, i - 1) \/ Bad(datagram, i)
        /\ after = before \cup IF GoneWrong(datagram, i - 1) THEN {} ELSE New
    BY AnnouncesMore
  <2>7. Bad(datagram, i) <=> ~set.sized \/ set.truncated
    BY DEF Bad
  <2>8. set.defs # <<>> \/ set.truncated =>
            set.sized /\ set.id = TemplateSetId(datagram.version)
    BY DEF Means
  <2>9. Holds(Learn(old.cache, datagram.source, set), before \cup New, layout)
    <3> HIDE DEF before
    <3> QED
      BY <2>5, LearnHolds
  <2>10. set.defs = <<>> => New = {}
    BY DEF NewKeys
  <2> HIDE DEF set, old, next, New, before, after
  <2>11. next.failed <=> GoneWrong(datagram, i)
    BY <2>4, <2>5, <2>6, <2>7, <2>8, Zenon DEF Took
  <2>12. Holds(next.cache, after, layout)
    <3>1. CASE Learns(datagram, old, set)
      <4>1. next.cache = Learn(old.cache, datagram.source, set)
        BY <2>4, <3>1, Zenon DEF Took
      <4>2. after = before \cup New
        BY <2>5, <2>6, <3>1 DEF Learns
      <4> QED
        BY <2>9, <4>1, <4>2
    <3>2. CASE ~Learns(datagram, old, set)
      <4>1. next.cache = old.cache
        BY <2>4, <3>2, Zenon DEF Took
      <4>2. after = before
        BY <2>5, <2>6, <2>8, <2>10, <3>2 DEF Learns
      <4> QED
        BY <2>5, <4>1, <4>2
    <3> QED
      BY <3>1, <3>2
  <2> QED
    BY <2>1, <2>11, <2>12 DEF next, after
<1>4. \A i \in 0 .. n : i \in Good
  <2> HIDE DEF Good, n
  <2> QED
    BY <1>1, <1>2, <1>3, UpTo
<1> QED
  BY <1>4

-----------------------------------------------------------------------------
(* What the sets of a datagram mean *)

\* What is expected of each set.
Pieces(known, datagram) ==
    [m \in 1 .. Len(datagram.sets) |->
        IF KnownBefore(known, datagram, m) THEN datagram.sets[m].meant ELSE <<>>]

\* What decode_sets adds for a set.
Adds(datagram, acc, set) ==
    IF Reads(datagram, acc, set)
    THEN ParseRecords(acc.cache[Key(datagram.source, set.id)],
                      set.data, datagram.unix_secs)
    ELSE <<>>

\* What went wrong stays wrong.
LEMMA GoneWrongEarlier ==
    ASSUME NEW datagram, NEW i \in Nat, NEW m \in 1 .. i, ~GoneWrong(datagram, i)
    PROVE  ~GoneWrong(datagram, m - 1)
<1>1. 1 .. (m - 1) \subseteq 1 .. i
  OBVIOUS
<1> QED
  BY <1>1 DEF GoneWrong

\* A set adds the flows that are expected of it.
LEMMA AddsPiece ==
    ASSUME NEW datagram \in DatagramRecord, NEW layout, Means(datagram, layout),
           NEW i \in 1 .. Len(datagram.sets), NEW acc, StateOK(acc),
           NEW known, Holds(acc.cache, known \cup Announces(datagram, i - 1), layout),
           ~acc.failed, ~GoneWrong(datagram, i - 1), datagram.sets[i].sized
    PROVE  Adds(datagram, acc, datagram.sets[i]) = Pieces(known, datagram)[i]
<1> DEFINE set == datagram.sets[i]
           key == <<datagram.source, set.id>>
           fields == layout[key]
           piece == IF KnownBefore(known, datagram, i) THEN set.meant ELSE <<>>
           cache == acc.cache
           parsed == ParseRecords(cache[key], set.data, datagram.unix_secs)
<1>1. /\ set \in SetRecord /\ datagram.source \in Nat /\ set.id \in Nat
      /\ i - 1 \in Nat /\ Len(datagram.sets) \in Nat
  <2>1. set \in SetRecord /\ datagram.source \in Nat /\ Len(datagram.sets) \in Nat
    BY DatagramTypes
  <2> QED
    BY <2>1, SetTypes
<1>2. /\ set.id >= 256 /\ RecLen(fields) > 0 =>
             set.meant = ParseRecords(fields, set.data, datagram.unix_secs)
      /\ ~(set.id >= 256 /\ RecLen(fields) > 0) => set.meant = <<>>
  BY DEF Means
<1>3. Pieces(known, datagram)[i] = piece
  BY DEF Pieces
<1>4. DOMAIN cache = known \cup Announces(datagram, i - 1)
  BY DEF Holds
<1>5. \A k \in DOMAIN cache : cache[k] = layout[k] /\ RecLen(cache[k]) > 0
  BY DEF Holds, StateOK, CacheOK
<1>6. KnownBefore(known, datagram, i) <=>
          \/ key \in known
          \/ \E m \in 1 .. i - 1 : \E d \in DOMAIN datagram.sets[m].defs :
                 datagram.sets[m].defs[d].id = set.id
  BY DEF KnownBefore
<1>7. Adds(datagram, acc, set) =
          IF /\ set.id # TemplateSetId(datagram.version)
             /\ set.id >= 256 /\ key \in DOMAIN cache
          THEN parsed ELSE <<>>
  BY DEF Adds, Reads, Key
<1>8. CASE /\ set.id # TemplateSetId(datagram.version)
           /\ set.id >= 256 /\ key \in DOMAIN cache
  <2>1. KnownBefore(known, datagram, i)
    <3>1. CASE key \in known
      BY <1>6, <3>1
    <3>2. CASE key \in Announces(datagram, i - 1)
      <4>1. PICK m \in 1 .. i - 1 : \E d \in DOMAIN datagram.sets[m].defs :
                key = <<datagram.source, datagram.sets[m].defs[d].id>>
        BY <3>2 DEF Announces
      <4>2. PICK d \in DOMAIN datagram.sets[m].defs :
                key = <<datagram.source, datagram.sets[m].defs[d].id>>
        BY <4>1
      <4>3. datagram.sets[m].defs[d].id = set.id
        BY <4>2
      <4> QED
        BY <1>6, <4>3
    <3> QED
      BY <1>4, <1>8, <3>1, <3>2
  <2>2. cache[key] = fields /\ RecLen(fields) > 0
    BY <1>5, <1>8
  <2> HIDE DEF set, key, fields, cache
  <2>3. set.meant = parsed
    BY <1>2, <1>8, <2>2
  <2> QED
    BY <1>3, <1>7, <1>8, <2>1, <2>3 DEF set
<1>9. CASE ~(/\ set.id # TemplateSetId(datagram.version)
             /\ set.id >= 256 /\ key \in DOMAIN cache)
  <2>1. piece = <<>>
    <3>1. CASE ~(set.id >= 256)
      BY <1>2, <3>1
    <3>2. CASE set.id >= 256
      <4>1. set.id # TemplateSetId(datagram.version)
        BY <1>1, <3>2 DEF TemplateSetId
      <4>2. key \notin known /\ key \notin Announces(datagram, i - 1)
        BY <1>4, <1>9, <3>2, <4>1
      <4>3. ASSUME NEW m \in 1 .. i - 1, NEW d \in DOMAIN datagram.sets[m].defs,
                   datagram.sets[m].defs[d].id = set.id
            PROVE  set.meant = <<>>
        <5> DEFINE def == datagram.sets[m].defs[d]
        <5>1. m \in 1 .. Len(datagram.sets)
          BY <1>1
        <5>2. def.fields = layout[<<datagram.source, def.id>>]
          BY <5>1 DEF Means
        <5>3. ~GoneWrong(datagram, m - 1)
          BY <1>1, GoneWrongEarlier
        <5>4. key \in Nat \X Nat
          BY <1>1
        <5>5. ~Cacheable(def)
          BY <4>2, <4>3, <5>3, <5>4 DEF Announces
        <5>6. ~(RecLen(def.fields) > 0)
          BY <3>2, <4>3, <5>5 DEF Cacheable
        <5>7. ~(RecLen(fields) > 0)
          BY <4>3, <5>2, <5>6
        <5> QED
          BY <1>2, <5>7
      <4> QED
        BY <1>6, <4>2, <4>3
    <3> QED
      BY <3>1, <3>2
  <2> HIDE DEF set, piece
  <2> QED
    BY <1>3, <1>7, <1>9, <2>1 DEF set
<1> QED
  BY <1>8, <1>9

\* As long as nothing is wrong, the flows are those expected.
LEMMA PassFlows ==
    ASSUME NEW datagram \in DatagramRecord, NEW layout, Means(datagram, layout),
           CacheOK(templates), NEW known, Holds(templates, known, layout),
           NEW acc, Passes(datagram, acc), NEW flat,
           Flattens(FlowRecord, Pieces(known, datagram), Len(datagram.sets), flat)
    PROVE  \A i \in 0 .. Len(datagram.sets) : ~acc[i].failed => acc[i].flows = flat[i]
<1> DEFINE n == Len(datagram.sets)
           Good == {i \in 0 .. n : ~acc[i].failed => acc[i].flows = flat[i]}
<1>1. n \in Nat /\ \A i \in 1 .. n : datagram.sets[i] \in SetRecord
  BY DatagramTypes
<1>2. 0 \in Good
  <2>1. acc[0] = Going(templates, <<>>)
    BY DEF Passes, Going
  <2> DEFINE none == <<>>
  <2> HIDE DEF none
  <2>2. Going(templates, none).flows = none
    BY StateEnds
  <2>3. acc[0].flows = <<>>
    BY <2>1, <2>2 DEF none
  <2>4. flat[0] = <<>>
    BY DEF Flattens
  <2> QED
    BY <1>1, <2>3, <2>4
<1>3. ASSUME NEW i \in 1 .. n, i - 1 \in Good
      PROVE  i \in Good
  <2> DEFINE set == datagram.sets[i]
             old == acc[i - 1]
             next == acc[i]
             piece == Pieces(known, datagram)[i]
  <2>1. set \in SetRecord /\ i - 1 \in 0 .. n /\ i \in 0 .. n
    BY <1>1
  <2>2. StateOK(old)
    BY <2>1, PassTypes
  <2>3. next = TakeSet(datagram, old, set)
    BY DEF Passes
  <2>4. Took(datagram, old, set, next)
    <3> HIDE DEF set, old, next
    <3> QED
      BY <2>1, <2>2, <2>3, TakeSetParts DEF StateOK
  <2>5. /\ old.failed <=> GoneWrong(datagram, i - 1)
        /\ Holds(old.cache, known \cup Announces(datagram, i - 1), layout)
    BY <2>1, PassHolds
  <2>6. ~old.failed => old.flows = flat[i - 1]
    BY <1>3
  <2>7. flat[i] = flat[i - 1] \o piece /\ flat[i - 1] \in Seq(FlowRecord)
    BY <2>1 DEF Flattens
  <2>8. ASSUME ~next.failed
        PROVE  next.flows = flat[i]
    <3>1. ~old.failed /\ set.sized
      <4> HIDE DEF set, old, next
      <4> QED
        BY <2>4, <2>8, Zenon DEF Took
    <3>2. Adds(datagram, old, set) = piece
      BY <2>2, <2>5, <3>1, AddsPiece
    <3> HIDE DEF set, old, next, piece
    <3>3. CASE Reads(datagram, old, set)
      <4>1. next.flows = old.flows \o
                ParseRecords(old.cache[Key(datagram.source, set.id)],
                             set.data, datagram.unix_secs)
        BY <2>4, <3>3, Zenon DEF Took
      <4>2. next.flows = old.flows \o piece
        BY <3>2, <3>3, <4>1 DEF Adds
      <4> QED
        BY <2>6, <2>7, <3>1, <4>2
    <3>4. CASE ~Reads(datagram, old, set)
      <4>1. next.flows = old.flows
        BY <2>4, <3>4, Zenon DEF Took
      <4>2. piece = <<>>
        BY <3>2, <3>4 DEF Adds
      <4>3. flat[i - 1] \o <<>> = flat[i - 1]
        BY <2>7, ConcatEmptySeq
      <4> QED
        BY <2>6, <2>7, <3>1, <4>1, <4>2, <4>3
    <3> QED
      BY <3>3, <3>4
  <2> QED
    BY <2>1, <2>8
<1>4. \A i \in 0 .. n : i \in Good
  <2> HIDE DEF Good, n
  <2> QED
    BY <1>1, <1>2, <1>3, UpTo
<1> QED
  BY <1>4

\* What is expected of each set are flows.
LEMMA PiecesType ==
    ASSUME NEW datagram \in DatagramRecord, NEW known
    PROVE  /\ Len(datagram.sets) \in Nat
           /\ Pieces(known, datagram) \in [1 .. Len(datagram.sets) -> Seq(FlowRecord)]
           /\ Expected(known, datagram) = FlattenSeq(Pieces(known, datagram))
<1>1. /\ Len(datagram.sets) \in Nat
      /\ DOMAIN datagram.sets = 1 .. Len(datagram.sets)
  BY DatagramTypes
<1>2. \A m \in 1 .. Len(datagram.sets) : datagram.sets[m].meant \in Seq(FlowRecord)
  BY DatagramTypes, SetTypes
<1>3. <<>> \in Seq(FlowRecord)
  BY EmptySeq
<1>4. Pieces(known, datagram) \in [1 .. Len(datagram.sets) -> Seq(FlowRecord)]
  BY <1>2, <1>3 DEF Pieces
<1>5. Expected(known, datagram) = FlattenSeq(Pieces(known, datagram))
  BY <1>1 DEF Expected, Pieces
<1> QED
  BY <1>1, <1>4, <1>5

\* decode_sets of a datagram: what is cached, and what is returned.
LEMMA Decodes ==
    ASSUME NEW datagram \in DatagramRecord, NEW layout, Means(datagram, layout),
           CacheOK(templates), NEW known, Holds(templates, known, layout)
    PROVE  LET done == DecodeSets(datagram)
           IN  /\ Holds(done.cache, known \cup Seen(datagram), layout)
               /\ ~done.failed => done.flows = Expected(known, datagram)
<1> DEFINE n == Len(datagram.sets)
           done == DecodeSets(datagram)
<1>1. PICK acc : Passes(datagram, acc)
  BY DatagramPasses
<1>2. PICK flat : Flattens(FlowRecord, Pieces(known, datagram), n, flat)
  <2> HIDE DEF n
  <2> QED
    BY PiecesType, FlattenRuns DEF n
<1>3. n \in 0 .. n
  BY DatagramTypes
<1>4. acc[n] = done
  BY <1>1 DEF Passes
<1>5. Holds(acc[n].cache, known \cup Seen(datagram), layout)
  BY <1>1, <1>3, PassHolds, SeenIsAnnounced
<1>6. ~acc[n].failed => acc[n].flows = flat[n]
  BY <1>1, <1>2, <1>3, PassFlows
<1>7. flat[n] = Expected(known, datagram)
  BY <1>2, PiecesType DEF Flattens
<1> HIDE DEF n, done
<1> QED
  BY <1>4, <1>5, <1>6, <1>7 DEF done

-----------------------------------------------------------------------------
(* Numbers written in bytes *)

\* One byte is shifted out.
ShiftOne(ctx, i, x) == x \div 256
Shifts == INSTANCE FoldTheory WITH op <- ShiftOne, pick <- Largest

\* Shift takes the bytes off one at a time.
LEMMA ShiftIsFold ==
    ASSUME NEW v, NEW k \in Nat
    PROVE  Shift(v, k) = Shifts!Fold(0, v, [i \in 1 .. k |-> i], 1 .. k)
<1>1. DOMAIN [i \in 1 .. k |-> i] = 1 .. k
  OBVIOUS
<1>2. Shift(v, k) = Shifts!Fold(0, v, [i \in 1 .. k |-> i], DOMAIN [i \in 1 .. k |-> i])
  BY DEF Shift, FoldLeft, Shifts!Fold, ShiftOne, Largest, MapThenFoldSet,
         Shifts!MapThenFoldSet
<1> QED
  BY <1>1, <1>2

\* The shifts of a number, as far as n bytes.
Sheds(v, n, s) ==
    /\ s \in [0 .. n -> Nat]
    /\ s[0] = v
    /\ \A k \in 1 .. n : s[k] = s[k - 1] \div 256 /\ s[k] <= s[k - 1]
    /\ \A k \in 0 .. n : s[k] = Shift(v, k) /\ s[k] <= v

\* What division by 256 does to a number.
LEMMA DivFacts ==
    ASSUME NEW x \in Nat
    PROVE  /\ x \div 256 \in Nat /\ x \div 256 <= x
           /\ x % 256 \in 0 .. 255 /\ x = (x \div 256) * 256 + (x % 256)
OBVIOUS

\* Every number has its table of shifts.
LEMMA ShiftSheds ==
    ASSUME NEW v \in Nat, NEW n \in Nat
    PROVE  \E s : Sheds(v, n, s)
<1> DEFINE f == [i \in 1 .. n |-> i]
<1>0. PICK acc : Shifts!Runs(0, v, f, n, acc)
  <2> HIDE DEF f
  <2>1. Shifts!TakesLast(n)
    BY LargestPicks DEF Shifts!TakesLast
  <2> QED
    BY <2>1, Shifts!FoldOfSequence
<1> DEFINE s == [k \in 0 .. n |-> acc[k]]
           Good == {k \in 0 .. n : s[k] \in Nat /\ s[k] <= v}
<1>a. /\ acc[0] = v
      /\ \A k \in 1 .. n : acc[k] = acc[k - 1] \div 256
      /\ \A k \in 0 .. n : acc[k] = Shifts!Fold(0, v, f, 1 .. k)
  BY <1>0 DEF Shifts!Runs, ShiftOne
<1>1. s[0] = v
  BY <1>a
<1>2. \A k \in 1 .. n : s[k] = s[k - 1] \div 256
  <2>1. \A k \in 1 .. n : k \in 0 .. n /\ k - 1 \in 0 .. n
    OBVIOUS
  <2> QED
    BY <1>a, <2>1
<1>3. \A k \in 0 .. n : s[k] = Shift(v, k)
  <2>1. ASSUME NEW k \in 0 .. n
        PROVE  s[k] = Shift(v, k)
    <3> DEFINE g == [i \in 1 .. k |-> i]
    <3>1. Shifts!TakesLast(k) /\ k \in Nat
      BY LargestPicks DEF Shifts!TakesLast
    <3>2. Shifts!Agree(f, g, k)
      BY DEF Shifts!Agree
    <3>3. Shift(v, k) = Shifts!Fold(0, v, g, 1 .. k)
      BY <3>1, ShiftIsFold
    <3> HIDE DEF f, g
    <3>4. Shifts!Fold(0, v, f, 1 .. k) = Shifts!Fold(0, v, g, 1 .. k)
      BY <3>1, <3>2, Shifts!FoldOfPrefix
    <3> QED
      BY <1>a, <3>3, <3>4
  <2> QED
    BY <2>1
<1>4. s = [k \in 0 .. n |-> s[k]]
  OBVIOUS
<1> HIDE DEF s
<1>5. \A k \in 0 .. n : k \in Good
  <2>1. 0 \in Good
    BY <1>1
  <2>2. ASSUME NEW k \in 1 .. n, k - 1 \in Good
        PROVE  k \in Good
    <3>1. s[k - 1] \in Nat /\ s[k - 1] <= v /\ k \in 0 .. n
      BY <2>2
    <3>2. s[k] = s[k - 1] \div 256
      BY <1>2
    <3>3. s[k] \in Nat /\ s[k] <= s[k - 1]
      BY <3>1, <3>2, DivFacts
    <3> QED
      BY <3>1, <3>3
  <2> HIDE DEF Good
  <2> QED
    BY <2>1, <2>2, UpTo
<1>6. \A k \in 1 .. n : s[k] <= s[k - 1]
  <2>1. ASSUME NEW k \in 1 .. n
        PROVE  s[k] <= s[k - 1]
    <3>1. k - 1 \in 0 .. n
      OBVIOUS
    <3>2. s[k - 1] \in Nat
      BY <1>5, <3>1
    <3> QED
      BY <1>2, <3>2, DivFacts
  <2> QED
    BY <2>1
<1>7. s \in [0 .. n -> Nat]
  BY <1>4, <1>5
<1>8. Sheds(v, n, s)
  BY <1>1, <1>2, <1>3, <1>5, <1>6, <1>7 DEF Sheds
<1> QED
  BY <1>8

\* What is written in n bytes is read back.
LEMMA BigEndianBack ==
    ASSUME NEW v \in Value, NEW n \in Nat, Shift(v, n) = 0
    PROVE  /\ BigEndian(v, n) \in Seq(Byte)
           /\ Len(BigEndian(v, n)) = n
           /\ BeInt(BigEndian(v, n)) = v
<1> DEFINE bytes == BigEndian(v, n)
<1>0. v \in Nat /\ v < U64 /\ U64 \in Nat \ {0}
  BY WidthAssumption DEF Value
<1>1. PICK s : Sheds(v, n, s)
  BY <1>0, ShiftSheds
<1>2. bytes = [i \in 1 .. n |-> s[n - i] % 256]
  <2>1. \A i \in 1 .. n : n - i \in 0 .. n
    OBVIOUS
  <2>2. \A i \in 1 .. n : Shift(v, n - i) = s[n - i]
    BY <1>1, <2>1 DEF Sheds
  <2> QED
    BY <2>2 DEF BigEndian
<1> HIDE DEF bytes
<1>3. \A i \in 1 .. n : /\ n - i \in 0 .. n /\ s[n - i] \in Nat /\ s[n - i] < U64
                        /\ bytes[i] \in Byte
  <2>1. ASSUME NEW i \in 1 .. n
        PROVE  /\ n - i \in 0 .. n /\ s[n - i] \in Nat /\ s[n - i] < U64
               /\ bytes[i] \in Byte
    <3>1. n - i \in 0 .. n
      OBVIOUS
    <3>2. s[n - i] \in Nat /\ s[n - i] <= v
      BY <1>1, <3>1 DEF Sheds
    <3>3. bytes[i] = s[n - i] % 256
      BY <1>2
    <3> QED
      BY <1>0, <3>1, <3>2, <3>3, DivFacts DEF Byte
  <2> QED
    BY <2>1
<1>4. bytes \in Seq(Byte) /\ Len(bytes) = n /\ DOMAIN bytes = 1 .. n
  BY <1>2, <1>3
<1>5. PICK acc : Ints!Runs(0, 0, bytes, n, acc)
  <2>1. Ints!TakesLast(n)
    BY LargestPicks DEF Ints!TakesLast
  <2> QED
    BY <2>1, Ints!FoldOfSequence
<1>6. /\ acc[0] = 0
      /\ \A i \in 1 .. n : acc[i] = (acc[i - 1] * 256 + bytes[i]) % U64
      /\ acc[n] = BeInt(bytes)
  BY <1>4, <1>5, BeIntIsFold DEF Ints!Runs, AddByte
<1> DEFINE Good == {i \in 0 .. n : acc[i] = s[n - i]}
<1>7. 0 \in Good
  <2>1. s[n] = Shift(v, n) /\ n - 0 = n
    BY <1>1 DEF Sheds
  <2> QED
    BY <1>6, <2>1
<1>8. ASSUME NEW i \in 1 .. n, i - 1 \in Good
      PROVE  i \in Good
  <2> DEFINE x == s[n - i]
  <2>1. x \in Nat /\ x < U64 /\ bytes[i] = x % 256
    BY <1>2, <1>3
  <2>2. acc[i - 1] = x \div 256
    <3>1. n - (i - 1) \in 1 .. n /\ (n - (i - 1)) - 1 = n - i
      OBVIOUS
    <3>2. s[n - (i - 1)] = s[n - i] \div 256
      BY <1>1, <3>1 DEF Sheds
    <3> QED
      BY <1>8, <3>2
  <2>3. acc[i] = (acc[i - 1] * 256 + bytes[i]) % U64 /\ i \in 0 .. n
    BY <1>6
  <2> HIDE DEF x
  <2>4. acc[i - 1] * 256 + bytes[i] = x
    BY <2>1, <2>2, DivFacts
  <2>5. x % U64 = x
    BY <1>0, <2>1
  <2>6. acc[i] = x
    BY <2>3, <2>4, <2>5
  <2> QED
    BY <2>3, <2>6 DEF x
<1>9. acc[n] = s[0]
  <2> HIDE DEF Good
  <2>1. \A i \in 0 .. n : i \in Good
    BY <1>7, <1>8, UpTo
  <2>2. n \in Good /\ n - n = 0
    BY <2>1
  <2> QED
    BY <2>2 DEF Good
<1>10. BeInt(bytes) = v
  BY <1>1, <1>6, <1>9 DEF Sheds
<1> QED
  BY <1>4, <1>10 DEF bytes

-----------------------------------------------------------------------------
(* Where the pieces of a sequence lie *)

\* A sequence lies in another, behind an index.
Sits(s, at, piece) == \A j \in 1 .. Len(piece) : s[at + j] = piece[j]

\* Where sequences end that lie one behind the other.
Places(seqs, n, off) ==
    /\ off \in [0 .. n -> Nat]
    /\ off[0] = 0
    /\ \A i \in 1 .. n : off[i] = off[i - 1] + Len(seqs[i])

\* The second sequence lies behind the first.
LEMMA ConcatSits ==
    ASSUME NEW T, NEW s \in Seq(T), NEW t \in Seq(T)
    PROVE  /\ s \o t \in Seq(T)
           /\ Len(s) \in Nat /\ Len(t) \in Nat /\ Len(s \o t) = Len(s) + Len(t)
           /\ \A k \in 1 .. Len(s) : (s \o t)[k] = s[k]
           /\ Sits(s \o t, Len(s), t)
<1>1. Len(s) \in Nat /\ Len(t) \in Nat
  BY LenProperties
<1>2. /\ s \o t \in Seq(T)
      /\ Len(s \o t) = Len(s) + Len(t)
      /\ \A i \in 1 .. Len(s) + Len(t) :
             (s \o t)[i] = IF i <= Len(s) THEN s[i] ELSE t[i - Len(s)]
  BY ConcatProperties
<1>3. \A k \in 1 .. Len(s) : (s \o t)[k] = s[k]
  BY <1>1, <1>2
<1>4. \A j \in 1 .. Len(t) : /\ Len(s) + j \in 1 .. Len(s) + Len(t)
                             /\ ~(Len(s) + j <= Len(s))
                             /\ (Len(s) + j) - Len(s) = j
  BY <1>1
<1>5. Sits(s \o t, Len(s), t)
  BY <1>2, <1>4 DEF Sits
<1> QED
  BY <1>1, <1>2, <1>3, <1>5

\* Each sequence lies in the flattened one where the one before it ends.
LEMMA FlattenPlaces ==
    ASSUME NEW T, NEW n \in Nat, NEW seqs \in [1 .. n -> Seq(T)],
           NEW off, Places(seqs, n, off)
    PROVE  /\ FlattenSeq(seqs) \in Seq(T)
           /\ Len(FlattenSeq(seqs)) = off[n]
           /\ \A i \in 1 .. n : Sits(FlattenSeq(seqs), off[i - 1], seqs[i])
<1>1. PICK flat : Flattens(T, seqs, n, flat)
  BY FlattenRuns
<1> DEFINE Done(m) == /\ Len(flat[m]) = off[m]
                      /\ \A i \in 1 .. m : /\ off[i] <= off[m]
                                           /\ Sits(flat[m], off[i - 1], seqs[i])
           Good == {m \in 0 .. n : Done(m)}
<1>2. 0 \in Good
  <2>1. flat[0] = <<>> /\ off[0] = 0
    BY <1>1 DEF Flattens, Places
  <2> QED
    BY <2>1
<1>3. ASSUME NEW m \in 1 .. n, m - 1 \in Good
      PROVE  m \in Good
  <2> DEFINE old == flat[m - 1]
             next == flat[m]
             piece == seqs[m]
  <2>0. m - 1 \in 0 .. n /\ m \in 0 .. n
    OBVIOUS
  <2>1. next = old \o piece /\ old \in Seq(T) /\ piece \in Seq(T)
    BY <1>1, <2>0 DEF Flattens
  <2>2. Len(old) = off[m - 1] /\ \A i \in 1 .. m - 1 : /\ off[i] <= off[m - 1]
                                                     /\ Sits(old, off[i - 1], seqs[i])
    BY <1>3
  <2>3. off[m] = off[m - 1] + Len(piece) /\ off[m] \in Nat /\ off[m - 1] \in Nat
    BY <2>0 DEF Places
  <2> HIDE DEF old, next, piece
  <2>4. /\ Len(next) = Len(old) + Len(piece) /\ Len(piece) \in Nat
        /\ \A k \in 1 .. Len(old) : next[k] = old[k]
        /\ Sits(next, Len(old), piece)
    BY <2>1, ConcatSits
  <2>5. ASSUME NEW i \in 1 .. m - 1
        PROVE  off[i] <= off[m] /\ Sits(next, off[i - 1], seqs[i])
    <3>1. i \in 1 .. n /\ i \in 0 .. n /\ i - 1 \in 0 .. n
      OBVIOUS
    <3>2. off[i] = off[i - 1] + Len(seqs[i]) /\ off[i] \in Nat /\ off[i - 1] \in Nat
      BY <3>1 DEF Places
    <3>3. seqs[i] \in Seq(T) /\ Len(seqs[i]) \in Nat
      BY <3>1, LenProperties
    <3>4. off[i] <= off[m - 1] /\ Sits(old, off[i - 1], seqs[i])
      BY <2>2
    <3>5. \A j \in 1 .. Len(seqs[i]) : off[i - 1] + j \in 1 .. Len(old)
      <4> DEFINE a == off[i - 1]
                 l == Len(seqs[i])
                 b == Len(old)
      <4>1. a \in Nat /\ l \in Nat /\ b \in Nat /\ a + l <= b
        BY <2>2, <2>3, <3>2, <3>3, <3>4
      <4> HIDE DEF a, b, l
      <4>2. \A j \in 1 .. l : a + j \in 1 .. b
        BY <4>1
      <4> QED
        BY <4>2 DEF a, b, l
    <3>6. \A j \in 1 .. Len(seqs[i]) : next[off[i - 1] + j] = seqs[i][j]
      BY <2>4, <3>4, <3>5 DEF Sits
    <3>7. off[i] <= off[m]
      <4>1. off[i] <= off[m - 1]
        BY <3>4
      <4>2. off[m - 1] <= off[m]
        BY <2>1, <2>3, <2>4
      <4>3. {off[i], off[m - 1], off[m]} \subseteq Nat
        BY <2>3, <3>2
      <4> DEFINE x == off[i]
                 y == off[m - 1]
                 z == off[m]
      <4>4. x \in Nat /\ y \in Nat /\ z \in Nat /\ x <= y /\ y <= z
        BY <4>1, <4>2, <4>3
      <4> HIDE DEF x, y, z
      <4>5. x <= z
        BY <4>4
      <4> QED
        BY <4>5 DEF x, z
    <3> QED
      BY <3>6, <3>7 DEF Sits
  <2>6. off[m] <= off[m] /\ Sits(next, off[m - 1], seqs[m])
    BY <2>2, <2>3, <2>4 DEF piece
  <2>7. \A i \in 1 .. m : i \in 1 .. m - 1 \/ i = m
    OBVIOUS
  <2>8. Done(m)
    BY <2>2, <2>3, <2>4, <2>5, <2>6, <2>7 DEF next
  <2> QED
    BY <2>0, <2>8
<1>4. n \in Good
  <2> HIDE DEF Good
  <2>1. \A m \in 0 .. n : m \in Good
    BY <1>2, <1>3, UpTo
  <2> QED
    BY <2>1
<1>5. flat[n] = FlattenSeq(seqs) /\ flat[n] \in Seq(T)
  BY <1>1 DEF Flattens
<1> QED
  BY <1>4, <1>5

\* A stretch where a sequence of bytes lies.
Covers(s, at, piece, first, end) ==
    /\ at \in Nat /\ first = at + 1 /\ end = at + Len(piece) /\ end <= Len(s)
    /\ Sits(s, at, piece)

\* A stretch taken where a sequence lies is that sequence.
LEMMA SitsSlice ==
    ASSUME NEW s \in Seq(Byte), NEW piece \in Seq(Byte), NEW at, NEW first, NEW end,
           Covers(s, at, piece, first, end)
    PROVE  SubSeq(s, first, end) = piece
<1> DEFINE l == Len(piece)
           slice == SubSeq(s, at + 1, at + l)
<1>0. at \in Nat /\ first = at + 1 /\ end = at + l /\ end <= Len(s) /\ Sits(s, at, piece)
  BY DEF Covers
<1>1. l \in Nat /\ at + l <= Len(s)
  BY <1>0, ByteTypes
<1> HIDE DEF l
<1>2. /\ slice \in Seq(Byte) /\ Len(slice) = l
      /\ \A j \in 1 .. l : slice[j] = s[at + j]
  BY <1>0, <1>1, Stretch
<1>3. \A j \in 1 .. l : slice[j] = piece[j]
  BY <1>0, <1>2 DEF Sits, l
<1>4. SubSeq(s, first, end) = slice
  BY <1>0
<1> HIDE DEF slice
<1>5. slice = piece
  BY <1>2, <1>3, SeqEqual DEF l
<1> QED
  BY <1>4, <1>5

-----------------------------------------------------------------------------
(* Records as they are written *)

\* The parts of a flow a field can set.
Parts == {"src", "dst", "src_port", "dst_port", "proto", "tcp_flags", "bytes", "packets"}

\* A field the decoder takes sets one of them.
LEMMA TakenPart ==
    ASSUME NEW field \in FieldSpec, Taken(field)
    PROVE  /\ Sets[field.ty] \in Parts
           /\ Sets[field.ty] \in {"src", "dst"} => field.len = 4
           /\ field.len \in Nat
BY SetsTable DEF Taken, Length, Parts, FieldSpec

\* The parts of a flow, and their types.
LEMMA FlowParts ==
    ASSUME NEW flow \in FlowRecord
    PROVE  /\ flow.src \in Address /\ flow.dst \in Address
           /\ \A part \in Parts : part \notin {"src", "dst"} => flow[part] \in Value
           /\ \A part \in {"src", "dst"} : flow[part] \in Address
           /\ flow.unix_secs \in Nat
BY DEF FlowRecord, Parts

\* An address is four bytes.
LEMMA AddressIsBytes ==
    ASSUME NEW address \in Address
    PROVE  address \in Seq(Byte) /\ Len(address) = 4 /\ address # <<>>
<1>1. address = [i \in 1 .. 4 |-> address[i]] /\ \A i \in 1 .. 4 : address[i] \in Byte
  BY DEF Address
<1>2. 4 \in Nat
  OBVIOUS
<1>3. address \in Seq(Byte) /\ Len(address) = 4
  BY <1>1, <1>2
<1>4. ASSUME address = <<>>
      PROVE  FALSE
  <2>1. Len(<<>>) = 0
    OBVIOUS
  <2> QED
    BY <1>3, <1>4, <2>1
<1> QED
  BY <1>3, <1>4

\* A field is written as long as it is, and what the decoder takes is read back.
LEMMA WrittenField ==
    ASSUME NEW flow \in FlowRecord, NEW field \in FieldSpec,
           Taken(field) /\ Sets[field.ty] \notin {"src", "dst"} =>
               Shift(flow[Sets[field.ty]], field.len) = 0
    PROVE  /\ WriteField(flow, field) \in Seq(Byte)
           /\ Len(WriteField(flow, field)) = field.len
           /\ \A draft : SetField(draft, field, WriteField(flow, field)) =
                  IF Taken(field)
                  THEN [draft EXCEPT ![Sets[field.ty]] = flow[Sets[field.ty]]]
                  ELSE draft
<1> DEFINE part == Sets[field.ty]
<1>1. CASE ~Taken(field)
  <2>1. WriteField(flow, field) = [i \in 1 .. field.len |-> 0]
    BY <1>1 DEF WriteField
  <2>2. field.len \in Nat /\ 0 \in Byte
    BY DEF FieldSpec, Byte
  <2>3. WriteField(flow, field) \in Seq(Byte) /\ Len(WriteField(flow, field)) = field.len
    BY <2>1, <2>2
  <2> QED
    BY <1>1, <2>3 DEF SetField
<1>2. CASE Taken(field) /\ part \in {"src", "dst"}
  <2>1. WriteField(flow, field) = flow[part] /\ field.len = 4 /\ flow[part] \in Address
    BY <1>2, TakenPart, FlowParts DEF WriteField
  <2>2. WriteField(flow, field) \in Seq(Byte) /\ Len(WriteField(flow, field)) = field.len
    BY <2>1, AddressIsBytes
  <2> QED
    BY <1>2, <2>1, <2>2 DEF SetField
<1>3. CASE Taken(field) /\ part \notin {"src", "dst"}
  <2>1. /\ WriteField(flow, field) = BigEndian(flow[part], field.len)
        /\ flow[part] \in Value /\ field.len \in Nat /\ Shift(flow[part], field.len) = 0
    BY <1>3, TakenPart, FlowParts DEF WriteField
  <2>2. /\ WriteField(flow, field) \in Seq(Byte)
        /\ Len(WriteField(flow, field)) = field.len
        /\ BeInt(WriteField(flow, field)) = flow[part]
    BY <2>1, BigEndianBack
  <2> QED
    BY <1>3, <2>2 DEF SetField
<1> QED
  BY <1>1, <1>2, <1>3

\* A record is as long as its layout, with each field in its place.
LEMMA WrittenRecord ==
    ASSUME NEW flow \in FlowRecord, NEW fields \in Seq(FieldSpec), NEW unix_secs,
           Fits(flow, fields, unix_secs), NEW off, Ends(fields, off)
    PROVE  /\ WriteRecord(fields, flow) \in Seq(Byte)
           /\ Len(WriteRecord(fields, flow)) = RecLen(fields)
           /\ \A i \in 1 .. Len(fields) :
                  SubSeq(WriteRecord(fields, flow), off[i - 1] + 1, off[i])
                      = WriteField(flow, fields[i])
<1> DEFINE n == Len(fields)
           seqs == [i \in 1 .. n |-> WriteField(flow, fields[i])]
           rec == WriteRecord(fields, flow)
<1>1. /\ n \in Nat /\ DOMAIN fields = 1 .. n
      /\ \A i \in 1 .. n : fields[i] \in FieldSpec
  BY FieldTypes
<1>2. \A i \in 1 .. n : /\ WriteField(flow, fields[i]) \in Seq(Byte)
                        /\ Len(WriteField(flow, fields[i])) = fields[i].len
  <2>1. \A i \in 1 .. n : Taken(fields[i]) /\ Sets[fields[i].ty] \notin {"src", "dst"} =>
            Shift(flow[Sets[fields[i].ty]], fields[i].len) = 0
    BY <1>1 DEF Fits
  <2> QED
    BY <1>1, <2>1, WrittenField
<1>3. seqs \in [1 .. n -> Seq(Byte)]
  BY <1>2
<1>4. rec = FlattenSeq(seqs)
  BY <1>1 DEF WriteRecord
<1>5. Places(seqs, n, off)
  BY <1>2 DEF Ends, Places
<1> HIDE DEF seqs, rec, n
<1>6. /\ rec \in Seq(Byte) /\ Len(rec) = off[n]
      /\ \A i \in 1 .. n : Sits(rec, off[i - 1], seqs[i])
  BY <1>1, <1>3, <1>4, <1>5, FlattenPlaces
<1>7. off[n] = RecLen(fields)
  BY DEF Ends, n
<1>8. ASSUME NEW i \in 1 .. n
      PROVE  SubSeq(rec, off[i - 1] + 1, off[i]) = WriteField(flow, fields[i])
  <2> DEFINE piece == WriteField(flow, fields[i])
             at == off[i - 1]
             end == off[i]
             first == at + 1
  <2>1. piece \in Seq(Byte) /\ piece = seqs[i] /\ Len(piece) = fields[i].len
    BY <1>2 DEF seqs
  <2>2. i - 1 \in 0 .. n /\ i \in 0 .. n
    BY <1>1
  <2>3. at \in Nat /\ end \in Nat /\ end = at + Len(piece)
    BY <2>1, <2>2 DEF Ends, n
  <2>4. end <= Len(rec)
    BY <1>6, <1>7, <2>2, EndsInOrder DEF n
  <2>5. Sits(rec, at, piece)
    BY <1>6, <2>1
  <2>6. Covers(rec, at, piece, first, end)
    BY <2>3, <2>4, <2>5 DEF Covers
  <2> HIDE DEF piece, at, end, first
  <2>7. SubSeq(rec, first, end) = piece
    BY <1>6, <2>1, <2>6, SitsSlice
  <2> QED
    BY <2>7 DEF piece, at, end, first
<1> QED
  BY <1>6, <1>7, <1>8 DEF rec, n

\* Parts of a flow that the first fields of a layout carry.
CarriesBy(fields, i, part) ==
    \E j \in 1 .. i : Taken(fields[j]) /\ Sets[fields[j].ty] = part

\* The parts the first fields carry, when one more field is counted.
LEMMA CarriesMore ==
    ASSUME NEW fields \in Seq(FieldSpec), NEW i \in 1 .. Len(fields), NEW part
    PROVE  CarriesBy(fields, i, part) <=>
               \/ CarriesBy(fields, i - 1, part)
               \/ Taken(fields[i]) /\ Sets[fields[i].ty] = part
<1>1. i \in Nat /\ 1 .. i = 1 .. (i - 1) \cup {i}
  BY FieldTypes
<1> QED
  BY <1>1 DEF CarriesBy

\* All the fields carry what the layout carries.
LEMMA CarriesAll ==
    ASSUME NEW fields \in Seq(FieldSpec), NEW part
    PROVE  CarriesBy(fields, Len(fields), part) <=> Carries(fields, part)
BY FieldTypes DEF CarriesBy, Carries

\* What a blank draft holds.
LEMMA BlankParts ==
    ASSUME NEW unix_secs
    PROVE  /\ \A part \in {"src", "dst"} : Blank(unix_secs)[part] = <<>>
           /\ \A part \in Parts : part \notin {"src", "dst"} => Blank(unix_secs)[part] = 0
           /\ Blank(unix_secs).unix_secs = unix_secs
BY DEF Blank, Parts

\* One part of a draft is set, the others stay.
SetTo(draft, part, v, next) ==
    /\ next[part] = v
    /\ \A p \in Parts : p # part => next[p] = draft[p]
    /\ next.unix_secs = draft.unix_secs

\* SetField sets the part of its field and no other.
LEMMA DraftSet ==
    ASSUME NEW draft \in Draft, NEW part \in Parts, NEW v, NEW next,
           next = [draft EXCEPT ![part] = v]
    PROVE  SetTo(draft, part, v, next)
BY DEF Draft, Parts, SetTo

\* The parts of a draft, field by field.
LEMMA DraftTypes ==
    ASSUME NEW fields \in Seq(FieldSpec), NEW rec \in Seq(Byte),
           Len(rec) >= RecLen(fields), NEW unix_secs \in Nat,
           NEW off, Ends(fields, off), NEW draft,
           Drafts(fields, rec, unix_secs, off, draft)
    PROVE  \A i \in 0 .. Len(fields) : draft[i] \in Draft
<1> DEFINE n == Len(fields)
           Good == {i \in 0 .. n : draft[i] \in Draft}
<1>3. n \in Nat
  BY FieldTypes
<1>4. 0 \in Good
  BY <1>3, BlankType DEF Drafts
<1>5. ASSUME NEW i \in 1 .. n, i - 1 \in Good
      PROVE  i \in Good
  <2> DEFINE slice == SubSeq(rec, off[i - 1] + 1, off[i])
  <2>1. slice \in Seq(Byte) /\ Len(slice) = fields[i].len
    BY SliceType
  <2>2. fields[i] \in FieldSpec /\ draft[i - 1] \in Draft
    BY <1>5, FieldTypes
  <2>3. draft[i] = SetField(draft[i - 1], fields[i], slice)
    BY DEF Drafts
  <2> HIDE DEF slice
  <2>4. draft[i] \in Draft
    BY <2>1, <2>2, <2>3, SetFieldType
  <2> QED
    BY <1>3, <2>4
<1>6. \A i \in 0 .. n : i \in Good
  <2> HIDE DEF Good, n
  <2> QED
    BY <1>3, <1>4, <1>5, UpTo
<1> QED
  BY <1>6

-----------------------------------------------------------------------------
(* A record that comes back *)

\* What its own record makes of a blank flow.
LEMMA DraftsBack ==
    ASSUME NEW flow \in FlowRecord, NEW fields \in Seq(FieldSpec), NEW unix_secs \in Nat,
           Fits(flow, fields, unix_secs), NEW off, Ends(fields, off), NEW draft,
           Drafts(fields, WriteRecord(fields, flow), unix_secs, off, draft)
    PROVE  \A i \in 0 .. Len(fields) :
               /\ draft[i] \in Draft
               /\ draft[i].unix_secs = unix_secs
               /\ \A part \in Parts :
                      draft[i][part] = IF CarriesBy(fields, i, part) THEN flow[part]
                                       ELSE Blank(unix_secs)[part]
<1> DEFINE n == Len(fields)
           rec == WriteRecord(fields, flow)
           Done(i) == /\ draft[i].unix_secs = unix_secs
                      /\ \A part \in Parts :
                             draft[i][part] = IF CarriesBy(fields, i, part) THEN flow[part]
                                              ELSE Blank(unix_secs)[part]
           Good == {i \in 0 .. n : Done(i)}
<1>1. n \in Nat /\ DOMAIN fields = 1 .. n /\ \A i \in 1 .. n : fields[i] \in FieldSpec
  BY FieldTypes
<1>2. /\ rec \in Seq(Byte) /\ Len(rec) = RecLen(fields)
      /\ \A i \in 1 .. n : SubSeq(rec, off[i - 1] + 1, off[i]) = WriteField(flow, fields[i])
  BY WrittenRecord
<1>3. \A i \in 0 .. n : draft[i] \in Draft
  <2>1. Len(rec) >= RecLen(fields)
    BY <1>2, RecLenType
  <2> HIDE DEF rec
  <2> QED
    BY <1>2, <2>1, DraftTypes DEF rec
<1>4. 0 \in Good
  <2>1. draft[0] = Blank(unix_secs)
    BY DEF Drafts
  <2>2. \A part : ~CarriesBy(fields, 0, part)
    BY DEF CarriesBy
  <2> QED
    BY <1>1, <2>1, <2>2, BlankParts
<1>5. ASSUME NEW i \in 1 .. n, i - 1 \in Good
      PROVE  i \in Good
  <2> DEFINE field == fields[i]
             old == draft[i - 1]
             next == draft[i]
  <2>1. /\ field \in FieldSpec /\ old \in Draft /\ Done(i - 1)
        /\ i - 1 \in 0 .. n /\ i \in 0 .. n
    BY <1>1, <1>3, <1>5
  <2>2. next = SetField(old, field, WriteField(flow, field))
    BY <1>2 DEF Drafts
  <2>3. Taken(field) /\ Sets[field.ty] \notin {"src", "dst"} =>
            Shift(flow[Sets[field.ty]], field.len) = 0
    BY <1>1 DEF Fits
  <2>4. next = IF Taken(field)
               THEN [old EXCEPT ![Sets[field.ty]] = flow[Sets[field.ty]]]
               ELSE old
    <3> HIDE DEF field, old, next
    <3> QED
      BY <2>1, <2>2, <2>3, WrittenField
  <2>5. \A part : CarriesBy(fields, i, part) <=>
                      \/ CarriesBy(fields, i - 1, part)
                      \/ Taken(field) /\ Sets[field.ty] = part
    BY CarriesMore
  <2>6. CASE ~Taken(field)
    BY <2>1, <2>4, <2>5, <2>6
  <2>7. CASE Taken(field)
    <3> DEFINE set == Sets[field.ty]
    <3>1. set \in Parts
      BY <2>1, <2>7, TakenPart
    <3> DEFINE v == flow[set]
    <3>0. old \in Draft
      BY <2>1
    <3>2. next = [old EXCEPT ![set] = v]
      BY <2>4, <2>7
    <3> HIDE DEF set, next, old, field, v
    <3>3. /\ next[set] = v
          /\ \A p \in Parts : p # set => next[p] = old[p]
          /\ next.unix_secs = old.unix_secs
      <4>1. SetTo(old, set, v, next)
        BY <3>0, <3>1, <3>2, DraftSet
      <4> QED
        BY <4>1 DEF SetTo
    <3>4. \A part : CarriesBy(fields, i, part) <=>
                        CarriesBy(fields, i - 1, part) \/ set = part
      BY <2>5, <2>7 DEF set
    <3>5. /\ old.unix_secs = unix_secs
          /\ \A part \in Parts :
                 old[part] = IF CarriesBy(fields, i - 1, part) THEN flow[part]
                             ELSE Blank(unix_secs)[part]
      BY <2>1 DEF old
    <3>6. /\ next.unix_secs = unix_secs
          /\ \A part \in Parts :
                 next[part] = IF CarriesBy(fields, i, part) THEN flow[part]
                              ELSE Blank(unix_secs)[part]
      BY <3>3, <3>4, <3>5 DEF v
    <3> QED
      BY <2>1, <3>6 DEF next
  <2> QED
    BY <2>6, <2>7
<1>6. \A i \in 0 .. n : i \in Good
  <2> HIDE DEF Good, n
  <2> QED
    BY <1>1, <1>4, <1>5, UpTo
<1> QED
  BY <1>3, <1>6

\* A draft with both addresses is a flow.
LEMMA DraftIsFlow ==
    ASSUME NEW draft \in Draft, NEW flow \in FlowRecord,
           draft.unix_secs = flow.unix_secs,
           \A part \in Parts : draft[part] = flow[part]
    PROVE  draft = flow
BY DEF Draft, FlowRecord, Parts

\* A flow that fits its layout comes back from its record.
LEMMA RecordBack ==
    ASSUME NEW flow \in FlowRecord, NEW fields \in Seq(FieldSpec), NEW unix_secs \in Nat,
           Fits(flow, fields, unix_secs), HasAddresses(fields)
    PROVE  ParseRecord(fields, WriteRecord(fields, flow), unix_secs) = <<flow>>
<1> DEFINE n == Len(fields)
           rec == WriteRecord(fields, flow)
           last_draft == RecFlow(fields, rec, unix_secs)
<1>1. PICK off : Ends(fields, off)
  BY RecordEnds
<1>2. PICK draft : Drafts(fields, rec, unix_secs, off, draft)
  BY <1>1, RecordDrafts
<1>3. n \in 0 .. n
  BY FieldTypes
<1>4. draft[n] = last_draft
  BY <1>2 DEF Drafts
<1>5. /\ draft[n] \in Draft
      /\ draft[n].unix_secs = unix_secs
      /\ \A part \in Parts :
             draft[n][part] = IF CarriesBy(fields, n, part) THEN flow[part]
                              ELSE Blank(unix_secs)[part]
  BY <1>1, <1>2, <1>3, DraftsBack
<1>6. ASSUME NEW part \in Parts
      PROVE  draft[n][part] = flow[part]
  <2>1. CarriesBy(fields, n, part) <=> Carries(fields, part)
    BY CarriesAll
  <2>2. CASE Carries(fields, part)
    BY <1>5, <2>1, <2>2
  <2>3. CASE ~Carries(fields, part)
    <3>1. part \notin {"src", "dst"}
      BY <2>3 DEF HasAddresses
    <3>2. part \in {"src_port", "dst_port", "proto", "tcp_flags", "bytes", "packets"}
      BY <3>1 DEF Parts
    <3>3. flow[part] = 0
      BY <2>3, <3>2 DEF Fits
    <3>4. Blank(unix_secs)[part] = 0
      BY <3>1, BlankParts
    <3> QED
      BY <1>5, <2>1, <2>3, <3>3, <3>4
  <2> QED
    BY <2>2, <2>3
<1>7. flow.unix_secs = unix_secs
  BY DEF Fits
<1>8. last_draft = flow
  BY <1>4, <1>5, <1>6, <1>7, DraftIsFlow
<1>9. flow.src # <<>> /\ flow.dst # <<>>
  BY FlowParts, AddressIsBytes
<1>10. ParseRecord(fields, rec, unix_secs) =
           IF last_draft.src # <<>> /\ last_draft.dst # <<>> THEN <<last_draft>> ELSE <<>>
  BY RecordIsFold
<1> HIDE DEF last_draft, rec
<1> QED
  BY <1>8, <1>9, <1>10 DEF rec

\* Without a field for an address there is no flow.
LEMMA RecordNone ==
    ASSUME NEW fields \in Seq(FieldSpec), NEW rec \in Seq(Byte),
           Len(rec) >= RecLen(fields), NEW unix_secs \in Nat, ~HasAddresses(fields)
    PROVE  ParseRecord(fields, rec, unix_secs) = <<>>
<1> DEFINE n == Len(fields)
           last_draft == RecFlow(fields, rec, unix_secs)
<1>1. PICK off : Ends(fields, off)
  BY RecordEnds
<1>2. PICK draft : Drafts(fields, rec, unix_secs, off, draft)
  BY <1>1, RecordDrafts
<1>3. PICK part \in {"src", "dst"} : ~Carries(fields, part)
  BY DEF HasAddresses
<1> DEFINE Good == {i \in 0 .. n : draft[i][part] = <<>>}
<1>4. n \in Nat /\ DOMAIN fields = 1 .. n /\ \A i \in 1 .. n : fields[i] \in FieldSpec
  BY FieldTypes
<1>5. \A i \in 0 .. n : draft[i] \in Draft
  BY <1>1, <1>2, DraftTypes
<1>6. 0 \in Good
  <2>1. draft[0] = Blank(unix_secs)
    BY <1>2 DEF Drafts
  <2> QED
    BY <1>4, <2>1, BlankParts
<1>7. ASSUME NEW i \in 1 .. n, i - 1 \in Good
      PROVE  i \in Good
  <2> DEFINE field == fields[i]
             slice == SubSeq(rec, off[i - 1] + 1, off[i])
             old == draft[i - 1]
             next == draft[i]
             set == Sets[field.ty]
  <2>1. field \in FieldSpec /\ old \in Draft /\ old[part] = <<>> /\ i \in 0 .. n
    BY <1>4, <1>5, <1>7
  <2>2. next = SetField(old, field, slice)
    BY <1>2 DEF Drafts
  <2>3. CASE ~Taken(field)
    BY <2>1, <2>2, <2>3 DEF SetField
  <2>4. CASE Taken(field)
    <3>1. set # part
      BY <1>3, <1>4, <2>4 DEF Carries
    <3>2. set \in Parts /\ part \in Parts
      BY <2>1, <2>4, TakenPart DEF Parts
    <3> DEFINE v == IF set \in {"src", "dst"} THEN slice ELSE BeInt(slice)
    <3>3. next = [old EXCEPT ![set] = v]
      BY <2>2, <2>4 DEF SetField
    <3> HIDE DEF v, set, next, old, field, slice
    <3>4. next[part] = old[part]
      <4>1. SetTo(old, set, v, next)
        BY <2>1, <3>2, <3>3, DraftSet
      <4> QED
        BY <3>1, <3>2, <4>1 DEF SetTo
    <3> QED
      BY <2>1, <3>4 DEF next
  <2> QED
    BY <2>3, <2>4
<1>8. draft[n][part] = <<>>
  <2> HIDE DEF Good, n
  <2>1. \A i \in 0 .. n : i \in Good
    BY <1>4, <1>6, <1>7, UpTo
  <2> QED
    BY <1>4, <2>1 DEF Good
<1>9. draft[n] = last_draft
  BY <1>2 DEF Drafts
<1>10. ParseRecord(fields, rec, unix_secs) =
           IF last_draft.src # <<>> /\ last_draft.dst # <<>> THEN <<last_draft>> ELSE <<>>
  BY RecordIsFold
<1> HIDE DEF last_draft
<1>11. last_draft["src"] = last_draft.src /\ last_draft["dst"] = last_draft.dst
  OBVIOUS
<1> QED
  BY <1>3, <1>8, <1>9, <1>10, <1>11

-----------------------------------------------------------------------------
(* A body that comes back *)

\* Flattening sequences of one element each gives those elements.
LEMMA FlattenSingles ==
    ASSUME NEW T, NEW flows \in Seq(T)
    PROVE  FlattenSeq([i \in 1 .. Len(flows) |-> <<flows[i]>>]) = flows
<1> DEFINE n == Len(flows)
           seqs == [i \in 1 .. n |-> <<flows[i]>>]
           off == [i \in 0 .. n |-> i]
<1>1. n \in Nat /\ \A i \in 1 .. n : flows[i] \in T
  BY LenProperties, ElementOfSeq
<1>2. \A i \in 1 .. n : <<flows[i]>> \in Seq(T) /\ Len(<<flows[i]>>) = 1
  BY <1>1
<1>3. seqs \in [1 .. n -> Seq(T)]
  BY <1>2
<1>4. Places(seqs, n, off)
  BY <1>1, <1>2 DEF Places
<1>5. \A i \in 1 .. n : /\ Len(seqs[i]) = 1 /\ seqs[i][1] = flows[i]
                        /\ off[i - 1] = i - 1 /\ off[n] = n
  BY <1>1
<1> HIDE DEF seqs, off, n
<1>6. /\ FlattenSeq(seqs) \in Seq(T) /\ Len(FlattenSeq(seqs)) = off[n]
      /\ \A i \in 1 .. n : Sits(FlattenSeq(seqs), off[i - 1], seqs[i])
  BY <1>1, <1>3, <1>4, FlattenPlaces
<1>7. off[n] = n
  BY <1>1 DEF off
<1>8. ASSUME NEW i \in 1 .. n
      PROVE  FlattenSeq(seqs)[i] = flows[i]
  <2>1. Sits(FlattenSeq(seqs), i - 1, seqs[i])
    BY <1>5, <1>6
  <2>2. 1 \in 1 .. Len(seqs[i]) /\ (i - 1) + 1 = i
    BY <1>5
  <2> QED
    BY <1>5, <2>1, <2>2 DEF Sits
<1>9. FlattenSeq(seqs) = flows
  <2> DEFINE s == FlattenSeq(seqs)
  <2>1. s \in Seq(T) /\ Len(s) = Len(flows) /\ \A i \in 1 .. Len(s) : s[i] = flows[i]
    BY <1>6, <1>7, <1>8 DEF n
  <2> HIDE DEF s
  <2>2. s = flows
    BY <2>1, SeqEqual
  <2> QED
    BY <2>2 DEF s
<1> QED
  BY <1>9 DEF seqs, n

\* Flattening empty sequences gives nothing.
LEMMA FlattenNones ==
    ASSUME NEW n \in Nat
    PROVE  FlattenSeq([i \in 1 .. n |-> <<>>]) = <<>>
<1> DEFINE seqs == [i \in 1 .. n |-> <<>>]
           off == [i \in 0 .. n |-> 0]
<1>1. <<>> \in Seq(Nat)
  BY EmptySeq
<1>2. seqs \in [1 .. n -> Seq(Nat)]
  BY <1>1
<1>3. Places(seqs, n, off)
  BY DEF Places
<1>4. off[n] = 0
  OBVIOUS
<1> HIDE DEF seqs, off
<1>5. FlattenSeq(seqs) \in Seq(Nat) /\ Len(FlattenSeq(seqs)) = 0
  BY <1>2, <1>3, <1>4, FlattenPlaces
<1>6. FlattenSeq(seqs) = <<>>
  BY <1>5, EmptySeq
<1> QED
  BY <1>6 DEF seqs

\* Records of one length, one behind the other.
InRows(fields, flows, l, out) ==
    /\ out \in Seq(Byte)
    /\ Len(out) = Len(flows) * l
    /\ \A i \in 1 .. Len(flows) :
           /\ WriteRecord(fields, flows[i]) \in Seq(Byte)
           /\ Len(WriteRecord(fields, flows[i])) = l
           /\ Sits(out, (i - 1) * l, WriteRecord(fields, flows[i]))

\* The records of flows lie in rows of the length of their layout.
LEMMA WrittenRecords ==
    ASSUME NEW flows \in Seq(FlowRecord), NEW fields \in Seq(FieldSpec), NEW unix_secs,
           \A i \in 1 .. Len(flows) : Fits(flows[i], fields, unix_secs),
           NEW l, l = RecLen(fields)
    PROVE  InRows(fields, flows, l, WriteRecords(fields, flows))
<1> DEFINE n == Len(flows)
           seqs == [i \in 1 .. n |-> WriteRecord(fields, flows[i])]
           off == [i \in 0 .. n |-> i * l]
<1>1. /\ n \in Nat /\ DOMAIN flows = 1 .. n /\ l \in Nat
      /\ \A i \in 1 .. n : flows[i] \in FlowRecord
  BY LenProperties, ElementOfSeq, RecLenType
<1>2. PICK ends : Ends(fields, ends)
  BY RecordEnds
<1>3. \A i \in 1 .. n : /\ WriteRecord(fields, flows[i]) \in Seq(Byte)
                        /\ Len(WriteRecord(fields, flows[i])) = l
  BY <1>1, <1>2, WrittenRecord
<1>4. seqs \in [1 .. n -> Seq(Byte)]
  BY <1>3
<1>5. Places(seqs, n, off)
  <2>1. \A i \in 0 .. n : i * l \in Nat
    BY <1>1
  <2>2. 0 * l = 0
    BY <1>1
  <2>3. \A i \in 1 .. n : i * l = (i - 1) * l + l /\ i \in 0 .. n /\ i - 1 \in 0 .. n
    BY <1>1
  <2>4. off \in [0 .. n -> Nat] /\ off[0] = 0
    BY <1>1, <2>1, <2>2
  <2>5. \A i \in 1 .. n : Len(seqs[i]) = l
    BY <1>3
  <2>6. \A i \in 1 .. n : off[i] = off[i - 1] + l
    BY <2>3
  <2> HIDE DEF seqs, off
  <2> QED
    BY <2>4, <2>5, <2>6 DEF Places
<1>6. WriteRecords(fields, flows) = FlattenSeq(seqs)
  BY <1>1 DEF WriteRecords
<1>7. off[n] = n * l /\ \A i \in 1 .. n : off[i - 1] = (i - 1) * l /\ seqs[i] = WriteRecord(fields, flows[i])
  BY <1>1
<1> HIDE DEF seqs, off, n
<1>8. /\ FlattenSeq(seqs) \in Seq(Byte) /\ Len(FlattenSeq(seqs)) = off[n]
      /\ \A i \in 1 .. n : Sits(FlattenSeq(seqs), off[i - 1], seqs[i])
  BY <1>1, <1>4, <1>5, FlattenPlaces
<1>9. \A i \in 1 .. n : Sits(WriteRecords(fields, flows), (i - 1) * l,
                             WriteRecord(fields, flows[i]))
  BY <1>6, <1>7, <1>8
<1> QED
  BY <1>3, <1>6, <1>7, <1>8, <1>9 DEF n, InRows

\* A body read by the layout it is written in.
LEMMA WrittenBody ==
    ASSUME NEW fields \in Seq(FieldSpec), RecLen(fields) > 0, NEW data \in Seq(Byte),
           NEW flows \in Seq(FlowRecord), NEW unix_secs,
           Written(fields, data, flows, unix_secs)
    PROVE  /\ Whole(fields, data) = Len(flows)
           /\ \A i \in 1 .. Len(flows) :
                  /\ Fits(flows[i], fields, unix_secs)
                  /\ RecordAt(fields, data, i) = WriteRecord(fields, flows[i])
<1> DEFINE n == Len(flows)
           l == RecLen(fields)
           out == WriteRecords(fields, flows)
<1>1. /\ n \in Nat /\ DOMAIN flows = 1 .. n /\ l \in Nat \ {0} /\ Len(data) \in Nat
  BY LenProperties, RecLenType, ByteTypes
<1>2. /\ Len(data) \div l = n /\ SubSeq(data, 1, n * l) = out
      /\ \A i \in 1 .. n : Fits(flows[i], fields, unix_secs)
  BY <1>1 DEF Written
<1>3. l = RecLen(fields)
  OBVIOUS
<1> HIDE DEF n, l, out
<1>4. /\ out \in Seq(Byte)
      /\ \A i \in 1 .. n : /\ WriteRecord(fields, flows[i]) \in Seq(Byte)
                           /\ Len(WriteRecord(fields, flows[i])) = l
                           /\ Sits(out, (i - 1) * l, WriteRecord(fields, flows[i]))
  <2>1. \A i \in 1 .. Len(flows) : Fits(flows[i], fields, unix_secs)
    BY <1>2 DEF n
  <2>2. InRows(fields, flows, l, out)
    BY <1>3, <2>1, WrittenRecords DEF out
  <2> QED
    BY <2>2 DEF InRows, n
<1>5. \A i \in 1 .. n : /\ (i - 1) * l \in Nat /\ i * l = (i - 1) * l + l
                        /\ i * l <= Len(data)
  BY <1>1, <1>2, WholeType
<1>6. ASSUME NEW i \in 1 .. n
      PROVE  RecordAt(fields, data, i) = WriteRecord(fields, flows[i])
  <2> DEFINE piece == WriteRecord(fields, flows[i])
             at == (i - 1) * l
             first == at + 1
             end == i * l
             size == n * l
  <2>1. /\ piece \in Seq(Byte) /\ Len(piece) = l /\ Sits(out, at, piece)
        /\ at \in Nat /\ end = at + l /\ end <= Len(data)
    BY <1>4, <1>5
  <2>2. n \in 1 .. n
    BY <1>1
  <2>3. size \in Nat /\ size <= Len(data) /\ end <= size
    <3>1. size <= Len(data)
      BY <1>5, <2>2
    <3>2. i \in Nat /\ i <= n
      BY <1>1
    <3>3. size \in Nat /\ end <= size
      BY <1>1, <3>2, Products
    <3> QED
      BY <3>1, <3>3
  <2> HIDE DEF piece, at, end, size, first
  <2>4. 0 + size <= Len(data) /\ 0 + 1 = 1 /\ 0 + size = size
    BY <1>1, <2>3
  <2>5. \A j \in 1 .. size : SubSeq(data, 0 + 1, 0 + size)[j] = data[0 + j]
    BY <2>3, <2>4, Stretch
  <2>6. \A j \in 1 .. size : out[j] = data[j]
    <3>1. \A j \in 1 .. size : 0 + j = j
      BY <2>3
    <3> QED
      BY <1>2, <2>4, <2>5, <3>1 DEF size
  <2>7. Sits(data, at, piece)
    <3>1. \A j \in 1 .. l : at + j \in 1 .. size
      BY <1>1, <2>1, <2>3
    <3>2. \A j \in 1 .. l : data[at + j] = piece[j]
      BY <2>1, <2>6, <3>1 DEF Sits
    <3> QED
      BY <2>1, <3>2 DEF Sits
  <2>8. first = at + 1
    BY DEF first
  <2>9. Covers(data, at, piece, first, end)
    BY <2>1, <2>7, <2>8 DEF Covers
  <2>10. SubSeq(data, first, end) = piece
    BY <2>1, <2>9, SitsSlice
  <2>11. RecordAt(fields, data, i) = SubSeq(data, first, end)
    BY <1>3 DEF RecordAt, first, end, at
  <2> QED
    BY <2>10, <2>11 DEF piece
<1> QED
  BY <1>2, <1>3, <1>6 DEF Whole, n

\* The records of flows that fit are those flows.
LEMMA RecordsBack ==
    ASSUME NEW fields \in Seq(FieldSpec), RecLen(fields) > 0, HasAddresses(fields),
           NEW data \in Seq(Byte), NEW flows \in Seq(FlowRecord), NEW unix_secs \in Nat,
           Whole(fields, data) = Len(flows),
           \A i \in 1 .. Len(flows) :
               /\ Fits(flows[i], fields, unix_secs)
               /\ RecordAt(fields, data, i) = WriteRecord(fields, flows[i])
    PROVE  ParseRecords(fields, data, unix_secs) = flows
<1>1. ParseRecords(fields, data, unix_secs) =
          FlattenSeq([i \in 1 .. Whole(fields, data) |->
                         ParseRecord(fields, RecordAt(fields, data, i), unix_secs)])
  BY ParseRecordsRuns
<1>2. \A i \in 1 .. Len(flows) : flows[i] \in FlowRecord
  BY ElementOfSeq
<1>3. \A i \in 1 .. Len(flows) :
          ParseRecord(fields, RecordAt(fields, data, i), unix_secs) = <<flows[i]>>
  BY <1>2, RecordBack
<1>4. [i \in 1 .. Whole(fields, data) |->
           ParseRecord(fields, RecordAt(fields, data, i), unix_secs)]
          = [i \in 1 .. Len(flows) |-> <<flows[i]>>]
  BY <1>3
<1> QED
  BY <1>1, <1>4, FlattenSingles

\* Without a field for an address a body yields no flows.
LEMMA RecordsNone ==
    ASSUME NEW fields \in Seq(FieldSpec), RecLen(fields) > 0, ~HasAddresses(fields),
           NEW data \in Seq(Byte), NEW unix_secs \in Nat
    PROVE  ParseRecords(fields, data, unix_secs) = <<>>
<1>1. /\ Whole(fields, data) \in Nat
      /\ ParseRecords(fields, data, unix_secs) =
          FlattenSeq([i \in 1 .. Whole(fields, data) |->
                         ParseRecord(fields, RecordAt(fields, data, i), unix_secs)])
  BY ParseRecordsRuns
<1>2. \A i \in 1 .. Whole(fields, data) :
          ParseRecord(fields, RecordAt(fields, data, i), unix_secs) = <<>>
  <2>1. \A i \in 1 .. Whole(fields, data) :
            /\ RecordAt(fields, data, i) \in Seq(Byte)
            /\ Len(RecordAt(fields, data, i)) >= RecLen(fields)
    BY RecordAtType, RecLenType
  <2> QED
    BY <2>1, RecordNone
<1>3. [i \in 1 .. Whole(fields, data) |->
           ParseRecord(fields, RecordAt(fields, data, i), unix_secs)]
          = [i \in 1 .. Whole(fields, data) |-> <<>>]
  BY <1>2
<1> QED
  BY <1>1, <1>3, FlattenNones

\* A layout with addresses has a length.
LEMMA AddressesHaveLength ==
    ASSUME NEW fields \in Seq(FieldSpec), HasAddresses(fields)
    PROVE  RecLen(fields) > 0
<1>1. PICK off : Ends(fields, off)
  BY RecordEnds
<1>2. /\ DOMAIN fields = 1 .. Len(fields) /\ Len(fields) \in Nat
      /\ \A i \in 1 .. Len(fields) : fields[i] \in FieldSpec
  BY FieldTypes
<1>3. PICK i \in 1 .. Len(fields) : Taken(fields[i]) /\ Sets[fields[i].ty] = "src"
  BY <1>2 DEF HasAddresses, Carries
<1>4. fields[i].len = 4
  BY <1>2, <1>3, TakenPart
<1>5. i - 1 \in 0 .. Len(fields) /\ i \in 0 .. Len(fields)
  BY <1>2
<1>6. off[i] = off[i - 1] + 4 /\ off[i - 1] \in Nat
  BY <1>1, <1>4, <1>5 DEF Ends
<1>7. off[i] <= RecLen(fields) /\ RecLen(fields) \in Nat
  BY <1>1, <1>5, EndsInOrder, RecLenType
<1> QED
  BY <1>6, <1>7

-----------------------------------------------------------------------------
(* Exporters that keep to their layouts *)

\* Each element of a flattened sequence is one of a sequence in it.
ComesFrom(flat, seqs, n) ==
    \A k \in DOMAIN flat : \E i \in 1 .. n : \E j \in DOMAIN seqs[i] :
        flat[k] = seqs[i][j]

\* Nothing else is in a flattened sequence.
LEMMA FlattenOrigin ==
    ASSUME NEW T, NEW n \in Nat, NEW seqs \in [1 .. n -> Seq(T)]
    PROVE  /\ FlattenSeq(seqs) \in Seq(T)
           /\ ComesFrom(FlattenSeq(seqs), seqs, n)
<1>1. PICK flat : Flattens(T, seqs, n, flat)
  BY FlattenRuns
<1> DEFINE Known(x) == \E i \in 1 .. n : \E j \in DOMAIN seqs[i] : x = seqs[i][j]
           Good == {m \in 0 .. n : \A k \in 1 .. Len(flat[m]) : Known(flat[m][k])}
<1>2. 0 \in Good
  <2>1. flat[0] = <<>> /\ Len(<<>>) = 0
    BY <1>1 DEF Flattens
  <2> QED
    BY <2>1
<1>3. ASSUME NEW m \in 1 .. n, m - 1 \in Good
      PROVE  m \in Good
  <2> DEFINE old == flat[m - 1]
             next == flat[m]
             piece == seqs[m]
  <2>0. m - 1 \in 0 .. n /\ m \in 0 .. n
    OBVIOUS
  <2>1. next = old \o piece /\ old \in Seq(T) /\ piece \in Seq(T)
    BY <1>1, <2>0 DEF Flattens
  <2>2. \A k \in 1 .. Len(old) : Known(old[k])
    BY <1>3
  <2>3. \A j \in DOMAIN piece : Known(piece[j])
    OBVIOUS
  <2> HIDE DEF old, next, piece, Known
  <2>4. /\ Len(next) = Len(old) + Len(piece) /\ Len(piece) \in Nat /\ Len(old) \in Nat
        /\ \A k \in 1 .. Len(old) : next[k] = old[k]
        /\ Sits(next, Len(old), piece)
    BY <2>1, ConcatSits
  <2>5. DOMAIN piece = 1 .. Len(piece)
    BY <2>1, LenProperties
  <2>6. ASSUME NEW k \in 1 .. Len(next)
        PROVE  Known(next[k])
    <3>1. CASE k <= Len(old)
      BY <2>2, <2>4, <3>1
    <3>2. CASE ~(k <= Len(old))
      <4>1. k - Len(old) \in 1 .. Len(piece) /\ Len(old) + (k - Len(old)) = k
        BY <2>4, <3>2
      <4>2. next[Len(old) + (k - Len(old))] = piece[k - Len(old)]
        BY <2>4, <4>1 DEF Sits
      <4>3. next[k] = piece[k - Len(old)]
        BY <4>1, <4>2
      <4> QED
        BY <2>3, <2>5, <4>1, <4>3
    <3> QED
      BY <3>1, <3>2
  <2> QED
    BY <2>0, <2>6 DEF next
<1>4. \A k \in 1 .. Len(flat[n]) : Known(flat[n][k])
  <2> HIDE DEF Good
  <2>1. \A m \in 0 .. n : m \in Good
    BY <1>2, <1>3, UpTo
  <2>2. n \in 0 .. n
    OBVIOUS
  <2> QED
    BY <2>1, <2>2 DEF Good
<1>5. flat[n] = FlattenSeq(seqs) /\ flat[n] \in Seq(T)
  <2>1. n \in 0 .. n
    OBVIOUS
  <2> QED
    BY <1>1, <2>1 DEF Flattens
<1>6. DOMAIN FlattenSeq(seqs) = 1 .. Len(FlattenSeq(seqs))
  BY <1>5, LenProperties
<1> QED
  BY <1>4, <1>5, <1>6 DEF ComesFrom

\* Templates come in template sets.
Cut(datagram) ==
    \A m \in DOMAIN datagram.sets :
        LET set == datagram.sets[m]
        IN  set.defs # <<>> \/ set.truncated =>
                set.sized /\ set.id = TemplateSetId(datagram.version)

\* It is so in every datagram that may be sent.
LEMMA SentCut == \A n \in DOMAIN Datagram : Cut(Datagram[n])
BY DatagramAssumption DEF Cut

\* What an exporter that keeps to its layouts writes is what the layouts read.
LEMMA KeptLayoutsMean ==
    ASSUME NEW datagram \in DatagramRecord, Cut(datagram),
           NEW layout, KeepsLayouts(datagram, layout)
    PROVE  Means(datagram, layout)
<1> SUFFICES ASSUME NEW m \in 1 .. Len(datagram.sets)
             PROVE  LET set == datagram.sets[m]
                        fields == layout[<<datagram.source, set.id>>]
                    IN  /\ \A d \in DOMAIN set.defs :
                               set.defs[d].fields = layout[<<datagram.source, set.defs[d].id>>]
                        /\ set.sized /\ set.id >= 256 /\ RecLen(fields) > 0 =>
                               set.meant = ParseRecords(fields, set.data, datagram.unix_secs)
                        /\ set.sized /\ ~(set.id >= 256 /\ RecLen(fields) > 0) =>
                               set.meant = <<>>
                        /\ set.defs # <<>> \/ set.truncated =>
                               set.sized /\ set.id = TemplateSetId(datagram.version)
  BY Zenon DEF Means
<1> DEFINE set == datagram.sets[m]
           fields == layout[<<datagram.source, set.id>>]
<1>1. /\ m \in DOMAIN datagram.sets /\ set \in SetRecord /\ datagram.unix_secs \in Nat
      /\ datagram.source \in Nat
  BY DatagramTypes
<1>2. set.data \in Seq(Byte) /\ set.meant \in Seq(FlowRecord)
  BY <1>1, SetTypes
<1>3. /\ \A d \in DOMAIN set.defs :
             set.defs[d].fields = layout[<<datagram.source, set.defs[d].id>>]
      /\ set.id >= 256 => fields \in Seq(FieldSpec)
      /\ set.sized =>
             IF set.id >= 256 /\ HasAddresses(fields)
             THEN Written(fields, set.data, set.meant, datagram.unix_secs)
             ELSE set.meant = <<>>
  BY <1>1 DEF KeepsLayouts
<1>4. set.defs # <<>> \/ set.truncated =>
          set.sized /\ set.id = TemplateSetId(datagram.version)
  BY <1>1 DEF Cut
<1> HIDE DEF set, fields
<1>5. ASSUME set.sized, set.id >= 256, RecLen(fields) > 0
      PROVE  set.meant = ParseRecords(fields, set.data, datagram.unix_secs)
  <2>1. fields \in Seq(FieldSpec)
    BY <1>3, <1>5
  <2>2. CASE HasAddresses(fields)
    <3>1. Written(fields, set.data, set.meant, datagram.unix_secs)
      BY <1>3, <1>5, <2>2
    <3>2. /\ Whole(fields, set.data) = Len(set.meant)
          /\ \A i \in 1 .. Len(set.meant) :
                 /\ Fits(set.meant[i], fields, datagram.unix_secs)
                 /\ RecordAt(fields, set.data, i) = WriteRecord(fields, set.meant[i])
      BY <1>2, <1>5, <2>1, <3>1, WrittenBody
    <3> QED
      BY <1>1, <1>2, <1>5, <2>1, <2>2, <3>2, RecordsBack
  <2>3. CASE ~HasAddresses(fields)
    BY <1>1, <1>2, <1>3, <1>5, <2>1, <2>3, RecordsNone
  <2> QED
    BY <2>2, <2>3
<1>6. ASSUME set.sized, ~(set.id >= 256 /\ RecLen(fields) > 0)
      PROVE  set.meant = <<>>
  <2>1. ~(set.id >= 256 /\ HasAddresses(fields))
    BY <1>3, <1>6, AddressesHaveLength
  <2> QED
    BY <1>3, <1>6, <2>1
<1> QED
  BY <1>3, <1>4, <1>5, <1>6 DEF set, fields

\* The v5 record has both addresses.
LEMMA V5HasAddresses == HasAddresses(V5Fields)
<1>1. /\ DOMAIN V5Fields = 1 .. 12
      /\ V5Fields[1] = F(IPV4_SRC_ADDR, 4) /\ V5Fields[2] = F(IPV4_DST_ADDR, 4)
  BY DEF V5Fields
<1>2. /\ V5Fields[1].ty = 8 /\ V5Fields[1].len = 4
      /\ V5Fields[2].ty = 12 /\ V5Fields[2].len = 4
  BY <1>1 DEF F, IPV4_SRC_ADDR, IPV4_DST_ADDR
<1>3. /\ Taken(V5Fields[1]) /\ Sets[V5Fields[1].ty] = "src"
      /\ Taken(V5Fields[2]) /\ Sets[V5Fields[2].ty] = "dst"
  BY <1>2, SetsTable DEF Taken, Length
<1> QED
  BY <1>1, <1>3 DEF HasAddresses, Carries

\* A v5 datagram yields the flows of as many records as its header counts.
LEMMA V5Back ==
    ASSUME NEW datagram \in DatagramRecord,
           Written(V5Fields, datagram.body, datagram.meant, datagram.unix_secs),
           NEW size, size = datagram.count * RecLen(V5Fields), Len(datagram.body) >= size
    PROVE  /\ datagram.count <= Len(datagram.meant)
           /\ ParseRecords(V5Fields, SubSeq(datagram.body, 1, size), datagram.unix_secs)
                 = [i \in 1 .. datagram.count |-> datagram.meant[i]]
<1> DEFINE l == RecLen(V5Fields)
           n == datagram.count
           body == datagram.body
           meant == datagram.meant
           t == datagram.unix_secs
           data == SubSeq(body, 1, size)
           flows == [i \in 1 .. n |-> meant[i]]
<1>1. /\ n \in Nat /\ body \in Seq(Byte) /\ meant \in Seq(FlowRecord) /\ t \in Nat
      /\ V5Fields \in Seq(FieldSpec) /\ l \in Nat \ {0} /\ Len(body) \in Nat
      /\ Len(meant) \in Nat /\ size \in Nat
  <2>1. /\ n \in Nat /\ body \in Seq(Byte) /\ meant \in Seq(FlowRecord) /\ t \in Nat
    BY DatagramTypes
  <2>2. V5Fields \in Seq(FieldSpec) /\ l \in Nat \ {0}
    BY V5Type, RecLenType
  <2>3. Len(body) \in Nat /\ Len(meant) \in Nat
    BY <2>1, ByteTypes, LenProperties
  <2> QED
    BY <2>1, <2>2, <2>3
<1>2. /\ Whole(V5Fields, body) = Len(meant)
      /\ \A i \in 1 .. Len(meant) :
             /\ Fits(meant[i], V5Fields, t)
             /\ RecordAt(V5Fields, body, i) = WriteRecord(V5Fields, meant[i])
  BY <1>1, WrittenBody
<1>3. size = n * l /\ size <= Len(body) /\ l = RecLen(V5Fields)
  BY <1>1
<1> HIDE DEF l, n, body, meant, t
<1>4. n <= Len(body) \div l
  <2> DEFINE q == Len(body) \div l
             r == Len(body) % l
  <2>1. q \in Int /\ r \in 0 .. l - 1 /\ Len(body) = l * q + r
    BY <1>1
  <2>2. q \in Nat
    BY <1>1, WholeType
  <2> HIDE DEF q, r
  <2>3. CASE n > q
    <3>1. (q + 1) * l <= n * l
      BY <1>1, <2>2, <2>3, Products
    <3>2. (q + 1) * l = l * q + l
      BY <1>1, <2>2
    <3>3. n * l < l * q + l
      <4> DEFINE p == l * q
                 c == Len(body)
      <4>1. p \in Nat /\ c \in Nat /\ c = p + r /\ size <= c /\ r \in 0 .. l - 1 /\ l \in Nat
        <5>1. p \in Nat
          <6>1. l \in Nat /\ q \in Nat
            BY <1>1, <2>2
          <6> QED
            BY <6>1
        <5>2. c = p + r /\ r \in 0 .. l - 1
          BY <2>1
        <5>3. c \in Nat /\ size <= c /\ l \in Nat
          BY <1>1, <1>3
        <5> QED
          BY <5>1, <5>2, <5>3
      <4> HIDE DEF p, c
      <4>2. size < p + l
        BY <1>1, <4>1
      <4> QED
        BY <1>3, <4>2 DEF p
    <3> QED
      BY <1>1, <2>2, <3>1, <3>2, <3>3
  <2> QED
    BY <1>1, <2>2, <2>3 DEF q
<1>5. n <= Len(meant)
  BY <1>2, <1>3, <1>4 DEF Whole
<1>6. data \in Seq(Byte) /\ Len(data) = size /\ \A j \in 1 .. size : data[j] = body[j]
  <2>1. 0 + size <= Len(body) /\ 0 + 1 = 1 /\ 0 + size = size
    BY <1>1, <1>3
  <2>2. /\ SubSeq(body, 0 + 1, 0 + size) \in Seq(Byte)
        /\ Len(SubSeq(body, 0 + 1, 0 + size)) = size
        /\ \A j \in 1 .. size : SubSeq(body, 0 + 1, 0 + size)[j] = body[0 + j]
    BY <1>1, <2>1, Stretch
  <2>3. \A j \in 1 .. size : 0 + j = j
    BY <1>1
  <2> QED
    BY <2>1, <2>2, <2>3
<1> HIDE DEF data
<1>7. Whole(V5Fields, data) = n
  <2>1. size = n * l + 0 /\ 0 \in 0 .. l - 1
    BY <1>1, <1>3
  <2>2. size \div l = n
    BY <1>1, <2>1, Quotient
  <2> QED
    BY <1>3, <1>6, <2>2 DEF Whole
<1>8. /\ flows \in Seq(FlowRecord) /\ Len(flows) = n
      /\ \A i \in 1 .. n : flows[i] = meant[i] /\ i \in 1 .. Len(meant)
  <2>1. \A i \in 1 .. n : i \in 1 .. Len(meant)
    BY <1>1, <1>5
  <2>2. \A i \in 1 .. n : meant[i] \in FlowRecord
    BY <1>1, <2>1, ElementOfSeq
  <2> QED
    BY <1>1, <2>1, <2>2
<1> HIDE DEF flows
<1>9. ASSUME NEW i \in 1 .. n
      PROVE  RecordAt(V5Fields, data, i) = RecordAt(V5Fields, body, i)
  <2> DEFINE at == (i - 1) * l
             end == i * l
             piece == SubSeq(data, at + 1, at + l)
             other == SubSeq(body, at + 1, at + l)
  <2>1. i \in Nat /\ i - 1 \in Nat /\ i <= n
    BY <1>1
  <2>2. at \in Nat /\ end = at + l /\ end <= size
    <3>1. at \in Nat /\ end = at + l
      BY <1>1, <2>1
    <3>2. end <= n * l
      BY <1>1, <2>1, Products
    <3> QED
      BY <1>3, <3>1, <3>2
  <2> HIDE DEF at, end
  <2>3. at + l <= Len(data) /\ at + l <= Len(body)
    BY <1>1, <1>3, <1>6, <2>2
  <2>4. /\ piece \in Seq(Byte) /\ Len(piece) = l
        /\ \A j \in 1 .. l : piece[j] = data[at + j]
    BY <1>1, <1>6, <2>2, <2>3, Stretch
  <2>5. /\ other \in Seq(Byte) /\ Len(other) = l
        /\ \A j \in 1 .. l : other[j] = body[at + j]
    BY <1>1, <2>2, <2>3, Stretch
  <2> HIDE DEF piece, other
  <2>6. \A j \in 1 .. l : at + j \in 1 .. size
    BY <1>1, <2>2
  <2>7. \A j \in 1 .. l : piece[j] = other[j]
    BY <1>6, <2>4, <2>5, <2>6
  <2>8. piece = other
    BY <2>4, <2>5, <2>7, SeqEqual
  <2>9. /\ RecordAt(V5Fields, data, i) = SubSeq(data, at + 1, end)
        /\ RecordAt(V5Fields, body, i) = SubSeq(body, at + 1, end)
    BY <1>3 DEF RecordAt, at, end
  <2> QED
    BY <2>2, <2>8, <2>9 DEF piece, other
<1>10. \A i \in 1 .. Len(flows) :
           /\ Fits(flows[i], V5Fields, t)
           /\ RecordAt(V5Fields, data, i) = WriteRecord(V5Fields, flows[i])
  BY <1>2, <1>8, <1>9
<1>11. ParseRecords(V5Fields, data, t) = flows
  BY <1>1, <1>3, <1>6, <1>7, <1>8, <1>10, V5Type, V5HasAddresses, RecordsBack
<1> QED
  BY <1>5, <1>11 DEF data, flows, n, t, body, meant

-----------------------------------------------------------------------------
(* The cache and the returned flows *)

\* The exporters keep to these layouts.
KeptBy(layout) == \A n \in DOMAIN Datagram : KeepsLayouts(Datagram[n], layout)

\* The inductive invariant: the cache is what the good datagrams announced, laid out as
\* the exporters lay it out.
CacheInv(layout) == TypeOK /\ Holds(templates, announced, layout)

\* The part of the types that is about the cache.
LEMMA TypeGivesCache == TypeOK => CacheOK(templates)
BY DEF TypeOK, CacheOK

\* The types hold of an empty cache.
LEMMA TypeInit == Init => TypeOK
BY EmptySeq DEF Init, TypeOK

\* Nothing is cached and nothing was announced.
LEMMA CacheInit == ASSUME NEW layout PROVE Init => CacheInv(layout)
BY TypeInit DEF Init, CacheInv, Holds

\* Every datagram keeps cache and announcements equal: one with a bad set adds the templates
\* before that set to both.
LEMMA CacheStep ==
    ASSUME NEW layout, KeptBy(layout), CacheInv(layout), [Next]_vars, TypeOK'
    PROVE  CacheInv(layout)'
<1>1. Holds(templates, announced, layout) /\ CacheOK(templates)
  BY TypeGivesCache DEF CacheInv
<1>2. ASSUME UNCHANGED <<templates, announced>>
      PROVE  CacheInv(layout)'
  BY <1>1, <1>2 DEF CacheInv, Holds
<1>3. ASSUME NEW n \in DOMAIN Datagram, DecodeTemplated(Datagram[n])
      PROVE  CacheInv(layout)'
  <2> DEFINE done == DecodeSets(Datagram[n])
             seen == Seen(Datagram[n])
  <2>1. Datagram[n] \in DatagramRecord /\ Means(Datagram[n], layout)
    BY SentTypes, SentCut, KeptLayoutsMean DEF KeptBy
  <2>2. Holds(done.cache, announced \cup seen, layout)
    BY <1>1, <2>1, Decodes
  <2>3. templates' = done.cache /\ announced' = announced \cup seen
    BY <1>3 DEF DecodeTemplated
  <2> HIDE DEF done, seen
  <2> QED
    BY <2>2, <2>3 DEF CacheInv, Holds
<1>4. ASSUME NEW n \in DOMAIN Datagram, DecodeV5(Datagram[n])
      PROVE  CacheInv(layout)'
  BY <1>2, <1>4 DEF DecodeV5
<1>5. ASSUME NEW n \in DOMAIN Datagram, DecodeHeaderless(Datagram[n])
      PROVE  CacheInv(layout)'
  BY <1>2, <1>5 DEF DecodeHeaderless
<1>6. ASSUME NEW n \in DOMAIN Datagram, DecodeOther(Datagram[n])
      PROVE  CacheInv(layout)'
  BY <1>2, <1>6 DEF DecodeOther
<1>7. CASE UNCHANGED vars
  BY <1>2, <1>7 DEF vars
<1> QED
  BY <1>3, <1>4, <1>5, <1>6, <1>7 DEF Next

\* The cache is exactly what was announced, by datagrams that failed behind the template
\* too: nothing is missing, nothing is under another exporter's key, and each entry has the
\* layout of its exporter.
THEOREM CacheFaithful ==
    ASSUME NEW layout, KeptBy(layout)
    PROVE  Spec => []CacheInv(layout)
<1>1. TypeOK /\ [Next]_vars => TypeOK'
  BY TypeStep
<1>2. Init => CacheInv(layout)
  BY CacheInit
<1>3. CacheInv(layout) /\ [Next]_vars => CacheInv(layout)'
  BY <1>1, CacheStep DEF CacheInv
<1> QED
  BY <1>2, <1>3, PTL DEF Spec

\* What one step returns.
LEMMA ReturnedWhole ==
    ASSUME NEW layout, KeptBy(layout), CacheInv(layout), Next,
           last'.datagram.version \in {9, 10}, last'.outcome = "ok"
    PROVE  last'.flows = Expected(announced, last'.datagram)
<1>1. Holds(templates, announced, layout) /\ CacheOK(templates)
  BY TypeGivesCache DEF CacheInv
<1>2. ASSUME NEW n \in DOMAIN Datagram, DecodeTemplated(Datagram[n])
      PROVE  last'.flows = Expected(announced, last'.datagram)
  <2> DEFINE done == DecodeSets(Datagram[n])
  <2>1. Datagram[n] \in DatagramRecord /\ Means(Datagram[n], layout)
    BY SentTypes, SentCut, KeptLayoutsMean DEF KeptBy
  <2>2. ~done.failed => done.flows = Expected(announced, Datagram[n])
    BY <1>1, <2>1, Decodes
  <2>3. \/ done.failed /\ last' = [datagram |-> Datagram[n], outcome |-> "decode_error", flows |-> <<>>]
        \/ ~done.failed /\ last' = [datagram |-> Datagram[n], outcome |-> "ok", flows |-> done.flows]
    BY <1>2 DEF DecodeTemplated, Return
  <2> HIDE DEF done
  <2>4. ~done.failed /\ last'.flows = done.flows /\ last'.datagram = Datagram[n]
    BY <2>3
  <2> QED
    BY <2>2, <2>4
<1>3. ASSUME NEW n \in DOMAIN Datagram, DecodeV5(Datagram[n])
      PROVE  FALSE
  <2>1. last'.datagram = Datagram[n] /\ Datagram[n].version = 5
    BY <1>3 DEF DecodeV5, Return
  <2> QED
    BY <2>1
<1>4. ASSUME NEW n \in DOMAIN Datagram, DecodeHeaderless(Datagram[n])
      PROVE  FALSE
  BY <1>4 DEF DecodeHeaderless, Return
<1>5. ASSUME NEW n \in DOMAIN Datagram, DecodeOther(Datagram[n])
      PROVE  FALSE
  BY <1>5 DEF DecodeOther, Return
<1> QED
  BY <1>2, <1>3, <1>4, <1>5 DEF Next

\* decode_sets returns the flows of every set whose template is known, or an error and no
\* flows: what the action property KnownSetsAreWhole says, for any exporters that keep to
\* their layouts.
THEOREM SetsComeWhole ==
    ASSUME NEW layout, KeptBy(layout)
    PROVE  Spec => KnownSetsAreWhole
<1>1. Spec => []CacheInv(layout)
  BY CacheFaithful
<1>2. CacheInv(layout) /\ [Next]_vars =>
          [last'.datagram.version \in {9, 10} /\ last'.outcome = "ok" =>
               last'.flows = Expected(announced, last'.datagram)]_vars
  BY ReturnedWhole
<1> QED
  BY <1>1, <1>2, PTL DEF Spec, KnownSetsAreWhole

\* Flows of one datagram that were not written into it.
LEMMA InventsNothing ==
    ASSUME NEW layout, KeptBy(layout), CacheInv(layout), Next, TypeOK'
    PROVE  NothingInvented'
<1>1. ASSUME last'.flows = <<>>
      PROVE  NothingInvented'
  <2>1. DOMAIN <<>> = {}
    OBVIOUS
  <2> QED
    BY <1>1, <2>1 DEF NothingInvented
<1>2. ASSUME NEW n \in DOMAIN Datagram, DecodeTemplated(Datagram[n])
      PROVE  NothingInvented'
  <2> DEFINE datagram == Datagram[n]
             k == Len(datagram.sets)
             pieces == Pieces(announced, datagram)
  <2>1. /\ datagram \in DatagramRecord /\ datagram.version \in {9, 10}
    BY <1>2, SentTypes DEF DecodeTemplated
  <2>2. CASE last'.outcome # "ok"
    <3>1. last'.flows = <<>>
      BY <1>2, <2>2 DEF DecodeTemplated, Return
    <3> QED
      BY <1>1, <3>1
  <2>3. CASE last'.outcome = "ok"
    <3>1. last'.datagram = datagram
      BY <1>2 DEF DecodeTemplated, Return
    <3>2. last'.flows = Expected(announced, datagram)
      BY <2>1, <2>3, <3>1, ReturnedWhole
    <3>3. /\ k \in Nat /\ pieces \in [1 .. k -> Seq(FlowRecord)]
          /\ last'.flows = FlattenSeq(pieces)
          /\ DOMAIN datagram.sets = 1 .. k
      BY <2>1, <3>2, PiecesType, DatagramTypes
    <3>4. \A i \in 1 .. k : pieces[i] = datagram.sets[i].meant \/ pieces[i] = <<>>
      BY DEF Pieces
    <3> HIDE DEF datagram, pieces, k
    <3>5. \A i \in DOMAIN last'.flows : \E m \in 1 .. k : \E j \in DOMAIN pieces[m] :
              last'.flows[i] = pieces[m][j]
      <4>1. ComesFrom(FlattenSeq(pieces), pieces, k)
        BY <3>3, FlattenOrigin
      <4> QED
        BY <3>3, <4>1 DEF ComesFrom
    <3>6. ASSUME NEW i \in DOMAIN last'.flows
          PROVE  \E m \in DOMAIN datagram.sets :
                     last'.flows[i] \in ToSet(datagram.sets[m].meant)
      <4>1. PICK m \in 1 .. k : \E j \in DOMAIN pieces[m] : last'.flows[i] = pieces[m][j]
        BY <3>5
      <4>2. PICK j \in DOMAIN pieces[m] : last'.flows[i] = pieces[m][j]
        BY <4>1
      <4>3. pieces[m] = datagram.sets[m].meant
        <5>1. DOMAIN <<>> = {}
          OBVIOUS
        <5> QED
          BY <3>4, <4>2, <5>1
      <4> QED
        BY <3>3, <4>2, <4>3 DEF ToSet
    <3> QED
      BY <3>1, <3>6 DEF NothingInvented
  <2> QED
    BY <2>2, <2>3
<1>3. ASSUME NEW n \in DOMAIN Datagram, DecodeV5(Datagram[n])
      PROVE  NothingInvented'
  <2> DEFINE datagram == Datagram[n]
             size == datagram.count * RecLen(V5Fields)
             parsed == ParseRecords(V5Fields, SubSeq(datagram.body, 1, size),
                                    datagram.unix_secs)
  <2>1. datagram \in DatagramRecord /\ datagram.version = 5
    BY <1>3, SentTypes DEF DecodeV5
  <2>2. Written(V5Fields, datagram.body, datagram.meant, datagram.unix_secs)
    BY <2>1 DEF KeptBy, KeepsLayouts
  <2>3. \/ last'.flows = <<>>
        \/ /\ Len(datagram.body) >= size
           /\ last' = [datagram |-> datagram, outcome |-> "ok", flows |-> parsed]
    <3> HIDE DEF parsed
    <3>1. \/ last' = [datagram |-> datagram, outcome |-> "decode_error", flows |-> <<>>]
          \/ /\ Len(datagram.body) >= size
             /\ last' = [datagram |-> datagram, outcome |-> "ok", flows |-> parsed]
      BY <1>3 DEF DecodeV5, Return, parsed
    <3> QED
      BY <3>1
  <2>4. CASE last'.flows = <<>>
    BY <1>1, <2>4
  <2>5. CASE /\ Len(datagram.body) >= size
             /\ last' = [datagram |-> datagram, outcome |-> "ok", flows |-> parsed]
    <3> DEFINE first == [i \in 1 .. datagram.count |-> datagram.meant[i]]
    <3>1. datagram.count <= Len(datagram.meant) /\ parsed = first
      <4>1. size = datagram.count * RecLen(V5Fields)
        OBVIOUS
      <4> HIDE DEF size, datagram
      <4> QED
        BY <2>1, <2>2, <2>5, <4>1, V5Back
    <3>2. last'.flows = first /\ last'.datagram = datagram
      BY <2>5, <3>1
    <3>3. /\ datagram.count \in Nat /\ DOMAIN datagram.meant = 1 .. Len(datagram.meant)
          /\ Len(datagram.meant) \in Nat
      BY <2>1, DatagramTypes, LenProperties
    <3>4. \A i \in DOMAIN first : i \in DOMAIN datagram.meant /\ first[i] = datagram.meant[i]
      BY <3>1, <3>3
    <3> HIDE DEF first, datagram
    <3> QED
      BY <3>2, <3>4 DEF NothingInvented
  <2> QED
    BY <2>3, <2>4, <2>5
<1>4. ASSUME NEW n \in DOMAIN Datagram, DecodeHeaderless(Datagram[n])
      PROVE  NothingInvented'
  BY <1>1, <1>4 DEF DecodeHeaderless, Return
<1>5. ASSUME NEW n \in DOMAIN Datagram, DecodeOther(Datagram[n])
      PROVE  NothingInvented'
  BY <1>1, <1>5 DEF DecodeOther, Return
<1> QED
  BY <1>2, <1>3, <1>4, <1>5 DEF Next

\* No flow is returned that its exporter did not write into the datagram, whatever the order
\* of templates and data, the padding, and the sets that are skipped or cut short.
THEOREM OnlyWrittenFlows ==
    ASSUME NEW layout, KeptBy(layout)
    PROVE  Spec => []NothingInvented
<1>1. Spec => []CacheInv(layout)
  BY CacheFaithful
<1>2. Init => NothingInvented
  BY DEF Init, NothingInvented
<1>3. CacheInv(layout) /\ CacheInv(layout)' /\ NothingInvented /\ [Next]_vars
          => NothingInvented'
  <2> SUFFICES ASSUME CacheInv(layout), CacheInv(layout)', NothingInvented, [Next]_vars
               PROVE  NothingInvented'
    OBVIOUS
  <2>1. CASE Next
    BY <2>1, InventsNothing DEF CacheInv
  <2>2. CASE UNCHANGED vars
    BY <2>2 DEF vars, NothingInvented
  <2> QED
    BY <2>1, <2>2
<1> QED
  BY <1>1, <1>2, <1>3, PTL DEF Spec

-----------------------------------------------------------------------------
(* The exporters of the source *)

\* The layout of the source's own exporter.
LEMMA ExportType ==
    /\ EXPORT_FIELDS \in Seq(FieldSpec)
    /\ RecLen(EXPORT_FIELDS) = 22
    /\ HasAddresses(EXPORT_FIELDS)
<1> DEFINE E == EXPORT_FIELDS
<1>1. /\ E \in Seq(FieldSpec) /\ Len(E) = 8 /\ DOMAIN E = 1 .. 8
      /\ E[1].len = 4 /\ E[2].len = 4 /\ E[3].len = 2 /\ E[4].len = 2
      /\ E[5].len = 1 /\ E[6].len = 1 /\ E[7].len = 4 /\ E[8].len = 4
      /\ E[1].ty = 8 /\ E[2].ty = 12
  BY DEF EXPORT_FIELDS, F, FieldSpec, IPV4_SRC_ADDR, IPV4_DST_ADDR, L4_SRC_PORT,
         L4_DST_PORT, PROTOCOL, TCP_FLAGS, IN_BYTES, IN_PKTS
<1> HIDE DEF E
<1>2. PICK off : Ends(E, off)
  BY <1>1, RecordEnds
<1>3. /\ off[0] = 0 /\ off[8] = RecLen(E)
      /\ \A i \in 1 .. 8 : off[i] = off[i - 1] + E[i].len
      /\ \A i \in 0 .. 8 : off[i] \in Nat
  BY <1>1, <1>2 DEF Ends
<1>4. RecLen(E) = 22
  <2>1. \A i \in 1 .. 8, j \in 0 .. 7, w \in Nat :
            i = j + 1 /\ E[i].len = w => off[i] = off[j] + w
    <3> SUFFICES ASSUME NEW i \in 1 .. 8, NEW j \in 0 .. 7, NEW w \in Nat,
                        i = j + 1, E[i].len = w
                 PROVE  off[i] = off[j] + w
      OBVIOUS
    <3>1. off[i] = off[i - 1] + E[i].len
      BY <1>3
    <3>2. i - 1 = j
      OBVIOUS
    <3> QED
      BY <3>1, <3>2
  <2>2. off[1] = 4
    <3>1. off[1] = off[0] + 4
      BY <1>1, <2>1
    <3> QED
      BY <3>1, <1>3
  <2>3. off[2] = 8
    <3>1. off[2] = off[1] + 4
      BY <1>1, <2>1
    <3> QED
      BY <3>1, <2>2
  <2>4. off[3] = 10
    <3>1. off[3] = off[2] + 2
      BY <1>1, <2>1
    <3> QED
      BY <3>1, <2>3
  <2>5. off[4] = 12
    <3>1. off[4] = off[3] + 2
      BY <1>1, <2>1
    <3> QED
      BY <3>1, <2>4
  <2>6. off[5] = 13
    <3>1. off[5] = off[4] + 1
      BY <1>1, <2>1
    <3> QED
      BY <3>1, <2>5
  <2>7. off[6] = 14
    <3>1. off[6] = off[5] + 1
      BY <1>1, <2>1
    <3> QED
      BY <3>1, <2>6
  <2>8. off[7] = 18
    <3>1. off[7] = off[6] + 4
      BY <1>1, <2>1
    <3> QED
      BY <3>1, <2>7
  <2>9. off[8] = 22
    <3>1. off[8] = off[7] + 4
      BY <1>1, <2>1
    <3> QED
      BY <3>1, <2>8
  <2> QED
    BY <1>3, <2>9
<1>5. /\ Taken(E[1]) /\ Sets[E[1].ty] = "src"
      /\ Taken(E[2]) /\ Sets[E[2].ty] = "dst"
  BY <1>1, SetsTable DEF Taken, Length
<1>6. HasAddresses(E)
  BY <1>1, <1>5 DEF HasAddresses, Carries
<1> QED
  BY <1>1, <1>4, <1>6 DEF E

\* A body of whole records, with less than a record behind them.
LEMMA PaddedBody ==
    ASSUME NEW flows \in Seq(FlowRecord), NEW fields \in Seq(FieldSpec), NEW unix_secs,
           \A i \in 1 .. Len(flows) : Fits(flows[i], fields, unix_secs),
           NEW pad \in Seq(Byte), Len(pad) < RecLen(fields)
    PROVE  Written(fields, WriteRecords(fields, flows) \o pad, flows, unix_secs)
<1> DEFINE n == Len(flows)
           l == RecLen(fields)
           out == WriteRecords(fields, flows)
           data == out \o pad
           size == n * l
<1>1. /\ n \in Nat /\ DOMAIN flows = 1 .. n /\ l \in Nat /\ Len(pad) \in Nat
      /\ Len(pad) < l /\ size \in Nat
  BY LenProperties, RecLenType, ByteTypes
<1>2. out \in Seq(Byte) /\ Len(out) = size
  <2>1. InRows(fields, flows, l, out)
    <3>1. l = RecLen(fields)
      OBVIOUS
    <3> HIDE DEF l, out
    <3> QED
      BY <3>1, WrittenRecords DEF out
  <2> QED
    BY <2>1 DEF InRows
<1>3. size = n * l
  OBVIOUS
<1> HIDE DEF n, l, out, size
<1>4. /\ data \in Seq(Byte) /\ Len(data) = size + Len(pad)
      /\ \A k \in 1 .. size : data[k] = out[k]
  BY <1>2, ConcatSits
<1> HIDE DEF data
<1>5. Len(data) \div l = n
  <2>1. Len(data) = l * n + Len(pad)
    BY <1>1, <1>3, <1>4
  <2> DEFINE p == Len(pad)
             d == Len(data)
  <2>2. p \in 0 .. l - 1 /\ d = n * l + p /\ l \in Nat \ {0} /\ n \in Nat
    BY <1>1, <2>1
  <2> HIDE DEF p, d
  <2>3. d \div l = n
    BY <2>2, Quotient
  <2> QED
    BY <2>3 DEF d
<1>6. SubSeq(data, 1, size) = out
  <2> DEFINE at == 0
             first == 1
  <2>1. Covers(data, 0, out, 1, size)
    <3>1. \A j \in 1 .. Len(out) : 0 + j = j
      BY <1>1, <1>2
    <3>2. Sits(data, 0, out)
      BY <1>2, <1>4, <3>1 DEF Sits
    <3>3. size <= Len(data) /\ size = 0 + Len(out)
      BY <1>1, <1>2, <1>4
    <3> QED
      BY <3>2, <3>3 DEF Covers
  <2> QED
    BY <1>2, <1>4, <2>1, SitsSlice
<1> QED
  BY <1>1, <1>3, <1>5, <1>6 DEF Written, n, l, size, out, data

\* What v9::encode and ipfix::encode put into a datagram whose lengths fit 16 bits.
ExportPad(flows) ==
    [i \in 1 .. Pad4(4 + Len(WriteRecords(EXPORT_FIELDS, flows))) |-> 0]
ExportData(flows) == WriteRecords(EXPORT_FIELDS, flows) \o ExportPad(flows)
ExportDef == [id |-> TEMPLATE_ID, fields |-> EXPORT_FIELDS]
ExportTemplates(version) == TemplateSet(version, <<ExportDef>>)
ExportRecords(flows) == DataSet(TEMPLATE_ID, ExportData(flows), flows)

\* The flows of one export: those of its layout, and the most that any length field of
\* either format has room for.
Exported(flows, unix_secs) ==
    /\ flows \in Seq(FlowRecord)
    /\ Len(flows) <= 2976
    /\ \A i \in 1 .. Len(flows) : Fits(flows[i], EXPORT_FIELDS, unix_secs)

\* The body of the data set: 22 bytes a flow, and less than four of padding.
LEMMA ExportBody ==
    ASSUME NEW flows, NEW unix_secs, Exported(flows, unix_secs)
    PROVE  /\ ExportData(flows) \in Seq(Byte)
           /\ Len(ExportData(flows)) \in Nat
           /\ Len(ExportData(flows)) <= 65475
           /\ Written(EXPORT_FIELDS, ExportData(flows), flows, unix_secs)
<1> DEFINE body == WriteRecords(EXPORT_FIELDS, flows)
           pad == ExportPad(flows)
           n == Len(flows)
<1>1. /\ flows \in Seq(FlowRecord) /\ n \in Nat /\ n <= 2976
      /\ \A i \in 1 .. n : Fits(flows[i], EXPORT_FIELDS, unix_secs)
  BY LenProperties DEF Exported
<1>2. body \in Seq(Byte) /\ Len(body) = n * 22
  <2> DEFINE l == RecLen(EXPORT_FIELDS)
  <2>1. l = RecLen(EXPORT_FIELDS)
    OBVIOUS
  <2> HIDE DEF l, body
  <2>2. InRows(EXPORT_FIELDS, flows, l, body)
    BY <1>1, <2>1, ExportType, WrittenRecords DEF body
  <2> QED
    BY <2>1, <2>2, ExportType DEF InRows
<1> HIDE DEF body, n
<1>3. Len(body) \in Nat /\ Len(body) <= 65472
  BY <1>1, <1>2
<1>4. Pad4(4 + Len(body)) \in 0 .. 3
  BY <1>3 DEF Pad4
<1>5. pad \in Seq(Byte) /\ Len(pad) = Pad4(4 + Len(body))
  <2> DEFINE k == Pad4(4 + Len(body))
  <2>1. k \in Nat /\ 0 \in Byte
    BY <1>4 DEF Byte
  <2>2. pad = [i \in 1 .. k |-> 0]
    BY DEF ExportPad, body
  <2> HIDE DEF k, pad
  <2>3. [i \in 1 .. k |-> 0] \in Seq(Byte) /\ Len([i \in 1 .. k |-> 0]) = k
    BY <2>1
  <2> QED
    BY <2>2, <2>3 DEF k
<1> HIDE DEF pad
<1>6. ExportData(flows) = body \o pad
  BY DEF ExportData, body, pad
<1>7. body \o pad \in Seq(Byte) /\ Len(body \o pad) = Len(body) + Len(pad)
  BY <1>2, <1>5, ConcatProperties
<1>8. Len(pad) < RecLen(EXPORT_FIELDS)
  BY <1>4, <1>5, ExportType
<1>9. Written(EXPORT_FIELDS, body \o pad, flows, unix_secs)
  BY <1>1, <1>5, <1>8, ExportType, PaddedBody DEF body, n
<1>10. Len(body \o pad) \in Nat /\ Len(body \o pad) <= 65475
  BY <1>3, <1>4, <1>5, <1>7
<1> QED
  BY <1>6, <1>7, <1>9, <1>10

\* The parts of a message.
LEMMA MessageParts ==
    ASSUME NEW version, NEW source, NEW unix_secs, NEW headed, NEW sets, NEW count,
           NEW body, NEW meant,
           NEW datagram,
           datagram = Message(version, source, unix_secs, headed, sets, count, body, meant)
    PROVE  /\ datagram.version = version /\ datagram.source = source
           /\ datagram.unix_secs = unix_secs /\ datagram.headed = headed
           /\ datagram.sets = sets /\ datagram.count = count
           /\ datagram.body = body /\ datagram.meant = meant
           /\ /\ version \in Nat /\ source \in Nat /\ unix_secs \in Nat
              /\ headed \in BOOLEAN /\ sets \in Seq(SetRecord) /\ count \in Nat
              /\ body \in Seq(Byte) /\ meant \in Seq(FlowRecord)
              => datagram \in DatagramRecord
BY DEF Message, DatagramRecord

\* The parts of a template set and of a data set.
LEMMA TemplateSetParts ==
    ASSUME NEW version, NEW defs, NEW set, set = TemplateSet(version, defs)
    PROVE  /\ set.id = TemplateSetId(version) /\ set.sized /\ ~set.truncated
           /\ set.defs = defs /\ set.data = <<>> /\ set.meant = <<>>
           /\ defs \in Seq([id : Nat, fields : Seq(FieldSpec)]) => set \in SetRecord
<1>1. TemplateSetId(version) \in Nat
  BY DEF TemplateSetId
<1> DEFINE none == <<>>
<1>2. none \in Seq(Byte) /\ none \in Seq(FlowRecord)
  BY EmptySeq
<1>3. set = [id |-> TemplateSetId(version), sized |-> TRUE, truncated |-> FALSE,
             defs |-> defs, data |-> none, meant |-> none]
  BY DEF TemplateSet, Section
<1> HIDE DEF none
<1>4. /\ set.id = TemplateSetId(version) /\ set.sized /\ ~set.truncated
      /\ set.defs = defs /\ set.data = none /\ set.meant = none
      /\ defs \in Seq([id : Nat, fields : Seq(FieldSpec)]) => set \in SetRecord
  BY <1>1, <1>2, <1>3 DEF SetRecord
<1> QED
  BY <1>4 DEF none

\* A data set of the encoder, seen by its parts.
LEMMA DataSetParts ==
    ASSUME NEW id \in Nat, NEW data, NEW meant, NEW set, set = DataSet(id, data, meant)
    PROVE  /\ set.id = id /\ set.sized /\ ~set.truncated
           /\ set.defs = <<>> /\ set.data = data /\ set.meant = meant
           /\ data \in Seq(Byte) /\ meant \in Seq(FlowRecord) => set \in SetRecord
<1> DEFINE none == <<>>
<1>1. none \in Seq([id : Nat, fields : Seq(FieldSpec)])
  BY EmptySeq
<1>2. set = [id |-> id, sized |-> TRUE, truncated |-> FALSE,
             defs |-> none, data |-> data, meant |-> meant]
  BY DEF DataSet, Section
<1> HIDE DEF none
<1>3. /\ set.id = id /\ set.sized /\ ~set.truncated
      /\ set.defs = none /\ set.data = data /\ set.meant = meant
      /\ data \in Seq(Byte) /\ meant \in Seq(FlowRecord) => set \in SetRecord
  BY <1>1, <1>2 DEF SetRecord
<1> QED
  BY <1>3 DEF none

\* What such a datagram is: a template set and a data set, under a header that decodes.
LEMMA ExportParts ==
    ASSUME NEW version \in {9, 10}, NEW unix_secs \in Nat, NEW source \in Nat, NEW flows,
           Exported(flows, unix_secs),
           NEW datagram, datagram = Encode(version, unix_secs, source, flows),
           NEW set1, set1 = ExportTemplates(version),
           NEW set2, set2 = ExportRecords(flows)
    PROVE  /\ datagram.version = version /\ datagram.source = source
           /\ datagram.unix_secs = unix_secs /\ datagram.headed
           /\ Len(datagram.sets) = 2 /\ DOMAIN datagram.sets = {1, 2}
           /\ datagram.sets[1] = set1 /\ datagram.sets[2] = set2
           /\ datagram \in DatagramRecord
           /\ set1 \in SetRecord /\ set2 \in SetRecord
           /\ set1.id = TemplateSetId(version) /\ set1.sized /\ ~set1.truncated
           /\ set1.defs = <<ExportDef>> /\ set1.meant = <<>>
           /\ set2.id = TEMPLATE_ID /\ set2.sized /\ ~set2.truncated
           /\ set2.defs = <<>> /\ set2.data = ExportData(flows) /\ set2.meant = flows
<1> DEFINE size == 4 + Len(ExportData(flows))
           total == HeaderLen(version) + 8 + 4 * Len(EXPORT_FIELDS) + size
           sets == <<ExportTemplates(version), ExportRecords(flows)>>
           other == CutSets(version,
                        SetBytes(TemplateSetId(version), TemplateBody(ExportDef))
                        \o SetBytes(TEMPLATE_ID, ExportData(flows)))
           headed == (version = 9 \/ total < 65536)
           sent == IF size < 65536 THEN sets ELSE other
           none == <<>>
<1>1. size \in Nat /\ size <= 65479
  <2> DEFINE k == Len(ExportData(flows))
  <2>1. k \in Nat /\ k <= 65475
    BY ExportBody
  <2> HIDE DEF k
  <2>2. 4 + k \in Nat /\ 4 + k <= 65479
    BY <2>1
  <2> QED
    BY <2>2 DEF k
<1>2. datagram = Message(version, source, unix_secs, headed, sent, 0, none, none)
  BY DEF Encode, ExportTemplates, ExportRecords, ExportDef, ExportData, ExportPad
<1>3. Len(EXPORT_FIELDS) = 8
  BY DEF EXPORT_FIELDS
<1>4. none \in Seq(Byte) /\ none \in Seq(FlowRecord)
  BY EmptySeq
<1>5. /\ Len(sets) = 2 /\ DOMAIN sets = {1, 2} /\ sets[1] = set1 /\ sets[2] = set2
  OBVIOUS
<1> HIDE DEF size, other
<1>6. headed
  <2>1. CASE version = 10
    <3>1. HeaderLen(version) = 16
      BY <2>1 DEF HeaderLen
    <3> QED
      BY <1>1, <1>3, <3>1
  <2> QED
    BY <2>1
<1>7. sent = sets
  BY <1>1
<1>8. headed \in BOOLEAN
  OBVIOUS
<1>9. /\ set1.id = TemplateSetId(version) /\ set1.sized /\ ~set1.truncated
      /\ set1.defs = <<ExportDef>> /\ set1.meant = <<>>
      /\ set1 \in SetRecord
  <2> DEFINE defs == <<ExportDef>>
  <2>1. TEMPLATE_ID \in Nat
    BY DEF TEMPLATE_ID
  <2>2. ExportDef \in [id : Nat, fields : Seq(FieldSpec)]
    BY <2>1, ExportType DEF ExportDef
  <2>3. defs \in Seq([id : Nat, fields : Seq(FieldSpec)])
    BY <2>2
  <2>4. set1 = TemplateSet(version, defs)
    BY DEF ExportTemplates
  <2> HIDE DEF defs
  <2>5. /\ set1.id = TemplateSetId(version) /\ set1.sized /\ ~set1.truncated
        /\ set1.defs = defs /\ set1.meant = <<>>
    BY <2>4, TemplateSetParts
  <2>6. set1 \in SetRecord
    BY <2>3, <2>4, TemplateSetParts
  <2> QED
    BY <2>5, <2>6 DEF defs
<1>10. /\ set2.id = TEMPLATE_ID /\ set2.sized /\ ~set2.truncated
       /\ set2.defs = <<>> /\ set2.data = ExportData(flows) /\ set2.meant = flows
       /\ set2 \in SetRecord
  <2>1. TEMPLATE_ID \in Nat
    BY DEF TEMPLATE_ID
  <2>2. ExportData(flows) \in Seq(Byte) /\ flows \in Seq(FlowRecord)
    BY ExportBody DEF Exported
  <2>3. set2 = DataSet(TEMPLATE_ID, ExportData(flows), flows)
    BY DEF ExportRecords
  <2> QED
    BY <2>1, <2>2, <2>3, DataSetParts
<1>11. sets \in Seq(SetRecord)
  BY <1>9, <1>10
<1>12. version \in Nat
  OBVIOUS
<1> HIDE DEF headed, sent, sets, none
<1>13. /\ datagram.version = version /\ datagram.source = source
       /\ datagram.unix_secs = unix_secs /\ datagram.headed = headed
       /\ datagram.sets = sent
  BY <1>2, MessageParts
<1>14. datagram \in DatagramRecord
  BY <1>2, <1>4, <1>7, <1>8, <1>11, <1>12, MessageParts
<1>15. datagram.headed
  BY <1>6, <1>13
<1>16. /\ Len(datagram.sets) = 2 /\ DOMAIN datagram.sets = {1, 2}
       /\ datagram.sets[1] = set1 /\ datagram.sets[2] = set2
  BY <1>5, <1>7, <1>13
<1> QED
  BY <1>9, <1>10, <1>13, <1>14, <1>15, <1>16

\* The encoder of the source keeps to one layout, so that what the decoder promises of
\* such exporters it promises of the encoder: v9 and IPFIX, and any flows of which the
\* 16 bits of a length can tell the size (beyond them v9.rs:121 and ipfix.rs:54, 61 cut
\* the lengths off, and the decoder reads sets that no one meant).
THEOREM EncodeKeepsLayout ==
    ASSUME NEW version \in {9, 10}, NEW unix_secs \in Nat, NEW source \in Nat,
           NEW flows, Exported(flows, unix_secs),
           NEW layout, layout[<<source, TEMPLATE_ID>>] = EXPORT_FIELDS
    PROVE  KeepsLayouts(Encode(version, unix_secs, source, flows), layout)
<1> DEFINE set1 == ExportTemplates(version)
           set2 == ExportRecords(flows)
           datagram == Encode(version, unix_secs, source, flows)
<1>1. /\ datagram = Encode(version, unix_secs, source, flows)
      /\ set1 = ExportTemplates(version) /\ set2 = ExportRecords(flows)
  OBVIOUS
<1>2. Exported(flows, unix_secs) /\ flows \in Seq(FlowRecord)
  BY DEF Exported
<1>3. Written(EXPORT_FIELDS, ExportData(flows), flows, unix_secs)
  BY <1>2, ExportBody
<1> HIDE DEF set1, set2, datagram
<1>4. /\ datagram.version = version /\ datagram.source = source
      /\ datagram.unix_secs = unix_secs
      /\ DOMAIN datagram.sets = {1, 2} /\ datagram.sets[1] = set1 /\ datagram.sets[2] = set2
      /\ set1.id = TemplateSetId(version) /\ set1.sized
      /\ set1.defs = <<ExportDef>> /\ set1.meant = <<>>
      /\ set2.id = TEMPLATE_ID /\ set2.sized
      /\ set2.defs = <<>> /\ set2.data = ExportData(flows) /\ set2.meant = flows
  BY <1>1, <1>2, ExportParts
<1>5. TemplateSetId(version) \in Nat /\ TemplateSetId(version) < 256 /\ TEMPLATE_ID = 256
  BY DEF TemplateSetId, TEMPLATE_ID
<1>6. /\ DOMAIN set1.defs = {1} /\ set1.defs[1].id = TEMPLATE_ID
      /\ set1.defs[1].fields = EXPORT_FIELDS
      /\ DOMAIN set2.defs = {}
  <2>1. ExportDef.id = TEMPLATE_ID /\ ExportDef.fields = EXPORT_FIELDS
    BY DEF ExportDef
  <2>2. set1.defs[1] = ExportDef /\ DOMAIN set1.defs = {1}
    BY <1>4
  <2>3. DOMAIN set2.defs = {}
    BY <1>4
  <2> QED
    BY <2>1, <2>2, <2>3
<1>7. ~(set1.id >= 256) /\ set2.id >= 256 /\ layout[<<source, set2.id>>] = EXPORT_FIELDS
  BY <1>4, <1>5
<1> DEFINE Kept(set) ==
               LET fields == layout[<<datagram.source, set.id>>]
               IN  /\ \A d \in DOMAIN set.defs :
                          set.defs[d].fields = layout[<<datagram.source, set.defs[d].id>>]
                   /\ set.id >= 256 => fields \in Seq(FieldSpec)
                   /\ set.sized =>
                          IF set.id >= 256 /\ HasAddresses(fields)
                          THEN Written(fields, set.data, set.meant, datagram.unix_secs)
                          ELSE set.meant = <<>>
<1>8. Kept(set1)
  BY <1>4, <1>6, <1>7
<1>9. Kept(set2)
  BY <1>3, <1>4, <1>6, <1>7, ExportType
<1>10. \A m \in DOMAIN datagram.sets : Kept(datagram.sets[m])
  <2> HIDE DEF Kept
  <2> QED
    BY <1>4, <1>8, <1>9
<1>11. datagram.version # 5
  BY <1>4
<1>12. KeepsLayouts(datagram, layout)
  BY <1>10, <1>11, Zenon DEF KeepsLayouts
<1> QED
  BY <1>1, <1>12

\* A set of one template leaves that template in the cache, whatever was there.
LEMMA LearnsOne ==
    ASSUME NEW cache, NEW source, NEW set, NEW def, set.defs = <<def>>, Cacheable(def)
    PROVE  /\ Key(source, def.id) \in DOMAIN Learn(cache, source, set)
           /\ Learn(cache, source, set)[Key(source, def.id)] = def.fields
<1>1. DOMAIN set.defs = 1 .. 1 /\ set.defs[1] = def
  OBVIOUS
<1>2. PICK acc : Defs!Runs(source, cache, set.defs, 1, acc)
  <2>1. Defs!TakesLast(1)
    BY LargestPicks DEF Defs!TakesLast
  <2> QED
    BY <2>1, Defs!FoldOfSequence
<1>3. acc[1] = LearnOne(source, set.defs[1], acc[0]) /\ acc[1] = Learn(cache, source, set)
  BY <1>1, <1>2, LearnIsFold DEF Defs!Runs
<1>4. Learn(cache, source, set) = Insert(acc[0], source, def)
  BY <1>1, <1>3 DEF LearnOne
<1> QED
  BY <1>4 DEF Insert

\* A datagram of one template and one set of its records returns what those are.
LEMMA TwoSets ==
    ASSUME NEW datagram \in DatagramRecord, Len(datagram.sets) = 2,
           NEW set1, set1 = datagram.sets[1], NEW set2, set2 = datagram.sets[2],
           set1.id = TemplateSetId(datagram.version), set1.sized, ~set1.truncated,
           NEW def, set1.defs = <<def>>, Cacheable(def),
           set2.id = def.id, set2.id # TemplateSetId(datagram.version), set2.sized
    PROVE  /\ ~DecodeSets(datagram).failed
           /\ DecodeSets(datagram).flows =
                  <<>> \o ParseRecords(def.fields, set2.data, datagram.unix_secs)
<1>1. set1 \in SetRecord /\ set2 \in SetRecord
  BY DatagramTypes
<1>2. PICK acc : Passes(datagram, acc)
  BY DatagramPasses
<1> DEFINE none == <<>>
           old == acc[0]
           mid == acc[1]
           new == acc[2]
           source == datagram.source
           key == Key(source, def.id)
<1>3. /\ old = Going(templates, none)
      /\ mid = TakeSet(datagram, old, set1)
      /\ new = TakeSet(datagram, mid, set2)
      /\ new = DecodeSets(datagram)
  <2>1. old = Going(templates, none)
    BY <1>2 DEF Passes, Going
  <2>2. \A i \in 1 .. 2 : acc[i] = TakeSet(datagram, acc[i - 1], datagram.sets[i])
    BY <1>2 DEF Passes
  <2>3. 1 \in 1 .. 2 /\ 2 \in 1 .. 2 /\ 1 - 1 = 0 /\ 2 - 1 = 1
    OBVIOUS
  <2>4. mid = TakeSet(datagram, old, set1)
    BY <2>2, <2>3
  <2>5. new = TakeSet(datagram, mid, set2)
    BY <2>2, <2>3
  <2>6. new = DecodeSets(datagram)
    BY <1>2 DEF Passes
  <2> QED
    BY <2>1, <2>4, <2>5, <2>6
<1>4. source = datagram.source /\ key = Key(source, def.id)
  OBVIOUS
<1> HIDE DEF none, old, mid, new, source, key
<1>5. IsState(old) /\ old.failed \in BOOLEAN /\ ~old.failed /\ old.flows = none
  BY <1>3, StateEnds
<1>6. Took(datagram, old, set1, mid)
  BY <1>1, <1>3, <1>5, TakeSetParts
<1>7. Learns(datagram, old, set1) /\ ~Reads(datagram, old, set1)
  BY <1>5 DEF Learns, Reads
<1>8. /\ IsState(mid) /\ mid.failed \in BOOLEAN
      /\ mid.cache = Learn(old.cache, datagram.source, set1)
      /\ mid.flows = old.flows
  BY <1>6, <1>7, Zenon DEF Took
<1>9. ~mid.failed
  BY <1>5, <1>6, Zenon DEF Took
<1>10. key \in DOMAIN mid.cache /\ mid.cache[key] = def.fields
  BY <1>4, <1>8, LearnsOne
<1>11. Took(datagram, mid, set2, new)
  BY <1>1, <1>3, <1>8, TakeSetParts
<1>12. Key(datagram.source, set2.id) = key
  BY <1>4
<1>13. Reads(datagram, mid, set2)
  <2>1. set2.id >= 256
    BY DEF Cacheable
  <2> QED
    BY <1>9, <1>10, <1>12, <2>1 DEF Reads
<1>14. ~new.failed
  BY <1>9, <1>11, Zenon DEF Took
<1>15. new.flows = mid.flows \o
           ParseRecords(mid.cache[Key(datagram.source, set2.id)],
                        set2.data, datagram.unix_secs)
  BY <1>11, <1>13, Zenon DEF Took
<1>16. new.flows = none \o ParseRecords(def.fields, set2.data, datagram.unix_secs)
  BY <1>5, <1>8, <1>10, <1>12, <1>15
<1> QED
  BY <1>3, <1>14, <1>16 DEF none

\* What the source's exporter writes comes back whole: whatever the cache holds, older
\* layouts of that very template included, decode_sets of an encoded datagram succeeds
\* and returns the flows that went in, in order.
THEOREM EncodedComesBack ==
    ASSUME NEW version \in {9, 10}, NEW unix_secs \in Nat, NEW source \in Nat,
           NEW flows, Exported(flows, unix_secs)
    PROVE  LET datagram == Encode(version, unix_secs, source, flows)
           IN  /\ datagram.headed
               /\ ~DecodeSets(datagram).failed
               /\ DecodeSets(datagram).flows = flows
<1> DEFINE set1 == ExportTemplates(version)
           set2 == ExportRecords(flows)
           data == ExportData(flows)
           key == <<source, TEMPLATE_ID>>
           datagram == Encode(version, unix_secs, source, flows)
<1>1. /\ datagram = Encode(version, unix_secs, source, flows)
      /\ set1 = ExportTemplates(version) /\ set2 = ExportRecords(flows)
      /\ data = ExportData(flows)
  OBVIOUS
<1>2. Exported(flows, unix_secs) /\ flows \in Seq(FlowRecord)
  BY DEF Exported
<1> HIDE DEF set1, set2, data, datagram
<1>3. data \in Seq(Byte) /\ Written(EXPORT_FIELDS, data, flows, unix_secs)
  BY <1>1, <1>2, ExportBody
<1>4. /\ datagram.version = version /\ datagram.source = source
      /\ datagram.unix_secs = unix_secs /\ datagram.headed
      /\ Len(datagram.sets) = 2
      /\ datagram.sets[1] = set1 /\ datagram.sets[2] = set2
      /\ datagram \in DatagramRecord
      /\ set1 \in SetRecord /\ set2 \in SetRecord
      /\ set1.id = TemplateSetId(version) /\ set1.sized /\ ~set1.truncated
      /\ set1.defs = <<ExportDef>>
      /\ set2.id = TEMPLATE_ID /\ set2.sized /\ ~set2.truncated
      /\ set2.data = data
  BY <1>1, <1>2, ExportParts
<1>5. /\ TemplateSetId(version) \in Nat /\ TemplateSetId(version) # 256
      /\ TEMPLATE_ID = 256
  BY DEF TemplateSetId, TEMPLATE_ID
<1>6. ExportDef.id = TEMPLATE_ID /\ ExportDef.fields = EXPORT_FIELDS
  BY DEF ExportDef
<1>7. Cacheable(ExportDef)
  BY <1>5, <1>6, ExportType DEF Cacheable
<1>8. set1 = datagram.sets[1] /\ set2 = datagram.sets[2]
  BY <1>4
<1>9. /\ ~DecodeSets(datagram).failed
      /\ DecodeSets(datagram).flows =
             <<>> \o ParseRecords(EXPORT_FIELDS, data, unix_secs)
  <2>1. set2.id # TemplateSetId(datagram.version)
    BY <1>4, <1>5
  <2>2. /\ ~DecodeSets(datagram).failed
        /\ DecodeSets(datagram).flows =
               <<>> \o ParseRecords(ExportDef.fields, set2.data, datagram.unix_secs)
    BY <1>4, <1>6, <1>7, <1>8, <2>1, TwoSets
  <2> QED
    BY <1>4, <1>6, <2>2
<1>10. ParseRecords(EXPORT_FIELDS, data, unix_secs) = flows
  <2>1. RecLen(EXPORT_FIELDS) > 0
    BY ExportType
  <2>2. /\ Whole(EXPORT_FIELDS, data) = Len(flows)
        /\ \A i \in 1 .. Len(flows) :
               /\ Fits(flows[i], EXPORT_FIELDS, unix_secs)
               /\ RecordAt(EXPORT_FIELDS, data, i) = WriteRecord(EXPORT_FIELDS, flows[i])
    BY <1>2, <1>3, <2>1, ExportType, WrittenBody
  <2> QED
    BY <1>2, <1>3, <2>1, <2>2, ExportType, RecordsBack
<1>11. <<>> \o flows = flows
  BY <1>2, ConcatEmptySeq
<1>12. datagram.headed /\ ~DecodeSets(datagram).failed /\ DecodeSets(datagram).flows = flows
  BY <1>4, <1>9, <1>10, <1>11
<1> QED
  BY <1>1, <1>12

\* The flows of one v5 export.
ExportedV5(flows, unix_secs) ==
    /\ flows \in Seq(FlowRecord)
    /\ \A i \in 1 .. Len(flows) : Fits(flows[i], V5Fields, unix_secs)

\* The body of the v5 exporter is its records and nothing more.
LEMMA V5Body ==
    ASSUME NEW flows, NEW unix_secs, ExportedV5(flows, unix_secs),
           NEW body, body = WriteRecords(V5Fields, flows)
    PROVE  /\ body \in Seq(Byte)
           /\ Len(body) = Len(flows) * RecLen(V5Fields)
           /\ Written(V5Fields, body, flows, unix_secs)
<1>0. /\ flows \in Seq(FlowRecord)
      /\ \A i \in 1 .. Len(flows) : Fits(flows[i], V5Fields, unix_secs)
  BY DEF ExportedV5
<1>1. body \in Seq(Byte) /\ Len(body) = Len(flows) * RecLen(V5Fields)
  <2> DEFINE l == RecLen(V5Fields)
  <2>1. l = RecLen(V5Fields)
    OBVIOUS
  <2> HIDE DEF l
  <2>2. InRows(V5Fields, flows, l, WriteRecords(V5Fields, flows))
    BY <1>0, <2>1, V5Type, WrittenRecords
  <2> QED
    BY <2>1, <2>2 DEF InRows
<1>2. Written(V5Fields, WriteRecords(V5Fields, flows) \o <<>>, flows, unix_secs)
  <2> DEFINE pad == <<>>
  <2>1. pad \in Seq(Byte) /\ Len(pad) = 0
    OBVIOUS
  <2>2. Len(pad) < RecLen(V5Fields)
    BY <2>1, V5Type, RecLenType
  <2> HIDE DEF pad
  <2>3. Written(V5Fields, WriteRecords(V5Fields, flows) \o pad, flows, unix_secs)
    BY <1>0, <2>1, <2>2, V5Type, PaddedBody
  <2> QED
    BY <2>3 DEF pad
<1>3. body \o <<>> = body
  BY <1>1
<1> QED
  BY <1>1, <1>2, <1>3

\* So does the v5 exporter.
THEOREM EncodeV5KeepsLayout ==
    ASSUME NEW unix_secs \in Nat, NEW flows, ExportedV5(flows, unix_secs), NEW layout
    PROVE  KeepsLayouts(EncodeV5(unix_secs, flows), layout)
<1> DEFINE body == WriteRecords(V5Fields, flows)
           datagram == EncodeV5(unix_secs, flows)
<1>1. /\ datagram.body = body /\ datagram.meant = flows
      /\ datagram.unix_secs = unix_secs /\ datagram.sets = <<>>
  BY DEF EncodeV5, Message
<1>2. Written(V5Fields, body, flows, unix_secs)
  BY V5Body
<1>3. DOMAIN datagram.sets = {}
  BY <1>1
<1> HIDE DEF datagram, body
<1> QED
  BY <1>1, <1>2, <1>3 DEF KeepsLayouts, datagram

\* What the v5 exporter writes comes back whole, too, as long as the count of its
\* records fits 16 bits (v5.rs:47).
THEOREM EncodedV5ComesBack ==
    ASSUME NEW unix_secs \in Nat, NEW flows, ExportedV5(flows, unix_secs),
           Len(flows) < 65536
    PROVE  LET datagram == EncodeV5(unix_secs, flows)
               size == datagram.count * RecLen(V5Fields)
           IN  /\ datagram.headed /\ Len(datagram.body) >= size
               /\ ParseRecords(V5Fields, SubSeq(datagram.body, 1, size), unix_secs) = flows
<1> DEFINE body == WriteRecords(V5Fields, flows)
           n == Len(flows)
           count == n % 65536
           datagram == EncodeV5(unix_secs, flows)
           size == datagram.count * RecLen(V5Fields)
           none == <<>>
           headed == TRUE
<1>0. flows \in Seq(FlowRecord)
  BY DEF ExportedV5
<1>1. n \in Nat /\ count = n
  <2>1. n \in Nat /\ n < 65536
    BY <1>0, LenProperties
  <2> HIDE DEF n
  <2> QED
    BY <2>1
<1>2. body = WriteRecords(V5Fields, flows) /\ size = datagram.count * RecLen(V5Fields)
  OBVIOUS
<1>3. datagram = Message(5, 0, unix_secs, headed, none, count, body, flows)
  BY DEF EncodeV5
<1>4. /\ body \in Seq(Byte) /\ Len(body) = n * RecLen(V5Fields)
      /\ Written(V5Fields, body, flows, unix_secs)
  BY V5Body
<1>5. [i \in 1 .. n |-> flows[i]] = flows
  BY <1>0
<1>6. none \in Seq(SetRecord) /\ headed /\ headed \in BOOLEAN
  BY EmptySeq
<1> HIDE DEF datagram, body, count, n, size, none, headed
<1>7. /\ datagram.body = body /\ datagram.meant = flows /\ datagram.count = n
      /\ datagram.unix_secs = unix_secs /\ datagram.headed
      /\ datagram \in DatagramRecord
  <2>1. /\ datagram.body = body /\ datagram.meant = flows /\ datagram.count = count
        /\ datagram.unix_secs = unix_secs /\ datagram.headed = headed
    BY <1>3, MessageParts
  <2>2. count \in Nat /\ 5 \in Nat /\ 0 \in Nat
    BY <1>1
  <2>3. /\ 5 \in Nat /\ 0 \in Nat /\ unix_secs \in Nat
        /\ headed \in BOOLEAN /\ none \in Seq(SetRecord) /\ count \in Nat
        /\ body \in Seq(Byte) /\ flows \in Seq(FlowRecord)
    BY <1>0, <1>4, <1>6, <2>2
  <2>4. datagram \in DatagramRecord
    BY <1>3, <2>3 DEF Message, DatagramRecord
  <2> QED
    BY <1>1, <1>6, <2>1, <2>4
<1>8. Len(datagram.body) = size /\ size \in Nat
  BY <1>1, <1>2, <1>4, <1>7, V5Type, RecLenType
<1>9. ParseRecords(V5Fields, SubSeq(datagram.body, 1, size), datagram.unix_secs)
          = [i \in 1 .. datagram.count |-> datagram.meant[i]]
  <2>1. Written(V5Fields, datagram.body, datagram.meant, datagram.unix_secs)
    BY <1>4, <1>7
  <2>2. Len(datagram.body) >= size
    BY <1>8
  <2> QED
    BY <1>2, <1>7, <2>1, <2>2, V5Back
<1>10. ParseRecords(V5Fields, SubSeq(datagram.body, 1, size), unix_secs) = flows
  <2> DEFINE t == datagram.unix_secs
             mine == [i \in 1 .. datagram.count |-> datagram.meant[i]]
             data == SubSeq(datagram.body, 1, size)
  <2>1. mine = flows /\ t = unix_secs
    BY <1>5, <1>7
  <2>2. ParseRecords(V5Fields, data, t) = mine
    BY <1>9
  <2> HIDE DEF t, mine, data
  <2>3. ParseRecords(V5Fields, data, unix_secs) = flows
    BY <2>1, <2>2
  <2> QED
    BY <2>3 DEF data
<1>11. datagram.headed /\ Len(datagram.body) >= size
  BY <1>7, <1>8
<1> QED
  BY <1>10, <1>11 DEF datagram, size
=============================================================================
