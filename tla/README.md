# rosflowd in TLA+

rosflowd collects NetFlow from a RouterOS router, joins it with mirrored packets (TZSP), and
writes one directory of small files per UTC day: bytes per LAN client, per application, per hour.
This directory holds TLA+ modules that model the program, TLC configurations that check them on
small instances, and TLAPS proofs of the results that should not depend on the instance.

Line numbers are those of `src/src/*.rs`. `PROJECT.json` maps every definition to the lines it
stands for.

## 1. The system

One thread owns everything. `main` builds a `Store` and reads the optional sidecar file. Then it
either replays (one TZSP datagram from a file, one NetFlow datagram from a file, or both, and one
flush) or serves: it opens a UDP socket for NetFlow and, if asked to, one for TZSP, and calls
`serve_udp`, which loops for ever: look at the shutdown flag, take one NetFlow datagram (50 ms read
timeout), take every TZSP datagram that is waiting, flush and prune if `flush_secs` have passed. There are no locks and no tasks. What makes the program hard is
elsewhere: the two inputs interleave freely, every kind of knowledge (template, hint, identity)
may arrive before or after the traffic it explains, datagrams are lost and reordered, the process
may be killed between any two file operations, and a restart forgets everything but the disk.

| Component | State | Operations | Correct when |
|---|---|---|---|
| In-memory store (`store.rs`) | tables by client, app and hour; identities; counters; three sticky flags | `ingest_flow`, `apply_identity`, `note_*` | tables agree with each other and with the traffic, modulo the width of the counters; only LAN addresses are filed; a label is never shown without its flag |
| Client identity and hints (`identity.rs`, `hints.rs`, `flow.rs`) | four maps | `client_ip`, `merge_identity`, `remember*`, `classify_flow` | both directions of a connection meet; identity and rows agree however they interleave; a sampled label has a sample of that client behind it |
| Port classifier (`classify.rs`) | none | `service_port`, `classify` | both directions give one app, unless both ports are services |
| Handlers (`pipeline.rs` 22-103), sidecar (`sidecar.rs`) | none of their own | `process_datagram`, `process_tzsp`, `load_identity_jsonl` | samples never count traffic |
| Loop and life cycle (`pipeline.rs` 105-184, `main.rs`) | program counter, timers, shutdown flag | `run`, `replay_*`, `serve_udp` | answers a shutdown, publishes what it counts, dies rather than run on a mixed day |
| Dataset (`store.rs` flush, `write_day`, `prune_*`) | the data directory | `flush`, `prune_now` | at every moment, crashes included, each file is one whole image, and newer ones replace older ones in a fixed order |
| Atomic file replacement (`store.rs` 335-348) | one file and its `.tmp` | `write_atomic` | old or new content, never part of one |
| NetFlow decoder and encoder (`netflow/*.rs`) | template cache | `Decoder::decode`, `encode` | reads in bounds, returns on any input, with what the exporter wrote and nothing else |
| nDPI engine (`ndpi.rs`, `native/ndpi_shim.c`) | the C context; map from connection to C pointer | `new`, `inspect`, `Drop` | every C allocation is freed once, no state serves two connections |
| TZSP, Ethernet/IPv4, DHCP, DNS parsers | none | `ethernet_payload`, `parse_ipv4_l4`, `parse_ack`, `a_records` | read in bounds and return on any input; DNS records are read one behind the other |
| TLS ClientHello and QUIC Initial parsers | none | `client_hello_sni`, `client_initial_sni` | the same, but that a QUIC Initial may ask for more memory than there is; the CRYPTO stream is what the client sent |

Calls go one way: `serve_udp` calls the handlers, these call the parsers, the decoder and the nDPI
engine and hand the results to `Store` and `Hints`; `flush` renders the tables to files. State that
is shared by two paths: the tables and identities (written by NetFlow, TZSP and the sidecar file),
the hints (written by TZSP, read by NetFlow), the template cache (shared by all exporters), and
the data directory (shared by successive processes).

## 2. Modules

| Module | Models | Extends / instantiates |
|---|---|---|
| `Classify` | the rule table and `service_port` | |
| `Collector` | tables, hints, identities, handlers | `Classify`; instantiates `Metering`, `Tables` |
| `Metering` | abstract: what the collector must have metered | |
| `Tables` | abstract: what a flush needs to know of the tables | |
| `MCCollector` | a home network for TLC | `Collector` |
| `Daemon` | `run`, `serve_udp`, the replays, flush, prune, the directory, ends and restarts | instantiates `Dataset`, `Tables` |
| `Dataset` | abstract: what a reader of the directory may rely on | |
| `AtomicFile` | `write_atomic`, one system call at a time | instantiates `FileRegister` |
| `FileRegister` | abstract: a register of whole contents, with power cuts | |
| `Decoder` | template cache and records, one datagram per step | |
| `Encoder` | `v5::encode`, `v9::encode`, `ipfix::encode`; what an exporter keeps to | `Decoder` |
| `MCDecoder` | the exporters for TLC | `Encoder` |
| `Cursor` | what all offset walks share: buffer, position, slice, the return to the next parser | |
| `SetWalk` | the offsets of `decode_sets` and `parse_templates` | `Cursor` |
| `FrameWalk` | TZSP, Ethernet, IPv4, TCP and UDP, down to the payload | `Cursor` |
| `LeaseWalk` | `parse_ack` of DHCP | `Cursor` |
| `AnswerWalk` | `a_records` and `read_name` of DNS | `Cursor` |
| `HelloWalk` | `client_hello_sni`, `handshake_sni` | `Cursor` |
| `InitialWalk` | `client_initial_sni`: header, frames and stream of a QUIC Initial | `Cursor` |
| `Walks` | one datagram through all of them; the properties | the six walks |
| `NdpiCache` | context, connection map, eviction, allocation, drop | |
| `FoldTheory`, `SumTheory` | lemmas: folds and (wrapping) sums as tables of their intermediate results | `TLAPS`; `SumTheory` instantiates `FoldTheory` |
| `*Proofs` | the proofs about `Collector`, `Daemon`, `Walks`, `NdpiCache`, `AtomicFile`, `Decoder` with `Encoder` | each extends its module and `TLAPS` |

Refinements tie the modules together. `Collector` implements `Metering` (`MetersVolume`), `Daemon`
implements `Dataset` (`ImplementsDataset`), `AtomicFile` implements `FileRegister`
(`ImplementsRegister`); the last one justifies a step of `Daemon`, where replacing a file is a single
action. `Collector` and `Daemon` look at the same tables, the one in full and the other as far as
the files depend on them, and both implement `Tables` (`KeepsItsRows` in each): days only
accumulate, a sampled label needs a sample, only a new process starts from nothing. That is how
the two are composed: as the memory it flushes, `Daemon` has whatever `Tables` allows one datagram to
do (flows of one day, the day in its header, any number of them in one step), and `Collector` does
nothing else. The walks are composed by `process_tzsp` itself: the frame leaves a
payload and the list of the parsers to run on it (`todo`), each return starts the next.

### Collector

*State.* `clients`, `apps`, `hourly`, `identities`, `stats`, the four hint maps and the three flags
have the names of the fields. `pending` is the part of a datagram's flow list still to be ingested;
it unrolls the loop of `process_datagram`, one flow per step, and every other action waits until it
is empty, as the single thread does.

*Actions.* `DecodedDatagram`, `UnsupportedDatagram`, `UndecodableDatagram` are the arms of
`process_datagram`. `IngestClientFlow` and `IngestWanOnlyFlow` are `ingest_flow` with and without a
LAN end (the second returns early, after the hour has been counted). `ParsedSample` is
`process_tzsp` for a frame that parses, with its DHCP, DNS, SNI and nDPI parts in order (`TakeAck`,
`TakeAnswer`, `TakeSni`, `TakeNdpi`); `DroppedSample` is one that does not. `LoadIdentityRow` is one
line of the sidecar file, before any traffic; a bad line ends the program, which is `IoError` at the
start of `Daemon`.

*Abstractions.* Addresses, names and MACs are members of small sets. A sample is the record of what
the parsers return on it. A timestamp is its Unix hour. Counters are 64 bits wide in the code and
wrap in a release build; the model adds modulo `U64`.

### Daemon

*State.* `pc` is the place in `run` and `serve_udp`, `purpose` what the flush was called for. The tables are abstracted to `counted` (flows per day)
and `sampled` (days with an app row whose label came from a sample); `Collector` has them in full. A
file's content is the image of these tables when it was rendered, with the number of the process
that rendered it. `today` is the collector's clock. A flow's day is the exporter's clock, so
`Receive` takes a datagram of any number of flows of any one day, and its rows may gain a sampled
label, if a hint was learned before, or lose their last one.

*Actions.* `Serve`, `StartReplay` and `ReplaySample` are the three ways `run` may go; a replay takes
its datagram with the same `Receive` as the loop, flushes, and ends without a prune. One action per
step of the loop; `WriteMetadata`, `BeginDay`, `WriteFile` (one file of one day)
and `FlushReturns` for `flush`; `PruneDay` and `PruneReturns` for `prune_now`. `Kill` (a signal, or the
abort of `CryptoNoMemory` in `InitialWalk`: the machine stays up, so the disk is left as it is; power
cuts are `AtomicFile`'s), `IoError` (any `?` on the path) and `PruneBreaks` (`remove_dir_all` stopped half way) end the process; `Restart` is
`run` from the top, in any mode. `Midnight` and `RequestShutdown` are the environment. The
dataset's constant README and `metadata.json` are written one after the other and appear as one
step: nothing reads the README.

### Dataset, Metering, Tables

`Dataset` has no program counter, no order of writes and no way to die: a file takes the counts of
the moment, or belongs to an expired day and goes, or the process is replaced. `Metering` has no
identities, hints or labels: each flow adds once to its hour, and once to its client and day if it
has a LAN end. `Tables` has no counts: which days have rows, which of them a row labelled from a
sample, and whether any sample has left a hint.

### AtomicFile, FileRegister

A file is what it was meant to be, `of`, and the blocks it has. The content of a write without a row
has no block, and the file it leaves is empty (`write_jsonl` of no rows), but it is not a missing
one. `write_atomic` as `Create`, `WriteBlock` for each part of the content, `Sync`, `Rename`, with `Stops`
(a kill or a failing call) and `RenameFails` at any point. `durable` is the set of contents the name
may have after a power cut: the directory is never synced, so a rename may be undone until the
file system catches up (`CatchUp`). `FileRegister` says just that of whole contents.

### Decoder, Encoder

`Decoder` has one step per datagram. A datagram is its sets, already cut: template definitions or
a body of bytes, with a flag for a length that lies outside it. It carries, for the properties only,
what the exporter *meant* by each set. A flow has all its fields; which field type sets which part,
and the one length it is taken at, is the table `Sets` and `Length`. `announced` is a history
variable. A datagram too short for its version field is handled like one with a short header.
`Encoder` is the exporter that the repository's tests replay; the decoder must return what it was
given. It writes lengths and counts in 16 bits, as the code does: a data set too long for them (from
2979 flows on) goes out with a wrapped length, `CutSets` says what `decode_sets` makes of those bytes,
and `ipfix::decode` refuses the message for its total; a v5 count wraps at 65536. It also says what the decoder may expect of any exporter, `KeepsLayouts(datagram, layout)`:
the exporter has one layout for each of its template numbers and announces that one, the body of a
set is whole records of it with less than one record of padding, and each record with both addresses
is one flow whose numbers fit their fields (`Fits`) and that is zero where the layout has no field.
`MCDecoder` has TLC confirm it of all its datagrams (`LayoutsKept`).

### The walks

No contents, only offsets: a buffer is its length, every length, count, pointer and offset that the
code reads from it is a free choice of a constant set, every slice taken is recorded in `read`. One
behaviour stands for all datagrams with the same numbers in them. `phase` names the function and the
loop; a return is `Leave`. What is kept of contents is only what decides where to go on:

- `AnswerWalk` has `read_name`'s `end` (here `after`), `jumped` and `hops`, for a name goes on wherever
  its pointer leads while `a_records` goes on behind the pointer;
- `InitialWalk` has `crypto_stream`'s buffer. Byte *k* of the client's stream is the number *k*, so a byte
  in the wrong place is visible; `brought` is the history of what came.

The buffer of `crypto_stream` grows to the largest offset a frame names, and the offset is a varint of up
to 62 bits that nothing bounds. Up to the constant `Granted` the allocator always gives the memory; beyond
it `CryptoFrame` may go on, or `CryptoNoMemory` ends the process (`phase = "aborted"`), as `Vec::resize`
does.

An error and a `None` are the same return, since the caller only tells them from a result. Decryption
either succeeds, with any packet number length and a plaintext of the ciphertext's length less 16, or
does not.

### NdpiCache

`flows` maps a connection to a pointer, `heap` is the set of live pointers, `seen` what each state has
been fed, `engine` what there is of the context and its detection module. `New` makes them, or fails
at one of three steps and must undo the earlier ones. `InspectKnown`, `InspectNew` (with an eviction
when full, of any entry: `HashMap::keys().next()` has no order), `InspectOutOfMemory` (the eviction has
happened, the allocation fails) and `Drop`.
libndpi itself is external.

## 3. Runs

| Run | Instance | Shows |
|---|---|---|
| `collector` | 2 clients, 2 WAN hosts, 4 datagrams, 11 samples, 2 sidecar rows; at most 2 datagrams and 3 samples in any order; days of 2 hours, counters modulo 16 | identity, privacy, nesting and labelling of the tables, app rows sum to client rows, which of 28 connections are one app in both directions and which are not, refinement of `Metering` and `Tables` |
| `daemon_crash` | days 0-1, `RetainDays` 0, 2 flows per process, 2 processes that serve or replay, both flush modes | what is on disk at every moment, with kills and I/O errors anywhere; refinement of `Dataset` and `Tables` |
| `daemon_live` | days 0-2, `RetainDays` 1, one process, the sampler pauses | shutdown returns, counted flows are published, expired days go, published counts never shrink |
| `atomic_file` | 3 writes of 0, 1 or 2 blocks | no torn file; refinement of `FileRegister` |
| `decoder` | 18 datagrams of a v9, an IPFIX and a v5 exporter and of the repository's encoder, in any order and number | only meant flows come out, with every field, and all of those whose template is known |
| `walks` | datagrams of 4, 17, 28 and 83 bytes on either socket, 4 to 6 values of each kind of number in them | slices in bounds, progress, an end of every walk, DNS records in order, the CRYPTO stream in place |
| `ndpi_cache` | 3 endpoints, 2 protocols, 3 addresses of the heap, limit 2, a context that may fail to be made | ownership, separation, limit |

Five more runs look for a disagreement with what the repository says of itself, and find it:

| Run | Property | What the code does |
|---|---|---|
| `retention_window` | `OnlyRetainDaysLeft` | keeps `retain_days + 1` days; `docs/roadmap.md:98` says that after 8 days only 7 are left |
| `restart_same_day` | `PublishedCountsNeverShrink` | after a restart, or by a replay into a directory in use, the day's files are replaced by what was counted since |
| `restart_metadata` | `MetadataExplainsEveryLabel` | after a restart `metadata.json` denies labels still on disk |
| `sample_flood` | `ShutdownReturns` | while samples keep coming the inner loop never returns to the shutdown flag |
| `lan_resolver` | `AnswersReachTheAsker` | a DNS answer from a resolver inside the LAN is filed under the resolver |

`PublishedCountsNeverShrink`, `MetadataExplainsEveryLabel` and `ShutdownReturns` hold where their cause
is absent (one process; a sampler that pauses): `daemon_live` checks that.

### Why the bounds are enough

- `collector`: with two datagrams one can come before and one after any sample; three samples let a
  hint be learned, overwritten and crossed with an identity. The six flows include both directions of
  a connection, a second day, a WAN-only and a LAN-to-LAN flow, and the bytes of one client wrap.
  `MCConnection` has every pair of two ports of one rule (443, 8443), one of another (8080) and one of no
  rule, pairs over UDP, and a protocol without ports; the samples leave hints for some of them. What a
  connection is given is proved for all ports and protocols.
- `daemon_crash`: two flows come in one datagram or in two. Two processes are needed for one image to replace another's, two days for a flush
  over several days and for a day to expire (`RetainDays` 0 expires a day at the first midnight). A third
  process sees only the directory, as the second does.
- `daemon_live`: with `RetainDays` 1 a day inside the window, one at its edge and one past it exist at
  once. Samples are counted modulo 2, only so that a draining loop changes state.
- `atomic_file`: no block is an empty file, two are enough to stop between them; three writes for a stale `.tmp` from a
  stopped write that is longer than the next one. For all larger bounds there is a proof.
- `decoder`: the datagrams hold each case of `decode_sets`: data after, before and without its template,
  a set of no known kind, a bad length or a cut template behind a good one, padding, empty and
  low-numbered templates, and two exporters that number different layouts alike. The order is
  unbounded.
- `decoder` numbers its datagrams (`Datagram` is a sequence): the model picks a number. 256 is the first
  template number; `U64` is 65536, larger than every counter that is sent.
- `walks`: the fixed parts that are long in the code are constants, so that a whole packet stays small:
  `AckLen` is 12 for 240, `RandomLen` 2 for 34, `MaxHops` 1 for 10. Nothing depends on their value, and
  the proofs are for every value. The values of `Byte`, `Word` and `Varint` are those at which a header
  length is right (5 and 6 words), a length is 0, just fits, or is too large. 17 is too short for any
  packet, 28 holds a v9 or IPFIX datagram with two sets, 83 leaves 36 bytes of payload behind a UDP
  header, enough for a QUIC Initial with two CRYPTO frames (`Granted` is 24: offset 26 and the end of a
  frame at 21 may be refused, what a single packet holds is not), a DNS message with two questions or two
  answers, or a ClientHello down to its host name.
- `ndpi_cache`: at the smallest instance with each branch; proved for all.

`CHECK_DEADLOCK FALSE` is set where the bound on inputs, processes or writes ends a behaviour, and in
`ndpi_cache` and `walks`, where a dropped engine and a finished walk do nothing. In `decoder` it is not
set.

### Fairness

- `FairSpec` of `Daemon`: `WF(Step \/ Drain)`, the thread is scheduled; `SF(TimerFires)`, the timer is
  compared with a monotonic clock on each turn, so `flush_secs` pass sooner or later. Nothing says
  which of the loop's inputs comes next.
- `PausingSpec` adds `SF(DrainEmpty)`: the sampler pauses. The code does not ensure it, which is what
  `sample_flood` shows; `daemon_live` says what holds when it does.
- `Walks` has `WF(Next)`: the one thread goes on with the function it is in.

No fairness is assumed of kills, errors, midnights, shutdown requests or restarts.

## 4. Proofs

| Module | Theorem | For |
|---|---|---|
| `CollectorProofs` | `TypeCorrect`, `PrivacyHolds`, `NestingHolds`, `IdentityHolds`, `DeclarationHolds`, `DirectionsAgree` | the invariants `TypeOK`, `ClientsArePrivate`, `RowsNest`, `RowsCarryIdentity`, `LabelsAreDeclared`, `RepliesJoinRequests` |
| | `SumsHold`, `FlowsHold` | the sums `AppsSumToClients`, `FlowsAccounted` |
| | `SamplesCountNothing`, `LabelsHaveSource` | `SamplesNeverCount`, `SampledLabelsHaveSource` |
| | `RowsAreKept`, `VolumeIsMetered` | the refinements `KeepsItsRows`, `MetersVolume` |
| `DaemonProofs` | `TypeCorrect`, `MetadataHolds`, `RunningDaysHold`, `NothingLost`, `FilesInOrder` | `TypeOK`, `MetadataDeclaresLabels`, `RunningDaysAreWhole`, `FlushLosesNothing`, `DayFilesInOrder` |
| | `OneProcessExplains`, `OneProcessTakesNothingBack` | `MetadataExplainsEveryLabel`, `PublishedCountsNeverShrink`, if `MaxLives = 1` |
| | `Refines`, `RowsAreKept` | the refinements `ImplementsDataset` and `KeepsItsRows` |
| `WalksProofs` | `PositionsNest`, `NoPanic`, `StreamInPlace` | the invariants `TypeOK`, `ReadsInBounds`, `StreamIsWhatCame` |
| | `WalksAdvance`, `RecordsInOrder` | `AlwaysAdvances`, `RecordsFollowEachOther` |
| | `MeasureIsNatural` | the measure of `AlwaysAdvances` cannot fall for ever |
| `NdpiCacheProofs` | `NoLeak`, `StatesAreSeparate`, `DirectionsJoin`, `LimitHolds` | `MapOwnsHeap`, `StateIsOwn`, `OneEntryPerConnection`, `TypeOK` |
| `AtomicFileProofs` | `TypeCorrect`, `NoTornFile`, `Refines` | `TypeOK`, `NeverTorn`, `ImplementsRegister` |
| `DecoderProofs` | `TypeCorrect` | `TypeOK` |
| | `OnlyWrittenFlows`, `SetsComeWhole` | `NothingInvented`, `KnownSetsAreWhole`, for exporters that keep to their layouts |
| | `CacheFaithful` | for them, the cache is what was announced |
| | `EncodeKeepsLayout`, `EncodeV5KeepsLayout` | the source's encoders keep to theirs, up to 2976 flows (v9, IPFIX) and 65535 (v5) |
| | `EncodedComesBack`, `EncodedV5ComesBack` | what they encode decodes to what was encoded |

They hold for every value of the constants under the modules' named assumptions and no other:
disjoint address sets, a `None` that is no value, positive widths, well-typed inputs (`Collector`);
a positive limit, numbered endpoints, a null that is no pointer (`NdpiCache`); natural bounds, of
processes and of the samples' modulus positive ones (`Daemon`); natural numbers for what is read and
an `AckLen` that is not 0 (`Walks`): there are no assumptions on how long a datagram is or what is in it;
a positive width and well-typed datagrams, of which only template sets are cut into templates (`Decoder`).

*Collector.* `TypeOK` is inductive; its proof has one lemma per table and one per input.
`IngestEffect` and `OtherEffect` then say once what a step does to the tables, and the further
proofs use only these. `ClientsArePrivate`, `RowsNest` and `RowsCarryIdentity` are inductive given
`TypeOK`: a row appears only through `ingest_flow`, which takes the identity known at that moment,
and `apply_identity` writes row and identity together. `LabelsAreDeclared` is not inductive: a flow
takes its label from a hint, which may be older than the flow, so the strengthening `DeclaredInv`
adds `HintsAreFlagged`, a hint of a kind has set that kind's flag. `VerdictSource` is the lemma that
a sampled verdict rests on a hint of the same client. `DirectionsAgree` needs no invariant but `TypeOK`:
`EndsAgree` says that both directions have one client and one key in each hint map, so a hint that decides
decides for both (`HintedVerdict`). Without one the rule table does (`UnhintedVerdict`), and
`TableIsSymmetric` says when it agrees with itself: no port that is not well known has a rule, so `service_port`
finds one rule from both ends (`RuleOfService`), but for two well-known ports, where each direction takes
its destination's (`ServiceOfTwo`); then the verdicts differ exactly if the rules do, since no two rules
overlap or share a name (`OneRule`, `RuleNames`). `RowsAreKept` maps each action to one of `Tables`: a labelled row appears
only with a hint, which `DeclaredInv` ties to the flags.

The sums over the tables need an induction over the table. `FoldTheory` does it once, for any fold of
the community modules: a finite set has a table of the results of all its subsets (by induction on
their size, which is an induction over `Nat` and needs no rule with an operator in it), the fold is
an entry of any such table, and two tables agree. `SumTheory` takes from it that a sum may be split
at any element (`SumOfAny`) and that one entry put into a table moves the sum by the difference
(`SumPut`), and adds what wrapping does: whether a summand wraps before the total does makes no
difference to the total (`WrapLate`, `SumPutWraps`). `SumsHold` is inductive given `TypeOK`, `RowsNest` and the
finiteness of the tables. `RowsNest` is what it needs to exclude: an app row older than its client row
would be missing from a client's first sum. For `VolumeIsMetered` each step of `IngestClientFlow`
moves the two totals of `Metering` by the bytes of one flow, `IngestWanOnlyFlow` one of them, and every
other action leaves them, `apply_identity` on rows with counts included; `Queued` says that a pending
flow is one of `Metering`'s `Traffic`.

*Decoder.* `ParseRecord`, `ParseRecords`, `Learn` and `DecodeSets` are folds over sequences. `FoldOfSequence`
gives each of them the table of its results after every element, so that a proof about a datagram is
one about a single set, and then an induction up to the length (`UpTo`). `TypeCorrect` says that a cached
template has a length, the `rec_len > 0` that `SetWalk` takes for granted. `CacheInv` is the inductive
invariant of the rest: the types, and that the cache holds what was announced, each entry in the
layout of its exporter. `Decodes` follows `decode_sets` from such a cache through the sets: behind each
one the cache is what was announced up to there (`PassHolds`) and the flows are those expected so far
unless a set was bad (`PassFlows`). That the flows of one body are the flows meant is the
round trip: what is written in *n* bytes is read back (`BigEndianBack`), each field lies where the ones
before it end (`WrittenRecord`), the draft of a flow agrees with the flow in the fields read so far
(`DraftsBack`), so a record gives its flow (`RecordBack`), or none if an address has no field
(`RecordNone`), and a body its flows, the padding nothing (`RecordsBack`).

`OnlyWrittenFlows` and `SetsComeWhole` suppose a `layout` that all exporters keep to (`KeptBy`). They need
it: an exporter that changes a template's layout while old data is in flight is misread, by this
decoder and by any other. Two things show that the supposition is not empty: TLC evaluates it on the
exporters of `MCDecoder`, and `EncodeKeepsLayout` and `EncodeV5KeepsLayout` prove it of the source's own encoders,
for any flows whose counters fit in the 4 bytes they are given and which as a set fit in 16 bits
(`Exported`, `ExportedV5`); beyond that it is false of them. `EncodedComesBack` and `EncodedV5ComesBack` put the
encoders and the decoder together: from any cache, what comes out is the flows that went in.

*Daemon.* None of its invariants is inductive: they speak of the directory alone, or only while the
loop runs, and a flush passes through everything in between. `LoopInv` ties the program counter to
memory (a label needs a flag; the days to do are in memory; the day being written has a directory;
the cutoff lies in the window). `MetadataInv` adds that from the metadata write to the end of a flush
`metadata.json` is what memory says, and that the flags explain the files of this process. `ImageInv`
says how far a flush has come: every day but the one being written is one image, of that one the
files before the next are new, the days done are on disk. `OrderInv` adds that nothing on disk is
newer than memory. `Refines` needs only `LoopInv`: `WriteFile` is the `Show` of `Dataset`, a prune its
`Forget`, everything else a stutter or a step of the same name. `OneProcessExplains` and `OneProcessTakesNothingBack` are
what is left of the properties that `restart_metadata` and `restart_same_day` violate: with `life = 1`
throughout, `MetadataInv` gives the first and `OrderInv` the second (a file gives way only to the image of
the moment, which is newer), so restarts are the only cause of either.

*Walks.* `TypeOK` and `ReadsInBounds` are proved together, one lemma for the actions of each walk
(`SetsType`, `FrameType`, ...). Its part `Nested`, position <= end of the slice <= length wherever the code has
checked it, is why no slice is out of bounds; `NameInMessage` is its counterpart for `read_name`. The
`...Falls` lemmas show that each step lowers `Measure`, five natural numbers of which the first to
differ decides: parsers left, functions left, names and records left, pointers left, bytes left. A
pointer may lead back to any byte, and only the fourth falls then. `StreamInPlace` and `RecordsInOrder`
follow from `TypeOK`, the first by an invariant of its own on the buffer.

*NdpiCache.* No conjunct is inductive alone: that a freed pointer leaves no dangling entry needs
that no two entries share it, and that a new entry's state is its own needs that the heap is what the
map owns. `Inv` is their conjunction with the order of the endpoints in a key, from which
`OneEntryPerConnection` follows. `CountInv` (the map is finite and within the limit) is proved on
top of it with the cardinality facts of `FiniteSetTheorems`.

*AtomicFile.* `Settled` says that everything the name may ever show has been written completely, and
that a temporary file that is about to be renamed is complete and synced. The refinement has one
step of the register, or a stutter, per system call.

### Only model-checked

- Liveness: `ShutdownReturns`, `CountedIsPublished`, `ExpiredDaysGo`, `Terminates`. The prover has
  neither `ENABLED` nor fairness. `Terminates` says that
  a walk ends: by a return, or with the process where `crypto_stream` is refused the memory (`CryptoNoMemory`)
  and nowhere else. That the code returns from every datagram would be false, and is not claimed. The proved
  `WalksAdvance` and `MeasureIsNatural` are most of the argument: no behaviour has infinitely many steps.
- That the exporters of `MCDecoder` keep to their layouts: `LayoutsKept`, an assumption TLC evaluates.

Every invariant, every action property and every refinement of a passing run is proved, under the
hypotheses named above where there are any (`MaxLives = 1`, `KeptBy`).

## 5. Not modelled

- What the parsers find: addresses, names and MACs. `Collector` takes any result they may return from a
  set; `Walks` has how they get there. Character sets and trimming of names are left out.
- Key derivation, header protection and AES-GCM of QUIC: library calls on bytes.
- libndpi: it may answer anything, allocate or not.
- The encode functions of `tzsp.rs`, `packet.rs`, `dhcp.rs`, `dns.rs`, `sni.rs` and `quic.rs`, which only
  tests use. Those of `netflow/` are in `Encoder`.
- Category and evidence columns (functions of the rule), formatting of the JSON, log lines.
- Enterprise fields of IPFIX (read by the code as two fields), counters wider than 8 bytes.
- Memory growth: tables and hints are never evicted, and the models bound them.
- Parsing of the command line (clap), the build script.

## 6. Hazards

`PROJECT.json` lists them with their lines and the properties that would catch them. Those with no
property say why. The ones that shaped the models:

1. a crash between two of the four files of a day, or between metadata and days (`DayFilesInOrder`,
   `RunningDaysAreWhole`, `MetadataDeclaresLabels`);
2. a restart over a directory with a day half counted (`PublishedCountsNeverShrink`);
3. hints, identities and flows in every order (`RowsCarryIdentity`, `LabelsAreDeclared`,
   `SampledLabelsHaveSource`);
4. two directions of one connection, and the one case in which they part (`RepliesJoinRequests`,
   `OneEntryPerConnection`);
5. data before its template, and a datagram that fails behind one (`KnownSetsAreWhole`);
6. lengths, pointers and offsets that come from the network (`ReadsInBounds`, `AlwaysAdvances`,
   `Terminates`, `RecordsFollowEachOther`, `StreamIsWhatCame`), and an offset that asks for memory (`CryptoNoMemory`);
7. an eviction followed by a failing allocation, or by a reused address, and a context half made
   (`MapOwnsHeap`, `StateIsOwn`).

## 7. Plan

Done, in this order: `Collector` with `Metering`; `Daemon` with `Dataset`; `Decoder`; `NdpiCache`;
`AtomicFile` with `FileRegister`; `SetWalk` and with it the walks of all other parsers, composed in
`Walks`; `Encoder`; the start and the replay modes in `Daemon`; `Tables`, which composes `Collector` and
`Daemon`; the proofs of all modules, the sums of `Collector` and the folds of `Decoder` last.

What would come next:

1. The parts of the liveness argument that are safety: that the loop of `Daemon` is never more than a
   bounded number of its own steps from the shutdown flag while no sample arrives, as a measure that
   every step of the thread lowers, in the way of `WalksAdvance`.
2. The four files of a day after a power cut: each register may go back by itself, so the order that
   `DayFilesInOrder` states for kills does not survive one. This needs `Daemon` over four instances of
   `FileRegister`.
3. An exporter in `MCDecoder` that changes a template while old data is in flight, should the repository
   say what is to come of it.
