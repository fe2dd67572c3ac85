----------------------------- MODULE Daemon -----------------------------
(***************************************************************************)
(* The collector as a process: run (main.rs), which serves or replays one  *)
(* file of each kind, the loop of serve_udp (pipeline.rs), the flush and   *)
(* the retention of Store (store.rs) file by file, the data directory they *)
(* leave behind, and the ways the process ends: an I/O error, a kill, a    *)
(* requested shutdown, a replay done.  It may be started again, in any     *)
(* mode.                                                                   *)
(*                                                                         *)
(* The tables of Store are kept as the number of flows counted per day,    *)
(* and which days have a row labelled from a TZSP sample; module Collector *)
(* has them in full.  A file's content is the memory image it was rendered *)
(* from.  write_atomic is one step: the file under its name is the old or  *)
(* the new one, whatever happens in between.                               *)
(***************************************************************************)
EXTENDS Integers, Sequences, FiniteSets, FiniteSetsExt

CONSTANTS
    MaxDay,         \* bound: the calendar runs from day 0 to MaxDay
    RetainDays,     \* --retain-days
    FlushSecsZero,  \* the values flush_secs = 0 may have (main passes 5)
    SampleCycle,    \* bound: TZSP samples are counted modulo this
    MaxFlows,       \* bound: flows one process counts
    MaxLives        \* bound: processes, one after the other

Day == 0 .. MaxDay

ASSUME CalendarAssumption == MaxDay \in Nat
ASSUME RetainAssumption == RetainDays \in Nat
ASSUME FlushAssumption == FlushSecsZero \subseteq BOOLEAN
ASSUME BoundAssumption ==
    MaxFlows \in Nat /\ MaxLives \in Nat \ {0} /\ SampleCycle \in Nat \ {0}

\* write_day's order; the variant renders the hours before the app rows.
HourlyFirst ==
    <<"clients.jsonl", "hourly.json", "apps.jsonl", "ingest.json">>
FileSeq == <<"clients.jsonl", "apps.jsonl", "hourly.json", "ingest.json">>
File == {"clients.jsonl", "apps.jsonl", "hourly.json", "ingest.json"}

\* metadata.json before the first flush: no process has written it.
NoMetadata == [life |-> 0, taught |-> FALSE]

VARIABLES
    today,          \* the UTC day of the collector's clock
    shutdown,       \* the AtomicBool
    eager,          \* flush_secs = 0
    \* the process
    life,           \* its number
    pc,             \* where serve_udp is
    counted,        \* [Day -> flows in the tables]
    sampled,        \* days with an app row labelled sni, dns or ndpi
    samples,        \* stats.tzsp_datagrams
    taught,         \* Store's flags: some sample left a hint
    purpose,        \* what flush was called for
    todo,           \* days the flush has still to write
    writing,        \* index in FileSeq of the next file of the day
    cutoff,         \* prune_older_than's cutoff
    \* the data directory
    metadata,       \* metadata.json
    dirs,           \* day directories
    files           \* <<day, file>> -> image

clock == <<today, shutdown, eager>>
memory == <<counted, sampled, samples, taught>>
flush == <<purpose, todo, writing, cutoff>>
disk == <<metadata, dirs, files>>
vars == <<clock, life, pc, memory, flush, disk>>

Ended == {"stopped", "failed", "killed"}
Starting == {"start", "replay"}
Loop == {"check", "recv", "drain", "timer"}
Writing == {"metadata", "day", "write"}

FlowsCounted == MapThenSumSet(LAMBDA d : counted[d], Day)

\* process_tzsp: a sample is counted, and may leave a hint.
Sample(teaches) ==
    /\ samples' = (samples + 1) % SampleCycle
    /\ taught' = (taught \/ teaches)
    /\ UNCHANGED <<counted, sampled>>

-----------------------------------------------------------------------------
(* run: the identity file is read, then a replay, or the sockets *)

Serve ==
    /\ pc = "start"
    /\ pc' = "check"
    /\ UNCHANGED <<clock, life, memory, flush, disk>>

\* --replay.
StartReplay ==
    /\ pc = "start"
    /\ pc' = "replay" /\ purpose' = "replay"
    /\ UNCHANGED <<clock, life, memory, todo, writing, cutoff, disk>>

\* --replay-tzsp, with --replay behind it or without.
ReplaySample(teaches) ==
    /\ pc = "start"
    /\ Sample(teaches)
    /\ pc' \in {"replay", "metadata"} /\ purpose' = "replay"
    /\ UNCHANGED <<clock, life, todo, writing, cutoff, disk>>

-----------------------------------------------------------------------------
(* serve_udp, and process_datagram for replay_file too *)

CheckShutdown ==
    /\ pc = "check"
    /\ IF shutdown
       THEN pc' = "metadata" /\ purpose' = "shutdown"
       ELSE pc' = "recv" /\ UNCHANGED purpose
    /\ UNCHANGED <<clock, life, memory, todo, writing, cutoff, disk>>

AfterDatagram ==
    \/ pc = "replay" /\ pc' = "metadata" /\ UNCHANGED purpose
    \/ pc = "recv" /\ eager /\ pc' = "metadata" /\ purpose' = "datagram"
    \/ pc = "recv" /\ ~eager /\ pc' = "drain" /\ UNCHANGED purpose

\* Which days have a row with a sampled label after flows of day d: the first such
\* row needs a hint learned before, and a flow with no hint may relabel the last.
LabelledDays(d) ==
    {days \in {sampled, sampled \cup {d}, sampled \ {d}} :
         days \subseteq sampled \/ taught}

\* One NetFlow datagram with n flows, all of day d, the day its header says.
Receive(d, n) ==
    /\ pc \in {"recv", "replay"}
    /\ FlowsCounted + n <= MaxFlows
    /\ counted' = [counted EXCEPT ![d] = @ + n]
    /\ sampled' \in LabelledDays(d)
    /\ AfterDatagram
    /\ UNCHANGED <<clock, life, samples, taught, todo, writing, cutoff, disk>>

\* A datagram that yields no flow moves counters of ingest.json only.
ReceiveNoFlow ==
    /\ pc \in {"recv", "replay"}
    /\ AfterDatagram
    /\ UNCHANGED <<clock, life, memory, todo, writing, cutoff, disk>>

\* The 50 ms read timeout.
ReceiveTimeout ==
    /\ pc = "recv"
    /\ pc' = "drain"
    /\ UNCHANGED <<clock, life, memory, flush, disk>>

\* The inner loop over the TZSP socket goes on while there is a sample to read.
DrainSample(teaches) ==
    /\ pc = "drain"
    /\ Sample(teaches)
    /\ UNCHANGED <<clock, life, pc, flush, disk>>

DrainEmpty ==
    /\ pc = "drain"
    /\ pc' = "timer"
    /\ UNCHANGED <<clock, life, memory, flush, disk>>

\* last_flush is flush_secs ago, or not yet.
TimerFires ==
    /\ pc = "timer" /\ ~eager
    /\ pc' = "metadata" /\ purpose' = "timer"
    /\ UNCHANGED <<clock, life, memory, todo, writing, cutoff, disk>>

TimerRuns ==
    /\ pc = "timer"
    /\ pc' = "check"
    /\ UNCHANGED <<clock, life, memory, flush, disk>>

-----------------------------------------------------------------------------
(* Store::flush: metadata.json, then the days in ascending order. *)

OnlyToday == {d \in Day : d = today /\ counted[d] > 0}
DaysInMemory == {d \in Day : counted[d] > 0}

\* Written once, when the directory is new.
MetadataOnce ==
    IF metadata = NoMetadata THEN [life |-> life, taught |-> taught] ELSE metadata
MetadataNow == [life |-> life, taught |-> taught]

WriteMetadata ==
    /\ pc = "metadata"
    /\ metadata' = MetadataNow
    /\ todo' = DaysInMemory
    /\ pc' = "day"
    /\ UNCHANGED <<clock, life, memory, purpose, writing, cutoff, dirs, files>>

BeginDay ==
    /\ pc = "day" /\ todo # {}
    /\ dirs' = dirs \cup {Min(todo)}
    /\ writing' = 1
    /\ pc' = "write"
    /\ UNCHANGED <<clock, life, memory, purpose, todo, cutoff, metadata, files>>

Image == [life |-> life, counted |-> counted, sampled |-> sampled]

NextFilePastEnd ==
    IF writing > Len(FileSeq)
    THEN pc' = "day" /\ todo' = todo \ {Min(todo)} /\ UNCHANGED writing
    ELSE writing' = writing + 1 /\ UNCHANGED <<pc, todo>>
NextFile ==
    IF writing = Len(FileSeq)
    THEN pc' = "day" /\ todo' = todo \ {Min(todo)} /\ UNCHANGED writing
    ELSE writing' = writing + 1 /\ UNCHANGED <<pc, todo>>

WriteFile ==
    /\ pc = "write"
    /\ files' = [k \in DOMAIN files \cup {<<Min(todo), FileSeq[writing]>>} |->
                    IF k = <<Min(todo), FileSeq[writing]>> THEN Image
                    ELSE files[k]]
    /\ NextFile
    /\ UNCHANGED <<clock, life, memory, purpose, cutoff, metadata, dirs>>

\* The variant keeps one day less than the code does.
CutoffDayLess == today - RetainDays + 1
Cutoff == today - RetainDays

\* Two variants: the tables are emptied once they are on disk; only a shutdown
\* prunes.
FlushReturnsAndClears ==
    /\ pc = "day" /\ todo = {}
    /\ \/ purpose = "replay" /\ pc' = "stopped" /\ UNCHANGED cutoff
       \/ purpose = "datagram" /\ pc' = "drain" /\ UNCHANGED cutoff
       \/ purpose \in {"timer", "shutdown"} /\ pc' = "prune" /\ cutoff' = Cutoff
    /\ counted' = [d \in Day |-> 0]
    /\ UNCHANGED <<clock, life, sampled, samples, taught, purpose, todo, writing,
                   disk>>
FlushReturnsUnpruned ==
    /\ pc = "day" /\ todo = {}
    /\ \/ purpose = "replay" /\ pc' = "stopped" /\ UNCHANGED cutoff
       \/ purpose \in {"datagram", "timer"} /\ pc' = "drain" /\ UNCHANGED cutoff
       \/ purpose = "shutdown" /\ pc' = "prune" /\ cutoff' = Cutoff
    /\ UNCHANGED <<clock, life, memory, purpose, todo, writing, disk>>

\* flush returns: out of the replay, to the receive loop, or on to prune_now.
FlushReturns ==
    /\ pc = "day" /\ todo = {}
    /\ \/ purpose = "replay" /\ pc' = "stopped" /\ UNCHANGED cutoff
       \/ purpose = "datagram" /\ pc' = "drain" /\ UNCHANGED cutoff
       \/ purpose \in {"timer", "shutdown"} /\ pc' = "prune" /\ cutoff' = Cutoff
    /\ UNCHANGED <<clock, life, memory, purpose, todo, writing, disk>>

-----------------------------------------------------------------------------
(* Store::prune_now *)

Expired == {d \in dirs : d < cutoff}

PruneDay(d) ==
    /\ pc = "prune" /\ d \in Expired
    /\ dirs' = dirs \ {d}
    /\ files' = [k \in {k \in DOMAIN files : k[1] # d} |-> files[k]]
    /\ UNCHANGED <<clock, life, pc, memory, flush, metadata>>

\* The return behind the shutdown's prune is missing: the loop goes on.
PruneReturnsToLoop ==
    /\ pc = "prune" /\ Expired = {}
    /\ pc' = "check"
    /\ UNCHANGED <<clock, life, memory, flush, disk>>
PruneReturns ==
    /\ pc = "prune" /\ Expired = {}
    /\ pc' = IF purpose = "shutdown" THEN "stopped" ELSE "check"
    /\ UNCHANGED <<clock, life, memory, flush, disk>>

-----------------------------------------------------------------------------
(* The process ends early: an error any ? passes up, or a kill. *)

\* The loop goes on where the error is dropped.
DropsError == IF pc \in Writing \cup {"prune"} THEN pc' = "timer" ELSE pc' = "failed"
Fails == pc' = "failed"

\* The identity file has a bad line, a file to replay cannot be read, an address
\* cannot be bound; recv_from fails with something else than a timeout (EINTR after
\* SIGCONT); a file operation of flush or prune fails.
IoError ==
    /\ pc \in Starting \cup {"recv", "drain", "prune"} \cup Writing
    /\ Fails
    /\ UNCHANGED <<clock, life, memory, flush, disk>>

\* remove_dir_all is stopped with part of the directory gone.
PruneBreaks(d) ==
    /\ pc = "prune" /\ d \in Expired
    /\ \E gone \in SUBSET File :
           files' = [k \in DOMAIN files \ ({d} \X gone) |-> files[k]]
    /\ pc' \in {"failed", "killed"}
    /\ UNCHANGED <<clock, life, memory, flush, metadata, dirs>>

\* The process dies between two steps, by a signal or by its own abort (module
\* InitialWalk has one); the machine stays up, and the disk as it is.
Kill ==
    /\ pc \notin Ended
    /\ pc' = "killed"
    /\ UNCHANGED <<clock, life, memory, flush, disk>>

\* main from the top: the tables start empty, the directory is not read.
Restart ==
    /\ pc \in Ended /\ life < MaxLives
    /\ life' = life + 1
    /\ pc' = "start"
    /\ counted' = [d \in Day |-> 0]
    /\ sampled' = {}
    /\ samples' = 0 /\ taught' = FALSE
    /\ shutdown' = FALSE
    /\ eager' \in FlushSecsZero
    /\ purpose' = "timer" /\ todo' = {} /\ writing' = 1 /\ cutoff' = 0
    /\ UNCHANGED <<today, disk>>

-----------------------------------------------------------------------------
(* The environment *)

Midnight ==
    /\ today < MaxDay
    /\ today' = today + 1
    /\ UNCHANGED <<shutdown, eager, life, pc, memory, flush, disk>>

\* Only serve_udp has the flag.
RequestShutdown ==
    /\ ~shutdown /\ pc # "start" /\ purpose # "replay"
    /\ shutdown' = TRUE
    /\ UNCHANGED <<today, eager, life, pc, memory, flush, disk>>

-----------------------------------------------------------------------------
Init ==
    /\ today = 0 /\ shutdown = FALSE /\ eager \in FlushSecsZero
    /\ life = 1 /\ pc = "start"
    /\ counted = [d \in Day |-> 0] /\ sampled = {}
    /\ samples = 0 /\ taught = FALSE
    /\ purpose = "timer" /\ todo = {} /\ writing = 1 /\ cutoff = 0
    /\ metadata = NoMetadata /\ dirs = {} /\ files = [k \in {} |-> 0]

\* What the thread does next when nothing goes wrong and no sample is waiting.
Step ==
    \/ Serve
    \/ StartReplay
    \/ \E teaches \in BOOLEAN : ReplaySample(teaches)
    \/ CheckShutdown
    \/ \E d \in Day, n \in 1 .. MaxFlows : Receive(d, n)
    \/ ReceiveNoFlow
    \/ ReceiveTimeout
    \/ DrainEmpty
    \/ TimerFires
    \/ TimerRuns
    \/ WriteMetadata
    \/ BeginDay
    \/ WriteFile
    \/ FlushReturns
    \/ \E d \in Day : PruneDay(d)
    \/ PruneReturns

Drain == \E teaches \in BOOLEAN : DrainSample(teaches)

Ending ==
    \/ IoError
    \/ \E d \in Day : PruneBreaks(d)
    \/ Kill
    \/ Restart

Environment == Midnight \/ RequestShutdown

Next == Step \/ Drain \/ Ending \/ Environment

Spec == Init /\ [][Next]_vars

-----------------------------------------------------------------------------
(* Safety *)

TypeOK ==
    /\ today \in Day /\ {shutdown, eager, taught} \subseteq BOOLEAN
    /\ life \in 1 .. MaxLives
    /\ pc \in Starting \cup Loop \cup Writing \cup {"prune"} \cup Ended
    /\ counted \in [Day -> Nat] /\ sampled \subseteq Day
    /\ samples \in 0 .. SampleCycle - 1
    /\ purpose \in {"shutdown", "datagram", "timer", "replay"}
    /\ todo \subseteq Day /\ writing \in 1 .. 4 /\ cutoff \in Int
    /\ metadata \in [life : 0 .. MaxLives, taught : BOOLEAN]
    /\ dirs \subseteq Day
    /\ DOMAIN files \subseteq dirs \X File
    /\ \A k \in DOMAIN files :
           files[k] \in [life : 1 .. MaxLives, counted : [Day -> Nat],
                         sampled : SUBSET Day]

\* An image is at least as new as another: a later process, or more flows.
AsNew(a, b) ==
    \/ a.life > b.life
    \/ a.life = b.life /\ \A d \in Day : a.counted[d] >= b.counted[d]

Before == {<<"clients.jsonl", "apps.jsonl">>, <<"apps.jsonl", "hourly.json">>,
           <<"hourly.json", "ingest.json">>}

\* write_day writes clients, apps, hours, ingest, in that order.  So at every
\* moment, in the middle of a flush and after any crash, the clients file of a day
\* is at least as new as the apps file, and so on; and within the window a file is
\* never there without the ones before it.
DayFilesInOrder ==
    \A d \in Day, pair \in Before :
        <<d, pair[2]>> \in DOMAIN files =>
            IF <<d, pair[1]>> \in DOMAIN files
            THEN AsNew(files[<<d, pair[1]>>], files[<<d, pair[2]>>])
            ELSE d < today - RetainDays

\* While the process is in its receive loop, what it has published of a day is one
\* single image in all four files: a flush that fails half way ends the process,
\* it does not leave a mixed day under a running collector.
RunningDaysAreWhole ==
    pc \in Loop =>
        \A d \in Day, f, g \in File :
            /\ <<d, f>> \in DOMAIN files
            /\ files[<<d, f>>].life = life
            => <<d, g>> \in DOMAIN files /\ files[<<d, g>>] = files[<<d, f>>]

\* When flush has returned, every day the process counted in the window is on disk
\* with the present image; so a requested shutdown loses no counted flow, and a
\* replay none at all.
FlushLosesNothing ==
    pc \in {"prune", "stopped"} =>
        \A d \in Day, f \in File :
            counted[d] > 0 /\ d >= cutoff =>
                <<d, f>> \in DOMAIN files /\ files[<<d, f>>] = Image

\* docs/schema.md: a row with a sampled confidence comes with its flag.  Across
\* every interleaving of samples and flushes, metadata.json is never behind the
\* app rows of its own process, and never from an earlier process than a row.
MetadataDeclaresLabels ==
    \A k \in DOMAIN files :
        /\ files[k].life <= metadata.life
        /\ files[k].life = metadata.life /\ k[1] \in files[k].sampled
              => metadata.taught

\* The data directory implements Dataset: whole images, newer replacing older, and
\* only days older than the window disappear.
Published == INSTANCE Dataset WITH
    shown <- [k \in DOMAIN files |->
                 [life |-> files[k].life, counted |-> files[k].counted]]
ImplementsDataset == Published!Spec

\* What is left here of the tables is what the full ones of Collector implement
\* too: no step of the loop, no flush and no failure empties them.
Rows == INSTANCE Tables WITH days <- DaysInMemory, labelled <- sampled
KeepsItsRows == Rows!Spec

-----------------------------------------------------------------------------
(* What holds of one process, and is lost when another takes over *)

\* The dataset README: clients.jsonl has one object per LAN client of that day.
\* The flows a published clients file accounts for never become fewer.
PublishedCountsNeverShrink ==
    [][\A d \in Day :
        LET k == <<d, "clients.jsonl">>
        IN  k \in DOMAIN files /\ k \in DOMAIN files' =>
                files'[k].counted[d] >= files[k].counted[d]]_vars

\* docs/roadmap.md: metadata.json always explains the data directory.  No app row
\* of any day is labelled sni, dns or ndpi while metadata.json denies it.
MetadataExplainsEveryLabel ==
    \A k \in DOMAIN files : k[1] \in files[k].sampled => metadata.taught

\* docs/roadmap.md: the last N calendar days are kept, after 8 days only 7 are
\* left.  Counted right after the prune of a shutdown, with no midnight between.
OnlyRetainDaysLeft ==
    pc = "stopped" /\ purpose = "shutdown" /\ cutoff = today - RetainDays =>
        Cardinality({d \in dirs : d <= today}) <= RetainDays

-----------------------------------------------------------------------------
(* Liveness *)

\* The thread is scheduled, and of all the times the loop looks at the flush timer,
\* some find that flush_secs have passed.
FairSpec == Spec /\ WF_vars(Step \/ Drain) /\ SF_vars(TimerFires)

\* And the sampler pauses: the TZSP socket is found empty again and again.
PausingSpec == FairSpec /\ SF_vars(DrainEmpty)

\* e2e_udp_v5_happy_path: a requested shutdown makes serve_udp return.
ShutdownReturns == shutdown ~> pc \in Ended

\* A counted flow is on disk in the end, unless its day expires or the process dies.
CountedIsPublished ==
    \A d \in Day : \A n \in 1 .. MaxFlows :
        counted[d] = n ~>
            \/ /\ <<d, "clients.jsonl">> \in DOMAIN files
               /\ files[<<d, "clients.jsonl">>].counted[d] >= n
            \/ d < today - RetainDays
            \/ pc \in Ended

\* A directory that is too old goes, again and again for as long as the collector
\* runs: a day still in memory is written anew by every flush.
ExpiredDaysGo ==
    \A d \in Day :
        [](d < today - RetainDays => <>(d \notin dirs \/ pc \in Ended))
=============================================================================
