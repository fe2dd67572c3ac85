-------------------------- MODULE DaemonProofs --------------------------
(***************************************************************************)
(* What the data directory shows at every moment, for any calendar,        *)
(* retention and number of processes, killed wherever they are.            *)
(***************************************************************************)
EXTENDS Daemon, WellFoundedInduction, TLAPS

\* All four files of a day show the tables as they are.
OnDisk(d) ==
    \A f \in File : <<d, f>> \in DOMAIN files /\ files[<<d, f>>] = Image

\* What this process has published of a day is one image in four files.
WholeDay(d) ==
    \A f, g \in File :
        /\ <<d, f>> \in DOMAIN files
        /\ files[<<d, f>>].life = life
        => <<d, g>> \in DOMAIN files /\ files[<<d, g>>] = files[<<d, f>>]

\* Where the loop is, against what it has in memory.
LoopInv ==
    /\ sampled # {} => taught
    /\ pc \in {"day", "write"} => todo \subseteq DaysInMemory
    /\ pc = "write" => todo # {} /\ Min(todo) \in dirs
    /\ pc = "prune" => cutoff <= today - RetainDays

\* metadata.json, against the files: no file is from a later process, and what the
\* present process has labelled it can still explain.
MetadataInv ==
    /\ metadata.life <= life
    /\ pc \in {"day", "write"} => metadata = MetadataNow
    /\ \A k \in DOMAIN files :
           files[k].life = life /\ k[1] \in files[k].sampled => taught
    /\ MetadataDeclaresLabels

\* The files of a day, against memory: only the day being written is mixed, and of
\* that one the files before the next are already new.
ImageInv ==
    /\ pc \notin Ended =>
           \A d \in Day : WholeDay(d) \/ (pc = "write" /\ d = Min(todo))
    /\ pc = "write" =>
           \A i \in 1 .. writing - 1 :
               /\ <<Min(todo), FileSeq[i]>> \in DOMAIN files
               /\ files[<<Min(todo), FileSeq[i]>>] = Image
    /\ pc \in {"day", "write"} => \A d \in DaysInMemory \ todo : OnDisk(d)
    /\ pc \in {"prune", "stopped"} =>
           \A d \in DaysInMemory : d >= cutoff => OnDisk(d)

-----------------------------------------------------------------------------
(* Helpers *)

\* The day that is written next is one of those to do.
LEMMA MinIsMember == ASSUME NEW T, T \subseteq Day, T # {} PROVE Min(T) \in T
<1>1. T \subseteq Nat
  BY CalendarAssumption DEF Day
<1>2. \E x \in T : \A y \in T : ~ (<<y, x>> \in OpToRel(<, Nat))
  BY <1>1, NatLessThanWellFounded, WFMin
<1>3. PICK x \in T : \A y \in T : ~ (<<y, x>> \in OpToRel(<, Nat))
  BY <1>2
<1>4. \A y \in T : <<y, x>> \in OpToRel(<, Nat) <=> y < x
  BY <1>1 DEF OpToRel
<1>5. \A y \in T : ~ (y < x)
  BY <1>3, <1>4, Zenon
<1>6. \A y \in T : x =< y
  BY <1>1, <1>5
<1> QED
  BY <1>6 DEF Min

\* The order of write_day, as a list of the four names.
LEMMA FileOrder ==
    /\ Len(FileSeq) = 4
    /\ \A i \in 1 .. 4 : FileSeq[i] \in File
    /\ File = {FileSeq[1], FileSeq[2], FileSeq[3], FileSeq[4]}
BY DEF FileSeq, File

\* Steps of the loop, and ends, that touch neither tables nor files.
Quiet ==
    \/ Serve
    \/ StartReplay
    \/ CheckShutdown
    \/ ReceiveNoFlow
    \/ ReceiveTimeout
    \/ DrainEmpty
    \/ TimerFires
    \/ TimerRuns
    \/ PruneReturns
    \/ IoError
    \/ Kill
    \/ Midnight
    \/ RequestShutdown

\* The cases of every proof below.
LEMMA NextCases ==
    Next <=>
        \/ Quiet
        \/ \E teaches \in BOOLEAN : ReplaySample(teaches)
        \/ \E d \in Day, n \in 1 .. MaxFlows : Receive(d, n)
        \/ \E teaches \in BOOLEAN : DrainSample(teaches)
        \/ WriteMetadata
        \/ BeginDay
        \/ WriteFile
        \/ FlushReturns
        \/ \E d \in Day : PruneDay(d)
        \/ \E d \in Day : PruneBreaks(d)
        \/ Restart
BY DEF Next, Step, Drain, Ending, Environment, Quiet

\* Quiet steps keep what the process knows and what is on disk; they lead on in the
\* loop, to the head of a flush, or out of it.
LEMMA QuietEffect ==
    ASSUME TypeOK, Quiet
    PROVE  /\ UNCHANGED <<life, counted, sampled, samples, taught, todo, writing,
                         cutoff, metadata, dirs, files>>
           /\ today' \in Day /\ today <= today'
           /\ {shutdown', eager'} \subseteq BOOLEAN
           /\ purpose' \in {"shutdown", "datagram", "timer", "replay"}
           /\ \/ pc' = pc
              \/ /\ pc \in Starting \cup Loop \cup {"prune"}
                 /\ pc' \in Loop \cup {"replay", "metadata"}
              \/ pc \notin Ended /\ pc' \in {"failed", "killed"}
              \/ pc = "prune" /\ pc' = "stopped"
<1> USE DEF clock, memory, flush, disk, Starting
<1>0. today \in Nat
  BY CalendarAssumption DEF TypeOK, Day
<1>6. CASE Serve \/ StartReplay
  BY <1>0, <1>6 DEF Serve, StartReplay, TypeOK, Loop
<1>1. CASE CheckShutdown \/ ReceiveNoFlow \/ ReceiveTimeout \/ DrainEmpty
  BY <1>0, <1>1
  DEF CheckShutdown, ReceiveNoFlow, ReceiveTimeout, DrainEmpty, AfterDatagram,
      TypeOK, Loop, Ended
<1>2. CASE TimerFires \/ TimerRuns \/ PruneReturns
  BY <1>0, <1>2 DEF TimerFires, TimerRuns, PruneReturns, TypeOK, Loop, Ended
<1>3. CASE IoError \/ Kill
  BY <1>0, <1>3 DEF IoError, Fails, Kill, TypeOK, Writing, Ended
<1>4. CASE Midnight
  BY <1>0, <1>4, CalendarAssumption DEF Midnight, TypeOK, Day
<1>5. CASE RequestShutdown
  BY <1>0, <1>5 DEF RequestShutdown, TypeOK
<1> QED
  BY <1>1, <1>2, <1>3, <1>4, <1>5, <1>6 DEF Quiet

\* One file takes the image, the others stay.
LEMMA WriteEffect ==
    ASSUME WriteFile
    PROVE  LET key == <<Min(todo), FileSeq[writing]>>
           IN  /\ DOMAIN files' = DOMAIN files \cup {key}
               /\ files'[key] = Image
               /\ \A k \in DOMAIN files : k # key => files'[k] = files[k]
<1> DEFINE key == <<Min(todo), FileSeq[writing]>>
<1>1. files' = [k \in DOMAIN files \cup {key} |->
                   IF k = key THEN Image ELSE files[k]]
  BY DEF WriteFile
<1> HIDE DEF key
<1>2. /\ DOMAIN files' = DOMAIN files \cup {key}
      /\ files'[key] = Image
      /\ \A k \in DOMAIN files : k # key => files'[k] = files[k]
  BY <1>1
<1> QED
  BY <1>2 DEF key

-----------------------------------------------------------------------------
(* Types, and the loop *)

LEMMA InitLoop == Init => TypeOK /\ LoopInv
<1> SUFFICES ASSUME Init PROVE TypeOK /\ LoopInv
  OBVIOUS
<1>1. 0 \in Day
  BY CalendarAssumption DEF Day
<1>2. {shutdown, eager, taught} \subseteq BOOLEAN
  BY FlushAssumption DEF Init
<1>3. TypeOK
  BY <1>1, <1>2, BoundAssumption
  DEF Init, TypeOK, Starting, Loop, Writing, Ended, NoMetadata, DaysInMemory
<1>4. LoopInv
  BY DEF Init, LoopInv
<1> QED
  BY <1>3, <1>4

LEMMA NextLoop ==
    TypeOK /\ LoopInv /\ [Next]_vars => TypeOK' /\ LoopInv'
<1> SUFFICES ASSUME TypeOK, LoopInv, [Next]_vars PROVE TypeOK' /\ LoopInv'
  OBVIOUS
<1> USE DEF clock, memory, flush, disk
<1>1. CASE Quiet
  <2>1. TypeOK'
    BY <1>1, QuietEffect DEF TypeOK, Starting, Loop, Writing, Ended
  <2>2. pc' = "prune" => pc = "prune" /\ cutoff' <= today' - RetainDays
    <3>1. {today, today'} \subseteq Nat /\ today <= today' /\ cutoff' = cutoff
      BY <1>1, QuietEffect, CalendarAssumption DEF TypeOK, Day
    <3>2. pc' = "prune" => pc = "prune"
      BY <1>1, QuietEffect DEF Loop
    <3> QED
      BY <3>1, <3>2, RetainAssumption DEF TypeOK, LoopInv
  <2>3. LoopInv'
    BY <1>1, <2>2, QuietEffect DEF LoopInv, Loop, DaysInMemory
  <2> QED
    BY <2>1, <2>3
<1>2. ASSUME NEW d \in Day, NEW n \in 1 .. MaxFlows, Receive(d, n)
      PROVE  TypeOK' /\ LoopInv'
  <2>1. /\ n \in Nat \ {0} /\ counted' = [counted EXCEPT ![d] = @ + n]
        /\ sampled' \subseteq sampled \cup {d}
        /\ sampled' \subseteq sampled \/ taught
    BY <1>2, BoundAssumption DEF Receive, LabelledDays
  <2>2. counted' \in [Day -> Nat] /\ sampled' \subseteq Day
    BY <2>1 DEF TypeOK
  <2> QED
    BY <1>2, <2>1, <2>2
    DEF Receive, AfterDatagram, TypeOK, LoopInv, Loop, Writing, Ended
<1>3. ASSUME NEW teaches \in BOOLEAN, DrainSample(teaches) \/ ReplaySample(teaches)
      PROVE  TypeOK' /\ LoopInv'
  BY <1>3, BoundAssumption
  DEF DrainSample, ReplaySample, Sample, TypeOK, LoopInv, Starting, Loop, Writing, Ended
<1>4. CASE WriteMetadata
  BY <1>4
  DEF WriteMetadata, MetadataNow, TypeOK, LoopInv, Loop, Writing, Ended,
      DaysInMemory
<1>5. CASE BeginDay
  <2>1. Min(todo) \in todo
    BY <1>5, MinIsMember DEF BeginDay, TypeOK
  <2> QED
    BY <1>5, <2>1
    DEF BeginDay, TypeOK, LoopInv, Loop, Writing, Ended, DaysInMemory
<1>6. CASE WriteFile
  <2>1. <<Min(todo), FileSeq[writing]>> \in dirs \X File
    BY <1>6, FileOrder DEF WriteFile, TypeOK, LoopInv
  <2>2. Image \in [life : 1 .. MaxLives, counted : [Day -> Nat],
                   sampled : SUBSET Day]
    BY DEF Image, TypeOK
  <2>3. DOMAIN files' \subseteq dirs' \X File
    BY <1>6, <2>1 DEF WriteFile, TypeOK
  <2>4. \A k \in DOMAIN files' :
            files'[k] \in [life : 1 .. MaxLives, counted : [Day -> Nat],
                           sampled : SUBSET Day]
    BY <1>6, <2>2 DEF WriteFile, TypeOK
  <2>5. /\ pc' \in Writing /\ todo' \subseteq todo /\ writing' \in 1 .. 4
        /\ UNCHANGED <<clock, life, memory, purpose, cutoff, metadata, dirs>>
    BY <1>6, FileOrder DEF WriteFile, NextFile, TypeOK, Writing
  <2>6. TypeOK'
    BY <2>3, <2>4, <2>5 DEF TypeOK
  <2> QED
    BY <1>6, <2>5, <2>6, FileOrder
    DEF WriteFile, NextFile, LoopInv, DaysInMemory
<1>7. CASE FlushReturns
  BY <1>7, RetainAssumption
  DEF FlushReturns, Cutoff, TypeOK, LoopInv, Day, Loop, Writing, Ended
<1>8. ASSUME NEW d \in Day, PruneDay(d) PROVE TypeOK' /\ LoopInv'
  <2>1. DOMAIN files' \subseteq dirs' \X File
    BY <1>8 DEF PruneDay, TypeOK
  <2> QED
    BY <1>8, <2>1 DEF PruneDay, TypeOK, LoopInv, Loop, Writing, Ended
<1>9. ASSUME NEW d \in Day, PruneBreaks(d) PROVE TypeOK' /\ LoopInv'
  BY <1>9 DEF PruneBreaks, TypeOK, LoopInv, Loop, Writing, Ended
<1>10. CASE Restart
  <2>1. life' \in 1 .. MaxLives
    BY <1>10, BoundAssumption DEF Restart, TypeOK
  <2>2. {shutdown', eager', taught'} \subseteq BOOLEAN
    BY <1>10, FlushAssumption DEF Restart
  <2>3. /\ samples' \in 0 .. SampleCycle - 1 /\ cutoff' \in Int
        /\ counted' \in [Day -> Nat] /\ sampled' = {} /\ todo' = {}
        /\ writing' \in 1 .. 4 /\ purpose' = "timer" /\ pc' = "start"
    BY <1>10, BoundAssumption DEF Restart
  <2>4. UNCHANGED <<today, metadata, dirs, files>>
    BY <1>10 DEF Restart
  <2>5. TypeOK'
    BY <2>1, <2>2, <2>3, <2>4 DEF TypeOK, Starting
  <2> QED
    BY <2>3, <2>5 DEF LoopInv
<1>11. CASE UNCHANGED vars
  BY <1>11 DEF vars, TypeOK, LoopInv, DaysInMemory
<1> QED
  BY <1>1, <1>2, <1>3, <1>4, <1>5, <1>6, <1>7, <1>8, <1>9, <1>10, <1>11,
     NextCases

LEMMA LoopHolds == Spec => [](TypeOK /\ LoopInv)
BY InitLoop, NextLoop, PTL DEF Spec

\* The daemon's state is well typed, and a day's files are in a directory that
\* exists, for every calendar, retention and number of processes.
THEOREM TypeCorrect == Spec => []TypeOK
BY LoopHolds, PTL

-----------------------------------------------------------------------------
(* metadata.json *)

LEMMA InitMetadata == Init => MetadataInv
BY BoundAssumption DEF Init, MetadataInv, MetadataDeclaresLabels, NoMetadata

LEMMA NextMetadata ==
    TypeOK /\ LoopInv /\ MetadataInv /\ [Next]_vars => MetadataInv'
<1> SUFFICES ASSUME TypeOK, LoopInv, MetadataInv, [Next]_vars PROVE MetadataInv'
  OBVIOUS
<1> USE DEF clock, memory, flush, disk, MetadataDeclaresLabels, MetadataNow
<1>1. CASE Quiet
  BY <1>1, QuietEffect DEF MetadataInv, Starting, Loop
<1>2. ASSUME NEW d \in Day, NEW n \in 1 .. MaxFlows, Receive(d, n)
      PROVE  MetadataInv'
  BY <1>2 DEF Receive, AfterDatagram, MetadataInv
<1>3. ASSUME NEW teaches \in BOOLEAN, DrainSample(teaches) \/ ReplaySample(teaches)
      PROVE  MetadataInv'
  BY <1>3 DEF DrainSample, ReplaySample, Sample, MetadataInv, TypeOK
<1>4. CASE WriteMetadata
  <2>1. \A k \in DOMAIN files : files[k].life <= life
    BY DEF MetadataInv, TypeOK
  <2> QED
    BY <1>4, <2>1 DEF WriteMetadata, MetadataInv, TypeOK
<1>5. CASE BeginDay
  BY <1>5 DEF BeginDay, MetadataInv
<1>6. CASE WriteFile
  <2>1. \A k \in DOMAIN files' :
            files'[k] = Image \/ (k \in DOMAIN files /\ files'[k] = files[k])
    BY <1>6, WriteEffect
  <2>2. Image.life = life /\ Image.sampled = sampled
    BY DEF Image
  <2>3. /\ metadata.life = life /\ metadata.taught = taught
        /\ UNCHANGED <<life, taught, metadata>>
    BY <1>6 DEF WriteFile, MetadataInv
  <2>4. pc' \in {"day", "write"} => metadata' = [life |-> life', taught |-> taught']
    BY <1>6, <2>3 DEF WriteFile, MetadataInv
  <2>5. \A k \in DOMAIN files' :
            /\ files'[k].life <= metadata'.life
            /\ files'[k].life = life' /\ k[1] \in files'[k].sampled => taught'
            /\ files'[k].life = metadata'.life /\ k[1] \in files'[k].sampled
                  => metadata'.taught
    BY <2>1, <2>2, <2>3 DEF MetadataInv, LoopInv, TypeOK
  <2> QED
    BY <2>3, <2>4, <2>5 DEF MetadataInv, TypeOK
<1>7. CASE FlushReturns
  BY <1>7 DEF FlushReturns, MetadataInv
<1>8. ASSUME NEW d \in Day, PruneDay(d) PROVE MetadataInv'
  BY <1>8 DEF PruneDay, MetadataInv
<1>9. ASSUME NEW d \in Day, PruneBreaks(d) PROVE MetadataInv'
  BY <1>9 DEF PruneBreaks, MetadataInv
<1>10. CASE Restart
  <2>1. metadata.life < life' /\ \A k \in DOMAIN files : files[k].life < life'
    BY <1>10 DEF Restart, MetadataInv, TypeOK
  <2> QED
    BY <1>10, <2>1 DEF Restart, MetadataInv, TypeOK
<1>11. CASE UNCHANGED vars
  BY <1>11 DEF vars, MetadataInv
<1> QED
  BY <1>1, <1>2, <1>3, <1>4, <1>5, <1>6, <1>7, <1>8, <1>9, <1>10, <1>11,
     NextCases

\* At every moment, and after any kill, metadata.json explains every sampled label
\* of the process that wrote it, and no file is from a later process: flush writes
\* metadata first, and a label cannot be older than the flag of its sample.
THEOREM MetadataHolds == Spec => []MetadataDeclaresLabels
<1>1. MetadataInv => MetadataDeclaresLabels
  BY DEF MetadataInv
<1> QED
  BY <1>1, LoopHolds, InitMetadata, NextMetadata, PTL DEF Spec

\* Up to the first restart metadata.json explains every sampled label of the
\* directory.  For two processes it does not: restart_metadata's counterexample.
THEOREM OneProcessExplains ==
    MaxLives = 1 => (Spec => []MetadataExplainsEveryLabel)
<1> SUFFICES ASSUME MaxLives = 1 PROVE Spec => []MetadataExplainsEveryLabel
  OBVIOUS
<1>1. TypeOK /\ MetadataDeclaresLabels => MetadataExplainsEveryLabel
  <2> SUFFICES ASSUME TypeOK, MetadataDeclaresLabels, NEW k \in DOMAIN files,
                      k[1] \in files[k].sampled
               PROVE  metadata.taught
    BY DEF MetadataExplainsEveryLabel
  <2>1. files[k].life = 1 /\ metadata.life \in 0 .. 1
    BY DEF TypeOK
  <2>2. files[k].life = metadata.life
    BY <2>1 DEF MetadataDeclaresLabels
  <2> QED
    BY <2>2 DEF MetadataDeclaresLabels
<1> QED
  BY <1>1, TypeCorrect, MetadataHolds, PTL

-----------------------------------------------------------------------------
(* The files of a day *)

LEMMA InitImages == Init => ImageInv
BY DEF Init, ImageInv, WholeDay, DaysInMemory, Ended

\* Steps that leave memory and files alone change nothing of a day.
LEMMA DayKeeps ==
    ASSUME UNCHANGED <<life, counted, sampled, files>>, NEW d
    PROVE  /\ OnDisk(d) => OnDisk(d)'
           /\ WholeDay(d) => WholeDay(d)'
           /\ DaysInMemory' = DaysInMemory
           /\ Image' = Image
BY DEF OnDisk, WholeDay, DaysInMemory, Image

LEMMA NextImages ==
    TypeOK /\ LoopInv /\ MetadataInv /\ ImageInv /\ [Next]_vars => ImageInv'
<1> SUFFICES ASSUME TypeOK, LoopInv, MetadataInv, ImageInv, [Next]_vars
             PROVE  ImageInv'
  OBVIOUS
<1> USE DEF clock, memory, flush, disk
<1>1. CASE Quiet
  <2>1. /\ UNCHANGED <<life, counted, sampled, todo, writing, cutoff, files>>
        /\ \/ pc' = pc
           \/ /\ pc \in Starting \cup Loop \cup {"prune"}
              /\ pc' \in Loop \cup {"replay", "metadata"}
           \/ pc \notin Ended /\ pc' \in {"failed", "killed"}
           \/ pc = "prune" /\ pc' = "stopped"
    BY <1>1, QuietEffect
  <2>2. DaysInMemory' = DaysInMemory /\ Image' = Image
    BY <2>1 DEF DaysInMemory, Image
  <2>3. \A d \in Day : WholeDay(d)' <=> WholeDay(d)
    BY <2>1 DEF WholeDay
  <2>4. \A d \in Day : OnDisk(d)' <=> OnDisk(d)
    BY <2>1, <2>2 DEF OnDisk
  <2>5. DaysInMemory \subseteq Day
    BY DEF DaysInMemory
  <2>6. ASSUME pc' \notin Ended, NEW d \in Day
        PROVE  (WholeDay(d) \/ (pc = "write" /\ d = Min(todo)))'
    BY <2>1, <2>3, <2>6 DEF ImageInv, Starting, Loop, Ended
  <2>7. ASSUME pc' = "write", NEW i \in 1 .. writing' - 1
        PROVE  (/\ <<Min(todo), FileSeq[i]>> \in DOMAIN files
                /\ files[<<Min(todo), FileSeq[i]>>] = Image)'
    BY <2>1, <2>2, <2>7 DEF ImageInv, Starting, Loop
  <2>8. ASSUME pc' \in {"day", "write"}, NEW d \in (DaysInMemory \ todo)'
        PROVE  OnDisk(d)'
    BY <2>1, <2>2, <2>4, <2>5, <2>8 DEF ImageInv, Starting, Loop
  <2>9. ASSUME pc' \in {"prune", "stopped"}, NEW d \in DaysInMemory', d >= cutoff'
        PROVE  OnDisk(d)'
    BY <2>1, <2>2, <2>4, <2>5, <2>9 DEF ImageInv, Starting, Loop
  <2> QED
    BY <2>6, <2>7, <2>8, <2>9 DEF ImageInv
<1>2. ASSUME NEW d \in Day, NEW n \in 1 .. MaxFlows, Receive(d, n)
      PROVE  ImageInv'
  <2>1. /\ pc \in {"recv", "replay"} /\ pc' \in {"metadata", "drain"}
        /\ UNCHANGED <<life, files>>
    BY <1>2 DEF Receive, AfterDatagram
  <2> QED
    BY <2>1 DEF ImageInv, WholeDay, Ended
<1>3. ASSUME NEW teaches \in BOOLEAN, DrainSample(teaches) \/ ReplaySample(teaches)
      PROVE  ImageInv'
  BY <1>3 DEF DrainSample, ReplaySample, Sample, ImageInv, WholeDay, Ended
<1>4. CASE WriteMetadata
  BY <1>4 DEF WriteMetadata, ImageInv, WholeDay, DaysInMemory, Ended
<1>5. CASE BeginDay
  <2>1. /\ pc = "day" /\ pc' = "write" /\ writing' = 1
        /\ UNCHANGED <<life, counted, sampled, todo, files>>
    BY <1>5 DEF BeginDay
  <2>2. \A d \in Day : WholeDay(d)' /\ (OnDisk(d) => OnDisk(d)')
    BY <2>1 DEF ImageInv, WholeDay, OnDisk, Image, Ended
  <2> QED
    BY <2>1, <2>2 DEF ImageInv, DaysInMemory
<1>6. CASE WriteFile
  <2>0. PICK m \in todo : m = Min(todo)
    BY <1>6, MinIsMember DEF WriteFile, LoopInv, TypeOK
  <2>1. m \in Day /\ pc = "write" /\ writing \in 1 .. 4
    BY <1>6, <2>0 DEF WriteFile, TypeOK
  <2>2. UNCHANGED <<life, counted, sampled>> /\ Image' = Image
        /\ DaysInMemory' = DaysInMemory
    BY <1>6 DEF WriteFile, Image, DaysInMemory
  <2>3. /\ DOMAIN files' = DOMAIN files \cup {<<m, FileSeq[writing]>>}
        /\ files'[<<m, FileSeq[writing]>>] = Image
        /\ \A k \in DOMAIN files :
               k # <<m, FileSeq[writing]>> => files'[k] = files[k]
    BY <1>6, WriteEffect, <2>0
  <2>4. ASSUME NEW d \in Day, d # m
        PROVE  WholeDay(d)' /\ (OnDisk(d) => OnDisk(d)')
    <3>1. WholeDay(d)
      BY <2>0, <2>1, <2>4 DEF ImageInv, Ended
    <3>2. \A f \in File :
              /\ <<d, f>> \in DOMAIN files' <=> <<d, f>> \in DOMAIN files
              /\ <<d, f>> \in DOMAIN files =>
                    files'[<<d, f>>] = files[<<d, f>>]
      BY <2>3, <2>4
    <3>3. WholeDay(d)'
      BY <2>2, <3>1, <3>2 DEF WholeDay
    <3>4. OnDisk(d) => OnDisk(d)'
      BY <2>2, <3>2 DEF OnDisk
    <3> QED
      BY <3>3, <3>4
  <2>5. \A i \in 1 .. writing :
            /\ <<m, FileSeq[i]>> \in DOMAIN files'
            /\ files'[<<m, FileSeq[i]>>] = Image
    <3>1. \A i \in 1 .. writing - 1 :
              /\ <<m, FileSeq[i]>> \in DOMAIN files
              /\ files[<<m, FileSeq[i]>>] = Image
      BY <2>0, <2>1 DEF ImageInv
    <3>2. \A i \in 1 .. writing : i \in 1 .. writing - 1 \/ i = writing
      BY <2>1
    <3> QED
      BY <2>3, <3>1, <3>2
  <2>6. CASE writing < 4
    <3>1. pc' = "write" /\ todo' = todo /\ writing' = writing + 1
      BY <1>6, <2>6, FileOrder DEF WriteFile, NextFile
    <3>2. Min(todo') = m /\ writing' - 1 = writing
      BY <2>0, <2>1, <3>1
    <3>3. \A d \in DaysInMemory \ todo : OnDisk(d)'
      BY <2>1, <2>4 DEF ImageInv, DaysInMemory
    <3> QED
      BY <2>2, <2>4, <2>5, <3>1, <3>2, <3>3 DEF ImageInv
  <2>7. CASE writing = 4
    <3>1. pc' = "day" /\ todo' = todo \ {m}
      BY <1>6, <2>0, <2>7, FileOrder DEF WriteFile, NextFile
    <3>2. OnDisk(m)'
      BY <2>2, <2>5, <2>7, FileOrder DEF OnDisk
    <3>3. \A d \in Day : WholeDay(d)'
      BY <2>4, <3>2 DEF OnDisk, WholeDay
    <3>4. \A d \in DaysInMemory \ (todo \ {m}) : OnDisk(d)'
      BY <2>1, <2>4, <3>2 DEF ImageInv, DaysInMemory
    <3> QED
      BY <2>2, <3>1, <3>3, <3>4 DEF ImageInv
  <2> QED
    BY <2>1, <2>6, <2>7
<1>7. CASE FlushReturns
  <2>1. /\ pc = "day" /\ todo = {} /\ pc' \in {"drain", "prune", "stopped"}
        /\ UNCHANGED <<life, counted, sampled, files>>
    BY <1>7 DEF FlushReturns
  <2>2. \A d \in Day : WholeDay(d)' /\ (OnDisk(d) => OnDisk(d)')
    BY <2>1 DEF ImageInv, WholeDay, OnDisk, Image, Ended
  <2> QED
    BY <2>1, <2>2 DEF ImageInv, DaysInMemory
<1>8. ASSUME NEW d \in Day, PruneDay(d) PROVE ImageInv'
  <2>1. /\ pc = "prune" /\ pc' = "prune" /\ d < cutoff
        /\ UNCHANGED <<life, counted, sampled, cutoff>>
    BY <1>8 DEF PruneDay, Expired
  <2>2. /\ \A k \in DOMAIN files' : k \in DOMAIN files /\ files'[k] = files[k]
        /\ \A k \in DOMAIN files : k[1] # d => k \in DOMAIN files'
        /\ \A f : <<d, f>> \notin DOMAIN files'
    BY <1>8 DEF PruneDay
  <2>3. ASSUME NEW e \in Day PROVE WholeDay(e)'
    BY <2>1, <2>2 DEF ImageInv, WholeDay, Ended
  <2>4. ASSUME NEW e \in Day, e # d, OnDisk(e) PROVE OnDisk(e)'
    BY <2>1, <2>2, <2>4 DEF OnDisk, Image
  <2>5. cutoff \in Int /\ \A e \in Day : e >= cutoff => e # d
    BY <2>1, CalendarAssumption DEF TypeOK, Day
  <2> QED
    BY <2>1, <2>3, <2>4, <2>5 DEF ImageInv, DaysInMemory
<1>9. ASSUME NEW d \in Day, PruneBreaks(d) PROVE ImageInv'
  BY <1>9 DEF PruneBreaks, ImageInv, Ended
<1>10. CASE Restart
  <2>1. \A k \in DOMAIN files : files[k].life < life'
    BY <1>10 DEF Restart, MetadataInv, MetadataDeclaresLabels, TypeOK
  <2>2. \A d \in Day : WholeDay(d)'
    BY <1>10, <2>1 DEF Restart, WholeDay, TypeOK
  <2> QED
    BY <1>10, <2>2 DEF Restart, ImageInv
<1>11. CASE UNCHANGED vars
  BY <1>11 DEF vars, ImageInv, WholeDay, OnDisk, Image, DaysInMemory
<1> QED
  BY <1>1, <1>2, <1>3, <1>4, <1>5, <1>6, <1>7, <1>8, <1>9, <1>10, <1>11,
     NextCases

LEMMA InvHolds == Spec => [](TypeOK /\ LoopInv /\ MetadataInv /\ ImageInv)
BY InitLoop, NextLoop, InitMetadata, NextMetadata, InitImages, NextImages,
   PTL DEF Spec

\* No running collector publishes a mixed day: whatever failed or was interrupted,
\* as long as serve_udp loops, the four files of a day it wrote are one image.
THEOREM RunningDaysHold == Spec => []RunningDaysAreWhole
<1>1. ImageInv => RunningDaysAreWhole
  BY DEF ImageInv, WholeDay, RunningDaysAreWhole, Loop, Ended
<1> QED
  BY <1>1, InvHolds, PTL

\* A flush that returns, and so a shutdown, has written all that was counted in the
\* window; and the prune behind it takes none of it away.
THEOREM NothingLost == Spec => []FlushLosesNothing
<1>1. ImageInv => FlushLosesNothing
  BY DEF ImageInv, OnDisk, FlushLosesNothing, DaysInMemory
<1> QED
  BY <1>1, InvHolds, PTL

-----------------------------------------------------------------------------
(* The order of the files *)

\* The strengthening: nothing on disk is newer than memory.
OrderInv ==
    /\ DayFilesInOrder
    /\ \A k \in DOMAIN files : AsNew(Image, files[k])

LEMMA BeforeIsNext ==
    /\ \A pair \in Before : \E i \in 1 .. 3 :
           pair[1] = FileSeq[i] /\ pair[2] = FileSeq[i + 1]
    /\ \A i, j \in 1 .. 4 : FileSeq[i] = FileSeq[j] => i = j
<1>1. \A i, j \in 1 .. 4 : FileSeq[i] = FileSeq[j] => i = j
  BY DEF FileSeq
<1>2. ASSUME NEW pair \in Before
      PROVE  \E i \in 1 .. 3 : pair[1] = FileSeq[i] /\ pair[2] = FileSeq[i + 1]
  <2>1. CASE pair = <<"clients.jsonl", "apps.jsonl">>
    <3>1. pair[1] = FileSeq[1] /\ pair[2] = FileSeq[1 + 1]
      BY <2>1 DEF FileSeq
    <3> QED
      BY <3>1
  <2>2. CASE pair = <<"apps.jsonl", "hourly.json">>
    <3>1. pair[1] = FileSeq[2] /\ pair[2] = FileSeq[2 + 1]
      BY <2>2 DEF FileSeq
    <3> QED
      BY <3>1
  <2>3. CASE pair = <<"hourly.json", "ingest.json">>
    <3>1. pair[1] = FileSeq[3] /\ pair[2] = FileSeq[3 + 1]
      BY <2>3 DEF FileSeq
    <3> QED
      BY <3>1
  <2> QED
    BY <2>1, <2>2, <2>3 DEF Before
<1> QED
  BY <1>1, <1>2

LEMMA InitOrder == Init => OrderInv
BY DEF Init, OrderInv, DayFilesInOrder

\* Memory grows within a process; the next process is newer than all files.
LEMMA StaysNew ==
    ASSUME TypeOK, TypeOK',
           /\ \A d \in Day : counted'[d] >= counted[d]
           /\ life' = life,
           NEW k \in DOMAIN files, AsNew(Image, files[k])
    PROVE  AsNew(Image', files[k])
<1>1. /\ Image.life = life /\ Image'.life = life
      /\ Image.counted = counted /\ Image'.counted = counted'
  BY DEF Image
<1>2. \A d \in Day : {counted[d], counted'[d], files[k].counted[d]} \subseteq Nat
  BY DEF TypeOK
<1>3. \A d \in Day : counted[d] >= files[k].counted[d] =>
          counted'[d] >= files[k].counted[d]
  BY <1>2
<1> QED
  BY <1>1, <1>3 DEF AsNew

\* What is outside the window stays outside.
LEMMA WindowMoves ==
    ASSUME NEW a \in Int, NEW b \in Int, a <= b, NEW r \in Int
    PROVE  \A d \in Int : d < a - r => d < b - r
OBVIOUS

LEMMA WriteKeepsOrder ==
    ASSUME TypeOK, LoopInv, ImageInv, OrderInv, WriteFile
    PROVE  OrderInv'
<1> USE DEF memory, clock
<1>0. PICK m \in todo : m = Min(todo)
  BY MinIsMember DEF WriteFile, LoopInv, TypeOK
<1>1. m \in Day /\ pc = "write" /\ writing \in 1 .. 4
  BY <1>0 DEF WriteFile, TypeOK
<1>2. UNCHANGED <<life, counted, sampled, today>> /\ Image' = Image
  BY DEF WriteFile, Image
<1> DEFINE key == <<m, FileSeq[writing]>>
<1>3. /\ DOMAIN files' = DOMAIN files \cup {key}
      /\ files'[key] = Image
      /\ \A k \in DOMAIN files : k # key => files'[k] = files[k]
  BY <1>0, WriteEffect
<1>4. AsNew(Image, Image)
  <2>1. Image.life = life /\ Image.counted = counted
    BY DEF Image
  <2>2. \A d \in Day : counted[d] >= counted[d]
    BY DEF TypeOK
  <2> QED
    BY <2>1, <2>2 DEF AsNew
<1>5. \A k \in DOMAIN files' : AsNew(Image, files'[k])
  BY <1>3, <1>4 DEF OrderInv
<1>6. ASSUME NEW d \in Day, NEW pair \in Before, <<d, pair[2]>> \in DOMAIN files'
      PROVE  IF <<d, pair[1]>> \in DOMAIN files'
             THEN AsNew(files'[<<d, pair[1]>>], files'[<<d, pair[2]>>])
             ELSE d < today - RetainDays
  <2>1. PICK i \in 1 .. 3 : pair[1] = FileSeq[i] /\ pair[2] = FileSeq[i + 1]
    BY BeforeIsNext
  <2>2. CASE d = m /\ i + 1 = writing
    <3>1. /\ <<d, pair[1]>> \in DOMAIN files /\ files[<<d, pair[1]>>] = Image
      BY <1>0, <1>1, <2>1, <2>2 DEF ImageInv
    <3>2. <<d, pair[1]>> # key /\ <<d, pair[2]>> = key
      BY <1>1, <2>1, <2>2, BeforeIsNext
    <3> QED
      BY <1>3, <1>4, <3>1, <3>2
  <2>3. CASE d = m /\ i = writing
    <3>1. <<d, pair[1]>> = key
      BY <2>1, <2>3
    <3> QED
      BY <1>3, <1>5, <1>6, <3>1
  <2>4. CASE d # m \/ (i # writing /\ i + 1 # writing)
    <3>1. <<d, pair[1]>> # key /\ <<d, pair[2]>> # key
      BY <1>1, <2>1, <2>4, BeforeIsNext
    <3>2. IF <<d, pair[1]>> \in DOMAIN files
          THEN AsNew(files[<<d, pair[1]>>], files[<<d, pair[2]>>])
          ELSE d < today - RetainDays
      BY <1>3, <1>6, <3>1 DEF OrderInv, DayFilesInOrder
    <3> QED
      BY <1>3, <1>6, <3>1, <3>2
  <2> QED
    BY <2>2, <2>3, <2>4
<1> HIDE DEF key
<1> QED
  BY <1>2, <1>5, <1>6 DEF OrderInv, DayFilesInOrder

LEMMA NextOrder ==
    TypeOK /\ LoopInv /\ MetadataInv /\ ImageInv /\ OrderInv /\ [Next]_vars
        /\ TypeOK' => OrderInv'
<1> SUFFICES ASSUME TypeOK, LoopInv, MetadataInv, ImageInv, OrderInv, [Next]_vars,
                    TypeOK'
             PROVE  OrderInv'
  OBVIOUS
<1> USE DEF clock, memory, flush, disk
<1>1. ASSUME UNCHANGED <<life, files>>, today' >= today,
             \A d \in Day : counted'[d] >= counted[d]
      PROVE  OrderInv'
  <2>1. \A k \in DOMAIN files : AsNew(Image', files[k])
    BY <1>1, StaysNew DEF OrderInv
  <2>2. \A d \in Day : d < today - RetainDays => d < today' - RetainDays
    <3>1. today \in Day /\ today' \in Day
      BY DEF TypeOK
    <3>2. Day \subseteq Int
      BY CalendarAssumption DEF Day
    <3>3. today \in Int /\ today' \in Int /\ RetainDays \in Int /\ today <= today'
      BY <1>1, <3>1, <3>2, RetainAssumption
    <3> QED
      BY <3>2, <3>3, WindowMoves
  <2>3. DayFilesInOrder'
    BY <1>1, <2>2 DEF OrderInv, DayFilesInOrder
  <2> QED
    BY <1>1, <2>1, <2>3 DEF OrderInv
<1>2. today \in Int /\ \A d \in Day : counted[d] \in Nat
  BY CalendarAssumption DEF TypeOK, Day
<1>3. CASE Quiet
  <2>1. UNCHANGED <<life, counted, files>> /\ today' >= today
    BY <1>2, <1>3, QuietEffect, CalendarAssumption DEF Day
  <2> QED
    BY <1>1, <1>2, <2>1
<1>4. CASE WriteMetadata \/ BeginDay \/ FlushReturns \/ UNCHANGED vars
  <2>1. UNCHANGED <<life, counted, files, today>>
    BY <1>4 DEF WriteMetadata, BeginDay, FlushReturns, vars
  <2> QED
    BY <1>1, <1>2, <2>1
<1>5. ASSUME NEW teaches \in BOOLEAN, DrainSample(teaches) \/ ReplaySample(teaches)
      PROVE  OrderInv'
  <2>1. UNCHANGED <<life, counted, files, today>>
    BY <1>5 DEF DrainSample, ReplaySample, Sample
  <2> QED
    BY <1>1, <1>2, <2>1
<1>6. ASSUME NEW d \in Day, NEW n \in 1 .. MaxFlows, Receive(d, n)
      PROVE  OrderInv'
  <2>1. UNCHANGED <<life, files, today>>
    BY <1>6 DEF Receive
  <2>2. \A e \in Day : counted'[e] >= counted[e]
    BY <1>2, <1>6, BoundAssumption DEF Receive, TypeOK
  <2> QED
    BY <1>1, <1>2, <2>1, <2>2
<1>7. CASE WriteFile
  BY <1>7, WriteKeepsOrder
<1>8. ASSUME NEW d \in Day, PruneDay(d) \/ PruneBreaks(d) PROVE OrderInv'
  <2>1. UNCHANGED <<life, counted, sampled, today>> /\ Image' = Image
    BY <1>8 DEF PruneDay, PruneBreaks, Image
  <2>2. d < today - RetainDays
    BY <1>8, CalendarAssumption, RetainAssumption
    DEF PruneDay, PruneBreaks, Expired, LoopInv, TypeOK, Day
  <2>3. /\ \A k \in DOMAIN files' : k \in DOMAIN files /\ files'[k] = files[k]
        /\ \A k \in DOMAIN files : k[1] # d => k \in DOMAIN files'
    <3>1. CASE PruneDay(d)
      BY <3>1 DEF PruneDay
    <3>2. CASE PruneBreaks(d)
      <4>1. PICK gone \in SUBSET File :
                files' = [k \in DOMAIN files \ ({d} \X gone) |-> files[k]]
        BY <3>2 DEF PruneBreaks
      <4> QED
        BY <4>1
    <3> QED
      BY <1>8, <3>1, <3>2
  <2>4. \A k \in DOMAIN files' : AsNew(Image', files'[k])
    BY <2>1, <2>3 DEF OrderInv
  <2>5. ASSUME NEW e \in Day, NEW pair \in Before,
               <<e, pair[2]>> \in DOMAIN files'
        PROVE  IF <<e, pair[1]>> \in DOMAIN files'
               THEN AsNew(files'[<<e, pair[1]>>], files'[<<e, pair[2]>>])
               ELSE e < today - RetainDays
    <3>1. IF <<e, pair[1]>> \in DOMAIN files
          THEN AsNew(files[<<e, pair[1]>>], files[<<e, pair[2]>>])
          ELSE e < today - RetainDays
      BY <2>3, <2>5 DEF OrderInv, DayFilesInOrder
    <3>2. e # d /\ <<e, pair[1]>> \in DOMAIN files =>
              <<e, pair[1]>> \in DOMAIN files'
      BY <2>3
    <3> QED
      BY <2>2, <2>3, <2>5, <3>1, <3>2
  <2> QED
    BY <2>1, <2>4, <2>5 DEF OrderInv, DayFilesInOrder
<1>9. CASE Restart
  <2>1. \A k \in DOMAIN files : files[k].life < life'
    BY <1>9 DEF Restart, MetadataInv, MetadataDeclaresLabels, TypeOK
  <2>2. UNCHANGED <<files, today>> /\ Image'.life = life'
    BY <1>9 DEF Restart, Image
  <2>3. \A k \in DOMAIN files : AsNew(Image', files[k])
    <3>1. \A k \in DOMAIN files : {life', files[k].life} \subseteq Nat
      BY BoundAssumption DEF TypeOK
    <3> QED
      BY <2>1, <2>2, <3>1 DEF AsNew
  <2> QED
    BY <2>2, <2>3 DEF OrderInv, DayFilesInOrder
<1> QED
  BY <1>3, <1>4, <1>5, <1>6, <1>7, <1>8, <1>9, NextCases

LEMMA OrderHolds == Spec => [](TypeOK /\ OrderInv)
<1>1. TypeOK /\ LoopInv /\ [Next]_vars => TypeOK'
  BY NextLoop
<1> QED
  BY <1>1, InvHolds, InitOrder, NextOrder, PTL DEF Spec

\* The four files of a day are replaced in one order, so at every moment, in the
\* middle of a flush and after any kill, an earlier one is at least as new as the
\* next; and none is missing before another unless the day has expired.
THEOREM FilesInOrder == Spec => []DayFilesInOrder
<1>1. OrderInv => DayFilesInOrder
  BY DEF OrderInv
<1> QED
  BY <1>1, OrderHolds, PTL

\* What a step does to a file that is there before and after: nothing, or the image
\* of the moment takes its place.
LEMMA FileStep ==
    ASSUME TypeOK, [Next]_vars, NEW k \in DOMAIN files, k \in DOMAIN files'
    PROVE  files'[k] = files[k] \/ files'[k] = Image
<1> USE DEF clock, memory, flush, disk
<1>1. CASE Quiet
  BY <1>1, QuietEffect
<1>2. CASE WriteMetadata \/ BeginDay \/ FlushReturns \/ Restart \/ UNCHANGED vars
  BY <1>2 DEF WriteMetadata, BeginDay, FlushReturns, Restart, vars
<1>3. ASSUME NEW teaches \in BOOLEAN, DrainSample(teaches) \/ ReplaySample(teaches)
      PROVE  files'[k] = files[k]
  BY <1>3 DEF DrainSample, ReplaySample
<1>4. ASSUME NEW d \in Day, NEW n \in 1 .. MaxFlows, Receive(d, n)
      PROVE  files'[k] = files[k]
  BY <1>4 DEF Receive
<1>5. CASE WriteFile
  BY <1>5, WriteEffect
<1>6. ASSUME NEW d \in Day, PruneDay(d) PROVE files'[k] = files[k]
  BY <1>6 DEF PruneDay
<1>7. ASSUME NEW d \in Day, PruneBreaks(d) PROVE files'[k] = files[k]
  <2>1. PICK gone \in SUBSET File :
            files' = [j \in DOMAIN files \ ({d} \X gone) |-> files[j]]
    BY <1>7 DEF PruneBreaks
  <2> QED
    BY <2>1
<1> QED
  BY <1>1, <1>2, <1>3, <1>4, <1>5, <1>6, <1>7, NextCases

\* As long as the process is not replaced, a flow that was published stays counted
\* in the file of its day, whatever flushes, errors and prunes come between.  For
\* two processes it does not: restart_same_day's counterexample.
THEOREM OneProcessTakesNothingBack ==
    MaxLives = 1 => (Spec => PublishedCountsNeverShrink)
<1> SUFFICES ASSUME MaxLives = 1 PROVE Spec => PublishedCountsNeverShrink
  OBVIOUS
<1> DEFINE Kept ==
        \A d \in Day :
            LET k == <<d, "clients.jsonl">>
            IN  k \in DOMAIN files /\ k \in DOMAIN files' =>
                    files'[k].counted[d] >= files[k].counted[d]
<1>1. TypeOK /\ OrderInv /\ [Next]_vars => Kept
  <2> SUFFICES ASSUME TypeOK, OrderInv, [Next]_vars, NEW d \in Day,
                      NEW k, k = <<d, "clients.jsonl">>,
                      k \in DOMAIN files, k \in DOMAIN files'
               PROVE  files'[k].counted[d] >= files[k].counted[d]
    OBVIOUS
  <2>1. files[k].life = 1 /\ life = 1 /\ files[k].counted[d] \in Nat
    BY DEF TypeOK
  <2>2. Image.life = life /\ AsNew(Image, files[k])
    BY DEF OrderInv, Image
  <2>3. Image.counted[d] >= files[k].counted[d]
    BY <2>1, <2>2 DEF AsNew
  <2>4. CASE files'[k] = files[k]
    BY <2>1, <2>4
  <2>5. CASE files'[k] = Image
    BY <2>3, <2>5
  <2> QED
    BY <2>4, <2>5, FileStep
<1>2. TypeOK /\ OrderInv /\ [Next]_vars => [Kept]_vars
  BY <1>1
<1>3. Spec => [][Kept]_vars
  BY <1>2, OrderHolds, PTL DEF Spec
<1> QED
  BY <1>3 DEF PublishedCountsNeverShrink

-----------------------------------------------------------------------------
(* Daemon implements Dataset *)

\* What Dataset sees of the files.
Seen ==
    [k \in DOMAIN files |->
        [life |-> files[k].life, counted |-> files[k].counted]]

LEMMA InitRefines == Init => Published!Init
BY DEF Init, Published!Init

\* The steps that Dataset does not see.
LEMMA SeenKeeps == UNCHANGED files => UNCHANGED Seen
BY DEF Seen

LEMMA StepRefines ==
    TypeOK /\ LoopInv /\ [Next]_vars =>
        [Published!Next]_<<today, life, counted, Seen>>
<1> SUFFICES ASSUME TypeOK, LoopInv, [Next]_vars
             PROVE  Published!Next \/ UNCHANGED <<today, life, counted, Seen>>
  OBVIOUS
<1> USE DEF clock, memory, flush, disk
<1>1. CASE CheckShutdown \/ ReceiveNoFlow \/ ReceiveTimeout \/ DrainEmpty
  BY <1>1, SeenKeeps
  DEF CheckShutdown, ReceiveNoFlow, ReceiveTimeout, DrainEmpty
<1>2. CASE TimerFires \/ TimerRuns \/ PruneReturns
  BY <1>2, SeenKeeps DEF TimerFires, TimerRuns, PruneReturns
<1>3. CASE IoError \/ Kill \/ RequestShutdown \/ Serve \/ StartReplay
  BY <1>3, SeenKeeps DEF IoError, Kill, RequestShutdown, Serve, StartReplay
<1>4. CASE WriteMetadata \/ BeginDay \/ FlushReturns
  BY <1>4, SeenKeeps DEF WriteMetadata, BeginDay, FlushReturns
<1>5. ASSUME NEW teaches \in BOOLEAN, DrainSample(teaches) \/ ReplaySample(teaches)
      PROVE  UNCHANGED <<today, life, counted, Seen>>
  BY <1>5, SeenKeeps DEF DrainSample, ReplaySample, Sample
<1>6. CASE Midnight
  BY <1>6, SeenKeeps DEF Midnight, Published!Next, Published!Advance, Seen
<1>7. ASSUME NEW d \in Day, NEW n \in 1 .. MaxFlows, Receive(d, n)
      PROVE  Published!Next
  <2>1. /\ n \in Nat \ {0} /\ counted[d] \in Nat
        /\ counted' = [counted EXCEPT ![d] = @ + n]
        /\ UNCHANGED <<today, life, files>>
    BY <1>7, BoundAssumption DEF Receive, TypeOK
  <2>2. counted'[d] = counted[d] + n
    BY <2>1 DEF TypeOK
  <2>3. counted'[d] > counted[d]
    BY <2>1, <2>2
  <2>4. counted' = [counted EXCEPT ![d] = counted'[d]]
    BY <2>1, <2>2 DEF TypeOK
  <2>5. UNCHANGED Seen
    BY <2>1, SeenKeeps
  <2>6. Published!Count(d)
    BY <2>1, <2>3, <2>4, <2>5 DEF Published!Count, Seen
  <2> QED
    BY <2>6 DEF Published!Next
<1>8. CASE Restart
  BY <1>8, SeenKeeps DEF Restart, Published!Next, Published!Restart, Seen
<1>9. CASE WriteFile
  <2>0. PICK d \in todo : d = Min(todo)
    BY <1>9, MinIsMember DEF WriteFile, LoopInv, TypeOK
  <2>1. PICK f \in File : f = FileSeq[writing]
    BY <1>9, FileOrder DEF WriteFile, TypeOK
  <2>2. d \in Day /\ counted[d] > 0 /\ UNCHANGED <<today, life, counted>>
    BY <1>9, <2>0 DEF WriteFile, LoopInv, TypeOK, DaysInMemory
  <2>3. /\ DOMAIN files' = DOMAIN files \cup {<<d, f>>}
        /\ files'[<<d, f>>] = Image
        /\ \A k \in DOMAIN files : k # <<d, f>> => files'[k] = files[k]
    BY <1>9, <2>0, <2>1, WriteEffect
  <2>4. Image.life = life /\ Image.counted = counted
    BY DEF Image
  <2>5. Seen' = [k \in DOMAIN Seen \cup {<<d, f>>} |->
                    IF k = <<d, f>> THEN [life |-> life, counted |-> counted]
                    ELSE Seen[k]]
    BY <2>3, <2>4 DEF Seen
  <2>6. Published!Show(d, f)
    BY <2>2, <2>5 DEF Published!Show, Seen
  <2> QED
    BY <2>2, <2>6 DEF Published!Next
<1>10. ASSUME NEW d \in Day, NEW gone \in SUBSET File, d < cutoff, pc = "prune",
              files' = [k \in DOMAIN files \ ({d} \X gone) |-> files[k]],
              UNCHANGED <<today, life, counted>>
       PROVE  Published!Next
  <2>1. d < today - RetainDays
    BY <1>10, CalendarAssumption, RetainAssumption DEF LoopInv, TypeOK, Day
  <2>2. Seen' = [k \in DOMAIN Seen \ ({d} \X gone) |-> Seen[k]]
    BY <1>10 DEF Seen
  <2>3. Published!Forget(d)
    BY <1>10, <2>1, <2>2 DEF Published!Forget, Seen
  <2> QED
    BY <2>3 DEF Published!Next
<1>11. ASSUME NEW d \in Day, PruneDay(d) PROVE Published!Next
  <2>1. {k \in DOMAIN files : k[1] # d} = DOMAIN files \ ({d} \X File)
    BY DEF TypeOK
  <2>2. /\ files' = [k \in DOMAIN files \ ({d} \X File) |-> files[k]]
        /\ d < cutoff /\ pc = "prune" /\ UNCHANGED <<today, life, counted>>
    BY <1>11, <2>1 DEF PruneDay, Expired
  <2> QED
    BY <1>10, <2>2
<1>12. ASSUME NEW d \in Day, PruneBreaks(d) PROVE Published!Next
  BY <1>10, <1>12 DEF PruneBreaks, Expired
<1>13. CASE UNCHANGED vars
  BY <1>13, SeenKeeps DEF vars
<1> QED
  BY <1>1, <1>2, <1>3, <1>4, <1>5, <1>6, <1>7, <1>8, <1>9, <1>11, <1>12, <1>13
  DEF Next, Step, Drain, Ending, Environment

\* Wherever the process is killed and however often it starts again, a reader of
\* the directory sees whole images, newer ones replacing older ones, and only days
\* older than the window disappear.
THEOREM Refines == Spec => ImplementsDataset
<1>1. TypeOK /\ LoopInv /\ [Next]_vars =>
          [Published!Next]_<<today, life, counted, Seen>>
  BY StepRefines
<1> QED
  BY <1>1, LoopHolds, InitRefines, PTL
  DEF Spec, ImplementsDataset, Published!Spec, Seen

-----------------------------------------------------------------------------
(* Daemon implements Tables *)

LEMMA InitRows == Init => Rows!Init
BY DEF Init, Rows!Init, DaysInMemory

LEMMA NextRows ==
    TypeOK /\ [Next]_vars =>
        [Rows!Next]_<<life, DaysInMemory, sampled, taught>>
<1> SUFFICES ASSUME TypeOK, [Next]_vars
             PROVE  Rows!Next \/ UNCHANGED <<life, DaysInMemory, sampled, taught>>
  OBVIOUS
<1> USE DEF clock, memory, flush, disk
<1>1. ASSUME UNCHANGED <<life, counted, sampled, taught>>
      PROVE  UNCHANGED <<life, DaysInMemory, sampled, taught>>
  BY <1>1 DEF DaysInMemory
<1>2. CASE Serve \/ StartReplay \/ CheckShutdown \/ ReceiveNoFlow \/ ReceiveTimeout
  BY <1>1, <1>2
  DEF Serve, StartReplay, CheckShutdown, ReceiveNoFlow, ReceiveTimeout
<1>3. CASE DrainEmpty \/ TimerFires \/ TimerRuns \/ WriteMetadata \/ BeginDay
  BY <1>1, <1>3 DEF DrainEmpty, TimerFires, TimerRuns, WriteMetadata, BeginDay
<1>4. CASE WriteFile \/ FlushReturns \/ PruneReturns \/ IoError \/ Kill
  BY <1>1, <1>4 DEF WriteFile, FlushReturns, PruneReturns, IoError, Kill
<1>5. CASE RequestShutdown \/ Midnight \/ UNCHANGED vars
  BY <1>1, <1>5 DEF RequestShutdown, Midnight, vars
<1>6. ASSUME NEW d \in Day, PruneDay(d) \/ PruneBreaks(d)
      PROVE  UNCHANGED <<life, DaysInMemory, sampled, taught>>
  BY <1>1, <1>6 DEF PruneDay, PruneBreaks
<1>7. ASSUME NEW teaches \in BOOLEAN, DrainSample(teaches) \/ ReplaySample(teaches)
      PROVE  Rows!Next \/ UNCHANGED <<life, DaysInMemory, sampled, taught>>
  <2>1. /\ UNCHANGED <<life, counted, sampled>>
        /\ taught' = (taught \/ teaches)
    BY <1>7 DEF DrainSample, ReplaySample, Sample
  <2>2. UNCHANGED DaysInMemory
    BY <2>1 DEF DaysInMemory
  <2>3. taught' = TRUE \/ taught' = taught
    BY <2>1 DEF TypeOK
  <2> QED
    BY <2>1, <2>2, <2>3 DEF Rows!Next, Rows!Learn
<1>8. ASSUME NEW d \in Day, NEW n \in 1 .. MaxFlows, Receive(d, n)
      PROVE  Rows!Next
  <2>1. /\ counted' = [counted EXCEPT ![d] = @ + n]
        /\ sampled' \in LabelledDays(d)
        /\ UNCHANGED <<life, taught>>
    BY <1>8 DEF Receive
  <2>2. DaysInMemory' = DaysInMemory \cup {d}
    BY <2>1, BoundAssumption DEF DaysInMemory, TypeOK
  <2>3. \/ sampled' = sampled
        \/ taught /\ sampled' = sampled \cup {d}
        \/ sampled' = sampled \ {d}
    BY <2>1 DEF LabelledDays
  <2>4. Rows!Count(d)
    BY <2>1, <2>2, <2>3 DEF Rows!Count
  <2> QED
    BY <2>2, <2>4 DEF Rows!Next
<1>9. CASE Restart
  <2>1. DaysInMemory' = {}
    BY <1>9 DEF Restart, DaysInMemory
  <2> QED
    BY <1>9, <2>1 DEF Restart, Rows!Next, Rows!Restart
<1> QED
  BY <1>2, <1>3, <1>4, <1>5, <1>6, <1>7, <1>8, <1>9
  DEF Next, Step, Drain, Ending, Environment

\* No flush, no failure and no end of a loop iteration empties the tables: only
\* another process starts from nothing.
THEOREM RowsAreKept == Spec => KeepsItsRows
<1>1. TypeOK /\ [Next]_vars => [Rows!Next]_<<life, DaysInMemory, sampled, taught>>
  BY NextRows
<1> QED
  BY <1>1, TypeCorrect, InitRows, PTL DEF Spec, KeepsItsRows, Rows!Spec
=============================================================================
