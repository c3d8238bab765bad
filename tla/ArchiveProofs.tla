---------------------------- MODULE ArchiveProofs ----------------------------
(***************************************************************************)
(* Proofs about Archive for every matrix, set of machines, dates and       *)
(* renders, and any number of runs, renders and backfills: the inductive   *)
(* invariant IInv, and from it the properties of what is published.        *)
(***************************************************************************)
EXTENDS Archive, TLAPS, FiniteSetTheorems

LEMMA Constants ==
  /\ Cells \subseteq Nat /\ IsFiniteSet(Cells) /\ MaxRuns \in Nat /\ MaxStarts \in Nat
  /\ TargetOf \in [Cells -> Targets]
  /\ Before \subseteq Dates
  /\ Nothing \notin Hosts /\ Nothing # Torn
  /\ Nothing \notin Archives /\ Torn \notin Archives
BY CellsAssumption, MaxRunsAssumption, StartsAssumption, TargetOfAssumption,
   BeforeAssumption, ValuesAssumption

\* A set of cells is counted by a number no larger than that of all cells.
LEMMA CountCells ==
  ASSUME NEW S \in SUBSET Cells
  PROVE  IsFiniteSet(S) /\ Cardinality(S) \in 0..Cardinality(Cells)
<1>1. IsFiniteSet(Cells) /\ S \subseteq Cells
  BY Constants
<1>2. IsFiniteSet(S) /\ Cardinality(S) <= Cardinality(Cells)
  BY <1>1, FS_Subset
<1>3. Cardinality(S) \in Nat /\ Cardinality(Cells) \in Nat
  BY <1>1, <1>2, FS_CardinalityType
<1>4. QED
  BY <1>2, <1>3

\* The steps by the part of the system that takes them.
Running == (\E h \in Hosts : BeginOn(h) \/ RefuseOn(h) \/ StumbleOn(h)) \/ EndOfRun

Filling ==
  \/ \E d \in Dates, cpu \in Cpus \cup {Nothing}, force \in BOOLEAN : Fill(d, cpu, force)
  \/ Replace \/ DropFill

LEMMA NextCases ==
  ASSUME [ArchiveNext]_allVars
  PROVE  \/ UNCHANGED allVars
         \/ Running
         \/ \E c \in Cells : PublishCell(c)
         \/ \E v \in Renders : Render(v)
         \/ Filling
BY DEF ArchiveNext, Run, Backfill, Running, Filling

-----------------------------------------------------------------------------
(* The directory                                                           *)

\* Every step is one of the directory's specification, or leaves it alone.
LEMMA IsCampaignStep == [ArchiveNext]_allVars => [Next]_vars
<1>1. ASSUME Running PROVE [Next]_vars
  BY <1>1 DEF Running, BeginOn, RefuseOn, StumbleOn, EndOfRun, Next, Step
<1>2. ASSUME NEW c \in Cells, PublishCell(c) PROVE [Next]_vars
  BY <1>2 DEF PublishCell, Next, Step
<1>3. ASSUME NEW v \in Renders, Render(v) PROVE [Next]_vars
  BY <1>3 DEF Render, LoadCells, LoadRest, WriteArchive, ReadIndex, TruncateIndex,
              WriteIndex, KillRender
<1>4. ASSUME Filling PROVE [Next]_vars
  BY <1>4 DEF Filling, Fill, Replace, DropFill
<1>5. QED
  BY <1>1, <1>2, <1>3, <1>4, NextCases DEF allVars

\* The runs that may have written a file, when r is the last.
LEMMA Writers ==
  /\ \A r \in Nat : HalfWritten \in HalfWritten..r /\ r \in HalfWritten..r
                    /\ HalfWritten..r \subseteq HalfWritten..(r + 1)
  /\ \A r \in Nat : \A w \in HalfWritten..r :
       w \in Int /\ w <= r /\ (w # 0 /\ w # HalfWritten => w \in 1..r)
  /\ ~(HalfWritten > 0) /\ HalfWritten # 0
BY DEF HalfWritten

LEMMA DirectoryInit == Init => DirectoryInv
<1>1. Cardinality(Cells) \in Nat
  BY Constants, FS_CardinalityType
<1>2. 0 \in HalfWritten..0 /\ 0 \in 0..MaxRuns /\ 0 \in 0..Cardinality(Cells)
  BY <1>1, Constants, Writers
<1>3. ASSUME Init PROVE runFile \in [run: HalfWritten..run, written: 0..Cardinality(Cells)]
  BY <1>2, <1>3 DEF Init
<1>4. ASSUME Init PROVE ~(hostFile > 0)
  BY <1>4 DEF Init
<1>5. ASSUME Init PROVE records \in [Cells -> HalfWritten..run] /\ \A c \in Cells : records[c] = 0
  BY <1>2, <1>5 DEF Init
<1>6. QED
  BY <1>2, <1>3, <1>4, <1>5 DEF Init, DirectoryInv

LEMMA DirectoryNext ==
  ASSUME DirectoryInv, [Next]_vars
  PROVE  DirectoryInv'
<1> USE Constants, Writers DEF DirectoryInv
<1>1. CASE UNCHANGED vars
  BY <1>1 DEF vars
<1>2. CASE Begin
  BY <1>2 DEF Begin
<1>3. CASE Refuse
  BY <1>3 DEF Refuse
<1>4. ASSUME NEW c \in Cells, Publish(c) PROVE DirectoryInv'
  BY <1>4 DEF Publish
<1>5. CASE Conclude
  <2>1. Cardinality({c \in Cells : records[c] = run}) \in 0..Cardinality(Cells)
    BY CountCells
  <2>2. QED
    BY <1>5, <2>1 DEF Conclude
<1>6. CASE Abort
  <2>1. 0 \in 0..Cardinality(Cells)
    BY FS_CardinalityType
  <2>2. busy /\ busy' = FALSE /\ run' = run /\ hostFile' = hostFile /\ hostFile = run
    BY <1>6 DEF Abort
  <2>3. CASE UNCHANGED <<records, runFile>>
    BY <2>2, <2>3
  <2>4. ASSUME NEW c \in Cells, records' = [records EXCEPT ![c] = HalfWritten], UNCHANGED runFile
        PROVE  DirectoryInv'
    <3>1. runFile.run < run /\ run \in Nat /\ runFile.run # run
      BY <2>2, Writers
    <3>2. records' \in [Cells -> HalfWritten..run]
      BY <2>4, <3>1, Writers
    <3>3. hostFile # 0
      BY <2>2, <3>1, Writers
    <3> HIDE DEF HalfWritten
    <3>4. QED
      BY <2>2, <2>4, <3>1, <3>2, <3>3
  <2>5. CASE runFile' = [run |-> HalfWritten, written |-> 0] /\ UNCHANGED records
    <3>1. run \in Nat /\ run > 0 /\ HalfWritten < run /\ HalfWritten # run
      BY <2>2, Writers DEF HalfWritten
    <3>2. runFile' \in [run: HalfWritten..run, written: 0..Cardinality(Cells)]
      BY <2>1, <2>5, <3>1, Writers
    <3>3. QED
      BY <2>2, <2>5, <3>1, <3>2
  <2>6. QED
    BY <1>6, <2>3, <2>4, <2>5 DEF Abort, Interrupted
<1>7. CASE NoHostFile
  <2>1. /\ ~busy' /\ busy' \in BOOLEAN /\ run' = run + 1 /\ run \in 0..MaxRuns /\ run' \in 0..MaxRuns
        /\ hostFile' \in {hostFile, HalfWritten} /\ UNCHANGED <<records, runFile>>
    BY <1>7 DEF NoHostFile
  <2>2. HalfWritten..run \subseteq HalfWritten..run' /\ HalfWritten \in HalfWritten..run'
    BY <2>1, Writers
  <2>3. hostFile' # 0 \/ hostFile' = hostFile
    BY <2>1, Writers
  <2>4. hostFile' > 0 => hostFile' = hostFile
    BY <2>1, Writers
  <2>5. QED
    BY <2>1, <2>2, <2>3, <2>4
<1>8. QED
  BY <1>1, <1>2, <1>3, <1>4, <1>5, <1>6, <1>7 DEF Next, Step

-----------------------------------------------------------------------------
(* The gate and the describe cache                                         *)

\* Only runs change where runs began and what the directory names.
LEMMA OnlyRunsBegin ==
  ASSUME [ArchiveNext]_allVars
  PROVE  \/ UNCHANGED <<vars, gate>>
         \/ \E h \in Hosts : BeginOn(h)
         \/ \E h \in Hosts : RefuseOn(h) \/ StumbleOn(h)
         \/ EndOfRun
         \/ \E c \in Cells : PublishCell(c)
<1>1. ASSUME NEW v \in Renders, Render(v) PROVE UNCHANGED <<vars, gate>>
  BY <1>1 DEF Render, LoadCells, LoadRest, WriteArchive, ReadIndex, TruncateIndex,
              WriteIndex, KillRender
<1>2. ASSUME Filling PROVE UNCHANGED <<vars, gate>>
  BY <1>2 DEF Filling, Fill, Replace, DropFill
<1>3. QED
  BY <1>1, <1>2, NextCases DEF allVars, Running

LEMMA GateInit == ArchiveInit => GateInv
<1>1. ASSUME ArchiveInit PROVE \A r \in Runs : host[r] = Nothing
  BY <1>1 DEF ArchiveInit
<1>2. QED
  BY <1>1 DEF ArchiveInit, Init, GateInv, Begun

\* A run's host is settled when it begins.
LEMMA HostsStay ==
  ASSUME TypeOK, DirectoryInv, GateInv, [ArchiveNext]_allVars
  PROVE  \A r \in Runs : host[r] # Nothing => host'[r] = host[r]
<1> USE Constants DEF Runs
<1>1. ASSUME NEW h \in Hosts, BeginOn(h) PROVE host' = [host EXCEPT ![run + 1] = h] /\ run \in Nat
  BY <1>1 DEF BeginOn, Begin, DirectoryInv
<1>2. ASSUME NEW h \in Hosts, BeginOn(h)
      PROVE  \A r \in Runs : host[r] # Nothing => host'[r] = host[r]
  <2>1. \A r \in Runs : host[r] # Nothing => r # run + 1
    BY <1>1, <1>2 DEF GateInv
  <2>2. host \in [Runs -> Hosts \cup {Nothing}]
    BY DEF TypeOK
  <2>3. QED
    BY <1>1, <1>2, <2>1, <2>2
<1>3. ASSUME host' = host PROVE \A r \in Runs : host[r] # Nothing => host'[r] = host[r]
  BY <1>3
<1>4. (\E h \in Hosts : BeginOn(h)) \/ host' = host
  BY OnlyRunsBegin DEF gate, RefuseOn, StumbleOn, EndOfRun, PublishCell
<1>5. QED
  BY <1>2, <1>3, <1>4

LEMMA GateNext ==
  ASSUME TypeOK, DirectoryInv, GateInv, [ArchiveNext]_allVars
  PROVE  GateInv'
<1> USE Constants DEF Runs, GateInv, Begun
<1>1. CASE UNCHANGED <<vars, gate>>
  BY <1>1 DEF vars, gate
<1>2. ASSUME NEW h \in Hosts, BeginOn(h) PROVE GateInv'
  <2>1. /\ run \in Nat /\ run' = run + 1 /\ run + 1 \in Runs /\ hostFile' = run + 1
        /\ records' = records /\ host' = [host EXCEPT ![run + 1] = h] /\ Enforce(h)
    BY <1>2 DEF BeginOn, Begin, DirectoryInv
  <2>2. host'[run + 1] = h /\ h # Nothing
    BY <2>1 DEF TypeOK
  <2>3. \A r \in Runs : r # run + 1 => host'[r] = host[r]
    BY <2>1 DEF TypeOK
  <2>4. \A r \in Runs : host'[r] # Nothing => r <= run' /\ Enforce(host'[r])
    BY <2>1, <2>2, <2>3
  <2>5. \A c \in Cells : records[c] > 0 => records[c] \in Runs /\ records[c] # run + 1
    BY <2>1, Writers DEF DirectoryInv
  <2>6. QED
    BY <2>1, <2>2, <2>3, <2>4, <2>5
<1>3. ASSUME NEW h \in Hosts, RefuseOn(h) \/ StumbleOn(h) PROVE GateInv'
  <2>1. /\ run \in Nat /\ run' = run + 1 /\ records' = records /\ host' = host
        /\ hostFile' \in {hostFile, HalfWritten}
    BY <1>3 DEF RefuseOn, Refuse, StumbleOn, NoHostFile, gate, DirectoryInv
  <2>2. QED
    BY <2>1, Writers
<1>4. CASE EndOfRun
  <2>1. /\ run' = run /\ host' = host /\ hostFile' = hostFile
        /\ \A c \in Cells : records'[c] \in {records[c], HalfWritten}
    BY <1>4 DEF EndOfRun, Conclude, Abort, Interrupted, DirectoryInv
  <2>2. QED
    BY <2>1, Writers
<1>5. ASSUME NEW c \in Cells, PublishCell(c) PROVE GateInv'
  <2>1. /\ host' = host /\ run' = run /\ hostFile' = hostFile /\ run = hostFile
        /\ records' = [records EXCEPT ![c] = run] /\ records \in [Cells -> HalfWritten..run]
    BY <1>5 DEF PublishCell, Publish, DirectoryInv
  <2>2. \A d \in Cells : records'[d] = run \/ records'[d] = records[d]
    BY <2>1
  <2>3. QED
    BY <2>1, <2>2
<1>6. QED
  BY <1>1, <1>2, <1>3, <1>4, <1>5, OnlyRunsBegin

\* The key of a target is its own: two targets differ by their filesystem, their
\* binary or their variant.
LEMMA KeyIsOwn ==
  ASSUME NEW t \in Targets, NEW u \in Targets, Key(t) = Key(u)
  PROVE  t = u
BY TargetsAssumption DEF Key

LEMMA CacheInit == ArchiveInit => CacheInv
BY DEF ArchiveInit, Init, CacheInv, OwnBuilds, NoCache

\* What publishing a cell does to the cache and to the record's build: answer is
\* what the cache holds afterwards.
LEMMA Answered ==
  ASSUME TypeOK, CacheInv, NEW c \in Cells, PublishCell(c)
  PROVE  \E answer \in Builds :
           LET k == Key(TargetOf[c])
           IN /\ answer.engine = TargetOf[c]
              /\ k \in DOMAIN cache => cache[k] = answer
              /\ cache' = [x \in DOMAIN cache \cup {k} |-> IF x = k THEN answer ELSE cache[x]]
              /\ build' = [build EXCEPT ![c] = answer]
<1> DEFINE k == Key(TargetOf[c])
<1>1. TargetOf[c] \in Targets
  BY Constants
<1>2. k \in DOMAIN cache => cache[k] \in Builds /\ cache[k].engine = TargetOf[c]
  BY <1>1 DEF TypeOK, CacheInv
<1>3. PICK known \in BOOLEAN :
        LET answer == IF k \in DOMAIN cache THEN cache[k]
                      ELSE [engine |-> TargetOf[c], known |-> known]
        IN /\ cache' = [x \in DOMAIN cache \cup {k} |-> IF x = k THEN answer ELSE cache[x]]
           /\ build' = [build EXCEPT ![c] = answer]
  BY DEF PublishCell
<1>4. [engine |-> TargetOf[c], known |-> known] \in Builds
  BY <1>1 DEF Builds
<1> HIDE DEF k
<1>5. CASE k \in DOMAIN cache
  <2>1. cache' = [x \in DOMAIN cache \cup {k} |-> IF x = k THEN cache[k] ELSE cache[x]]
        /\ build' = [build EXCEPT ![c] = cache[k]]
    BY <1>3, <1>5
  <2>2. QED
    BY <1>2, <1>5, <2>1 DEF k
<1>6. CASE k \notin DOMAIN cache
  <2> DEFINE fresh == [engine |-> TargetOf[c], known |-> known]
  <2>1. cache' = [x \in DOMAIN cache \cup {k} |-> IF x = k THEN fresh ELSE cache[x]]
        /\ build' = [build EXCEPT ![c] = fresh]
    BY <1>3, <1>6
  <2>2. fresh.engine = TargetOf[c] /\ fresh \in Builds
    BY <1>4
  <2> HIDE DEF fresh
  <2>3. QED
    BY <1>6, <2>1, <2>2 DEF k
<1>7. QED
  BY <1>5, <1>6

LEMMA CacheNext ==
  ASSUME TypeOK, DirectoryInv, CacheInv, [ArchiveNext]_allVars
  PROVE  CacheInv'
<1> USE Constants DEF OwnBuilds
<1>1. CASE UNCHANGED <<vars, gate>>
  BY <1>1 DEF vars, gate, CacheInv
<1>2. ASSUME NEW h \in Hosts, BeginOn(h) PROVE CacheInv'
  <2>1. /\ run \in Nat /\ run' = run + 1 /\ records' = records /\ build' = build /\ cache' = cache
        /\ \A c \in Cells : records[c] # run + 1
    BY <1>2, Writers DEF BeginOn, Begin, DirectoryInv
  <2>2. QED
    BY <2>1 DEF CacheInv
<1>3. ASSUME NEW h \in Hosts, RefuseOn(h) \/ StumbleOn(h) PROVE CacheInv'
  <2>1. records' = records /\ build' = build /\ cache' = cache /\ ~busy'
    BY <1>3 DEF RefuseOn, Refuse, StumbleOn, NoHostFile, gate
  <2>2. QED
    BY <2>1 DEF CacheInv
<1>4. CASE EndOfRun
  <2>1. cache' = NoCache /\ build' = build /\ ~busy'
    BY <1>4 DEF EndOfRun, Conclude, Abort
  <2>2. \A c \in Cells : records'[c] \in {records[c], HalfWritten}
    BY <1>4 DEF EndOfRun, Conclude, Abort, Interrupted, DirectoryInv
  <2>3. \A c \in Cells : records'[c] > 0 => records'[c] = records[c]
    BY <2>2, Writers
  <2>4. \A t \in Targets : Key(t) \notin DOMAIN cache'
    BY <2>1 DEF NoCache
  <2>5. QED
    BY <2>1, <2>3, <2>4 DEF CacheInv
<1>5. ASSUME NEW c \in Cells, PublishCell(c) PROVE CacheInv'
  <2> DEFINE k == Key(TargetOf[c])
  <2>1. PICK answer \in Builds :
          /\ answer.engine = TargetOf[c]
          /\ k \in DOMAIN cache => cache[k] = answer
          /\ cache' = [x \in DOMAIN cache \cup {k} |-> IF x = k THEN answer ELSE cache[x]]
          /\ build' = [build EXCEPT ![c] = answer]
    BY <1>5, Answered
  <2>2. /\ busy /\ busy' = busy /\ run' = run /\ records' = [records EXCEPT ![c] = run]
        /\ records \in [Cells -> HalfWritten..run] /\ build \in [Cells -> Builds \cup {Nothing}]
    BY <1>5 DEF PublishCell, Publish, DirectoryInv, TypeOK
  <2>3. TargetOf[c] \in Targets
    OBVIOUS
  <2>4. k \in DOMAIN cache' /\ cache'[k] = answer /\ build'[c] = answer /\ records'[c] = run
    BY <2>1, <2>2
  <2>5. \A d \in Cells : d # c => records'[d] = records[d] /\ build'[d] = build[d]
    BY <2>1, <2>2
  <2>6. \A x \in DOMAIN cache : x \in DOMAIN cache' /\ cache'[x] = cache[x]
    BY <2>1
  <2>7. ASSUME NEW t \in Targets, Key(t) \in DOMAIN cache' PROVE cache'[Key(t)].engine = t
    <3>1. CASE Key(t) = k
      <4>1. t = TargetOf[c]
        BY <2>3, <3>1, KeyIsOwn
      <4>2. QED
        BY <2>1, <2>4, <3>1, <4>1
    <3>2. CASE Key(t) # k
      <4>1. Key(t) \in DOMAIN cache
        BY <2>1, <2>7, <3>2
      <4>2. QED
        BY <2>6, <4>1 DEF CacheInv
    <3>3. QED
      BY <3>1, <3>2
  <2> HIDE DEF k
  <2>8. ASSUME NEW d \in Cells, records'[d] = run
        PROVE  Key(TargetOf[d]) \in DOMAIN cache' /\ build'[d] = cache'[Key(TargetOf[d])]
    <3>1. CASE d = c
      BY <2>4, <3>1 DEF k
    <3>2. CASE d # c
      BY <2>2, <2>5, <2>6, <2>8, <3>2 DEF CacheInv
    <3>3. QED
      BY <3>1, <3>2
  <2>9. ASSUME NEW d \in Cells, NEW e \in Cells
        PROVE  /\ records'[d] > 0 => build'[d].engine = TargetOf[d]
               /\ records'[d] > 0 /\ records'[d] = records'[e] /\ TargetOf[d] = TargetOf[e]
                  => build'[d] = build'[e]
    <3>1. records'[d] > 0 => build'[d].engine = TargetOf[d]
      BY <2>1, <2>4, <2>5 DEF CacheInv
    <3>2. CASE records'[d] = run /\ records'[e] = run
      BY <2>8, <3>1, <3>2
    <3>3. CASE records'[d] # run /\ records'[e] # run
      <4>1. d # c /\ e # c
        BY <2>4, <3>3
      <4>2. QED
        BY <2>5, <3>1, <4>1 DEF CacheInv
    <3>4. QED
      BY <3>1, <3>2, <3>3, SMTT(20)
  <2>10. QED
    BY <2>2, <2>7, <2>8, <2>9 DEF CacheInv
<1>6. QED
  BY <1>1, <1>2, <1>3, <1>4, <1>5, OnlyRunsBegin

-----------------------------------------------------------------------------
(* Types                                                                   *)

LEMMA OsesMade == Measured \in Oses /\ Missing \in Oses
BY DEF Oses

\* The archive of an older version, as it is found at the start.
LEMMA OldArchive ==
  ASSUME ArchiveInit, NEW d \in Before
  PROVE  Sound(host, archive[d])
<1>0. PICK cpu \in [Before -> BeforeCpus] :
        archive = [e \in Dates |->
          IF e \notin Before THEN Nothing
          ELSE [by |-> records, build |-> build, host |-> 0, run |-> runFile,
                calm |-> FALSE, cpu |-> cpu[e], os |-> Missing, marked |-> FALSE]]
  BY DEF ArchiveInit
<1> DEFINE none == [c \in Cells |-> 0]
           bare == [c \in Cells |-> Nothing]
<1>1. archive[d] = [by |-> none, build |-> bare, host |-> 0, run |-> [run |-> 0, written |-> 0],
                    calm |-> FALSE, cpu |-> cpu[d], os |-> Missing, marked |-> FALSE]
  BY <1>0, Constants DEF ArchiveInit, Init
<1>2. 0 \in 0..MaxRuns /\ 0 \in 0..Cardinality(Cells)
  BY Constants, FS_CardinalityType
<1>3. none \in [Cells -> 0..MaxRuns] /\ bare \in [Cells -> Builds \cup {Nothing}]
  BY <1>2
<1>4. [run |-> 0, written |-> 0] \in [run: 0..MaxRuns, written: 0..Cardinality(Cells)]
  BY <1>2
<1>5. \A c \in Cells : none[c] = 0
  OBVIOUS
<1> HIDE DEF none, bare
<1>6. archive[d] \in Archives
  <2>1. cpu[d] \in Cpus \cup {"unknown host", Nothing}
    BY BeforeCpusAssumption
  <2>2. FALSE \in BOOLEAN /\ Missing \in Oses
    BY OsesMade
  <2>3. [by |-> none, build |-> bare, host |-> 0, run |-> [run |-> 0, written |-> 0],
         calm |-> FALSE, cpu |-> cpu[d], os |-> Missing, marked |-> FALSE] \in Archives
    BY <1>2, <1>3, <1>4, <2>1, <2>2 DEF Archives
  <2>4. QED
    BY <1>1, <2>3
<1>7. \A c \in Cells : archive[d].by[c] = 0
  BY <1>1, <1>5
<1>8. archive[d].host = 0 /\ archive[d].os = Missing /\ ~archive[d].marked
  BY <1>1
<1>9. QED
  BY <1>6, <1>7, <1>8 DEF Sound, Begun, OwnBuilds, Counted, Honest, Missing

LEMMA InitType == ArchiveInit => TypeOK
<1> SUFFICES ASSUME ArchiveInit PROVE TypeOK
  OBVIOUS
<1> USE Constants
<1>1. archive \in [Dates -> Archives \cup {Nothing, Torn}]
  <2>1. \A d \in Before : archive[d] \in Archives
    BY OldArchive DEF Sound
  <2>2. \A d \in Dates : d \notin Before => archive[d] = Nothing
    BY DEF ArchiveInit
  <2>3. archive = [d \in Dates |-> archive[d]]
    BY DEF ArchiveInit
  <2>4. QED
    BY <2>1, <2>2, <2>3
<1>2. host \in [Runs -> Hosts \cup {Nothing}] /\ build \in [Cells -> Builds \cup {Nothing}]
  BY DEF ArchiveInit
<1>3. DOMAIN cache \subseteq {Key(t) : t \in Targets} /\ \A k \in DOMAIN cache : cache[k] \in Builds
  BY DEF ArchiveInit, NoCache
<1>4. doc \in [Renders -> Readings \cup Archives \cup {Nothing}]
      /\ manifest \in [Renders -> SUBSET Dates]
      /\ stage \in [Renders -> {"new", "cells", "loaded", "archived", "read", "truncated"}]
      /\ date \in [Renders -> Dates \cup {Nothing}]
  BY DEF ArchiveInit
<1>5. index = Before /\ listed = Before /\ starts = 0 /\ 0 \in 0..MaxStarts
  BY DEF ArchiveInit
<1>6. QED
  BY <1>1, <1>2, <1>3, <1>4, <1>5 DEF TypeOK

\* What a render files is an archive.
LEMMA LoadedIsSound ==
  ASSUME ReadingInv, NEW v \in Renders, stage[v] = "loaded"
  PROVE  Sound(host, doc[v]) /\ doc[v] \in Archives
BY DEF ReadingInv, ReadingOf, Sound

\* What LoadRest makes of a render's reading is sound: the records were sound when
\* they were read, and a calm reading is of the directory as it still is.
LEMMA RestIsSound ==
  ASSUME TypeOK, DirectoryInv, GateInv, ReadingInv, NEW v \in Renders, LoadRest(v)
  PROVE  Sound(host, doc'[v])
<1> DEFINE x == doc[v]
<1>1. /\ x \in Readings /\ hostFile > 0 /\ OwnBuilds(x)
      /\ \A c \in Cells : Begun(host, x.by[c])
      /\ x.calm /\ x.at = run => ~busy /\ x.by = records
  BY Constants, Writers DEF LoadRest, ReadingInv, ReadingOf, DirectoryInv
<1>2. doc'[v] = [by |-> x.by, build |-> x.build, host |-> hostFile, run |-> runFile,
                 calm |-> x.calm /\ ~busy /\ run = x.at,
                 cpu |-> host[hostFile].cpu, os |-> Measured, marked |-> FALSE]
  BY DEF LoadRest, TypeOK
<1>3. hostFile \in Runs /\ hostFile \in 0..MaxRuns /\ Begun(host, hostFile)
  BY <1>1, Constants, Writers DEF DirectoryInv, GateInv, Runs
<1>4. host[hostFile].cpu \in Cpus
  <2>1. host[hostFile] \in Hosts
    BY <1>1, <1>3 DEF Begun, TypeOK
  <2>2. QED
    BY <2>1, CpusAssumption
<1>5. runFile \in [run: 0..MaxRuns, written: 0..Cardinality(Cells)] /\ busy \in BOOLEAN
  BY Constants, Writers DEF LoadRest, DirectoryInv
<1>6. /\ x.by \in [Cells -> 0..MaxRuns] /\ x.build \in [Cells -> Builds \cup {Nothing}]
      /\ x.calm \in BOOLEAN
  BY <1>1 DEF Readings
<1> HIDE DEF x
<1> DEFINE a == doc'[v]
<1>7. /\ a.by = x.by /\ a.build = x.build /\ a.host = hostFile /\ a.run = runFile
      /\ a.calm = (x.calm /\ ~busy /\ run = x.at) /\ a.os = Measured /\ a.marked = FALSE
  BY <1>2
<1>8. a \in Archives
  <2> DEFINE calm == x.calm /\ ~busy /\ run = x.at
  <2>1. calm \in BOOLEAN
    BY <1>5, <1>6
  <2> HIDE DEF calm
  <2>2. a = [by |-> x.by, build |-> x.build, host |-> hostFile, run |-> runFile, calm |-> calm,
             cpu |-> host[hostFile].cpu, os |-> Measured, marked |-> FALSE]
    BY <1>2 DEF calm
  <2>3. /\ hostFile \in 0..MaxRuns /\ host[hostFile].cpu \in Cpus \cup {"unknown host", Nothing}
        /\ FALSE \in BOOLEAN /\ Measured \in Oses
    BY <1>3, <1>4, OsesMade
  <2>4. [by |-> x.by, build |-> x.build, host |-> hostFile, run |-> runFile, calm |-> calm,
         cpu |-> host[hostFile].cpu, os |-> Measured, marked |-> FALSE] \in Archives
    BY <2>1, <2>3, <1>5, <1>6 DEF Archives
  <2>5. QED
    BY <2>2, <2>4
<1> HIDE DEF a
<1>9. Counted(a)
  <2>1. ASSUME a.calm, a.host > 0, a.run.run = a.host
        PROVE  a.run.written = Cardinality({c \in Cells : a.by[c] = a.host})
    <3>1. a.by = records /\ runFile.run = hostFile
      BY <1>1, <1>7, <2>1
    <3>2. runFile.written = Cardinality({c \in Cells : records[c] = hostFile})
      BY <1>1, <3>1 DEF DirectoryInv
    <3>3. QED
      BY <1>7, <3>1, <3>2
  <2>2. QED
    BY <2>1 DEF Counted
<1>10. OwnBuilds(a)
  BY <1>1, <1>7 DEF OwnBuilds
<1>11. Honest(a)
  BY <1>7 DEF Honest, Measured
<1>12. Begun(host, a.host) /\ \A c \in Cells : Begun(host, a.by[c])
  BY <1>1, <1>3, <1>7
<1>13. QED
  BY <1>8, <1>9, <1>10, <1>11, <1>12 DEF Sound, a

\* Records that are all whole were written by runs.
LEMMA WhatIsRead ==
  ASSUME DirectoryInv, \A c \in Cells : records[c] # HalfWritten
  PROVE  records \in [Cells -> 0..MaxRuns] /\ run \in 0..MaxRuns /\ busy \in BOOLEAN
<1>1. run \in 0..MaxRuns /\ busy \in BOOLEAN /\ records \in [Cells -> HalfWritten..run]
  BY DEF DirectoryInv
<1>2. \A c \in Cells : records[c] \in 0..MaxRuns
  BY <1>1, Constants, Writers
<1>3. QED
  BY <1>1, <1>2

LEMMA NextType ==
  ASSUME TypeOK, DirectoryInv, GateInv, CacheInv, ReadingInv, FilesInv, [ArchiveNext]_allVars
  PROVE  TypeOK'
<1> USE Constants
<1>1. CASE UNCHANGED allVars
  BY <1>1 DEF allVars, gate, rendering, published, TypeOK
<1>2. CASE Running
  <2>1. ASSUME NEW h \in Hosts, BeginOn(h) PROVE TypeOK'
    <3>1. host' = [host EXCEPT ![run'] = h]
      BY <2>1 DEF BeginOn
    <3>2. host' \in [Runs -> Hosts \cup {Nothing}]
      BY <3>1 DEF TypeOK
    <3>3. starts' \in 0..MaxStarts
      BY <2>1 DEF BeginOn, Started, TypeOK
    <3>4. QED
      BY <2>1, <3>2, <3>3 DEF BeginOn, rendering, published, TypeOK
  <2>2. ASSUME NEW h \in Hosts, RefuseOn(h) \/ StumbleOn(h) PROVE TypeOK'
    <3>1. starts' \in 0..MaxStarts
      BY <2>2 DEF RefuseOn, StumbleOn, Started, TypeOK
    <3>2. QED
      BY <2>2, <3>1 DEF RefuseOn, StumbleOn, gate, rendering, published, TypeOK
  <2>3. CASE EndOfRun
    BY <2>3 DEF EndOfRun, NoCache, rendering, published, TypeOK
  <2>4. QED
    BY <1>2, <2>1, <2>2, <2>3 DEF Running
<1>3. ASSUME NEW c \in Cells, PublishCell(c) PROVE TypeOK'
  <2> DEFINE k == Key(TargetOf[c])
  <2>1. PICK answer \in Builds :
          /\ cache' = [x \in DOMAIN cache \cup {k} |-> IF x = k THEN answer ELSE cache[x]]
          /\ build' = [build EXCEPT ![c] = answer]
    BY <1>3, Answered
  <2>2. k \in {Key(t) : t \in Targets}
    OBVIOUS
  <2> HIDE DEF k
  <2>3. DOMAIN cache' \subseteq {Key(t) : t \in Targets} /\ \A x \in DOMAIN cache' : cache'[x] \in Builds
    BY <2>1, <2>2 DEF TypeOK
  <2>4. build' \in [Cells -> Builds \cup {Nothing}]
    BY <2>1 DEF TypeOK
  <2>5. QED
    BY <1>3, <2>3, <2>4 DEF PublishCell, rendering, published, TypeOK
<1>4. ASSUME NEW v \in Renders, Render(v) PROVE TypeOK'
  <2>1. ASSUME NEW d \in Dates, LoadCells(v, d) PROVE TypeOK'
    <3>1. starts' \in 0..MaxStarts
      BY <2>1 DEF LoadCells, Started, TypeOK
    <3>2. [by |-> records, build |-> build, calm |-> ~busy, at |-> run] \in Readings
      <4>1. records \in [Cells -> 0..MaxRuns] /\ run \in 0..MaxRuns /\ busy \in BOOLEAN
        BY <2>1, WhatIsRead DEF LoadCells
      <4>2. QED
        BY <4>1 DEF Readings, TypeOK
    <3>3. doc' \in [Renders -> Readings \cup Archives \cup {Nothing}]
      BY <2>1, <3>2 DEF LoadCells, TypeOK
    <3>4. QED
      BY <2>1, <3>1, <3>3 DEF LoadCells, Goto, gate, published, TypeOK
  <2>2. CASE LoadRest(v)
    <3>1. doc' \in [Renders -> Readings \cup Archives \cup {Nothing}]
      BY <2>2, RestIsSound DEF LoadRest, Sound, TypeOK
    <3>2. QED
      BY <2>2, <3>1 DEF LoadRest, Goto, gate, published, TypeOK
  <2>3. CASE WriteArchive(v)
    <3>1. doc[v] \in Archives
      BY <2>3, LoadedIsSound DEF WriteArchive
    <3>2. archive' \in [Dates -> Archives \cup {Nothing, Torn}]
      BY <2>3, <3>1 DEF WriteArchive, TypeOK
    <3>3. QED
      BY <2>3, <3>2 DEF WriteArchive, Goto, gate, TypeOK
  <2>4. CASE ReadIndex(v)
    BY <2>4 DEF ReadIndex, Goto, gate, TypeOK
  <2>5. CASE TruncateIndex(v)
    BY <2>5 DEF TruncateIndex, Goto, gate, TypeOK
  <2>6. CASE WriteIndex(v)
    <3>1. date[v] \in Dates
      BY <2>6 DEF WriteIndex, ReadingInv, ReadingOf
    <3>2. QED
      BY <2>6, <3>1 DEF WriteIndex, Goto, gate, TypeOK
  <2>7. CASE KillRender(v)
    <3>1. archive' \in [Dates -> Archives \cup {Nothing, Torn}]
      BY <2>7 DEF KillRender, TypeOK
    <3>2. QED
      BY <2>7, <3>1 DEF KillRender, Goto, gate, TypeOK
  <2>8. QED
    BY <1>4, <2>1, <2>2, <2>3, <2>4, <2>5, <2>6, <2>7 DEF Render
<1>5. CASE Filling
  <2>1. ASSUME NEW d \in Dates, NEW cpu, NEW force, Fill(d, cpu, force) PROVE TypeOK'
    <3>1. starts' \in 0..MaxStarts
      BY <2>1 DEF Fill, Started, TypeOK
    <3>2. QED
      BY <2>1, <3>1 DEF Fill, gate, rendering, published, TypeOK
  <2>2. CASE Replace
    <3>1. fill.doc \in Archives
      BY <2>2 DEF Replace, FilesInv, Sound
    <3>2. archive' \in [Dates -> Archives \cup {Nothing, Torn}]
      BY <2>2, <3>1 DEF Replace, TypeOK
    <3>3. QED
      BY <2>2, <3>2 DEF Replace, gate, rendering, TypeOK
  <2>3. CASE DropFill
    BY <2>3 DEF DropFill, gate, rendering, published, TypeOK
  <2>4. QED
    BY <1>5, <2>1, <2>2, <2>3 DEF Filling
<1>6. QED
  BY <1>1, <1>2, <1>3, <1>4, <1>5, NextCases

-----------------------------------------------------------------------------
(* Readings and files                                                      *)

\* A run that has begun has begun for good.
LEMMA BegunStays ==
  ASSUME TypeOK, DirectoryInv, GateInv, [ArchiveNext]_allVars
  PROVE  \A r \in 0..MaxRuns : Begun(host, r) => Begun(host', r)
BY Constants, HostsStay DEF Begun, Runs

\* What was sound stays sound: runs that have begun keep their hosts.
LEMMA SoundStays ==
  ASSUME TypeOK, DirectoryInv, GateInv, [ArchiveNext]_allVars, NEW a, Sound(host, a)
  PROVE  Sound(host', a)
<1>1. a.host \in 0..MaxRuns /\ \A c \in Cells : a.by[c] \in 0..MaxRuns
  BY DEF Sound, Archives
<1>2. \A r \in 0..MaxRuns : Begun(host, r) => Begun(host', r)
  BY BegunStays
<1>3. QED
  BY <1>1, <1>2 DEF Sound

\* A reading no step of its render changes keeps what it has.
LEMMA ReadingKept ==
  ASSUME TypeOK, DirectoryInv, GateInv, [ArchiveNext]_allVars,
         NEW v \in Renders, ReadingOf(v),
         stage'[v] = stage[v], date'[v] = date[v], doc'[v] = doc[v]
  PROVE  ReadingOf(v)'
<1>1. stage[v] = "loaded" => Sound(host', doc[v])
  BY SoundStays DEF ReadingOf
<1>2. CASE stage[v] # "cells"
  BY <1>1, <1>2 DEF ReadingOf
<1>3. CASE stage[v] = "cells"
  <2> DEFINE x == doc[v]
  <2>1. /\ x \in Readings /\ hostFile # 0
        /\ OwnBuilds(x) /\ \A c \in Cells : Begun(host, x.by[c])
        /\ x.at <= run /\ (x.calm /\ x.at = run => ~busy /\ x.by = records)
        /\ date[v] \in Dates
    BY <1>3 DEF ReadingOf
  <2>2. x.at \in 0..MaxRuns /\ \A c \in Cells : x.by[c] \in 0..MaxRuns
    BY <2>1 DEF Readings
  <2>3. run \in 0..MaxRuns /\ 0 # run + 1 /\ HalfWritten # 0
    BY Constants, Writers DEF DirectoryInv
  <2> HIDE DEF x
  <2>4. \A c \in Cells : Begun(host', x.by[c])
    BY <2>1, <2>2, BegunStays
  <2>5. hostFile' # 0 /\ x.at <= run' /\ (x.calm /\ x.at = run' => ~busy' /\ x.by = records')
    <3>1. \/ run' = run + 1 /\ hostFile' \in {hostFile, run + 1, HalfWritten}
          \/ busy /\ run' = run /\ hostFile' = hostFile
          \/ UNCHANGED vars
      BY IsCampaignStep DEF Next, Step, Begin, Refuse, NoHostFile, Publish, Conclude, Abort
    <3>2. QED
      BY <2>1, <2>2, <2>3, <3>1, Constants DEF vars
  <2>6. QED
    BY <1>3, <2>1, <2>4, <2>5 DEF ReadingOf, x
<1>4. QED
  BY <1>2, <1>3

LEMMA ReadingNext ==
  ASSUME TypeOK, DirectoryInv, GateInv, CacheInv, ReadingInv, [ArchiveNext]_allVars
  PROVE  ReadingInv'
<1>1. SUFFICES ASSUME NEW v \in Renders PROVE ReadingOf(v)'
  BY DEF ReadingInv
<1>2. ReadingOf(v)
  BY DEF ReadingInv
<1>3. CASE UNCHANGED rendering
  BY <1>2, <1>3, ReadingKept DEF rendering
<1>4. ASSUME NEW w \in Renders, Render(w) PROVE ReadingOf(v)'
  <2>1. CASE w # v
    <3>1. stage'[v] = stage[v] /\ date'[v] = date[v] /\ doc'[v] = doc[v]
      BY <1>4, <2>1 DEF Render, LoadCells, LoadRest, WriteArchive, ReadIndex, TruncateIndex,
                        WriteIndex, KillRender, Goto, TypeOK
    <3>2. QED
      BY <1>2, <3>1, ReadingKept
  <2>2. ASSUME NEW d \in Dates, LoadCells(v, d) PROVE ReadingOf(v)'
    <3> DEFINE x == [by |-> records, build |-> build, calm |-> ~busy, at |-> run]
    <3>1. doc'[v] = x /\ stage'[v] = "cells" /\ date'[v] = d
      BY <2>2 DEF LoadCells, Goto, TypeOK
    <3>2. UNCHANGED <<vars, gate>>
      BY <2>2 DEF LoadCells
    <3>3. /\ records \in [Cells -> 0..MaxRuns] /\ run \in 0..MaxRuns /\ busy \in BOOLEAN
          /\ hostFile # 0
      <4>1. hostFile # 0
        BY <2>2 DEF LoadCells, DirectoryInv
      <4>2. QED
        BY <2>2, <4>1, WhatIsRead DEF LoadCells
    <3>4. x \in Readings
      BY <3>3 DEF Readings, TypeOK
    <3>5. OwnBuilds(x) /\ \A c \in Cells : Begun(host, x.by[c])
      BY DEF CacheInv, OwnBuilds, GateInv
    <3>6. x.at <= run /\ (x.calm => ~busy) /\ x.by = records
      <4>1. x.at = run /\ x.by = records /\ x.calm = (~busy)
        OBVIOUS
      <4> HIDE DEF x
      <4>2. run <= run
        BY <3>3
      <4>3. QED
        BY <4>1, <4>2
    <3> HIDE DEF x
    <3>7. QED
      BY <3>1, <3>2, <3>3, <3>4, <3>5, <3>6 DEF ReadingOf, vars, gate
  <2>3. CASE LoadRest(v)
    <3>1. Sound(host, doc'[v]) /\ host' = host
      BY <2>3, RestIsSound DEF LoadRest, gate
    <3>2. stage'[v] = "loaded" /\ date'[v] = date[v] /\ stage[v] = "cells"
      BY <2>3 DEF LoadRest, Goto, TypeOK
    <3>3. QED
      BY <1>2, <3>1, <3>2 DEF ReadingOf
  <2>4. CASE KillRender(v)
    <3>1. stage'[v] = "new"
      BY <2>4 DEF KillRender, Goto, TypeOK
    <3>2. QED
      BY <3>1 DEF ReadingOf
  <2>5. CASE WriteArchive(v) \/ ReadIndex(v) \/ TruncateIndex(v)
    <3>1. stage'[v] \in {"archived", "read", "truncated"} /\ date' = date /\ stage[v] # "new"
      BY <2>5 DEF WriteArchive, ReadIndex, TruncateIndex, Goto, TypeOK
    <3>2. QED
      BY <1>2, <3>1 DEF ReadingOf
  <2>6. CASE WriteIndex(v)
    <3>1. stage'[v] = "new"
      BY <2>6 DEF WriteIndex, Goto, TypeOK
    <3>2. QED
      BY <3>1 DEF ReadingOf
  <2>7. QED
    BY <1>4, <2>1, <2>2, <2>3, <2>4, <2>5, <2>6 DEF Render
<1>5. UNCHANGED rendering \/ \E w \in Renders : Render(w)
  BY NextCases DEF allVars, Running, BeginOn, RefuseOn, StumbleOn, EndOfRun, PublishCell, Filling,
                   Fill, Replace, DropFill
<1>6. QED
  BY <1>3, <1>4, <1>5

\* A completed archive is sound: its os was missing, so no run had measured it.
LEMMA FillIsSound ==
  ASSUME TypeOK, FilesInv, NEW d \in Dates, NEW cpu \in Cpus \cup {Nothing},
         NEW force \in BOOLEAN, Fill(d, cpu, force)
  PROVE  fill'.date = d /\ Sound(host, fill'.doc)
<1> DEFINE a == archive[d]
           os == Filled(cpu, force)
           b == [a EXCEPT !.os = os, !.marked = TRUE]
<1>1. /\ a.os = Missing /\ Sound(host, a)
      /\ cpu \in {Nothing, a.cpu} \/ a.cpu = Nothing \/ force
  BY DEF Fill, FilesInv, Filed
<1>2. fill' = [date |-> d, doc |-> b]
  BY DEF Fill
<1>3. os \in Oses
  <2> DEFINE known == IF force THEN Nothing ELSE cpu
  <2>1. known \in Cpus \cup {Nothing} /\ os = Filled(known, FALSE)
    BY DEF Filled
  <2>2. QED
    BY <2>1 DEF Oses
<1>4. os.how = "filled" /\ (os.cpu # Nothing /\ a.cpu # Nothing => os.cpu = a.cpu)
  BY <1>1 DEF Filled
<1>5. a \in Archives
  BY <1>1 DEF Sound
<1>6. ~(a.host > 0)
  BY <1>1 DEF Sound, Honest, Measured, Missing
<1> HIDE DEF a, os
<1>7. b \in Archives
  BY <1>3, <1>5 DEF Archives
<1>8. /\ b.by = a.by /\ b.build = a.build /\ b.host = a.host /\ b.run = a.run /\ b.calm = a.calm
      /\ b.cpu = a.cpu /\ b.os = os /\ b.marked = TRUE
  BY <1>5 DEF Archives
<1> HIDE DEF b
<1>9. Honest(b)
  BY <1>4, <1>6, <1>8 DEF Honest
<1>10. QED
  BY <1>1, <1>2, <1>7, <1>8, <1>9 DEF Sound, OwnBuilds, Counted

LEMMA FilesInit == ArchiveInit => FilesInv
<1> SUFFICES ASSUME ArchiveInit PROVE FilesInv
  OBVIOUS
<1>1. \A d \in Filed : d \in Before
  BY DEF ArchiveInit, Filed
<1>2. fill = Nothing
  BY DEF ArchiveInit
<1>3. QED
  BY <1>1, <1>2, OldArchive DEF FilesInv

LEMMA FilesNext ==
  ASSUME TypeOK, DirectoryInv, GateInv, ReadingInv, FilesInv, [ArchiveNext]_allVars
  PROVE  FilesInv'
<1>1. \A d \in Filed : Sound(host', archive[d])
  BY SoundStays DEF FilesInv
<1>2. fill # Nothing => fill.date \in Dates /\ Sound(host', fill.doc)
  BY SoundStays DEF FilesInv
<1>3. CASE UNCHANGED <<archive, fill>>
  BY <1>1, <1>2, <1>3 DEF FilesInv, Filed
<1>4. ASSUME NEW v \in Renders, WriteArchive(v) PROVE FilesInv'
  <2>1. Sound(host', doc[v])
    BY <1>4, LoadedIsSound, SoundStays DEF WriteArchive
  <2>2. fill' = fill /\ \A d \in Dates : archive'[d] \in {archive[d], doc[v]}
    BY <1>4 DEF WriteArchive, TypeOK
  <2>3. QED
    BY <1>1, <1>2, <2>1, <2>2 DEF FilesInv, Filed
<1>5. ASSUME NEW v \in Renders, KillRender(v) PROVE FilesInv'
  <2>1. fill' = fill /\ \A d \in Dates : archive'[d] \in {archive[d], Torn}
    BY <1>5 DEF KillRender, TypeOK
  <2>2. QED
    BY <1>1, <1>2, <2>1 DEF FilesInv, Filed
<1>6. ASSUME NEW d \in Dates, NEW cpu \in Cpus \cup {Nothing}, NEW force \in BOOLEAN,
             Fill(d, cpu, force)
      PROVE  FilesInv'
  <2>1. fill'.date = d /\ Sound(host', fill'.doc)
    BY <1>6, FillIsSound, SoundStays
  <2>2. archive' = archive
    BY <1>6 DEF Fill, published
  <2>3. QED
    BY <1>1, <2>1, <2>2 DEF FilesInv, Filed
<1>7. CASE Replace
  <2>1. Sound(host', fill.doc) /\ fill' = Nothing
    BY <1>2, <1>7 DEF Replace
  <2>2. \A d \in Dates : archive'[d] \in {archive[d], fill.doc}
    BY <1>7 DEF Replace, TypeOK
  <2>3. QED
    BY <1>1, <2>1, <2>2 DEF FilesInv, Filed
<1>8. CASE DropFill
  BY <1>1, <1>8 DEF DropFill, published, FilesInv, Filed
<1>9. \/ UNCHANGED <<archive, fill>>
      \/ \E v \in Renders : WriteArchive(v) \/ KillRender(v)
      \/ Filling
  <2>1. ASSUME NEW v \in Renders, Render(v), ~WriteArchive(v), ~KillRender(v)
        PROVE  UNCHANGED <<archive, fill>>
    BY <2>1 DEF Render, LoadCells, LoadRest, ReadIndex, TruncateIndex, WriteIndex, published
  <2>2. QED
    BY <2>1, NextCases DEF allVars, published, Running, BeginOn, RefuseOn, StumbleOn, EndOfRun, PublishCell
<1>10. QED
  BY <1>3, <1>4, <1>5, <1>6, <1>7, <1>8, <1>9 DEF Filling

-----------------------------------------------------------------------------
(* The index                                                               *)

\* An archive that is there is never taken away, torn as it may be.
LEMMA ArchivesStay ==
  ASSUME TypeOK, ReadingInv, FilesInv, [ArchiveNext]_allVars
  PROVE  \A d \in Dates : archive[d] # Nothing => archive'[d] # Nothing
<1> USE Constants
<1>1. ASSUME NEW v \in Renders, WriteArchive(v)
      PROVE  \A d \in Dates : archive[d] # Nothing => archive'[d] # Nothing
  <2>1. doc[v] # Nothing
    BY <1>1, LoadedIsSound DEF WriteArchive
  <2>2. QED
    BY <1>1, <2>1 DEF WriteArchive, TypeOK
<1>2. ASSUME NEW v \in Renders, KillRender(v)
      PROVE  \A d \in Dates : archive[d] # Nothing => archive'[d] # Nothing
  BY <1>2 DEF KillRender, TypeOK
<1>3. CASE Replace
  <2>1. fill.doc # Nothing
    BY <1>3 DEF Replace, FilesInv, Sound
  <2>2. QED
    BY <1>3, <2>1 DEF Replace, TypeOK
<1>4. \/ UNCHANGED archive
      \/ \E v \in Renders : WriteArchive(v) \/ KillRender(v)
      \/ Replace
  BY NextCases DEF allVars, published, Running, BeginOn, RefuseOn, StumbleOn, EndOfRun, PublishCell,
                   Filling, Fill, DropFill, Render, LoadCells, LoadRest, ReadIndex,
                   TruncateIndex, WriteIndex
<1>5. QED
  BY <1>1, <1>2, <1>3, <1>4

IndexParts == IndexInv /\ IndexNamesArchives /\ HistoryKept

LEMMA IndexInit == ArchiveInit => IndexParts
<1> SUFFICES ASSUME ArchiveInit PROVE IndexParts
  OBVIOUS
<1>1. \A d \in Before : archive[d] # Nothing
  <2>1. \A d \in Before : archive[d] \in Archives
    BY OldArchive DEF Sound
  <2>2. QED
    BY <2>1, Constants
<1>2. index = Before /\ listed = Before
  BY DEF ArchiveInit
<1>3. \A v \in Renders : stage[v] = "new" /\ manifest[v] = {}
  BY DEF ArchiveInit
<1>4. QED
  BY <1>1, <1>2, <1>3 DEF IndexParts, IndexInv, IndexNamesArchives, HistoryKept

Listing(v) == stage[v] \in {"read", "truncated"}

LEMMA IndexNext ==
  ASSUME TypeOK, ReadingInv, FilesInv, IndexParts, [ArchiveNext]_allVars
  PROVE  IndexParts'
<1> USE Constants
<1>1. \A d \in Dates : archive[d] # Nothing => archive'[d] # Nothing
  BY ArchivesStay
<1>2. \A v \in Renders :
        /\ stage[v] \in {"archived", "read", "truncated"} =>
             date[v] \in Dates /\ archive'[date[v]] # Nothing
        /\ manifest[v] \subseteq Dates
        /\ \A d \in manifest[v] : archive'[d] # Nothing
        /\ ~lossy /\ Listing(v) =>
             listed \subseteq manifest[v] /\ \A w \in Renders : Listing(w) => w = v
  BY <1>1 DEF IndexParts, IndexInv, ReadingInv, ReadingOf, TypeOK, Listing
<1>3. index # Torn => \A d \in index : d \in Dates /\ archive'[d] # Nothing
  BY <1>1 DEF IndexParts, IndexNamesArchives, TypeOK
<1>4. index # Torn /\ ~lossy => listed \subseteq index
  BY DEF IndexParts, HistoryKept
<1>5. CASE UNCHANGED <<stage, date, manifest, index, listed, lossy>>
  BY <1>2, <1>3, <1>4, <1>5 DEF IndexParts, IndexInv, IndexNamesArchives, HistoryKept, Listing
<1>6. ASSUME NEW v \in Renders, LoadCells(v, date'[v]) \/ LoadRest(v) PROVE IndexParts'
  <2>1. /\ stage' \in [Renders -> {"new", "cells", "loaded", "archived", "read", "truncated"}]
        /\ stage'[v] \in {"cells", "loaded"}
        /\ \A w \in Renders \ {v} : stage'[w] = stage[w] /\ date'[w] = date[w]
        /\ UNCHANGED <<manifest, index, listed, lossy>>
    BY <1>6 DEF LoadCells, LoadRest, Goto, TypeOK, published
  <2>2. QED
    BY <1>2, <1>3, <1>4, <2>1 DEF IndexParts, IndexInv, IndexNamesArchives, HistoryKept, Listing
<1>7. ASSUME NEW v \in Renders, WriteArchive(v) PROVE IndexParts'
  <2>1. date[v] \in Dates /\ doc[v] # Nothing
    BY <1>7, LoadedIsSound DEF WriteArchive, ReadingInv, ReadingOf
  <2>2. /\ archive'[date[v]] # Nothing
        /\ stage'[v] = "archived"
        /\ \A w \in Renders \ {v} : stage'[w] = stage[w]
        /\ UNCHANGED <<date, manifest, index, listed, lossy>>
    BY <1>7, <2>1 DEF WriteArchive, Goto, TypeOK
  <2>3. QED
    BY <1>2, <1>3, <1>4, <2>2 DEF IndexParts, IndexInv, IndexNamesArchives, HistoryKept, Listing
<1>8. ASSUME NEW v \in Renders, ReadIndex(v) PROVE IndexParts'
  <2>1. /\ stage[v] = "archived" /\ stage'[v] = "read"
        /\ manifest'[v] = (IF index = Torn THEN {} ELSE index)
        /\ \A w \in Renders \ {v} : stage'[w] = stage[w] /\ manifest'[w] = manifest[w]
        /\ UNCHANGED <<date, index, listed>>
    BY <1>8 DEF ReadIndex, Goto, TypeOK
  <2>2. ~lossy' => ~lossy /\ index # Torn /\ \A w \in Renders : ~Listing(w)
    BY <1>8 DEF ReadIndex, Listing
  <2>3. IndexNamesArchives' /\ HistoryKept'
    BY <1>3, <1>4, <2>1, <2>2 DEF IndexNamesArchives, HistoryKept
  <2>4. QED
    BY <1>2, <1>3, <1>4, <2>1, <2>2, <2>3 DEF IndexParts, IndexInv, Listing
<1>9. ASSUME NEW v \in Renders, TruncateIndex(v) PROVE IndexParts'
  <2>1. /\ stage[v] = "read" /\ stage'[v] = "truncated" /\ index' = Torn
        /\ \A w \in Renders \ {v} : stage'[w] = stage[w]
        /\ UNCHANGED <<date, manifest, listed, lossy>>
    BY <1>9 DEF TruncateIndex, Goto, TypeOK
  <2>2. QED
    BY <1>2, <2>1 DEF IndexParts, IndexInv, IndexNamesArchives, HistoryKept, Listing
<1>10. ASSUME NEW v \in Renders, WriteIndex(v) PROVE IndexParts'
  <2>1. /\ stage[v] = "truncated" /\ stage'[v] = "new" /\ manifest'[v] = {}
        /\ index' = manifest[v] \cup {date[v]} \/ index' = Torn
        /\ listed' = listed \cup {date[v]}
        /\ \A w \in Renders \ {v} :
             stage'[w] = stage[w] /\ date'[w] = date[w] /\ manifest'[w] = manifest[w]
        /\ UNCHANGED lossy
    BY <1>10 DEF WriteIndex, Goto, TypeOK
  <2>2. Listing(v)
    BY <2>1 DEF Listing
  <2>3. IndexNamesArchives' /\ HistoryKept'
    BY <1>2, <2>1, <2>2 DEF IndexNamesArchives, HistoryKept
  <2>4. ASSUME ~lossy' PROVE \A w \in Renders : ~Listing(w)'
    BY <1>2, <2>1, <2>2, <2>4 DEF Listing
  <2>5. QED
    BY <1>2, <2>1, <2>3, <2>4 DEF IndexParts, IndexInv, Listing
<1>11. ASSUME NEW v \in Renders, KillRender(v) PROVE IndexParts'
  <2>1. /\ stage'[v] = "new" /\ manifest'[v] = {}
        /\ \A w \in Renders \ {v} :
             stage'[w] = stage[w] /\ date'[w] = date[w] /\ manifest'[w] = manifest[w]
        /\ UNCHANGED <<index, listed, lossy>>
    BY <1>11 DEF KillRender, Goto, TypeOK
  <2>2. QED
    BY <1>2, <1>3, <1>4, <2>1 DEF IndexParts, IndexInv, IndexNamesArchives, HistoryKept, Listing
<1>12. ASSUME NEW v \in Renders, NEW d \in Dates, LoadCells(v, d) PROVE d = date'[v]
  BY <1>12 DEF LoadCells, TypeOK
<1>13. ASSUME NEW v \in Renders, Render(v) PROVE IndexParts'
  BY <1>6, <1>7, <1>8, <1>9, <1>10, <1>11, <1>12, <1>13 DEF Render
<1>14. (\E v \in Renders : Render(v)) \/ UNCHANGED <<stage, date, manifest, index, listed, lossy>>
  BY NextCases DEF allVars, rendering, published, Running, BeginOn, RefuseOn, StumbleOn, EndOfRun,
                   PublishCell, Filling, Fill, Replace, DropFill
<1>15. QED
  BY <1>5, <1>13, <1>14

-----------------------------------------------------------------------------
(* The invariant and what follows from it                                  *)

LEMMA ReadingInit == ArchiveInit => ReadingInv
BY DEF ArchiveInit, ReadingInv, ReadingOf

LEMMA InitIInv == ArchiveInit => IInv
BY InitType, DirectoryInit, GateInit, CacheInit, ReadingInit, FilesInit, IndexInit
DEF IInv, IndexParts, ArchiveInit

LEMMA NextIInv == IInv /\ [ArchiveNext]_allVars => IInv'
<1> SUFFICES ASSUME IInv, [ArchiveNext]_allVars PROVE IInv'
  OBVIOUS
<1>1. /\ TypeOK /\ DirectoryInv /\ GateInv /\ CacheInv /\ ReadingInv /\ FilesInv
      /\ IndexParts
  BY DEF IInv, IndexParts
<1>2. TypeOK' /\ DirectoryInv' /\ GateInv' /\ CacheInv'
  BY <1>1, NextType, IsCampaignStep, DirectoryNext, GateNext, CacheNext
<1>3. ReadingInv' /\ FilesInv' /\ IndexParts'
  BY <1>1, ReadingNext, FilesNext, IndexNext
<1>4. QED
  BY <1>2, <1>3 DEF IInv, IndexParts

\* The invariant holds in every reachable state.
LEMMA Inductive == ArchiveSpec => []IInv
BY InitIInv, NextIInv, PTL DEF ArchiveSpec

\* Every reachable state of the archive is well typed.
THEOREM TypeCorrect == ArchiveSpec => []TypeOK
BY Inductive, PTL DEF IInv

\* What the index lists is there, whichever renders and kills came before.
THEOREM Indexed == ArchiveSpec => []IndexNamesArchives
BY Inductive, PTL DEF IInv

\* Without overlapping renders and half-written indexes no date is forgotten.
THEOREM Kept == ArchiveSpec => []HistoryKept
BY Inductive, PTL DEF IInv

\* The blocks and the records of an archive stem from runs that the gate let in.
LEMMA FromRuns ==
  ASSUME IInv, NEW d \in Filed, NEW r \in {archive[d].host} \cup {archive[d].by[c] : c \in Cells},
         r # 0
  PROVE  host[r] \in Hosts /\ Enforce(host[r])
<1>0. archive[d] \in Archives
  BY DEF IInv, FilesInv, Sound
<1>2. archive[d].host \in 0..MaxRuns /\ \A c \in Cells : archive[d].by[c] \in 0..MaxRuns
  BY <1>0 DEF Archives
<1>3. r \in Runs /\ r > 0
  BY <1>2, Constants DEF Runs
<1>1. host[r] # Nothing
  BY <1>3 DEF IInv, FilesInv, Sound, Begun
<1>4. host[r] \in Hosts \cup {Nothing} /\ Enforce(host[r])
  BY <1>1, <1>3 DEF IInv, GateInv, TypeOK
<1>5. QED
  BY <1>1, <1>4

LEMMA AdmissibleMeans ==
  ASSUME NEW h \in Hosts, Admissible(h)
  PROVE  /\ \A i \in DOMAIN h.governor : h.governor[i] = "performance"
         /\ h.noTurbo = "1" \/ (h.noTurbo = "absent" /\ h.boost = "0")
         /\ h.root /\ ~h.virtualized
<1>1. UniformGovernor(h) = "performance" /\ TurboEnabled(h) = "no"
  BY DEF Admissible
<1>2. \A i \in DOMAIN h.governor : h.governor[i] = "performance"
  <2> DEFINE g == h.governor
  <2>1. 1 \in DOMAIN g /\ "mixed" # "performance"
    BY HostsAssumption
  <2>2. (IF \A i, j \in DOMAIN g : g[i] = g[j] THEN g[1] ELSE "mixed") = "performance"
    BY <1>1 DEF UniformGovernor
  <2> HIDE DEF g
  <2>3. \A i \in DOMAIN g : g[i] = "performance"
    <3>1. CASE \A i, j \in DOMAIN g : g[i] = g[j]
      BY <2>1, <2>2, <3>1, Zenon
    <3>2. CASE ~\A i, j \in DOMAIN g : g[i] = g[j]
      BY <2>1, <2>2, <3>2, Zenon
    <3>3. QED
      BY <3>1, <3>2
  <2>4. QED
    BY <2>3 DEF g
<1>3. h.noTurbo = "1" \/ (h.noTurbo = "absent" /\ h.boost = "0")
  <2> DEFINE n == h.noTurbo
             b == h.boost
  <2>1. b \in {"absent", "0", "1"}
    BY HostsAssumption
  <2>2. (IF n # "absent" THEN (IF n = "1" THEN "no" ELSE "yes")
         ELSE IF b # "absent" THEN (IF b = "1" THEN "yes" ELSE "no")
         ELSE "unknown") = "no"
    BY <1>1, Zenon DEF TurboEnabled
  <2> HIDE DEF n, b
  <2>3. n = "1" \/ n = "absent"
    BY <2>2
  <2>4. n = "absent" => b = "0"
    BY <2>1, <2>2
  <2>5. QED
    BY <2>3, <2>4 DEF n, b
<1>4. QED
  BY <1>2, <1>3 DEF Admissible

\* Whatever is published of a declared benchmark host was admissible.
THEOREM GateHolds == ArchiveSpec => []GateKeepsOut
<1>1. IInv => GateKeepsOut
  BY FromRuns, AdmissibleMeans DEF GateKeepsOut, Enforce
<1>2. QED
  BY <1>1, Inductive, PTL

\* Every published record names the build that its run knew its target by.
THEOREM BuildsAreOwn == ArchiveSpec => []BuildIsOwn
<1>1. IInv => BuildIsOwn
  BY DEF IInv, FilesInv, Sound, BuildIsOwn
<1>2. QED
  BY <1>1, Inductive, PTL

\* No backfill passes for a measurement, nor is a measured os overwritten by one.
THEOREM BackfillsAreHonest == ArchiveSpec => []BackfillIsHonest
<1>1. IInv => BackfillIsHonest
  BY DEF IInv, FilesInv, Sound, BackfillIsHonest
<1>2. QED
  BY <1>1, Inductive, PTL

\* The number of records against cells_written gives away every older record.
THEOREM StaleIsTold == ArchiveSpec => []CountTellsStale
<1>1. ASSUME IInv PROVE CountTellsStale
  <2> SUFFICES ASSUME NEW d \in Filed, archive[d].calm, archive[d].host > 0,
                      archive[d].run.run = archive[d].host
               PROVE  LET present == {c \in Cells : archive[d].by[c] # 0}
                      IN /\ Cardinality(present) >= archive[d].run.written
                         /\ Cardinality(present) = archive[d].run.written
                              <=> \A c \in present : archive[d].by[c] = archive[d].host
    BY DEF CountTellsStale
  <2> DEFINE a == archive[d]
             present == {c \in Cells : a.by[c] # 0}
             own == {c \in Cells : a.by[c] = a.host}
  <2>1. a.run.written = Cardinality(own)
    BY <1>1 DEF IInv, FilesInv, Sound, Counted
  <2>2. own \subseteq present /\ IsFiniteSet(present)
    BY CountCells
  <2>3. IsFiniteSet(own) /\ Cardinality(own) <= Cardinality(present)
        /\ (Cardinality(own) = Cardinality(present) => own = present)
    BY <2>2, FS_Subset
  <2>4. Cardinality(own) \in Nat /\ Cardinality(present) \in Nat
    BY <2>2, <2>3, FS_CardinalityType
  <2>5. own = present <=> \A c \in present : a.by[c] = a.host
    BY <2>2
  <2> HIDE DEF own, present
  <2>6. QED
    BY <2>1, <2>3, <2>4, <2>5 DEF present
<1>2. QED
  BY <1>1, Inductive, PTL

\* What the machines, the cache, renders and backfills add leaves the directory's
\* specification intact.
THEOREM ArchiveIsCampaign == ArchiveSpec => Init /\ [][Next]_vars
<1>1. ArchiveInit => Init
  BY DEF ArchiveInit
<1>2. QED
  BY <1>1, IsCampaignStep, PTL DEF ArchiveSpec

=============================================================================
