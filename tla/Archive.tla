------------------------------ MODULE Archive ------------------------------
(***************************************************************************)
(* From the output directory to the published history: runs of the         *)
(* orchestrator on one machine or another (module Campaign, here with the  *)
(* host gate of host.rs and the describe cache of target_meta), the render *)
(* step of scripts/render_results.py, which makes one archive per date and *)
(* an index of them, and scripts/backfill-host.py, which completes         *)
(* archives of older versions.                                             *)
(*                                                                         *)
(* The three are separate programs that share files and no lock.  A file   *)
(* of the directory that is half written makes a render fail before it     *)
(* writes anything; the index is the one file whose reader takes a         *)
(* half-written one for an empty one.                                      *)
(***************************************************************************)
EXTENDS Campaign

CONSTANTS
  Hosts,      \* machines and how they are set up when a run starts (below)
  Cpus,       \* CPU models of machines, those a backfill is started on included
  Targets,    \* targets of the matrix (below)
  TargetOf,   \* the target of a cell
  Dates,      \* dates an archive may be filed under
  Before,     \* those whose archive is of a version that recorded no os
  BeforeCpus, \* what such an archive may have for the CPU
  Renders,    \* render steps that may be under way at once
  MaxStarts,  \* bound: runs, renders and backfills that are started
  Torn,       \* a file that was truncated and not filled
  Nothing     \* no file, no value

ASSUME TargetOfAssumption == TargetOf \in [Cells -> Targets]
ASSUME TargetsAssumption ==
  \A t, u \in Targets :
    t.rootfs = u.rootfs /\ t.binary = u.binary /\ t.variant = u.variant => t = u
ASSUME BeforeAssumption == Before \subseteq Dates
ASSUME StartsAssumption == MaxStarts \in Nat
ASSUME HostsAssumption ==
  \A h \in Hosts : 1 \in DOMAIN h.governor /\ h.boost \in {"absent", "0", "1"}
ASSUME CpusAssumption == \A h \in Hosts : h.cpu \in Cpus
ASSUME BeforeCpusAssumption == BeforeCpus \subseteq Cpus \cup {"unknown host", Nothing}

-----------------------------------------------------------------------------
(* The host gate.  A host is a record: cpu, its model; governor, of each   *)
(* CPU; noTurbo and boost, the two files that tell about turbo, "absent"   *)
(* where the kernel has none; virtualized, root; declared, whether         *)
(* ZMQ_ARENA_BENCH_HOST is set for the run.                                *)

\* Slip: only the first CPU is looked at.
FirstGovernor(h) == h.governor[1]

\* The governor all CPUs share; "mixed" is no governor.
UniformGovernor(h) ==
  IF \A i, j \in DOMAIN h.governor : h.governor[i] = h.governor[j]
  THEN h.governor[1] ELSE "mixed"

\* intel_pstate says that turbo is off, cpufreq that boost is on.
TurboEnabled(h) ==
  IF h.noTurbo # "absent" THEN (IF h.noTurbo = "1" THEN "no" ELSE "yes")
  ELSE IF h.boost # "absent" THEN (IF h.boost = "1" THEN "yes" ELSE "no")
  ELSE "unknown"

Admissible(h) ==
  /\ ~h.virtualized
  /\ UniformGovernor(h) = "performance"
  /\ TurboEnabled(h) = "no"
  /\ h.root

\* A machine that is declared the benchmark host runs only if it is one.
Enforce(h) == ~h.declared \/ Admissible(h)

-----------------------------------------------------------------------------
(* The targets.  A target is a record: id, rootfs, binary, variant.        *)

\* Slip: the key leaves the filesystem out.
KeyOfBinary(t) == [rootfs |-> Nothing, binary |-> t.binary, variant |-> t.variant]

\* Image-built targets all name their binary /app/target.
Key(t) == [rootfs |-> t.rootfs, binary |-> t.binary, variant |-> t.variant]

-----------------------------------------------------------------------------

VARIABLES
  host,       \* run -> the host it began on, Nothing if it did not begin
  cache,      \* target_meta's cache in the current run: key -> build
  build,      \* the build a cell's record names
  archive,    \* date -> the archive filed under it
  index,      \* dates in the index, or Torn
  stage,      \* where each render step is
  date,       \* the date it was given, Nothing unless it is under way
  doc,        \* what it has read of the directory
  manifest,   \* the dates it has read from the index
  fill,       \* what a backfill is about to write, and for which date
  starts,     \* runs, renders and backfills started so far
  listed,     \* history: dates that a render put into the index
  lossy       \* history: the index was read torn, or while another render was
              \* between its reading and its writing

gate      == <<host, cache, build>>
rendering == <<stage, date, doc, manifest>>
published == <<archive, index, listed, lossy>>
allVars   == <<vars, gate, rendering, published, fill, starts>>

Runs == 1..MaxRuns

\* The build a record names: what describe said of the target, or only its id.
Builds == [engine: Targets, known: BOOLEAN]

NoCache == [k \in {} |-> Nothing]

\* The os of an archive: measured, missing, or filled in, with the CPU of the
\* machine it was filled in from where that was not forced.
Measured == [how |-> "measured", cpu |-> Nothing]
Missing  == [how |-> "missing", cpu |-> Nothing]
Filled(c, force) == [how |-> "filled", cpu |-> IF force THEN Nothing ELSE c]

Oses == {Measured, Missing} \cup {Filled(c, FALSE) : c \in Cpus \cup {Nothing}}

\* The records a render has read; at is the last run that had begun by then.
Readings == [by: [Cells -> 0..MaxRuns], build: [Cells -> Builds \cup {Nothing}],
             calm: BOOLEAN, at: 0..MaxRuns]

\* An archive is what the directory held, by the runs that wrote it.
Archives ==
  [by: [Cells -> 0..MaxRuns], build: [Cells -> Builds \cup {Nothing}],
   host: 0..MaxRuns, run: [run: 0..MaxRuns, written: 0..Cardinality(Cells)],
   calm: BOOLEAN,           \* history: no run was under way while it was read
   cpu: Cpus \cup {"unknown host", Nothing},
   os: Oses,
   marked: BOOLEAN]         \* hardware.backfilled

ASSUME ValuesAssumption ==
  /\ Nothing \notin Hosts /\ Nothing # Torn
  /\ Nothing \notin Archives /\ Torn \notin Archives

TypeOK ==
  /\ host \in [Runs -> Hosts \cup {Nothing}]
  /\ DOMAIN cache \subseteq {Key(t) : t \in Targets}
  /\ \A k \in DOMAIN cache : cache[k] \in Builds
  /\ build \in [Cells -> Builds \cup {Nothing}]
  /\ archive \in [Dates -> Archives \cup {Nothing, Torn}]
  /\ index = Torn \/ index \subseteq Dates
  /\ stage \in [Renders -> {"new", "cells", "loaded", "archived", "read", "truncated"}]
  /\ date \in [Renders -> Dates \cup {Nothing}]
  /\ doc \in [Renders -> Readings \cup Archives \cup {Nothing}]
  /\ manifest \in [Renders -> SUBSET Dates]
  /\ starts \in 0..MaxStarts
  /\ listed \subseteq Dates

ArchiveInit ==
  /\ Init
  /\ host = [r \in Runs |-> Nothing]
  /\ cache = NoCache
  /\ build = [c \in Cells |-> Nothing]
  /\ \E cpu \in [Before -> BeforeCpus] :
       archive = [d \in Dates |->
         IF d \notin Before THEN Nothing
         ELSE [by |-> records, build |-> build, host |-> 0, run |-> runFile,
               calm |-> FALSE, cpu |-> cpu[d], os |-> Missing, marked |-> FALSE]]
  /\ index = Before /\ listed = Before /\ lossy = FALSE
  /\ stage = [v \in Renders |-> "new"]
  /\ date = [v \in Renders |-> Nothing]
  /\ doc = [v \in Renders |-> Nothing]
  /\ manifest = [v \in Renders |-> {}]
  /\ fill = Nothing /\ starts = 0

Started == starts < MaxStarts /\ starts' = starts + 1

-----------------------------------------------------------------------------
(* Runs                                                                    *)

\* A run begins if the gate lets it; its cache lives as long as it does.
BeginOn(h) ==
  /\ Enforce(h) /\ Begin /\ Started
  /\ host' = [host EXCEPT ![run'] = h]
  /\ UNCHANGED <<cache, build, rendering, published, fill>>

RefuseOn(h) ==
  /\ ~Enforce(h) /\ Refuse /\ Started
  /\ UNCHANGED <<gate, rendering, published, fill>>

\* A run that fails over its first file begins no cell.
StumbleOn(h) ==
  /\ Enforce(h) /\ NoHostFile /\ Started
  /\ UNCHANGED <<gate, rendering, published, fill>>

\* target_meta asks a target to describe itself once per run; a call that fails
\* is remembered as well.  The record of the cell carries the answer.
PublishCell(c) ==
  /\ Publish(c)
  /\ \E known \in BOOLEAN :
       LET k == Key(TargetOf[c])
           answer == IF k \in DOMAIN cache THEN cache[k]
                     ELSE [engine |-> TargetOf[c], known |-> known]
       IN /\ cache' = [x \in DOMAIN cache \cup {k} |-> IF x = k THEN answer ELSE cache[x]]
          /\ build' = [build EXCEPT ![c] = answer]
  /\ UNCHANGED <<host, rendering, published, fill, starts>>

EndOfRun ==
  /\ Conclude \/ Abort
  /\ cache' = NoCache
  /\ UNCHANGED <<host, build, rendering, published, fill, starts>>

-----------------------------------------------------------------------------
(* The render step                                                         *)

Goto(v, s) == stage' = [stage EXCEPT ![v] = s]

\* load_cells takes every record that is there, and gives up if there is none or
\* if one cannot be parsed.
LoadCells(v, d) ==
  /\ stage[v] = "new" /\ \E c \in Cells : records[c] # 0
  /\ \A c \in Cells : records[c] # HalfWritten
  /\ doc' = [doc EXCEPT ![v] = [by |-> records, build |-> build,
                                calm |-> ~busy, at |-> run]]
  /\ date' = [date EXCEPT ![v] = d]
  /\ Goto(v, "cells") /\ Started
  /\ UNCHANGED <<vars, gate, manifest, published, fill>>

\* load_host and load_run; a missing _run.json is an empty block, and a file that
\* cannot be parsed ends the render (KillRender).
LoadRest(v) ==
  /\ stage[v] = "cells" /\ hostFile # HalfWritten /\ runFile.run # HalfWritten
  /\ doc' = [doc EXCEPT ![v] =
       [by |-> @.by, build |-> @.build, host |-> hostFile, run |-> runFile,
        calm |-> @.calm /\ ~busy /\ run = @.at,
        cpu |-> host[hostFile].cpu, os |-> Measured, marked |-> FALSE]]
  /\ Goto(v, "loaded")
  /\ UNCHANGED <<vars, gate, date, manifest, published, fill, starts>>

WriteArchive(v) ==
  /\ stage[v] = "loaded"
  /\ archive' = [archive EXCEPT ![date[v]] = doc[v]]
  /\ doc' = [doc EXCEPT ![v] = Nothing]
  /\ Goto(v, "archived")
  /\ UNCHANGED <<vars, gate, date, manifest, index, listed, lossy, fill, starts>>

\* Slip: only the run just rendered is listed.
ReadIndexNot(v) ==
  /\ stage[v] = "archived"
  /\ Goto(v, "read")
  /\ UNCHANGED <<vars, gate, date, doc, manifest, published, fill, starts>>

\* A manifest that cannot be parsed counts as an empty one.
ReadIndex(v) ==
  /\ stage[v] = "archived"
  /\ manifest' = [manifest EXCEPT ![v] = IF index = Torn THEN {} ELSE index]
  /\ lossy' = (lossy \/ index = Torn \/ \E w \in Renders : stage[w] \in {"read", "truncated"})
  /\ Goto(v, "read")
  /\ UNCHANGED <<vars, gate, date, doc, archive, index, listed, fill, starts>>

\* write_text truncates the file, then fills it.
TruncateIndex(v) ==
  /\ stage[v] = "read"
  /\ index' = Torn
  /\ Goto(v, "truncated")
  /\ UNCHANGED <<vars, gate, date, doc, manifest, archive, listed, lossy, fill, starts>>

\* A file that another render filled in between may keep its longer tail.
WriteIndex(v) ==
  /\ stage[v] = "truncated"
  /\ \/ index' = manifest[v] \cup {date[v]}
     \/ index # Torn /\ index' = Torn
  /\ listed' = listed \cup {date[v]}
  /\ manifest' = [manifest EXCEPT ![v] = {}] /\ date' = [date EXCEPT ![v] = Nothing]
  /\ Goto(v, "new")
  /\ UNCHANGED <<vars, gate, doc, archive, lossy, fill, starts>>

\* A render is killed, perhaps while it writes its archive; it can be run again.
KillRender(v) ==
  /\ stage[v] # "new"
  /\ \/ UNCHANGED archive
     \/ stage[v] = "loaded" /\ archive' = [archive EXCEPT ![date[v]] = Torn]
  /\ doc' = [doc EXCEPT ![v] = Nothing] /\ manifest' = [manifest EXCEPT ![v] = {}]
  /\ date' = [date EXCEPT ![v] = Nothing]
  /\ Goto(v, "new")
  /\ UNCHANGED <<vars, gate, index, listed, lossy, fill, starts>>

-----------------------------------------------------------------------------
(* The backfill                                                            *)

\* Slip: the CPU of the archive is not compared.
FillAnyway(d, cpu, force) ==
  /\ fill = Nothing /\ Started
  /\ archive[d] \notin {Nothing, Torn} /\ archive[d].os = Missing
  /\ fill' = [date |-> d,
              doc |-> [archive[d] EXCEPT !.os = Filled(cpu, force), !.marked = TRUE]]
  /\ UNCHANGED <<vars, gate, rendering, published>>

\* An archive with a gap is read and completed from the machine at hand, whose
\* CPU has to be the archive's, if both are known and --force is not given.
Fill(d, cpu, force) ==
  /\ fill = Nothing /\ Started
  /\ archive[d] \notin {Nothing, Torn} /\ archive[d].os = Missing
  /\ cpu \in {Nothing, archive[d].cpu} \/ archive[d].cpu = Nothing \/ force
  /\ fill' = [date |-> d,
              doc |-> [archive[d] EXCEPT !.os = Filled(cpu, force), !.marked = TRUE]]
  /\ UNCHANGED <<vars, gate, rendering, published>>

\* os.replace puts the completed archive in place of whatever is there by then.
Replace ==
  /\ fill # Nothing
  /\ archive' = [archive EXCEPT ![fill.date] = fill.doc]
  /\ fill' = Nothing
  /\ UNCHANGED <<vars, gate, rendering, starts, index, listed, lossy>>

\* A backfill is killed, or --dry-run was given: a temporary file at most stays.
DropFill ==
  /\ fill # Nothing
  /\ fill' = Nothing
  /\ UNCHANGED <<vars, gate, rendering, published, starts>>

-----------------------------------------------------------------------------

Run ==
  \/ \E h \in Hosts : BeginOn(h) \/ RefuseOn(h) \/ StumbleOn(h)
  \/ (\E c \in Cells : PublishCell(c)) \/ EndOfRun

Render(v) ==
  \/ (\E d \in Dates : LoadCells(v, d)) \/ LoadRest(v) \/ WriteArchive(v)
  \/ ReadIndex(v) \/ TruncateIndex(v) \/ WriteIndex(v) \/ KillRender(v)

Backfill ==
  \/ \E d \in Dates, cpu \in Cpus \cup {Nothing}, force \in BOOLEAN : Fill(d, cpu, force)
  \/ Replace \/ DropFill

ArchiveNext == Run \/ (\E v \in Renders : Render(v)) \/ Backfill

ArchiveSpec == ArchiveInit /\ [][ArchiveNext]_allVars

-----------------------------------------------------------------------------
(* Properties                                                              *)

Filed == {d \in Dates : archive[d] \notin {Nothing, Torn}}

\* The index lists no archive that is not there, whatever is killed between the
\* writing of the two: the archive comes first.
\* (render_results.py:358-371.)
IndexNamesArchives ==
  index # Torn =>
    \A d \in index : archive[d] # Nothing

\* A date that was listed stays listed, whatever is rendered again or killed,
\* unless renders overlapped or one found the index half written.
\* (render_results.py:360-371.)
HistoryKept == index # Torn /\ ~lossy => listed \subseteq index

\* Records of earlier runs can be told: in an archive read while no run was under
\* way, whose host and run blocks are of one run, there are more records than
\* cells_written exactly if one of them is older.  (main.rs:440-492.)
CountTellsStale ==
  \A d \in Filed :
    LET a == archive[d]
        present == {c \in Cells : a.by[c] # 0}
    IN a.calm /\ a.host > 0 /\ a.run.run = a.host =>
         /\ Cardinality(present) >= a.run.written
         /\ Cardinality(present) = a.run.written <=> \A c \in present : a.by[c] = a.host

\* Nothing in an archive, host block or record, stems from a run on a declared
\* benchmark host of which one CPU had another governor or turbo was on or not
\* known to be off, or that was a guest or not run as root.  (host.rs:250-267.)
GateKeepsOut ==
  \A d \in Filed :
    \A r \in {archive[d].host} \cup {archive[d].by[c] : c \in Cells} :
      r # 0 /\ host[r].declared =>
        LET h == host[r]
        IN /\ \A i \in DOMAIN h.governor : h.governor[i] = "performance"
           /\ h.noTurbo = "1" \/ (h.noTurbo = "absent" /\ h.boost = "0")
           /\ h.root /\ ~h.virtualized

OwnBuilds(a) ==
  \A c, e \in Cells :
    /\ a.by[c] > 0 => a.build[c].engine = TargetOf[c]
    /\ a.by[c] > 0 /\ a.by[c] = a.by[e] /\ TargetOf[c] = TargetOf[e]
       => a.build[c] = a.build[e]

\* A record names a build of its own target, and the records one run wrote for
\* one target name the same build, though describe may fail at any call.
\* (main.rs:157-203.)
BuildIsOwn == \A d \in Filed : OwnBuilds(archive[d])

Honest(a) ==
  /\ a.marked <=> a.os.how = "filled"
  /\ a.os.cpu # Nothing /\ a.cpu # Nothing => a.os.cpu = a.cpu
  /\ a.host > 0 => a.os = Measured

\* What a backfill asserted is marked and what a run measured is not, and an os
\* that was asserted with the CPU checked is that of the archive's machine if that
\* is on record; neither a render in between nor a kill changes that.
\* (backfill-host.py:9-17, 95-120.)
BackfillIsHonest == \A d \in Filed : Honest(archive[d])

\* Violated: a comparison counts only if it was measured on an admissible host;
\* anything else carries its reasons.  (README.md:328-332.)
AdmissibleIsEarned ==
  \A d \in Filed :
    LET a == archive[d]
    IN a.calm /\ a.host > 0 /\ Admissible(host[a.host]) =>
         \A c \in Cells : a.by[c] # 0 => Admissible(host[a.by[c]])

-----------------------------------------------------------------------------
(* The inductive invariant behind the safety properties.                   *)

\* The directory: what names the run under way, and what cells_written counts.
DirectoryInv ==
  /\ busy \in BOOLEAN /\ run \in 0..MaxRuns
  /\ records \in [Cells -> HalfWritten..run] /\ hostFile \in HalfWritten..run
  /\ runFile \in [run: HalfWritten..run, written: 0..Cardinality(Cells)]
  /\ busy => run > 0 /\ hostFile = run /\ runFile.run < run
  /\ hostFile > 0 /\ runFile.run = hostFile =>
       runFile.written = Cardinality({c \in Cells : records[c] = hostFile})
  /\ \A c \in Cells : records[c] # 0 => hostFile # 0

\* Runs that left something were let in by the gate: h is where the runs began.
Begun(h, r) == r > 0 => h[r] # Nothing

GateInv ==
  /\ \A r \in Runs : host[r] # Nothing => r <= run /\ Enforce(host[r])
  /\ Begun(host, hostFile) /\ \A c \in Cells : Begun(host, records[c])

\* What the cache answers is what the records of this run carry.
CacheInv ==
  /\ \A t \in Targets : Key(t) \in DOMAIN cache => cache[Key(t)].engine = t
  /\ \A c \in Cells : busy /\ records[c] = run =>
       LET k == Key(TargetOf[c]) IN k \in DOMAIN cache /\ build[c] = cache[k]
  /\ OwnBuilds([by |-> records, build |-> build])

Counted(a) ==
  a.calm /\ a.host > 0 /\ a.run.run = a.host =>
    a.run.written = Cardinality({c \in Cells : a.by[c] = a.host})

\* Whatever is made of the directory, wherever it is by now.
Sound(h, a) ==
  /\ a \in Archives
  /\ Begun(h, a.host) /\ \A c \in Cells : Begun(h, a.by[c])
  /\ OwnBuilds(a) /\ Counted(a) /\ Honest(a)

\* The records a render has read, and whether they are still those that are there.
ReadingOf(v) ==
  /\ stage[v] # "new" => date[v] \in Dates
  /\ stage[v] = "loaded" => Sound(host, doc[v])
  /\ stage[v] = "cells" =>
       /\ doc[v] \in Readings /\ hostFile # 0
       /\ OwnBuilds(doc[v]) /\ \A c \in Cells : Begun(host, doc[v].by[c])
       /\ doc[v].at <= run
       /\ doc[v].calm /\ doc[v].at = run => ~busy /\ doc[v].by = records

ReadingInv == \A v \in Renders : ReadingOf(v)

FilesInv ==
  /\ \A d \in Filed : Sound(host, archive[d])
  /\ fill # Nothing => fill.date \in Dates /\ Sound(host, fill.doc)

\* What a render is about to list is there, and all that was listed is listed again.
IndexInv ==
  /\ \A v \in Renders :
       /\ stage[v] \in {"archived", "read", "truncated"} => archive[date[v]] # Nothing
       /\ \A d \in manifest[v] : archive[d] # Nothing
       /\ ~lossy /\ stage[v] \in {"read", "truncated"} =>
            /\ listed \subseteq manifest[v]
            /\ \A w \in Renders : stage[w] \in {"read", "truncated"} => w = v

IInv ==
  /\ TypeOK /\ DirectoryInv /\ GateInv /\ CacheInv /\ ReadingInv /\ FilesInv
  /\ IndexInv /\ IndexNamesArchives /\ HistoryKept

=============================================================================
