----------------------------- MODULE Reportgen ------------------------------
(***************************************************************************)
(* The report generators and the directory they share.                     *)
(*                                                                         *)
(* With every dataset veterod starts a vetero-reportgen process that is    *)
(* given a list of jobs (Veterod::updateReports) and does not wait for it, *)
(* so any number of generators may be at work on the same pages.  Each job *)
(* holds a shared flock on the report directory while it runs; the upload  *)
(* at the end needs an exclusive one.                                      *)
(*                                                                         *)
(* A generator opens the database and reads once which days have data      *)
(* (ValidDataCache).  A job queries the rows, has a diagram plotted,       *)
(* compresses the diagram in place (read it all, open it anew, write it)   *)
(* and writes a document with the navigation links.  The page of the       *)
(* current weather, an SVG and a JSON file, is made in the same order.     *)
(* One diagram stands for all of a page.                                   *)
(***************************************************************************)
EXTENDS Integers, Sequences, FiniteSets

CONSTANTS DayOf,      \* DayOf[n]: the day of the n-th dataset since veterod started
          MaxRunning, \* bound: generators at work at the same time
          MaxFaults   \* bound: jobs that fail

ASSUME DatasetAssumption ==
  /\ DayOf \in Seq(Nat \ {0})
  /\ \A i, j \in DOMAIN DayOf : i <= j => DayOf[i] <= DayOf[j]

ASSUME ReportgenBounds == MaxRunning \in Nat /\ MaxFaults \in Nat

Gen     == DOMAIN DayOf      \* the generator started for the n-th dataset
Current == 0                 \* the page of the current weather

(* The jobs of generator g that are about the pages of days, in order.     *)
(* "day:" of the last day is there for the next link.                      *)
Jobs(g) ==
  <<Current, DayOf[g]>> \o
    (IF g > 1 /\ DayOf[g] # DayOf[g - 1] THEN <<DayOf[g] - 1>> ELSE <<>>)

Asks(g) == { Jobs(g)[i] : i \in DOMAIN Jobs(g) }
Page    == UNION { Asks(g) : g \in Gen }
File    == Page \X {"diagram", "document"}
NoFile  == <<>>

(* What a file holds: whole is FALSE for a file that does not exist, is    *)
(* cut off or garbled; gz counts the layers of compression; rows are the   *)
(* datasets it shows; next tells if it links to the next day.              *)
Content == [whole : BOOLEAN, gz : Nat, rows : Nat, next : BOOLEAN]
Torn    == [whole |-> FALSE, gz |-> 0, rows |-> 0, next |-> FALSE]

InJob == {"query", "plot", "plotting", "read", "gzopen", "gzipping", "document", "writing"}
PC    == InJob \union {"idle", "open", "lock", "uplock", "uploading", "done"}

VARIABLES datasets,   \* how many datasets are in the database
          pc, job,    \* per generator: where it is, in which job
          opened,     \* ... datasets when it filled its ValidDataCache
          seen,       \* ... datasets when the running job made its query
          buffer,     \* ... what compress_file has read
          writing,    \* ... the file it has open for writing
          shared,     \* generators that hold the shared lock
          exclusive,  \* generators that hold the exclusive lock
          file,       \* the report directory
          dirty,      \* generators whose open file another one has opened too
          faults,     \* history: how many jobs failed
          missed,     \* history: pages whose last job failed
          met         \* history: generators that were at work beside another one

procVars == <<pc, job, opened, seen, buffer>>
fileVars == <<writing, file, dirty>>
lockVars == <<shared, exclusive>>
history == <<faults, missed, met>>
vars == <<datasets, procVars, fileVars, lockVars, history>>

TypeOK ==
  /\ datasets \in 0 .. Len(DayOf)
  /\ pc \in [Gen -> PC]
  /\ job \in [Gen -> Nat]
  /\ opened \in [Gen -> Nat] /\ seen \in [Gen -> Nat]
  /\ buffer \in [Gen -> Content]
  /\ writing \in [Gen -> File \union {NoFile}]
  /\ file \in [File -> Content]
  /\ dirty \subseteq Gen
  /\ faults \in Nat /\ missed \subseteq Page /\ met \subseteq Gen
  /\ shared = { g \in Gen : pc[g] \in InJob }
  /\ exclusive = { g \in Gen : pc[g] = "uploading" }

Init ==
  /\ datasets = 0
  /\ pc = [g \in Gen |-> "idle"]
  /\ job = [g \in Gen |-> 1]
  /\ opened = [g \in Gen |-> 0] /\ seen = [g \in Gen |-> 0]
  /\ buffer = [g \in Gen |-> Torn]
  /\ writing = [g \in Gen |-> NoFile]
  /\ shared = {} /\ exclusive = {}
  /\ file = [f \in File |-> Torn]
  /\ dirty = {}
  /\ faults = 0 /\ missed = {} /\ met = {}

-----------------------------------------------------------------------------
(* Files.  Two writers of one file overwrite each other's bytes: when one  *)
(* that was not alone closes the file, it may hold what it wrote or not.   *)

Goto(g, label) == pc' = [pc EXCEPT ![g] = label]
ThePage(g) == Jobs(g)[job[g]]
Diagram(g) == <<ThePage(g), "diagram">>
Document(g) == <<ThePage(g), "document">>

OpenFile(g, f) ==
  LET others == { h \in Gen \ {g} : writing[h] = f } IN
    /\ file' = [file EXCEPT ![f] = Torn]
    /\ writing' = [writing EXCEPT ![g] = f]
    /\ dirty' = dirty \union others \union (IF others = {} THEN {} ELSE {g})

CloseFile(g, content) ==
  /\ \E c \in {content} \union (IF g \in dirty THEN {Torn} ELSE {}) :
       file' = [file EXCEPT ![writing[g]] = c]
  /\ writing' = [writing EXCEPT ![g] = NoFile]
  /\ dirty' = dirty \ {g}

(* The datasets that page p can show when the first n are stored *)
RowsOf(p, n) == Cardinality({ i \in 1 .. n : p \in {Current, DayOf[i]} })

(* ValidDataCache::dataAtDay, read when n datasets were stored *)
DataAtDay(d, n) == \E i \in 1 .. n : DayOf[i] = d

-----------------------------------------------------------------------------
(* A dataset is stored and a generator started.  (An older one may see the *)
(* dataset before; that is a new one that is slow to take its first step.) *)
Running == { g \in Gen : pc[g] \notin {"idle", "done"} }

Dataset ==
  /\ datasets < Len(DayOf)
  /\ Cardinality(Running) < MaxRunning
  /\ datasets' = datasets + 1
  /\ Goto(datasets + 1, "open")
  /\ met' = met \union (IF Running = {} THEN {} ELSE Running \union {datasets + 1})
  /\ UNCHANGED <<job, opened, seen, buffer, fileVars, lockVars, faults, missed>>

(* VeteroReportgen::openDatabase *)
OpenDatabase(g) ==
  /\ pc[g] = "open"
  /\ Goto(g, "lock")
  /\ opened' = [opened EXCEPT ![g] = datasets]
  /\ UNCHANGED <<datasets, job, seen, buffer, fileVars, lockVars, history>>

(* The process ends, its memory is gone. *)
Exit(g) ==
  /\ Goto(g, "done")
  /\ opened' = [opened EXCEPT ![g] = 0]

(* openDatabase throws; main reports it. *)
OpenFails(g) ==
  /\ pc[g] = "open"
  /\ Exit(g)
  /\ faults' = faults + 1
  /\ UNCHANGED <<datasets, job, seen, buffer, fileVars, lockVars, missed, met>>

(* Mutant of LockShared: a lock that cannot be had is done without. *)
LockNonBlocking(g) ==
  /\ pc[g] = "lock"
  /\ Goto(g, "query")
  /\ shared' = shared \union {g}
  /\ UNCHANGED <<datasets, job, opened, seen, buffer, fileVars, exclusive, history>>

(* The constructor of ReportGenerator: flock(LOCK_SH), which waits for the *)
(* holder of the exclusive lock.                                           *)
LockShared(g) ==
  /\ pc[g] = "lock"
  /\ exclusive = {}
  /\ Goto(g, "query")
  /\ shared' = shared \union {g}
  /\ UNCHANGED <<datasets, job, opened, seen, buffer, fileVars, exclusive, history>>

Query(g) ==
  /\ pc[g] = "query"
  /\ Goto(g, "plot")
  /\ seen' = [seen EXCEPT ![g] = datasets]
  /\ UNCHANGED <<datasets, job, opened, buffer, fileVars, lockVars, history>>

(* Gnuplot::plot without data only warns; the diagram is not touched. *)
PlotNothing(g) ==
  /\ pc[g] = "plot"
  /\ RowsOf(ThePage(g), seen[g]) = 0
  /\ Goto(g, "document")
  /\ UNCHANGED <<datasets, job, opened, seen, buffer, fileVars, lockVars, history>>

(* Gnuplot::plot: gnuplot executes "set output" ... *)
Plot(g) ==
  /\ pc[g] = "plot"
  /\ RowsOf(ThePage(g), seen[g]) > 0
  /\ OpenFile(g, Diagram(g))
  /\ Goto(g, "plotting")
  /\ UNCHANGED <<datasets, job, opened, seen, buffer, lockVars, history>>

Plotted(g) ==
  [whole |-> TRUE, gz |-> 0, rows |-> RowsOf(ThePage(g), seen[g]), next |-> FALSE]

(* ... and pclose waits until it has ended. *)
ClosePlot(g) ==
  /\ pc[g] = "plotting"
  /\ CloseFile(g, Plotted(g))
  /\ Goto(g, "read")
  /\ UNCHANGED <<datasets, job, opened, seen, buffer, lockVars, history>>

(* compress_file *)
ReadFile(g) ==
  /\ pc[g] = "read"
  /\ buffer' = [buffer EXCEPT ![g] = file[Diagram(g)]]
  /\ Goto(g, "gzopen")
  /\ UNCHANGED <<datasets, job, opened, seen, fileVars, lockVars, history>>

GzOpen(g) ==
  /\ pc[g] = "gzopen"
  /\ OpenFile(g, Diagram(g))
  /\ Goto(g, "gzipping")
  /\ UNCHANGED <<datasets, job, opened, seen, buffer, lockVars, history>>

Compressed(c) == IF c.whole THEN [c EXCEPT !.gz = c.gz + 1] ELSE Torn

GzClose(g) ==
  /\ pc[g] = "gzipping"
  /\ CloseFile(g, Compressed(buffer[g]))
  /\ Goto(g, "document")
  /\ buffer' = [buffer EXCEPT ![g] = Torn]
  /\ UNCHANGED <<datasets, job, opened, seen, lockVars, history>>

(* createHtml or createJSON *)
OpenDocument(g) ==
  /\ pc[g] = "document"
  /\ OpenFile(g, Document(g))
  /\ Goto(g, "writing")
  /\ UNCHANGED <<datasets, job, opened, seen, buffer, lockVars, history>>

(* Mutant of TheDocument: the forward link is tested with the day itself. *)
LinkToItself(g) ==
  [whole |-> TRUE, gz |-> 0, rows |-> RowsOf(ThePage(g), seen[g]),
   next |-> ThePage(g) # Current /\ DataAtDay(ThePage(g), opened[g])]

TheDocument(g) ==
  [whole |-> TRUE, gz |-> 0, rows |-> RowsOf(ThePage(g), seen[g]),
   next |-> ThePage(g) # Current /\ DataAtDay(ThePage(g) + 1, opened[g])]

(* Mutant of Unlock: the destructor closes nothing and unlocks nothing. *)
KeepLock(g) == shared' = shared

(* ~LockFile *)
Unlock(g) == shared' = shared \ {g}

(* The generator object of the job is destroyed and the next job begins. *)
EndJob(g) ==
  /\ Unlock(g)
  /\ job' = [job EXCEPT ![g] = job[g] + 1]
  /\ seen' = [seen EXCEPT ![g] = 0]
  /\ Goto(g, IF job[g] = Len(Jobs(g)) THEN "uplock" ELSE "lock")

CloseDocument(g) ==
  /\ pc[g] = "writing"
  /\ CloseFile(g, TheDocument(g))
  /\ EndJob(g)
  /\ missed' = missed \ {ThePage(g)}
  /\ UNCHANGED <<datasets, opened, buffer, exclusive, faults, met>>

(* An exception in a job: exec logs it and goes on with the next one.  A   *)
(* file that is open stays as it is, cut off.  Writing the document is not *)
(* checked for errors, only opening it.                                    *)
JobFails(g) ==
  /\ pc[g] \in (InJob \ {"writing"}) \union {"lock"}
  /\ faults' = faults + 1
  /\ missed' = missed \union {ThePage(g)}
  /\ writing' = [writing EXCEPT ![g] = NoFile]
  /\ dirty' = dirty \ {g}
  /\ buffer' = [buffer EXCEPT ![g] = Torn]
  /\ EndJob(g)
  /\ UNCHANGED <<datasets, opened, file, exclusive, met>>

(* uploadReports: flock(LOCK_EX) waits for every holder, also for one that *)
(* is a forgotten descriptor of the same process.                          *)
LockExclusive(g) ==
  /\ pc[g] = "uplock"
  /\ exclusive = {} /\ shared = {}
  /\ exclusive' = {g}
  /\ Goto(g, "uploading")
  /\ UNCHANGED <<datasets, job, opened, seen, buffer, fileVars, shared, history>>

(* system() has returned, the LockFile is destroyed, the process ends. *)
EndUpload(g) ==
  /\ pc[g] = "uploading"
  /\ exclusive' = exclusive \ {g}
  /\ Exit(g)
  /\ UNCHANGED <<datasets, job, seen, buffer, fileVars, shared, history>>

(* The directory cannot be opened: uploadReports returns. *)
UploadFails(g) ==
  /\ pc[g] = "uplock"
  /\ Exit(g)
  /\ faults' = faults + 1
  /\ UNCHANGED <<datasets, job, seen, buffer, fileVars, lockVars, missed, met>>

Step(g) ==
  \/ OpenDatabase(g) \/ LockShared(g) \/ Query(g)
  \/ PlotNothing(g) \/ Plot(g) \/ ClosePlot(g) \/ ReadFile(g) \/ GzOpen(g) \/ GzClose(g)
  \/ OpenDocument(g) \/ CloseDocument(g)
  \/ LockExclusive(g) \/ EndUpload(g)

Failure(g) ==
  /\ faults < MaxFaults
  /\ OpenFails(g) \/ JobFails(g) \/ UploadFails(g)

Next == Dataset \/ \E g \in Gen : Step(g) \/ Failure(g)

Spec == Init /\ [][Next]_vars

(* A process that is not waiting for a lock goes on, and flock wakes the   *)
(* processes that wait.                                                    *)
FairSpec == Spec /\ \A g \in Gen : WF_vars(Step(g))

-----------------------------------------------------------------------------
(* While the upload command reads the directory no generator is in a job   *)
(* or has a file open, and there is one upload at a time: the uploaded     *)
(* pages are never caught half-written (vetero_reportgen.cc:168).          *)
UploadAlone ==
  \A g \in Gen : pc[g] = "uploading" =>
     \A h \in Gen \ {g} : pc[h] \notin InJob /\ pc[h] # "uploading" /\ writing[h] = NoFile

(* The generators, with their processes, jobs and locks, use the directory *)
(* as LockFile promises: all that is written is written by one that works  *)
(* in it, and from the start of an upload to its end nothing is            *)
(* (lockfile.h:36, vetero_reportgen.cc:168).                               *)
Directory ==
  INSTANCE ReportDirectory
    WITH Generator <- Gen,
         users     <- { g \in Gen : pc[g] \in InJob },
         uploading <- { g \in Gen : pc[g] = "uploading" },
         content   <- file
ImplementsDirectory == Directory!Spec

(* Generator g is through with a job for page p, and it did not fail. *)
Made(g, p) ==
  p \notin missed /\ \E i \in DOMAIN Jobs(g) : Jobs(g)[i] = p /\ i < job[g]

(* Generator g is the latest one that was asked for page p. *)
IsLatest(g, p) ==
  g <= datasets /\ p \in Asks(g) /\ \A h \in g + 1 .. datasets : p \notin Asks(h)

(* Page p shows all the data of its day, once compressed, and links to the *)
(* next day when that has data.                                            *)
Complete(p) ==
  LET rows    == RowsOf(p, datasets)
      links   == p # Current /\ DataAtDay(p + 1, datasets)
      diagram == [whole |-> TRUE, gz |-> 1, rows |-> rows, next |-> FALSE]
  IN  /\ rows > 0 => file[<<p, "diagram">>] = diagram
      /\ file[<<p, "document">>] =
           [whole |-> TRUE, gz |-> 0, rows |-> rows, next |-> links]

(* A page whose latest job did not fail, in a generator that was alone at  *)
(* work, is complete, whatever failed and whichever generators got in each *)
(* other's way before: each page is made anew as a whole, and the day that *)
(* ended is made once more after the first dataset of the next one         *)
(* (veterod.cc:410).                                                       *)
PagesComplete ==
  \A g \in Gen \ met : \A p \in Asks(g) : IsLatest(g, p) /\ Made(g, p) => Complete(p)

(* Generator g waits for a lock that somebody else holds. *)
Waits(g) ==
  \/ pc[g] = "lock" /\ exclusive # {}
  \/ pc[g] = "uplock" /\ (exclusive # {} \/ shared # {})

(* While a generator is at work, one of them does not wait for a lock: the *)
(* lock of a job is gone before the process asks for that of the upload    *)
(* (lockfile.h:36), so nobody waits in a circle.                           *)
SomebodyProceeds == Running # {} => \E g \in Running : ~Waits(g)

(* Every generator that is started ends: no two of them wait for each      *)
(* other's locks, nor one for its own (lockfile.h:36).                     *)
GeneratorsEnd == \A g \in Gen : (g <= datasets) ~> (pc[g] = "done")

-----------------------------------------------------------------------------
(* What the sources say, and generators that overlap do not keep.          *)

(* "The output file must be SVG and will be automatically compressed"      *)
(* (gnuplot.h:115): it is compressed once.                                 *)
CompressedOnce == \A f \in File : file[f].gz <= 1
=============================================================================
