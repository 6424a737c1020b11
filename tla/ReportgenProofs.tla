--------------------------- MODULE ReportgenProofs --------------------------
(***************************************************************************)
(* Proofs about the report generators: for any number of them, any days    *)
(* and any failures, an upload runs alone, nobody waits in a circle, and   *)
(* the pages of a generator that worked alone are complete.                *)
(***************************************************************************)
EXTENDS Reportgen, FiniteSetTheorems, SequenceTheorems, TLAPS

(* A generator that holds the shared lock or waits for it has a job left,  *)
(* and it has a file open exactly while it is writing one.                 *)
Busy(g) ==
  /\ pc[g] \in InJob \union {"lock"} => job[g] \in DOMAIN Jobs(g)
  /\ pc[g] \in {"idle", "open"} => job[g] = 1
  /\ writing[g] # NoFile <=> pc[g] \in {"plotting", "gzipping", "writing"}

(* Who uploads is the only one, and nobody is in a job. *)
Exclusion == \A g, h \in Gen : pc[g] = "uploading" /\ pc[h] = "uploading" => g = h
NoReader  == \A g, h \in Gen : pc[g] = "uploading" => pc[h] \notin InJob

(* Generators are started in order. *)
InOrder == \A g \in Gen : g > datasets => pc[g] = "idle"

ReportgenInv ==
  TypeOK /\ (\A g \in Gen : Busy(g)) /\ InOrder /\ Exclusion /\ NoReader

-----------------------------------------------------------------------------
(* Every generator has at least two jobs, and no more than three. *)
LEMMA JobsType ==
  ASSUME NEW g \in Gen
  PROVE  /\ Jobs(g) \in Seq(Page)
         /\ Len(Jobs(g)) \in {2, 3}
         /\ \A i \in DOMAIN Jobs(g) : Jobs(g)[i] \in Page
<1>1. DayOf \in Seq(Nat \ {0})
  BY DatasetAssumption
<1>2. DayOf[g] \in Nat
  BY <1>1 DEF Gen
<1> DEFINE tail == IF g > 1 /\ DayOf[g] # DayOf[g - 1] THEN <<DayOf[g] - 1>> ELSE <<>>
<1>3. tail \in Seq(Int) /\ Len(tail) \in {0, 1}
  BY <1>2
<1>4. <<Current, DayOf[g]>> \in Seq(Int) /\ Len(<<Current, DayOf[g]>>) = 2
  BY <1>2 DEF Current
<1>5. Jobs(g) \in Seq(Int) /\ Len(Jobs(g)) \in {2, 3}
  BY <1>3, <1>4 DEF Jobs
<1>6. \A i \in DOMAIN Jobs(g) : Jobs(g)[i] \in Page
  BY DEF Page, Asks
<1> QED
  BY <1>5, <1>6

(* The number of rows a page can show is a natural number. *)
LEMMA RowsOfType ==
  ASSUME NEW p, NEW n \in Nat
  PROVE  RowsOf(p, n) \in Nat
<1>1. IsFiniteSet(1 .. n)
  BY FS_Interval
<1>2. IsFiniteSet({ i \in 1 .. n : p \in {Current, DayOf[i]} })
  BY <1>1, FS_Subset
<1> QED
  BY <1>2, FS_CardinalityType DEF RowsOf

-----------------------------------------------------------------------------
LEMMA InitInv == Init => ReportgenInv
<1> SUFFICES ASSUME Init PROVE ReportgenInv
  OBVIOUS
<1>1. Len(DayOf) \in Nat
  BY DatasetAssumption
<1>2. TypeOK
  BY <1>1 DEF Init, TypeOK, PC, InJob, Content, Torn
<1>3. \A g \in Gen : Busy(g)
  BY DEF Init, Busy, InJob
<1>4. InOrder /\ Exclusion /\ NoReader
  BY DEF Init, InOrder, Exclusion, NoReader
<1> QED
  BY <1>2, <1>3, <1>4 DEF ReportgenInv

(* Opening and closing a file keeps the directory well typed. *)
LEMMA OpenFileType ==
  ASSUME TypeOK, NEW g \in Gen, NEW f \in File, OpenFile(g, f)
  PROVE  /\ file' \in [File -> Content]
         /\ writing' \in [Gen -> File \union {NoFile}]
         /\ writing' = [writing EXCEPT ![g] = f]
         /\ dirty' \subseteq Gen
BY DEF TypeOK, OpenFile, Content, Torn

LEMMA CloseFileType ==
  ASSUME TypeOK, NEW g \in Gen, NEW c \in Content, CloseFile(g, c)
  PROVE  /\ file' \in [File -> Content]
         /\ writing' \in [Gen -> File \union {NoFile}]
         /\ writing' = [writing EXCEPT ![g] = NoFile]
         /\ dirty' \subseteq Gen
<1>1. Torn \in Content
  BY DEF Torn, Content
<1> QED
  BY <1>1 DEF TypeOK, CloseFile

(* The files of the page at hand are files of the directory. *)
LEMMA TheFiles ==
  ASSUME NEW g \in Gen, job[g] \in DOMAIN Jobs(g)
  PROVE  Diagram(g) \in File /\ Document(g) \in File
         /\ Diagram(g) # NoFile /\ Document(g) # NoFile
BY JobsType DEF Diagram, Document, File, ThePage, NoFile

-----------------------------------------------------------------------------
(* Each step of a generator preserves the invariant. *)
LEMMA GenInv ==
  ASSUME ReportgenInv, NEW g \in Gen, Step(g) \/ Failure(g)
  PROVE  ReportgenInv'
<1> USE DEF ReportgenInv
<1>0. /\ pc \in [Gen -> PC] /\ job \in [Gen -> Nat]
      /\ writing \in [Gen -> File \union {NoFile}]
      /\ Torn \in Content
  BY DEF TypeOK, Torn, Content
<1>1. CASE OpenDatabase(g)
  <2>3. TypeOK'
    BY <1>0, <1>1, JobsType DEF OpenDatabase, Goto, fileVars, lockVars, history, TypeOK, Busy, PC, InJob
  <2>2. 1 \in DOMAIN Jobs(g)
    BY JobsType
  <2>4. \A h \in Gen : Busy(h)'
    BY <1>0, <1>1, <2>2 DEF OpenDatabase, Goto, fileVars, lockVars, history, TypeOK, Busy, PC, InJob
  <2>5. InOrder' /\ Exclusion' /\ NoReader'
    BY <1>0, <1>1 DEF OpenDatabase, Goto, fileVars, lockVars, history, TypeOK, InOrder, Exclusion, NoReader, PC, InJob
  <2> QED
    BY <2>3, <2>4, <2>5
<1>2. CASE LockShared(g)
  <2>3. TypeOK'
    BY <1>0, <1>2 DEF LockShared, Goto, fileVars, lockVars, history, TypeOK, Busy, PC, InJob
  <2>4. \A h \in Gen : Busy(h)'
    BY <1>0, <1>2 DEF LockShared, Goto, fileVars, lockVars, history, TypeOK, Busy, PC, InJob
  <2>5. InOrder' /\ Exclusion' /\ NoReader'
    BY <1>0, <1>2 DEF LockShared, Goto, fileVars, lockVars, history, TypeOK, InOrder, Exclusion, NoReader, PC, InJob
  <2> QED
    BY <2>3, <2>4, <2>5
<1>3. CASE Query(g)
  <2>3. TypeOK'
    BY <1>0, <1>3 DEF Query, Goto, fileVars, lockVars, history, TypeOK, Busy, PC, InJob
  <2>4. \A h \in Gen : Busy(h)'
    BY <1>0, <1>3 DEF Query, Goto, fileVars, lockVars, history, TypeOK, Busy, PC, InJob
  <2>5. InOrder' /\ Exclusion' /\ NoReader'
    BY <1>0, <1>3 DEF Query, Goto, fileVars, lockVars, history, TypeOK, InOrder, Exclusion, NoReader, PC, InJob
  <2> QED
    BY <2>3, <2>4, <2>5
<1>4. CASE PlotNothing(g)
  <2>3. TypeOK'
    BY <1>0, <1>4 DEF PlotNothing, Goto, fileVars, lockVars, history, TypeOK, Busy, PC, InJob
  <2>4. \A h \in Gen : Busy(h)'
    BY <1>0, <1>4 DEF PlotNothing, Goto, fileVars, lockVars, history, TypeOK, Busy, PC, InJob
  <2>5. InOrder' /\ Exclusion' /\ NoReader'
    BY <1>0, <1>4 DEF PlotNothing, Goto, fileVars, lockVars, history, TypeOK, InOrder, Exclusion, NoReader, PC, InJob
  <2> QED
    BY <2>3, <2>4, <2>5
<1>5. CASE Plot(g)
  <2>1. Diagram(g) \in File /\ Diagram(g) # NoFile
    BY <1>5, TheFiles DEF Plot, Busy, InJob
  <2>2. /\ file' \in [File -> Content] /\ dirty' \subseteq Gen
        /\ writing' \in [Gen -> File \union {NoFile}]
        /\ writing' = [writing EXCEPT ![g] = Diagram(g)]
    BY <1>5, <2>1, OpenFileType DEF Plot
  <2>3. TypeOK'
    BY <1>0, <1>5, <2>1, <2>2 DEF Plot, Goto, lockVars, history, TypeOK, Busy, PC, InJob
  <2>4. \A h \in Gen : Busy(h)'
    BY <1>0, <1>5, <2>1, <2>2 DEF Plot, Goto, lockVars, history, TypeOK, Busy, PC, InJob
  <2>5. InOrder' /\ Exclusion' /\ NoReader'
    BY <1>0, <1>5, <2>1, <2>2 DEF Plot, Goto, lockVars, history, TypeOK, InOrder, Exclusion, NoReader, PC, InJob
  <2> QED
    BY <2>3, <2>4, <2>5
<1>6. CASE ClosePlot(g)
  <2>1. Plotted(g) \in Content
    BY RowsOfType DEF TypeOK, Plotted, Content
  <2>2. /\ file' \in [File -> Content] /\ dirty' \subseteq Gen
        /\ writing' \in [Gen -> File \union {NoFile}]
        /\ writing' = [writing EXCEPT ![g] = NoFile]
    BY <1>6, <2>1, CloseFileType DEF ClosePlot
  <2>3. TypeOK'
    BY <1>0, <1>6, <2>1, <2>2 DEF ClosePlot, Goto, lockVars, history, TypeOK, Busy, PC, InJob
  <2>4. \A h \in Gen : Busy(h)'
    BY <1>0, <1>6, <2>1, <2>2 DEF ClosePlot, Goto, lockVars, history, TypeOK, Busy, PC, InJob
  <2>5. InOrder' /\ Exclusion' /\ NoReader'
    BY <1>0, <1>6, <2>1, <2>2 DEF ClosePlot, Goto, lockVars, history, TypeOK, InOrder, Exclusion, NoReader, PC, InJob
  <2> QED
    BY <2>3, <2>4, <2>5
<1>7. CASE ReadFile(g)
  <2>1. Diagram(g) \in File
    BY <1>7, TheFiles DEF ReadFile, Busy, InJob
  <2>3. TypeOK'
    BY <1>0, <1>7, <2>1 DEF ReadFile, Goto, fileVars, lockVars, history, TypeOK, Busy, PC, InJob
  <2>4. \A h \in Gen : Busy(h)'
    BY <1>0, <1>7, <2>1 DEF ReadFile, Goto, fileVars, lockVars, history, TypeOK, Busy, PC, InJob
  <2>5. InOrder' /\ Exclusion' /\ NoReader'
    BY <1>0, <1>7, <2>1 DEF ReadFile, Goto, fileVars, lockVars, history, TypeOK, InOrder, Exclusion, NoReader, PC, InJob
  <2> QED
    BY <2>3, <2>4, <2>5
<1>8. CASE GzOpen(g)
  <2>1. Diagram(g) \in File /\ Diagram(g) # NoFile
    BY <1>8, TheFiles DEF GzOpen, Busy, InJob
  <2>2. /\ file' \in [File -> Content] /\ dirty' \subseteq Gen
        /\ writing' \in [Gen -> File \union {NoFile}]
        /\ writing' = [writing EXCEPT ![g] = Diagram(g)]
    BY <1>8, <2>1, OpenFileType DEF GzOpen
  <2>3. TypeOK'
    BY <1>0, <1>8, <2>1, <2>2 DEF GzOpen, Goto, lockVars, history, TypeOK, Busy, PC, InJob
  <2>4. \A h \in Gen : Busy(h)'
    BY <1>0, <1>8, <2>1, <2>2 DEF GzOpen, Goto, lockVars, history, TypeOK, Busy, PC, InJob
  <2>5. InOrder' /\ Exclusion' /\ NoReader'
    BY <1>0, <1>8, <2>1, <2>2 DEF GzOpen, Goto, lockVars, history, TypeOK, InOrder, Exclusion, NoReader, PC, InJob
  <2> QED
    BY <2>3, <2>4, <2>5
<1>9. CASE GzClose(g)
  <2>0. buffer[g] \in Content
    BY DEF TypeOK
  <2>1. Compressed(buffer[g]) \in Content
    BY <2>0, <1>0 DEF Compressed, Content
  <2>2. /\ file' \in [File -> Content] /\ dirty' \subseteq Gen
        /\ writing' \in [Gen -> File \union {NoFile}]
        /\ writing' = [writing EXCEPT ![g] = NoFile]
    BY <1>9, <2>1, CloseFileType DEF GzClose
  <2>3. TypeOK'
    BY <1>0, <1>9, <2>1, <2>2 DEF GzClose, Goto, lockVars, history, TypeOK, Busy, PC, InJob
  <2>4. \A h \in Gen : Busy(h)'
    BY <1>0, <1>9, <2>1, <2>2 DEF GzClose, Goto, lockVars, history, TypeOK, Busy, PC, InJob
  <2>5. InOrder' /\ Exclusion' /\ NoReader'
    BY <1>0, <1>9, <2>1, <2>2 DEF GzClose, Goto, lockVars, history, TypeOK, InOrder, Exclusion, NoReader, PC, InJob
  <2> QED
    BY <2>3, <2>4, <2>5
<1>10. CASE OpenDocument(g)
  <2>1. Document(g) \in File /\ Document(g) # NoFile
    BY <1>10, TheFiles DEF OpenDocument, Busy, InJob
  <2>2. /\ file' \in [File -> Content] /\ dirty' \subseteq Gen
        /\ writing' \in [Gen -> File \union {NoFile}]
        /\ writing' = [writing EXCEPT ![g] = Document(g)]
    BY <1>10, <2>1, OpenFileType DEF OpenDocument
  <2>3. TypeOK'
    BY <1>0, <1>10, <2>1, <2>2 DEF OpenDocument, Goto, lockVars, history, TypeOK, Busy, PC, InJob
  <2>4. \A h \in Gen : Busy(h)'
    BY <1>0, <1>10, <2>1, <2>2 DEF OpenDocument, Goto, lockVars, history, TypeOK, Busy, PC, InJob
  <2>5. InOrder' /\ Exclusion' /\ NoReader'
    BY <1>0, <1>10, <2>1, <2>2 DEF OpenDocument, Goto, lockVars, history, TypeOK, InOrder, Exclusion, NoReader, PC, InJob
  <2> QED
    BY <2>3, <2>4, <2>5
<1>11. CASE CloseDocument(g)
  <2>1. TheDocument(g) \in Content
    BY RowsOfType DEF TypeOK, TheDocument, Content
  <2>2. /\ file' \in [File -> Content] /\ dirty' \subseteq Gen
        /\ writing' \in [Gen -> File \union {NoFile}]
        /\ writing' = [writing EXCEPT ![g] = NoFile]
    BY <1>11, <2>1, CloseFileType DEF CloseDocument
  <2>3. TypeOK'
    BY <1>0, <1>11, <2>1, <2>2, JobsType DEF CloseDocument, Goto, lockVars, history, EndJob, Unlock, TypeOK, Busy, PC, InJob
  <2>4. \A h \in Gen : Busy(h)'
    BY <1>0, <1>11, <2>1, <2>2, JobsType DEF CloseDocument, Goto, lockVars, history, EndJob, Unlock, TypeOK, Busy, PC, InJob
  <2>5. InOrder' /\ Exclusion' /\ NoReader'
    BY <1>0, <1>11, <2>1, <2>2 DEF CloseDocument, Goto, lockVars, history, EndJob, Unlock, TypeOK, InOrder, Exclusion, NoReader, PC, InJob
  <2> QED
    BY <2>3, <2>4, <2>5
<1>12. CASE LockExclusive(g)
  <2>3. TypeOK'
    BY <1>0, <1>12 DEF LockExclusive, Goto, fileVars, lockVars, history, TypeOK, Busy, PC, InJob
  <2>4. \A h \in Gen : Busy(h)'
    BY <1>0, <1>12 DEF LockExclusive, Goto, fileVars, lockVars, history, TypeOK, Busy, PC, InJob
  <2>5. InOrder' /\ Exclusion' /\ NoReader'
    BY <1>0, <1>12 DEF LockExclusive, Goto, fileVars, lockVars, history, TypeOK, InOrder, Exclusion, NoReader, PC, InJob
  <2> QED
    BY <2>3, <2>4, <2>5
<1>13. CASE EndUpload(g)
  <2>3. TypeOK'
    BY <1>0, <1>13 DEF EndUpload, Exit, Goto, fileVars, lockVars, history, TypeOK, Busy, PC, InJob
  <2>4. \A h \in Gen : Busy(h)'
    BY <1>0, <1>13 DEF EndUpload, Exit, Goto, fileVars, lockVars, history, TypeOK, Busy, PC, InJob
  <2>5. InOrder' /\ Exclusion' /\ NoReader'
    BY <1>0, <1>13 DEF EndUpload, Exit, Goto, fileVars, lockVars, history, TypeOK, InOrder, Exclusion, NoReader, PC, InJob
  <2> QED
    BY <2>3, <2>4, <2>5
<1>14. CASE OpenFails(g)
  <2>3. TypeOK'
    BY <1>0, <1>14 DEF OpenFails, Exit, Goto, fileVars, lockVars, history, TypeOK, Busy, PC, InJob
  <2>4. \A h \in Gen : Busy(h)'
    BY <1>0, <1>14 DEF OpenFails, Exit, Goto, fileVars, lockVars, history, TypeOK, Busy, PC, InJob
  <2>5. InOrder' /\ Exclusion' /\ NoReader'
    BY <1>0, <1>14 DEF OpenFails, Exit, Goto, fileVars, lockVars, history, TypeOK, InOrder, Exclusion, NoReader, PC, InJob
  <2> QED
    BY <2>3, <2>4, <2>5
<1>15. CASE JobFails(g)
  <2>1. ThePage(g) \in Page
    BY <1>15, JobsType DEF JobFails, ThePage, Busy
  <2>2. /\ file' \in [File -> Content] /\ missed' \subseteq Page /\ faults' \in Nat
        /\ dirty' \subseteq Gen /\ met' \subseteq Gen
    BY <1>15, <2>1 DEF JobFails, TypeOK
  <2>3. TypeOK'
    BY <1>0, <1>15, <2>2, JobsType DEF JobFails, Goto, fileVars, lockVars, history, EndJob, Unlock, TypeOK, Busy, PC, InJob
  <2>4. \A h \in Gen : Busy(h)'
    BY <1>0, <1>15, JobsType DEF JobFails, Goto, fileVars, lockVars, history, EndJob, Unlock, TypeOK, Busy, PC, InJob
  <2>5. InOrder' /\ Exclusion' /\ NoReader'
    BY <1>0, <1>15 DEF JobFails, Goto, fileVars, lockVars, history, EndJob, Unlock, TypeOK, InOrder, Exclusion, NoReader, PC, InJob
  <2> QED
    BY <2>3, <2>4, <2>5
<1>16. CASE UploadFails(g)
  <2>3. TypeOK'
    BY <1>0, <1>16 DEF UploadFails, Exit, Goto, fileVars, lockVars, history, TypeOK, Busy, PC, InJob
  <2>4. \A h \in Gen : Busy(h)'
    BY <1>0, <1>16 DEF UploadFails, Exit, Goto, fileVars, lockVars, history, TypeOK, Busy, PC, InJob
  <2>5. InOrder' /\ Exclusion' /\ NoReader'
    BY <1>0, <1>16 DEF UploadFails, Exit, Goto, fileVars, lockVars, history, TypeOK, InOrder, Exclusion, NoReader, PC, InJob
  <2> QED
    BY <2>3, <2>4, <2>5
<1> QED
  BY <1>1, <1>2, <1>3, <1>4, <1>5, <1>6, <1>7, <1>8, <1>9, <1>10, <1>11, <1>12, <1>13, <1>14, <1>15, <1>16 DEF Step, Failure

LEMMA StepInv == ReportgenInv /\ [Next]_vars => ReportgenInv'
<1> SUFFICES ASSUME ReportgenInv, [Next]_vars PROVE ReportgenInv'
  OBVIOUS
<1>1. CASE Dataset
  <2>1. datasets + 1 \in Gen /\ Len(DayOf) \in Nat
    BY <1>1, DatasetAssumption DEF Dataset, ReportgenInv, TypeOK, Gen
  <2>2. pc[datasets + 1] = "idle" /\ datasets \in Nat
    BY <2>1 DEF ReportgenInv, TypeOK, InOrder
  <2>3. /\ pc \in [Gen -> PC] /\ job \in [Gen -> Nat]
        /\ pc' = [pc EXCEPT ![datasets + 1] = "open"]
    BY <1>1 DEF Dataset, Goto, ReportgenInv, TypeOK
  <2>4. met' \subseteq Gen
    BY <1>1, <2>1 DEF Dataset, Running, ReportgenInv, TypeOK
  <2>5. TypeOK'
    <3>1. datasets' \in 0 .. Len(DayOf)
      BY <1>1, <2>1, <2>2 DEF Dataset
    <3>2. pc' \in [Gen -> PC]
      BY <2>3 DEF PC
    <3>3. /\ shared' = { g \in Gen : pc'[g] \in InJob }
          /\ exclusive' = { g \in Gen : pc'[g] = "uploading" }
      <4>1. /\ shared = { g \in Gen : pc[g] \in InJob }
            /\ exclusive = { g \in Gen : pc[g] = "uploading" }
            /\ shared' = shared /\ exclusive' = exclusive
        BY <1>1 DEF Dataset, lockVars, ReportgenInv, TypeOK
      <4>2. \A g \in Gen : /\ pc'[g] \in InJob <=> pc[g] \in InJob
                           /\ pc'[g] = "uploading" <=> pc[g] = "uploading"
        BY <2>2, <2>3 DEF InJob
      <4> QED
        BY <4>1, <4>2
    <3> QED
      BY <1>1, <2>4, <3>1, <3>2, <3>3 DEF Dataset, fileVars, history, ReportgenInv, TypeOK
  <2>6. \A h \in Gen : Busy(h)'
    BY <1>1, <2>1, <2>2, <2>3 DEF Dataset, Goto, fileVars, lockVars, history, ReportgenInv, TypeOK, Busy, PC, InJob
  <2>7. InOrder'
    <3>1. \A h \in Gen : h \in Nat
      BY DatasetAssumption DEF Gen
    <3> QED
      BY <1>1, <2>2, <2>3, <3>1 DEF Dataset, ReportgenInv, InOrder
  <2>8. Exclusion' /\ NoReader'
    BY <1>1, <2>1, <2>2, <2>3 DEF ReportgenInv, Exclusion, NoReader, PC, InJob
  <2> QED
    BY <2>5, <2>6, <2>7, <2>8 DEF ReportgenInv
<1>2. CASE \E g \in Gen : Step(g) \/ Failure(g)
  BY <1>2, GenInv
<1>3. CASE UNCHANGED vars
  BY <1>3 DEF vars, procVars, fileVars, lockVars, history, ReportgenInv, TypeOK, Busy, InOrder, Exclusion, NoReader,
              Diagram, Document, ThePage
<1> QED
  BY <1>1, <1>2, <1>3 DEF Next

LEMMA ReportgenInvariant == Spec => []ReportgenInv
<1> QED
  BY InitInv, StepInv, PTL DEF Spec

(* The locks held are always those of the generators that are in a job or  *)
(* upload, for any number of generators and any failures.                  *)
THEOREM TypeCorrect == Spec => []TypeOK
BY ReportgenInvariant, PTL DEF ReportgenInv

LEMMA InvUpload == ReportgenInv => UploadAlone
BY DEF ReportgenInv, Busy, Exclusion, NoReader, UploadAlone, InJob

(* While an upload reads the directory nobody is in a job, has a file open *)
(* or uploads (vetero_reportgen.cc:168), for any number of generators.     *)
THEOREM UploadAloneHolds == Spec => []UploadAlone
BY ReportgenInvariant, InvUpload, PTL

(* A generator that holds a lock is in a job or uploads: it does not wait. *)
LEMMA InvProceeds == ReportgenInv => SomebodyProceeds
<1> SUFFICES ASSUME ReportgenInv, Running # {}
             PROVE  \E g \in Running : ~Waits(g)
  BY DEF SomebodyProceeds
<1>1. /\ shared = { g \in Gen : pc[g] \in InJob }
      /\ exclusive = { g \in Gen : pc[g] = "uploading" }
  BY DEF ReportgenInv, TypeOK
<1>2. CASE shared = {} /\ exclusive = {}
  BY <1>2 DEF Waits
<1>3. CASE shared # {}
  BY <1>1, <1>3 DEF Running, Waits, InJob
<1>4. CASE exclusive # {}
  BY <1>1, <1>4 DEF Running, Waits
<1> QED
  BY <1>2, <1>3, <1>4

(* No generators wait for each other's locks in a circle (lockfile.h:36),  *)
(* however many there are: as long as one is at work, one can go on.       *)
THEOREM SomebodyProceedsHolds == Spec => []SomebodyProceeds
BY ReportgenInvariant, InvProceeds, PTL
-----------------------------------------------------------------------------
(* Reportgen implements ReportDirectory.                                   *)

(* What a step does to the users of the directory: g enters it, works in   *)
(* it, leaves it, or has nothing to do with it.                            *)
LEMMA StepOfUser ==
  ASSUME ReportgenInv, NEW g \in Gen, Step(g) \/ Failure(g),
         pc[g] \in InJob, exclusive = {}
  PROVE  [Directory!Next]_(Directory!vars)
<1>1. pc \in [Gen -> PC] /\ Torn \in Content
  BY DEF ReportgenInv, TypeOK, Torn, Content
<1>2. /\ g \in { h \in Gen : pc[h] \in InJob }
      /\ g \notin { h \in Gen : pc[h] = "uploading" }
  BY DEF InJob
<1>3. CASE \E l \in InJob : Goto(g, l)
  <2>1. /\ { h \in Gen : pc'[h] \in InJob } = { h \in Gen : pc[h] \in InJob }
        /\ { h \in Gen : pc'[h] = "uploading" } = { h \in Gen : pc[h] = "uploading" }
    BY <1>1, <1>3 DEF Goto, InJob
  <2>2. Directory!Write(g)
    BY <1>2, <2>1 DEF Directory!Write
  <2> QED
    BY <2>2 DEF Directory!Next
<1>4. CASE \E l \in {"lock", "uplock"} : Goto(g, l)
  <2>1. /\ { h \in Gen : pc'[h] \in InJob } = { h \in Gen : pc[h] \in InJob } \ {g}
        /\ { h \in Gen : pc'[h] = "uploading" } = { h \in Gen : pc[h] = "uploading" }
    BY <1>1, <1>4 DEF Goto, InJob
  <2>2. Directory!Leave(g)
    BY <1>2, <2>1 DEF Directory!Leave
  <2> QED
    BY <2>2 DEF Directory!Next
<1> QED
  BY <1>3, <1>4 DEF Step, Failure, InJob, OpenDatabase, LockShared, Query, PlotNothing, Plot, ClosePlot,
       ReadFile, GzOpen, GzClose, OpenDocument, CloseDocument, LockExclusive, EndUpload,
       OpenFails, JobFails, UploadFails, EndJob

LEMMA StepOfOther ==
  ASSUME ReportgenInv, NEW g \in Gen, Step(g) \/ Failure(g), pc[g] \notin InJob
  PROVE  [Directory!Next]_(Directory!vars)
<1> DEFINE Users == { h \in Gen : pc[h] \in InJob }
           Ups   == { h \in Gen : pc[h] = "uploading" }
<1>1. pc \in [Gen -> PC] /\ shared = Users /\ exclusive = Ups
  BY DEF ReportgenInv, TypeOK
<1>2. file' = file
  BY DEF Step, Failure, InJob, OpenDatabase, LockShared, Query, PlotNothing, Plot, ClosePlot,
       ReadFile, GzOpen, GzClose, OpenDocument, CloseDocument, LockExclusive, EndUpload,
       OpenFails, JobFails, UploadFails, fileVars
<1>3. CASE LockShared(g)
  <2>1. Ups = {} /\ Users' = Users \union {g} /\ Ups' = Ups
    BY <1>1, <1>3 DEF LockShared, Goto, InJob
  <2>2. Directory!Enter(g)
    BY <1>2, <2>1 DEF Directory!Enter
  <2> QED
    BY <2>2 DEF Directory!Next
<1>4. CASE LockExclusive(g)
  <2>1. Users = {} /\ Ups = {} /\ Users' = Users /\ Ups' = {g}
    BY <1>1, <1>4 DEF LockExclusive, Goto, InJob
  <2>2. Directory!StartUpload(g)
    BY <1>2, <2>1 DEF Directory!StartUpload
  <2> QED
    BY <2>2 DEF Directory!Next
<1>5. CASE EndUpload(g)
  <2>1. Ups = {g} /\ Users' = Users /\ Ups' = {}
    BY <1>1, <1>5 DEF EndUpload, Exit, Goto, InJob, ReportgenInv, Exclusion
  <2>2. Directory!EndUpload(g)
    BY <1>2, <2>1 DEF Directory!EndUpload
  <2> QED
    BY <2>2 DEF Directory!Next
<1>6. CASE OpenDatabase(g) \/ OpenFails(g) \/ JobFails(g) \/ UploadFails(g)
  <2>1. /\ pc[g] # "uploading"
        /\ \E l \in {"lock", "uplock", "done"} : pc' = [pc EXCEPT ![g] = l]
    BY <1>6 DEF OpenDatabase, OpenFails, JobFails, UploadFails, EndJob, Exit, Goto, InJob
  <2>2. Users' = Users /\ Ups' = Ups
    BY <1>1, <2>1 DEF InJob
  <2> QED
    BY <1>2, <2>2 DEF Directory!vars
<1> QED
  BY <1>3, <1>4, <1>5, <1>6 DEF Step, Failure, InJob, Query, PlotNothing, Plot, ClosePlot,
       ReadFile, GzOpen, GzClose, OpenDocument, CloseDocument

LEMMA DirectoryInit == Init => Directory!Init
BY DEF Init, Directory!Init, InJob

LEMMA DirectoryStep ==
  ReportgenInv /\ [Next]_vars => [Directory!Next]_(Directory!vars)
<1> SUFFICES ASSUME ReportgenInv, [Next]_vars
             PROVE  [Directory!Next]_(Directory!vars)
  OBVIOUS
<1>1. pc \in [Gen -> PC] /\ exclusive = { h \in Gen : pc[h] = "uploading" }
  BY DEF ReportgenInv, TypeOK
<1>2. CASE Dataset
  <2>1. pc[datasets + 1] = "idle" /\ datasets + 1 \in Gen
    BY <1>2, DatasetAssumption DEF Dataset, ReportgenInv, TypeOK, InOrder, Gen
  <2>2. /\ { h \in Gen : pc'[h] \in InJob } = { h \in Gen : pc[h] \in InJob }
        /\ { h \in Gen : pc'[h] = "uploading" } = { h \in Gen : pc[h] = "uploading" }
    BY <1>1, <1>2, <2>1 DEF Dataset, Goto, InJob
  <2> QED
    BY <1>2, <2>2 DEF Dataset, fileVars, Directory!vars
<1>3. CASE \E g \in Gen : Step(g) \/ Failure(g)
  <2>1. PICK g \in Gen : Step(g) \/ Failure(g)
    BY <1>3
  <2>2. CASE pc[g] \in InJob
    <3>1. exclusive = {}
      BY <1>1, <2>2 DEF ReportgenInv, NoReader
    <3> QED
      BY <2>1, <2>2, <3>1, StepOfUser
  <2>3. CASE pc[g] \notin InJob
    BY <2>1, <2>3, StepOfOther
  <2> QED
    BY <2>2, <2>3
<1>4. CASE UNCHANGED vars
  BY <1>4 DEF vars, procVars, fileVars, Directory!vars
<1> QED
  BY <1>2, <1>3, <1>4 DEF Next

(* The generators, however many and whatever fails, use the directory as   *)
(* LockFile promises (lockfile.h:36): what is written is written by one    *)
(* that works in it, and nothing is from the start of an upload to its end.*)
THEOREM ImplementsDirectoryHolds == Spec => ImplementsDirectory
<1>1. ReportgenInv /\ [Next]_vars => [Directory!Next]_(Directory!vars)
  BY DirectoryStep
<1>2. Init => Directory!Init
  BY DirectoryInit
<1> QED
  BY <1>1, <1>2, ReportgenInvariant, PTL DEF Spec, ImplementsDirectory, Directory!Spec
-----------------------------------------------------------------------------
(* A page is complete when its latest generator was alone at work.         *)

(* A generator that has met no other shares no file with one, nobody of    *)
(* before it is still at work, and no dataset came while it was.           *)
NotDisturbed ==
  \A g \in Gen \ met :
    /\ g \notin dirty
    /\ g <= datasets => \A h \in Running : h >= g
    /\ g \in Running => datasets = g

WritesItsPage ==
  \A g \in Gen :
    /\ pc[g] \in {"plotting", "gzipping"} => writing[g] = Diagram(g)
    /\ pc[g] = "writing" => writing[g] = Document(g)

(* What such a generator knows is what the database holds, and what it has *)
(* made so far of the page at hand is what it knows.                       *)
UpToDate(g) ==
  /\ pc[g] # "open" => opened[g] = datasets
  /\ pc[g] \in InJob \ {"query"} => seen[g] = datasets
  /\ pc[g] \in {"plotting", "read", "gzopen", "gzipping"} => RowsOf(ThePage(g), seen[g]) > 0
  /\ pc[g] = "read" => file[Diagram(g)] = Plotted(g)
  /\ pc[g] \in {"gzopen", "gzipping"} => buffer[g] = Plotted(g)
  /\ pc[g] \in {"document", "writing"} /\ RowsOf(ThePage(g), seen[g]) > 0 =>
       file[Diagram(g)] = Compressed(Plotted(g))

CompleteInv ==
  /\ ReportgenInv /\ NotDisturbed /\ WritesItsPage
  /\ \A g \in Running \ met : UpToDate(g)
  /\ PagesComplete

LEMMA GenNumbers ==
  /\ DayOf \in Seq(Nat) /\ Len(DayOf) \in Nat /\ Gen = 1 .. Len(DayOf)
  /\ \A g \in Gen : g \in Nat /\ DayOf[g] \in Nat /\ DayOf[g] > 0
<1>1. DayOf \in Seq(Nat \ {0})
  BY DatasetAssumption
<1> QED
  BY <1>1 DEF Gen

LEMMA TheJobs ==
  ASSUME NEW g \in Gen
  PROVE  /\ Jobs(g)[1] = Current /\ Jobs(g)[2] = DayOf[g]
         /\ IF g > 1 /\ DayOf[g] # DayOf[g - 1]
              THEN DOMAIN Jobs(g) = 1 .. 3 /\ Jobs(g)[3] = DayOf[g] - 1
              ELSE DOMAIN Jobs(g) = 1 .. 2
<1> DEFINE head == <<Current, DayOf[g]>>
           tail == IF g > 1 /\ DayOf[g] # DayOf[g - 1] THEN <<DayOf[g] - 1>> ELSE <<>>
<1>1. /\ head \in Seq(Int) /\ Len(head) = 2 /\ head[1] = Current /\ head[2] = DayOf[g]
  BY GenNumbers DEF Current
<1>2. /\ tail \in Seq(Int)
      /\ IF g > 1 /\ DayOf[g] # DayOf[g - 1] THEN Len(tail) = 1 /\ tail[1] = DayOf[g] - 1
                                             ELSE Len(tail) = 0
  BY GenNumbers
<1>3. Jobs(g) = head \o tail
  BY DEF Jobs
<1> HIDE DEF head, tail
<1>4. /\ Len(head \o tail) = 2 + Len(tail) /\ DOMAIN (head \o tail) = 1 .. 2 + Len(tail)
      /\ (head \o tail)[1] = head[1] /\ (head \o tail)[2] = head[2]
      /\ Len(tail) = 1 => (head \o tail)[3] = tail[1]
  <2>1. /\ head \o tail \in Seq(Int) /\ Len(head \o tail) = Len(head) + Len(tail)
        /\ \A i \in 1 .. Len(head) + Len(tail) :
             (head \o tail)[i] = IF i <= Len(head) THEN head[i] ELSE tail[i - Len(head)]
    BY <1>1, <1>2, ConcatProperties
  <2>2. Len(tail) \in {0, 1} /\ Len(head) = 2
    BY <1>1, <1>2
  <2>3. Len(head \o tail) = 2 + Len(tail) /\ DOMAIN (head \o tail) = 1 .. 2 + Len(tail)
    BY <2>1, <2>2
  <2> DEFINE all == head \o tail
             n == Len(tail)
  <2>4. /\ \A i \in 1 .. 2 + n : all[i] = IF i <= 2 THEN head[i] ELSE tail[i - 2]
        /\ n \in {0, 1}
    BY <2>1, <2>2
  <2> HIDE DEF all, n
  <2>5. all[1] = head[1] /\ all[2] = head[2] /\ (n = 1 => all[3] = tail[1])
    BY <2>4
  <2> QED
    BY <2>3, <2>5 DEF all, n
<1> DEFINE jobs == head \o tail
           n == Len(tail)
           more == g > 1 /\ DayOf[g] # DayOf[g - 1]
<1>5. /\ DOMAIN jobs = 1 .. 2 + n /\ jobs[1] = Current /\ jobs[2] = DayOf[g]
      /\ n = 1 => jobs[3] = tail[1]
  BY <1>1, <1>4
<1>6. IF more THEN n = 1 /\ tail[1] = DayOf[g] - 1 ELSE n = 0
  BY <1>2
<1>7. Jobs(g) = jobs
  BY <1>3
<1> HIDE DEF jobs, n, more
<1>8. /\ jobs[1] = Current /\ jobs[2] = DayOf[g]
      /\ IF more THEN DOMAIN jobs = 1 .. 3 /\ jobs[3] = DayOf[g] - 1
                 ELSE DOMAIN jobs = 1 .. 2
  BY <1>5, <1>6, SMT
<1> QED
  BY <1>7, <1>8, Zenon DEF more

LEMMA JobsInt ==
  ASSUME NEW g \in Gen, NEW i \in DOMAIN Jobs(g)
  PROVE  Jobs(g)[i] \in Int
<1>1. DayOf[g] \in Nat
  BY GenNumbers
<1> QED
  BY <1>1, TheJobs DEF Current

(* No page has two jobs in one generator: the day before is none of which  *)
(* the first day is the next.                                              *)
LEMMA JobsDiffer ==
  ASSUME NEW g \in Gen, NEW i \in DOMAIN Jobs(g), NEW j \in DOMAIN Jobs(g),
         Jobs(g)[i] = Jobs(g)[j]
  PROVE  i = j
<1>1. g \in Nat /\ DayOf[g] \in Nat /\ DayOf[g] > 0
  BY GenNumbers
<1>2. Jobs(g)[1] = 0 /\ Jobs(g)[2] = DayOf[g]
  BY TheJobs DEF Current
<1>3. CASE g > 1 /\ DayOf[g] # DayOf[g - 1]
  <2>1. g - 1 \in Gen /\ g - 1 \in DOMAIN DayOf /\ g \in DOMAIN DayOf
    BY <1>3, GenNumbers DEF Gen
  <2>2. DayOf[g - 1] <= DayOf[g] /\ DayOf[g - 1] \in Nat /\ DayOf[g - 1] > 0
    BY <1>1, <2>1, GenNumbers, DatasetAssumption
  <2>3. DayOf[g] - 1 > 0
    BY <1>1, <1>3, <2>2
  <2>4. Jobs(g)[3] = DayOf[g] - 1 /\ DOMAIN Jobs(g) = 1 .. 3
    BY <1>3, TheJobs
  <2> QED
    BY <1>1, <1>2, <2>3, <2>4
<1>4. CASE ~(g > 1 /\ DayOf[g] # DayOf[g - 1])
  <2>1. DOMAIN Jobs(g) = 1 .. 2
    BY <1>4, TheJobs
  <2> QED
    BY <1>1, <1>2, <2>1
<1> QED
  BY <1>3, <1>4

(* A dataset whose generator is not asked for a page changes nothing of    *)
(* what the page has to show: not the rows of its day, and neither is it   *)
(* the first one of the next day (veterod.cc:410).                         *)
LEMMA AskedWhenChanged ==
  ASSUME NEW n \in Nat, n > 0, n + 1 \in Gen, NEW p \in Int, p \notin Asks(n + 1)
  PROVE  /\ p # Current /\ RowsOf(p, n + 1) = RowsOf(p, n)
         /\ DataAtDay(p + 1, n + 1) <=> DataAtDay(p + 1, n)
<1> DEFINE h == n + 1
<1>1. h \in Gen /\ h > 1 /\ h - 1 = n /\ n \in Gen
  BY GenNumbers
<1>2. DayOf[h] \in Int /\ DayOf[n] \in Int
  BY <1>1, GenNumbers
<1>3. /\ Current \in Asks(h) /\ DayOf[h] \in Asks(h)
      /\ DayOf[h] # DayOf[h - 1] => DayOf[h] - 1 \in Asks(h)
  <2>1. 1 \in DOMAIN Jobs(h) /\ 2 \in DOMAIN Jobs(h)
        /\ (DayOf[h] # DayOf[h - 1] => 3 \in DOMAIN Jobs(h) /\ Jobs(h)[3] = DayOf[h] - 1)
    BY <1>1, TheJobs
  <2> QED
    BY <1>1, <2>1, TheJobs DEF Asks
<1>4. p # Current /\ DayOf[h] # p
  BY <1>3
<1>5. RowsOf(p, h) = RowsOf(p, n)
  <2>1. { i \in 1 .. h : p \in {Current, DayOf[i]} } = { i \in 1 .. n : p \in {Current, DayOf[i]} }
    BY <1>4
  <2> QED
    BY <2>1 DEF RowsOf
<1>6. DataAtDay(p + 1, h) => DataAtDay(p + 1, n)
  <2>1. DayOf[h] = p + 1 => DayOf[n] = p + 1
    BY <1>1, <1>2, <1>3
  <2> QED
    BY <1>1, <2>1 DEF DataAtDay
<1> QED
  BY <1>4, <1>5, <1>6 DEF DataAtDay
-----------------------------------------------------------------------------
LEMMA Alone ==
  ASSUME ReportgenInv, NotDisturbed, NEW k \in Running \ met, NEW g \in Running
  PROVE  g = k
<1>1. g \in Gen /\ k \in Gen /\ g \in Nat /\ k \in Nat /\ datasets \in Nat
  BY GenNumbers DEF Running, ReportgenInv, TypeOK
<1>2. g <= datasets /\ k <= datasets
  BY <1>1 DEF Running, ReportgenInv, InOrder
<1>3. g >= k /\ k = datasets
  BY <1>1, <1>2 DEF NotDisturbed
<1> QED
  BY <1>1, <1>2, <1>3

(* A generator's step does nothing to another one. *)
LEMMA OnlyItself ==
  ASSUME ReportgenInv, NEW g \in Gen, Step(g) \/ Failure(g)
  PROVE  /\ g \in Running /\ Running' \subseteq Running
         /\ datasets' = datasets /\ met' = met
         /\ \A h \in Gen \ {g} : pc'[h] = pc[h] /\ job'[h] = job[h] /\ writing'[h] = writing[h]
<1>0. /\ pc \in [Gen -> PC] /\ job \in [Gen -> Nat]
      /\ writing \in [Gen -> File \union {NoFile}]
  BY DEF ReportgenInv, TypeOK
<1>1. g \in Running
  BY DEF Step, Failure, InJob, OpenDatabase, LockShared, Query, PlotNothing, Plot, ClosePlot,
       ReadFile, GzOpen, GzClose, OpenDocument, CloseDocument, LockExclusive, EndUpload,
       OpenFails, JobFails, UploadFails, Running
<1>2. datasets' = datasets /\ met' = met
  BY DEF Step, Failure, OpenDatabase, LockShared, Query, PlotNothing, Plot, ClosePlot,
       ReadFile, GzOpen, GzClose, OpenDocument, CloseDocument, LockExclusive, EndUpload,
       OpenFails, JobFails, UploadFails, history
<1>3. \A h \in Gen \ {g} : pc'[h] = pc[h]
  BY <1>0 DEF Step, Failure, OpenDatabase, LockShared, Query, PlotNothing, Plot, ClosePlot,
       ReadFile, GzOpen, GzClose, OpenDocument, CloseDocument, LockExclusive, EndUpload,
       OpenFails, JobFails, UploadFails, Goto, Exit, EndJob
<1>4. \A h \in Gen \ {g} : job'[h] = job[h]
  BY <1>0 DEF Step, Failure, OpenDatabase, LockShared, Query, PlotNothing, Plot, ClosePlot,
       ReadFile, GzOpen, GzClose, OpenDocument, CloseDocument, LockExclusive, EndUpload,
       OpenFails, JobFails, UploadFails, EndJob
<1>5. \A h \in Gen \ {g} : writing'[h] = writing[h]
  BY <1>0 DEF Step, Failure, OpenDatabase, LockShared, Query, PlotNothing, Plot, ClosePlot,
       ReadFile, GzOpen, GzClose, OpenDocument, CloseDocument, LockExclusive, EndUpload,
       OpenFails, JobFails, UploadFails, OpenFile, CloseFile, fileVars
<1> QED
  BY <1>1, <1>2, <1>3, <1>4, <1>5 DEF Running

(* It touches no page but the one its job is about, and its job is about   *)
(* one it was asked for; without a job it touches none.                    *)
LEMMA OnlyItsPage ==
  ASSUME ReportgenInv, WritesItsPage, NEW g \in Gen, Step(g) \/ Failure(g)
  PROVE  \/ UNCHANGED <<file, missed, job>>
         \/ /\ pc[g] \in InJob \union {"lock"}
            /\ job[g] \in DOMAIN Jobs(g) /\ ThePage(g) \in Asks(g) /\ ThePage(g) \in Page
            /\ \A p \in Page \ {ThePage(g)} :
                 /\ p \in missed' <=> p \in missed
                 /\ \A x \in {"diagram", "document"} : file'[<<p, x>>] = file[<<p, x>>]
<1> USE DEF ReportgenInv
<1>0. file \in [File -> Content] /\ \A p \in Page : \A x \in {"diagram", "document"} : <<p, x>> \in File
  BY DEF TypeOK, File
<1>1. CASE pc[g] \notin InJob \union {"lock"}
  BY <1>1 DEF Step, Failure, InJob, OpenDatabase, LockShared, Query, PlotNothing, Plot, ClosePlot,
       ReadFile, GzOpen, GzClose, OpenDocument, CloseDocument, LockExclusive, EndUpload,
       OpenFails, JobFails, UploadFails, fileVars, history
<1>2. CASE pc[g] \in InJob \union {"lock"}
  <2>1. job[g] \in DOMAIN Jobs(g)
    BY <1>2 DEF Busy
  <2>2. ThePage(g) \in Asks(g) /\ ThePage(g) \in Page
    BY <2>1, JobsType DEF ThePage, Asks
  <2>3. \A p \in Page \ {ThePage(g)} : p \in missed' <=> p \in missed
    BY DEF Step, Failure, OpenDatabase, LockShared, Query, PlotNothing, Plot, ClosePlot,
       ReadFile, GzOpen, GzClose, OpenDocument, CloseDocument, LockExclusive, EndUpload,
       OpenFails, JobFails, UploadFails, history
  <2>4. \A f \in File : f \notin {Diagram(g), Document(g)} => file'[f] = file[f]
    BY <1>0 DEF Step, Failure, OpenDatabase, LockShared, Query, PlotNothing, Plot, ClosePlot,
       ReadFile, GzOpen, GzClose, OpenDocument, CloseDocument, LockExclusive, EndUpload,
       OpenFails, JobFails, UploadFails, OpenFile, CloseFile, fileVars, WritesItsPage
  <2>5. \A p \in Page \ {ThePage(g)} : \A x \in {"diagram", "document"} : file'[<<p, x>>] = file[<<p, x>>]
    BY <1>0, <2>4 DEF Diagram, Document
  <2> QED
    BY <1>2, <2>1, <2>2, <2>3, <2>5
<1> QED
  BY <1>1, <1>2
-----------------------------------------------------------------------------
(* Each step of a generator keeps it so. *)
LEMMA GenNotDisturbed ==
  ASSUME ReportgenInv, NotDisturbed, NEW g \in Gen, Step(g) \/ Failure(g)
  PROVE  NotDisturbed'
<1>1. /\ g \in Running /\ Running' \subseteq Running
      /\ datasets' = datasets /\ met' = met
  BY OnlyItself
<1>2. \A h \in Gen : writing[h] # NoFile => h \in Running
  BY DEF ReportgenInv, Busy, Running
<1>3. \A k \in Gen \ met : k \notin dirty'
  <2> SUFFICES ASSUME NEW k \in Gen \ met PROVE k \notin dirty'
    OBVIOUS
  <2>1. k \notin dirty
    BY DEF NotDisturbed
  <2>2. CASE Plot(g) \/ GzOpen(g) \/ OpenDocument(g)
    <3>1. PICK f \in {Diagram(g), Document(g)} : OpenFile(g, f)
      BY <2>2 DEF Plot, GzOpen, OpenDocument
    <3>2. f # NoFile
      <4>1. job[g] \in DOMAIN Jobs(g)
        BY <2>2 DEF Plot, GzOpen, OpenDocument, ReportgenInv, Busy, InJob
      <4> QED
        BY <3>1, <4>1, TheFiles
    <3> DEFINE others == { h \in Gen \ {g} : writing[h] = f }
    <3>3. others \subseteq Running \ {g}
      BY <1>2, <3>2
    <3>4. k \notin others
      BY <1>1, <3>3, Alone
    <3>5. k = g => others = {}
      BY <1>1, <3>3, Alone
    <3> QED
      BY <2>1, <3>1, <3>4, <3>5 DEF OpenFile
  <2>3. CASE ~(Plot(g) \/ GzOpen(g) \/ OpenDocument(g))
    BY <2>1, <2>3 DEF Step, Failure, OpenDatabase, LockShared, Query, PlotNothing, ClosePlot,
       ReadFile, GzClose, CloseDocument, LockExclusive, EndUpload,
       OpenFails, JobFails, UploadFails, CloseFile, fileVars
  <2> QED
    BY <2>2, <2>3
<1> QED
  BY <1>1, <1>3 DEF NotDisturbed

LEMMA GenWritesItsPage ==
  ASSUME ReportgenInv, WritesItsPage, NEW g \in Gen, Step(g) \/ Failure(g)
  PROVE  WritesItsPage'
<1>0. /\ pc \in [Gen -> PC] /\ job \in [Gen -> Nat]
      /\ writing \in [Gen -> File \union {NoFile}]
  BY DEF ReportgenInv, TypeOK
<1>1. \A h \in Gen \ {g} : pc'[h] = pc[h] /\ job'[h] = job[h] /\ writing'[h] = writing[h]
  BY OnlyItself
<1>2. \A h \in Gen \ {g} :
        /\ pc'[h] \in {"plotting", "gzipping"} => writing'[h] = Diagram(h)'
        /\ pc'[h] = "writing" => writing'[h] = Document(h)'
  BY <1>1 DEF WritesItsPage, Diagram, Document, ThePage
<1>3. /\ pc'[g] \in {"plotting", "gzipping"} => writing'[g] = Diagram(g)'
      /\ pc'[g] = "writing" => writing'[g] = Document(g)'
  <2>1. CASE Plot(g)
    BY <1>0, <2>1 DEF Plot, OpenFile, Goto, Diagram, ThePage
  <2>2. CASE GzOpen(g)
    BY <1>0, <2>2 DEF GzOpen, OpenFile, Goto, Diagram, ThePage
  <2>3. CASE OpenDocument(g)
    BY <1>0, <2>3 DEF OpenDocument, OpenFile, Goto, Document, ThePage
  <2>4. CASE ~(Plot(g) \/ GzOpen(g) \/ OpenDocument(g))
    <3>1. pc'[g] \notin {"plotting", "gzipping", "writing"}
      BY <1>0, <2>4 DEF Step, Failure, OpenDatabase, LockShared, Query, PlotNothing, ClosePlot,
         ReadFile, GzClose, CloseDocument, LockExclusive, EndUpload,
         OpenFails, JobFails, UploadFails, Goto, Exit, EndJob
    <3> QED
      BY <3>1
  <2> QED
    BY <2>1, <2>2, <2>3, <2>4
<1> QED
  BY <1>2, <1>3 DEF WritesItsPage

(* What CloseFile leaves when no other one had the file open. *)
LEMMA ClosedAlone ==
  ASSUME TypeOK, NEW g \in Gen, g \notin dirty, NEW f \in File, writing[g] = f,
         NEW c, CloseFile(g, c)
  PROVE  file' = [file EXCEPT ![f] = c] /\ file'[f] = c
BY DEF TypeOK, CloseFile

LEMMA GenUpToDate ==
  ASSUME ReportgenInv, NotDisturbed, WritesItsPage, NEW g \in Gen, g \notin met, UpToDate(g),
         Step(g) \/ Failure(g), pc'[g] # "done"
  PROVE  UpToDate(g)'
<1>0. /\ pc \in [Gen -> PC] /\ job \in [Gen -> Nat] /\ file \in [File -> Content]
      /\ opened \in [Gen -> Nat] /\ seen \in [Gen -> Nat] /\ buffer \in [Gen -> Content]
  BY DEF ReportgenInv, TypeOK
<1>1. g \notin dirty /\ datasets' = datasets
  BY OnlyItself DEF NotDisturbed
<1>2. pc[g] \in InJob => Diagram(g) \in File /\ Document(g) \in File /\ Diagram(g) # Document(g)
  BY TheFiles DEF ReportgenInv, Busy, Diagram, Document
<1>3. CASE OpenDatabase(g)
  BY <1>0, <1>3 DEF OpenDatabase, Goto, UpToDate, InJob
<1>4. CASE LockShared(g)
  BY <1>0, <1>4 DEF LockShared, Goto, UpToDate, InJob
<1>5. CASE Query(g)
  BY <1>0, <1>1, <1>5 DEF Query, Goto, UpToDate, InJob
<1>6. CASE PlotNothing(g)
  BY <1>0, <1>1, <1>6 DEF PlotNothing, Goto, UpToDate, InJob, ThePage, Diagram, Plotted
<1>7. CASE Plot(g)
  BY <1>0, <1>1, <1>7 DEF Plot, Goto, UpToDate, InJob, ThePage, Diagram, Plotted
<1>8. CASE ClosePlot(g)
  <2>1. file'[Diagram(g)] = Plotted(g)
    BY <1>1, <1>2, <1>8, ClosedAlone DEF ClosePlot, WritesItsPage, ReportgenInv, InJob
  <2> QED
    BY <1>0, <1>1, <1>8, <2>1 DEF ClosePlot, Goto, UpToDate, InJob, ThePage, Diagram, Plotted
<1>9. CASE ReadFile(g)
  BY <1>0, <1>1, <1>9 DEF ReadFile, Goto, UpToDate, InJob, ThePage, Diagram, Plotted, fileVars
<1>10. CASE GzOpen(g)
  BY <1>0, <1>1, <1>10 DEF GzOpen, Goto, UpToDate, InJob, ThePage, Diagram, Plotted
<1>11. CASE GzClose(g)
  <2>1. file'[Diagram(g)] = Compressed(Plotted(g))
    BY <1>1, <1>2, <1>11, ClosedAlone DEF GzClose, WritesItsPage, ReportgenInv, UpToDate, InJob
  <2>2. Compressed(Plotted(g))' = Compressed(Plotted(g)) /\ Diagram(g)' = Diagram(g)
    BY <1>11 DEF GzClose, ThePage, Plotted, Diagram
  <2> QED
    BY <1>0, <1>1, <1>11, <2>1, <2>2 DEF GzClose, Goto, UpToDate, InJob
<1>12. CASE OpenDocument(g)
  <2>1. file'[Diagram(g)] = file[Diagram(g)]
    BY <1>0, <1>2, <1>12 DEF OpenDocument, OpenFile, InJob
  <2>2. Compressed(Plotted(g))' = Compressed(Plotted(g)) /\ Diagram(g)' = Diagram(g)
    BY <1>12 DEF OpenDocument, ThePage, Plotted, Diagram
  <2>3. RowsOf(ThePage(g), seen[g])' = RowsOf(ThePage(g), seen[g])
    BY <1>12 DEF OpenDocument, ThePage
  <2> QED
    BY <1>0, <1>1, <1>12, <2>1, <2>2, <2>3 DEF OpenDocument, Goto, UpToDate, InJob
<1>13. CASE CloseDocument(g) \/ JobFails(g)
  <2>1. pc'[g] \in {"lock", "uplock"} /\ pc[g] # "open" /\ opened' = opened
    BY <1>0, <1>13 DEF CloseDocument, JobFails, EndJob, Goto, InJob
  <2> QED
    BY <1>1, <2>1 DEF UpToDate, InJob
<1>14. CASE LockExclusive(g)
  BY <1>0, <1>1, <1>14 DEF LockExclusive, Goto, UpToDate, InJob
<1>15. CASE EndUpload(g) \/ OpenFails(g) \/ UploadFails(g)
  BY <1>0, <1>15 DEF EndUpload, OpenFails, UploadFails, Exit, Goto
<1> QED
  BY <1>3, <1>4, <1>5, <1>6, <1>7, <1>8, <1>9, <1>10, <1>11, <1>12, <1>13, <1>14, <1>15 DEF Step, Failure
-----------------------------------------------------------------------------
LEMMA SameContent ==
  ASSUME NEW c \in Content, NEW d \in Content,
         c.whole = d.whole, c.gz = d.gz, c.rows = d.rows, c.next = d.next
  PROVE  c = d
BY DEF Content

LEMMA CompressedOnceMore ==
  ASSUME NEW c \in Content, c.whole
  PROVE  Compressed(c) = [whole |-> TRUE, gz |-> c.gz + 1, rows |-> c.rows, next |-> c.next]
<1> DEFINE r == [c EXCEPT !.gz = c.gz + 1]
           s == [whole |-> TRUE, gz |-> c.gz + 1, rows |-> c.rows, next |-> c.next]
<1>1. r \in Content /\ s \in Content
  BY DEF Content
<1>2. r.whole = s.whole /\ r.gz = s.gz /\ r.rows = s.rows /\ r.next = s.next
  BY DEF Content
<1> HIDE DEF r, s
<1>3. r = s
  BY <1>1, <1>2, SameContent
<1> QED
  BY <1>3 DEF Compressed, r, s

(* The last file of a page is written: the page is complete. *)
LEMMA PageMade ==
  ASSUME ReportgenInv, NotDisturbed, WritesItsPage, NEW g \in Gen, g \notin met, UpToDate(g),
         CloseDocument(g), NEW p \in Page, p = ThePage(g)
  PROVE  Complete(p)'
<1>1. /\ g \in Running /\ datasets' = datasets /\ job[g] \in DOMAIN Jobs(g)
      /\ g \notin dirty /\ Document(g) \in File /\ Diagram(g) \in File
  BY TheFiles DEF CloseDocument, Running, NotDisturbed, ReportgenInv, Busy, InJob
<1>2. /\ file' = [file EXCEPT ![Document(g)] = TheDocument(g)]
      /\ file'[Document(g)] = TheDocument(g)
  BY <1>1, ClosedAlone DEF CloseDocument, WritesItsPage, ReportgenInv
<1>3. opened[g] = datasets /\ seen[g] = datasets
  BY DEF UpToDate, CloseDocument, InJob
<1> DEFINE n == RowsOf(p, datasets)
<1>4. n > 0 => file'[<<p, "diagram">>] = [whole |-> TRUE, gz |-> 1, rows |-> n, next |-> FALSE]
  <2>1. Diagram(g) # Document(g)
    BY DEF Diagram, Document
  <2>2. file'[Diagram(g)] = file[Diagram(g)]
    BY <1>1, <1>2, <2>1 DEF ReportgenInv, TypeOK
  <2>3. n > 0 => file[Diagram(g)] = Compressed(Plotted(g))
    BY <1>3 DEF UpToDate, CloseDocument
  <2>4. Compressed(Plotted(g)) = [whole |-> TRUE, gz |-> 1, rows |-> n, next |-> FALSE]
    <3>1. Plotted(g) = [whole |-> TRUE, gz |-> 0, rows |-> n, next |-> FALSE]
      BY <1>3 DEF Plotted
    <3>2. n \in Nat
      BY RowsOfType DEF ReportgenInv, TypeOK
    <3> DEFINE c == Plotted(g)
    <3> HIDE DEF n
    <3>3. c \in Content /\ c.whole /\ c.gz + 1 = 1 /\ c.rows = n /\ c.next = FALSE
      BY <3>1, <3>2 DEF Content
    <3> HIDE DEF c
    <3>4. Compressed(c) = [whole |-> TRUE, gz |-> 1, rows |-> n, next |-> FALSE]
      BY <3>3, CompressedOnceMore
    <3> QED
      BY <3>4 DEF c
  <2> QED
    BY <2>2, <2>3, <2>4 DEF Diagram
<1>5. file'[<<p, "document">>] = [whole |-> TRUE, gz |-> 0, rows |-> n,
        next |-> p # Current /\ DataAtDay(p + 1, datasets)]
  BY <1>2, <1>3 DEF TheDocument, Document
<1>6. RowsOf(p, datasets)' = n /\ DataAtDay(p + 1, datasets)' = DataAtDay(p + 1, datasets)
  BY <1>1
<1> QED
  BY <1>4, <1>5, <1>6 DEF Complete

(* A page that nobody touches stays complete when no dataset comes. *)
LEMMA StaysComplete ==
  ASSUME NEW p, Complete(p), datasets' = datasets,
         \A x \in {"diagram", "document"} : file'[<<p, x>>] = file[<<p, x>>]
  PROVE  Complete(p)'
<1>1. RowsOf(p, datasets)' = RowsOf(p, datasets)
      /\ DataAtDay(p + 1, datasets)' = DataAtDay(p + 1, datasets)
  OBVIOUS
<1> QED
  BY <1>1 DEF Complete

LEMMA GenPagesComplete ==
  ASSUME CompleteInv, NEW g \in Gen, Step(g) \/ Failure(g)
  PROVE  PagesComplete'
<1> USE DEF CompleteInv
<1>1. /\ g \in Running /\ datasets' = datasets /\ met' = met
      /\ \A h \in Gen \ {g} : job'[h] = job[h]
  BY OnlyItself
<1>2. /\ job \in [Gen -> Nat] /\ datasets \in Nat
      /\ \A h \in Gen : h \in Nat
  BY GenNumbers DEF ReportgenInv, TypeOK
<1> SUFFICES ASSUME NEW k \in Gen \ met, NEW p \in Asks(k), IsLatest(k, p)', Made(k, p)'
             PROVE  Complete(p)'
  BY <1>1 DEF PagesComplete
<1>3. IsLatest(k, p) /\ p \in Page
  BY <1>1 DEF IsLatest, Page
<1>4. p \notin missed'
  BY DEF Made
<1>5. PICK i \in DOMAIN Jobs(k) : Jobs(k)[i] = p /\ i < job'[k]
  BY DEF Made
<1>6. ASSUME i < job[k], p # ThePage(g) \/ UNCHANGED <<file, missed, job>>
      PROVE  Complete(p)'
  <2>1. /\ p \in missed' <=> p \in missed
        /\ \A x \in {"diagram", "document"} : file'[<<p, x>>] = file[<<p, x>>]
    BY <1>3, <1>6, OnlyItsPage
  <2>2. Made(k, p)
    BY <1>4, <1>5, <1>6, <2>1 DEF Made
  <2>3. Complete(p)
    BY <1>3, <2>2 DEF PagesComplete
  <2> QED
    BY <1>1, <2>1, <2>3, StaysComplete
<1>7. CASE g # k
  <2>1. g > k /\ g <= datasets
    BY <1>1, <1>2, <1>3, <1>7 DEF NotDisturbed, IsLatest, Running, ReportgenInv, InOrder
  <2>2. p \notin Asks(g)
    BY <1>2, <1>3, <2>1 DEF IsLatest
  <2>3. p # ThePage(g) \/ UNCHANGED <<file, missed, job>>
    BY <2>2, OnlyItsPage
  <2>4. i < job[k]
    BY <1>1, <1>5, <1>7
  <2> QED
    BY <1>6, <2>3, <2>4
<1>8. CASE g = k
  <2>0. UpToDate(g)
    BY <1>1, <1>8
  <2>1. CASE i < job[k]
    <3>1. p # ThePage(g) \/ UNCHANGED <<file, missed, job>>
      <4>1. job[g] \in DOMAIN Jobs(g) => p # ThePage(g)
        BY <1>2, <1>5, <1>8, <2>1, JobsDiffer DEF ThePage
      <4> QED
        BY <4>1, OnlyItsPage
    <3> QED
      BY <1>6, <2>1, <3>1
  <2>2. CASE ~(i < job[k])
    <3>1. CloseDocument(g) \/ JobFails(g)
      BY <1>5, <1>8, <2>2 DEF Step, Failure, OpenDatabase, LockShared, Query, PlotNothing, Plot, ClosePlot,
       ReadFile, GzOpen, GzClose, OpenDocument, CloseDocument, LockExclusive, EndUpload,
       OpenFails, JobFails, UploadFails
    <3>2. job'[g] = job[g] + 1 /\ job[g] \in DOMAIN Jobs(g)
      BY <1>2, <3>1 DEF CloseDocument, JobFails, EndJob, ReportgenInv, Busy, InJob
    <3>3. i = job[g] /\ p = ThePage(g)
      <4>1. i \in Nat
        BY JobsType
      <4> QED
        BY <1>2, <1>5, <1>8, <2>2, <3>2, <4>1 DEF ThePage
    <3>4. CloseDocument(g)
      BY <1>4, <3>1, <3>3 DEF JobFails
    <3> QED
      BY <1>3, <1>8, <2>0, <3>3, <3>4, PageMade
  <2> QED
    BY <2>1, <2>2
<1> QED
  BY <1>7, <1>8

-----------------------------------------------------------------------------
(* A dataset comes, and its generator is the latest one. *)
LEMMA DatasetNumbers ==
  ASSUME ReportgenInv, Dataset
  PROVE  /\ datasets \in Nat /\ datasets' = datasets + 1 /\ datasets + 1 \in Gen
         /\ pc[datasets + 1] = "idle" /\ job[datasets + 1] = 1
         /\ Running' = Running \union {datasets + 1}
         /\ pc'[datasets + 1] = "open"
         /\ \A h \in Running : h <= datasets
         /\ \A h \in Gen \ {datasets + 1} : pc'[h] = pc[h]
<1>1. datasets \in Nat /\ datasets' = datasets + 1 /\ datasets + 1 \in Gen
  BY GenNumbers DEF Dataset, ReportgenInv, TypeOK
<1>2. /\ pc[datasets + 1] = "idle" /\ job[datasets + 1] = 1
  BY <1>1 DEF ReportgenInv, InOrder, Busy
<1>3. pc \in [Gen -> PC] /\ pc' = [pc EXCEPT ![datasets + 1] = "open"]
  BY DEF Dataset, Goto, ReportgenInv, TypeOK
<1>4. Running' = Running \union {datasets + 1}
  BY <1>1, <1>3 DEF Running
<1>5. \A h \in Running : h <= datasets
  BY <1>1, GenNumbers DEF Running, ReportgenInv, InOrder
<1> QED
  BY <1>1, <1>2, <1>3, <1>4, <1>5

LEMMA DatasetComplete ==
  ASSUME CompleteInv, Dataset
  PROVE  NotDisturbed' /\ WritesItsPage' /\ (\A g \in Running \ met : UpToDate(g))' /\ PagesComplete'
<1> USE DEF CompleteInv
<1> DEFINE h == datasets + 1
<1>1. /\ datasets \in Nat /\ datasets' = h /\ h \in Gen /\ pc[h] = "idle" /\ job[h] = 1
      /\ Running' = Running \union {h} /\ pc'[h] = "open"
      /\ \A g \in Running : g <= datasets
      /\ \A g \in Gen \ {h} : pc'[g] = pc[g]
  BY DatasetNumbers
<1>2. /\ UNCHANGED <<job, writing, file, dirty, missed>>
      /\ met \subseteq met'
      /\ Running # {} => Running \union {h} \subseteq met'
  BY DEF Dataset, fileVars
<1>3. \A g \in Gen : g \in Nat
  BY GenNumbers
<1>4. NotDisturbed'
  <2> SUFFICES ASSUME NEW k \in Gen \ met'
               PROVE  /\ k \notin dirty'
                      /\ k <= datasets' => \A g \in Running' : g >= k
                      /\ k \in Running' => datasets' = k
    BY DEF NotDisturbed
  <2>1. k \notin dirty' /\ k \in Gen \ met /\ k \in Nat
    BY <1>2, <1>3 DEF NotDisturbed
  <2>2. k <= datasets' => \A g \in Running' : g >= k
    <3>1. CASE k <= datasets
      <4>1. \A g \in Running : g >= k
        BY <2>1, <3>1 DEF NotDisturbed
      <4> QED
        BY <1>1, <2>1, <3>1, <4>1
    <3>2. CASE k = h
      <4>1. Running' = {h}
        BY <1>1, <1>2, <3>2
      <4> QED
        BY <1>1, <3>2, <4>1
    <3> QED
      BY <1>1, <2>1, <3>1, <3>2
  <2>3. k \in Running' => datasets' = k
    BY <1>1, <1>2
  <2> QED
    BY <2>1, <2>2, <2>3
<1>5. WritesItsPage'
  <2> SUFFICES ASSUME NEW k \in Gen
               PROVE  /\ pc'[k] \in {"plotting", "gzipping"} => writing'[k] = Diagram(k)'
                      /\ pc'[k] = "writing" => writing'[k] = Document(k)'
    BY DEF WritesItsPage
  <2>1. Diagram(k)' = Diagram(k) /\ Document(k)' = Document(k)
    BY <1>2 DEF Diagram, Document, ThePage
  <2>2. pc'[k] # "open" => pc'[k] = pc[k]
    BY <1>1
  <2> QED
    BY <1>2, <2>1, <2>2 DEF WritesItsPage
<1>6. (\A g \in Running \ met : UpToDate(g))'
  <2> SUFFICES ASSUME NEW g \in Running' \ met' PROVE UpToDate(g)'
    OBVIOUS
  <2>1. pc'[g] = "open"
    BY <1>1, <1>2
  <2> QED
    BY <2>1 DEF UpToDate, InJob
<1>7. PagesComplete'
  <2> SUFFICES ASSUME NEW k \in Gen \ met', NEW p \in Asks(k), IsLatest(k, p)', Made(k, p)'
               PROVE  Complete(p)'
    BY DEF PagesComplete
  <2>1. k \in Gen \ met /\ k \in Nat /\ k > 0 /\ Made(k, p)
    BY <1>2, GenNumbers DEF Made
  <2>2. PICK i \in DOMAIN Jobs(k) : Jobs(k)[i] = p /\ i < job[k]
    BY <2>1 DEF Made
  <2>3. k <= datasets
    <3>1. k # h
      BY <1>1, <2>2, JobsType
    <3> QED
      BY <1>1, <2>1, <3>1 DEF IsLatest
  <2>4. p \notin Asks(h) /\ IsLatest(k, p)
    BY <1>1, <2>1, <2>3 DEF IsLatest
  <2>5. Complete(p)
    BY <2>1, <2>4 DEF PagesComplete
  <2>6. /\ p # Current /\ RowsOf(p, h) = RowsOf(p, datasets)
        /\ DataAtDay(p + 1, h) <=> DataAtDay(p + 1, datasets)
    <3>1. p \in Int
      BY <2>2, JobsInt
    <3> QED
      BY <1>1, <2>1, <2>3, <2>4, <3>1, AskedWhenChanged
  <2>7. RowsOf(p, datasets)' = RowsOf(p, datasets)
        /\ DataAtDay(p + 1, datasets)' = DataAtDay(p + 1, datasets)
    BY <1>1, <2>6 DEF DataAtDay
  <2> QED
    BY <1>2, <2>5, <2>7 DEF Complete
<1> QED
  BY <1>4, <1>5, <1>6, <1>7

LEMMA InitComplete == Init => CompleteInv
<1> SUFFICES ASSUME Init PROVE CompleteInv
  OBVIOUS
<1>1. Running = {}
  BY DEF Init, Running
<1>2. NotDisturbed /\ WritesItsPage
  BY <1>1 DEF Init, NotDisturbed, WritesItsPage
<1>3. PagesComplete
  BY GenNumbers DEF Init, PagesComplete, IsLatest
<1> QED
  BY <1>1, <1>2, <1>3, InitInv DEF CompleteInv

LEMMA StepComplete == CompleteInv /\ [Next]_vars => CompleteInv'
<1> SUFFICES ASSUME CompleteInv, [Next]_vars PROVE CompleteInv'
  OBVIOUS
<1> USE DEF CompleteInv
<1>1. ReportgenInv'
  BY StepInv
<1>2. CASE Dataset
  BY <1>1, <1>2, DatasetComplete
<1>3. CASE \E g \in Gen : Step(g) \/ Failure(g)
  <2>1. PICK g \in Gen : Step(g) \/ Failure(g)
    BY <1>3
  <2>2. NotDisturbed' /\ WritesItsPage' /\ PagesComplete'
    BY <2>1, GenNotDisturbed, GenWritesItsPage, GenPagesComplete
  <2>3. ASSUME NEW k \in Running' \ met' PROVE UpToDate(k)'
    <3>1. k \in Running \ met /\ g \in Running
      BY <2>1, OnlyItself
    <3>2. k = g /\ UpToDate(g) /\ pc'[g] # "done"
      BY <3>1, <2>3, Alone DEF Running
    <3> QED
      BY <2>1, <3>1, <3>2, GenUpToDate
  <2> QED
    BY <1>1, <2>2, <2>3
<1>4. CASE UNCHANGED vars
  BY <1>1, <1>4 DEF vars, procVars, fileVars, lockVars, history, NotDisturbed, WritesItsPage, UpToDate,
       PagesComplete, Running, IsLatest, Made, Complete, Diagram, Document, ThePage, Plotted
<1> QED
  BY <1>2, <1>3, <1>4 DEF Next

(* A page whose latest job did not fail, in a generator that was alone at  *)
(* work, shows all the data of its day and the link to the next one        *)
(* (veterod.cc:410): for any days, any number of generators and whatever   *)
(* the ones before and after it did and failed at.                         *)
THEOREM PagesCompleteHolds == Spec => []PagesComplete
<1>1. CompleteInv => PagesComplete
  BY DEF CompleteInv
<1> QED
  BY <1>1, InitComplete, StepComplete, PTL DEF Spec
=============================================================================
