----------------------------- MODULE RainGauge ------------------------------
(***************************************************************************)
(* The rain of a dataset (DbAccess::insertDataset, dbaccess.cc:272-346).   *)
(*                                                                         *)
(* The station has a counter of the tips of its rain gauge; the database   *)
(* keeps the reading of the last dataset in misc (LastRain).  insertDataset*)
(* stores the difference with the new row and then, in a statement of its  *)
(* own, the new reading.  Between the two the daemon can fail or be killed.*)
(*                                                                         *)
(* Rain is counted in tips: the column holds tips times rainGaugeFactor,   *)
(* a constant of the station.  A position of the counter is the number of  *)
(* tips since it was at 0 for the first time; the station delivers it      *)
(* modulo GaugeMod.                                                        *)
(***************************************************************************)
EXTENDS Integers

CONSTANTS GaugeMod,   \* the station's counter wraps to 0 at this number
          Starts,     \* tips the gauge has counted before the first dataset
          Falls,      \* numbers of tips between two looks at the gauge
          MaxFall,    \* bound: tips in all
          MaxFaults   \* bound: interrupted insertions

ASSUME GaugeAssumption ==
  /\ GaugeMod \in Nat \ {0}
  /\ Starts \subseteq Nat /\ Falls \subseteq Nat
  /\ MaxFall \in Nat /\ MaxFaults \in Nat

None == -1

VARIABLES fallen,     \* tips since the gauge was at 0
          reading,    \* position at which the dataset at hand was taken
          lastRain,   \* LastRain in misc, None when there is no such entry
          rainValue,  \* rain of the row inserted last
          tips,       \* SUM(rain) over weatherdata
          pc,         \* next statement of insertDataset; "read" outside of it
          mark,       \* history: position at which lastRain was taken
          origin,     \* history: position of the first reading kept in misc
          rowAt,      \* history: position of the row inserted last
          since,      \* history: tips between the last two rows
          repeated,   \* history: rain of rows whose reading was not kept
          faults      \* history: interrupted insertions

vars == <<fallen, reading, lastRain, rainValue, tips, pc, mark, origin, rowAt,
          since, repeated, faults>>

TypeOK ==
  /\ fallen \in Nat /\ reading \in Nat
  /\ lastRain \in 0 .. GaugeMod - 1 \union {None}
  /\ rainValue \in Int /\ tips \in Int /\ repeated \in Int
  /\ pc \in {"read", "insert", "write"}
  /\ mark \in Nat \union {None} /\ origin \in Nat \union {None}
  /\ rowAt \in Nat \union {None} /\ since \in Nat
  /\ faults \in 0 .. MaxFaults

Init ==
  /\ fallen \in Starts /\ reading = 0 /\ lastRain = None
  /\ rainValue = 0 /\ tips = 0 /\ pc = "read"
  /\ mark = None /\ origin = None /\ rowAt = None
  /\ since = 0 /\ repeated = 0 /\ faults = 0

-----------------------------------------------------------------------------
(* Dataset::rainGauge of a dataset taken at a position *)
RainGaugeAt(position) == position % GaugeMod

(* Mutant of RainGaugeDiff: the wrap is put right by the largest reading. *)
DiffOffByOne(gauge) ==
  LET last == IF lastRain = None THEN gauge ELSE lastRain
      diff == gauge - last
  IN  IF diff < 0 THEN diff + 4096 ELSE diff

(* rainGaugeDiff: the wrap of the counter is put right by 4096 + 1. *)
RainGaugeDiff(gauge) ==
  LET last == IF lastRain = None THEN gauge ELSE lastRain
      diff == gauge - last
  IN  IF diff < 0 THEN diff + (4096 + 1) ELSE diff

(* It rains, but the counter does not come round to the reading that is    *)
(* kept or about to be: that would be a whole turn between two datasets.   *)
Fall ==
  \E n \in Falls :
    /\ fallen + n <= MaxFall
    /\ mark # None => fallen + n - mark < GaugeMod
    /\ pc # "read" => fallen + n - reading < GaugeMod
    /\ fallen' = fallen + n
    /\ UNCHANGED <<reading, lastRain, rainValue, tips, pc, mark, origin, rowAt, since,
                   repeated, faults>>

Read ==
  /\ pc = "read"
  /\ reading' = fallen
  /\ pc' = "insert"
  /\ UNCHANGED <<fallen, lastRain, rainValue, tips, mark, origin, rowAt, since, repeated,
                 faults>>

(* readMiscEntry(LastRain, -1), the difference, INSERT INTO weatherdata *)
InsertDataset ==
  /\ pc = "insert"
  /\ rainValue' = RainGaugeDiff(RainGaugeAt(reading))
  /\ tips' = tips + rainValue'
  /\ since' = IF rowAt = None THEN 0 ELSE reading - rowAt
  /\ rowAt' = reading
  /\ pc' = "write"
  /\ UNCHANGED <<fallen, reading, lastRain, mark, origin, repeated, faults>>

(* Mutant of WriteLastRain: a smaller reading is not kept. *)
KeepLargestReading ==
  /\ pc = "write"
  /\ lastRain' = IF lastRain > RainGaugeAt(reading) THEN lastRain ELSE RainGaugeAt(reading)
  /\ mark' = reading
  /\ origin' = IF origin = None THEN reading ELSE origin
  /\ pc' = "read"
  /\ UNCHANGED <<fallen, reading, rainValue, tips, rowAt, since, repeated, faults>>

(* writeMiscEntry(LastRain, dataset.rainGauge()) *)
WriteLastRain ==
  /\ pc = "write"
  /\ lastRain' = RainGaugeAt(reading)
  /\ mark' = reading
  /\ origin' = IF origin = None THEN reading ELSE origin
  /\ pc' = "read"
  /\ UNCHANGED <<fallen, reading, rainValue, tips, rowAt, since, repeated, faults>>

(* A statement throws, or the daemon is killed and started again: the next *)
(* thing that happens to the database is another dataset.                  *)
Interrupt ==
  /\ pc # "read"
  /\ faults < MaxFaults
  /\ faults' = faults + 1
  /\ repeated' = IF pc = "write" THEN repeated + rainValue ELSE repeated
  /\ pc' = "read"
  /\ UNCHANGED <<fallen, reading, lastRain, rainValue, tips, mark, origin, rowAt, since>>

Next == Fall \/ Read \/ InsertDataset \/ WriteLastRain \/ Interrupt

Spec == Init /\ [][Next]_vars

-----------------------------------------------------------------------------
(* No rain is lost: from the first reading that was kept on, the rows add  *)
(* up to at least the rain up to the last of them, whatever was            *)
(* interrupted in between.                                                 *)
RainNeverLost == mark # None => tips >= rowAt - origin

(* Without an interruption they add up to exactly that rain, through every *)
(* wrap of the counter.                                                    *)
RainExact == (faults = 0 /\ mark # None) => tips = rowAt - origin

(* "Rain in 1/1000 l/m2, counted from the last measurement"                *)
(* (doc/Database.md:18)                                                    *)
RainFromLastMeasurement == (pc = "write" /\ mark # None) => rainValue = since

(* The ledger behind both: what the rows add up to is the way of the       *)
(* counter to the reading in misc, and once more the rain of every row     *)
(* whose own reading did not get there.                                    *)
RainLedger ==
  LET open == IF pc = "write" THEN rainValue ELSE 0 IN
    /\ (mark = None) <=> (origin = None)
    /\ (mark = None) <=> (lastRain = None)
    /\ mark = None => tips = 0 /\ repeated = 0 /\ open = 0
    /\ mark # None =>
         /\ origin <= mark /\ mark <= fallen /\ fallen - mark < GaugeMod
         /\ mark <= rowAt /\ rowAt <= fallen
         /\ lastRain = RainGaugeAt(mark)
         /\ tips = mark - origin + repeated + open
         /\ repeated >= 0 /\ open >= 0
         /\ rowAt - mark <= repeated + open
         /\ pc = "write" => open = reading - mark
         /\ pc # "read" => mark <= reading
    /\ pc = "write" => rowAt = reading
    /\ pc # "read" => rowAt <= reading /\ fallen - reading < GaugeMod
    /\ reading <= fallen /\ rowAt <= fallen
    /\ faults = 0 => repeated = 0 /\ (pc # "write" => rowAt = mark)
=============================================================================
