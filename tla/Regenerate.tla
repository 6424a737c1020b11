----------------------------- MODULE Regenerate -----------------------------
(***************************************************************************)
(* "vetero-db --regenerate-metadata" beside a running veterod              *)
(* (src/src/vetero-db/veterodb.cc, execRegenerateMetadata): delete the     *)
(* statistics of the days and of the months, and build them anew from      *)
(* weatherdata, a statement for each day and then one for each month.      *)
(*                                                                         *)
(* The statements are no transaction and nothing keeps veterod out, so     *)
(* between any two of them veterod may insert, aggregate, change the day   *)
(* and have pages made (module Site) of tables that are half empty.  An    *)
(* error (the database is locked for more than 20 s) or Ctrl-C ends the    *)
(* program where it is.                                                    *)
(***************************************************************************)
EXTENDS Site, FiniteSetsExt

CONSTANTS TerminalWidths,  \* columns of the terminals it is started on
          MaxRuns,         \* bound: how often the program is started
          MaxFailures      \* bound: failures of it and of veterod together

ASSUME RegenerateBounds ==
  TerminalWidths \subseteq Nat /\ MaxRuns \in Nat /\ MaxFailures \in Nat

VARIABLES tool,      \* where the program is; "none" when it does not run
          todo,      \* the days, or months, still to be aggregated
          runs,      \* history: how often it was started
          aborts,    \* history: how often it failed
          complete,  \* history: a run came to its end
          owed,      \* history: days that were over when the last run began
          torn       \* history: days with pages made of half-built tables

toolVars == <<tool, todo, runs, aborts, complete, owed>>
allVars  == <<siteVars, toolVars, torn>>

ToolPC == {"none", "deleteDays", "deleteMonths", "listDays", "days", "listMonths", "months"}

ToolTypeOK ==
  /\ TypeOK /\ torn \subseteq RunDay
  /\ tool \in ToolPC
  /\ tool = "days" => todo \subseteq { d \in Day : rows[d] > 0 }
  /\ tool = "months" => todo \subseteq { MonthOf[d] : d \in { e \in Day : rows[e] > 0 } }
  /\ tool \notin {"days", "months"} => todo = {}
  /\ runs \in 0 .. MaxRuns /\ aborts \in 0 .. MaxFailures
  /\ complete \in BOOLEAN /\ owed \subseteq Day

ToolInit ==
  /\ SiteInit
  /\ tool = "none" /\ todo = {} /\ torn = {}
  /\ runs = 0 /\ aborts = 0 /\ complete = FALSE /\ owed = {}

-----------------------------------------------------------------------------
GoOn(label) == tool' = label /\ UNCHANGED <<runs, aborts, complete, owed>>

DataDays   == { d \in Day : rows[d] > 0 }
DataMonths == { MonthOf[d] : d \in DataDays }

(* Bounds: it is not started on the first day, when there is nothing of    *)
(* earlier days, and is started again when it failed.                      *)
Begin ==
  /\ tool = "none"
  /\ now > 1
  /\ runs < MaxRuns /\ ~complete
  /\ tool' = "deleteDays"
  /\ runs' = runs + 1
  /\ owed' = { d \in Day : d < now /\ ~(Active /\ ts = d) }
  /\ UNCHANGED <<dbVars, todo, aborts, complete>>

(* deleteStatistics *)
DeleteDays ==
  /\ tool = "deleteDays"
  /\ dayStats' = [d \in Day |-> NoRow]
  /\ GoOn("deleteMonths")
  /\ UNCHANGED <<rows, monthStats, todo>>

DeleteMonths ==
  /\ tool = "deleteMonths"
  /\ monthStats' = [m \in Month |-> NoRow]
  /\ GoOn("listDays")
  /\ UNCHANGED <<rows, dayStats, todo>>

(* The columns left for the progress bar.  They are counted in a size_t,   *)
(* so that a negative number of them never ends.                           *)
BarWidth(columns) == columns - 30

(* The bar is drawn before the first day: on a narrow terminal it takes    *)
(* all memory, and the program dies with the statistics deleted.           *)
ProgressDies ==
  /\ tool = "listDays"
  /\ \E columns \in TerminalWidths : BarWidth(columns) < 0
  /\ faults + aborts < MaxFailures
  /\ tool' = "none"
  /\ aborts' = aborts + 1
  /\ UNCHANGED <<dbVars, todo, runs, complete, owed>>

(* Mutant of ListDays: dataDays takes the days from day_statistics. *)
ListCachedDays ==
  /\ tool = "listDays"
  /\ todo' = { d \in Day : dayStats[d] # NoRow }
  /\ GoOn("days")
  /\ UNCHANGED dbVars

(* dataDays(true): the days of weatherdata *)
ListDays ==
  /\ tool = "listDays"
  /\ todo' = DataDays
  /\ GoOn("days")
  /\ UNCHANGED dbVars

UpdateADay ==
  /\ tool = "days" /\ todo # {}
  /\ UpdateDayStatistics(Min(todo))
  /\ todo' = todo \ {Min(todo)}
  /\ GoOn("days")

(* Mutant of ListMonths: the months are taken from month_statistics. *)
ListCachedMonths ==
  /\ tool = "days" /\ todo = {}
  /\ todo' = { m \in Month : monthStats[m] # NoRow }
  /\ GoOn("months")
  /\ UNCHANGED dbVars

(* dataMonths(true) *)
ListMonths ==
  /\ tool = "days" /\ todo = {}
  /\ todo' = DataMonths
  /\ GoOn("months")
  /\ UNCHANGED dbVars

UpdateAMonth ==
  /\ tool = "months" /\ todo # {}
  /\ UpdateMonthStatistics(Min(todo))
  /\ todo' = todo \ {Min(todo)}
  /\ GoOn("months")

End ==
  /\ tool = "months" /\ todo = {}
  /\ tool' = "none"
  /\ complete' = TRUE
  /\ UNCHANGED <<dbVars, todo, runs, aborts, owed>>

(* A statement throws, or the program is interrupted.  (Bound: not before  *)
(* it has deleted anything, as when the database is opened with            *)
(* --readonly; then nothing has happened.)                                 *)
Abort ==
  /\ tool \notin {"none", "deleteDays"}
  /\ faults + aborts < MaxFailures
  /\ tool' = "none" /\ todo' = {}
  /\ aborts' = aborts + 1
  /\ UNCHANGED <<dbVars, runs, complete, owed>>

Tool ==
  \/ Begin \/ DeleteDays \/ DeleteMonths \/ ListDays \/ UpdateADay
  \/ ListMonths \/ UpdateAMonth \/ End \/ Abort \/ ProgressDies

(* The tool is at work, or its last run did not come to its end. *)
HalfBuilt == runs > 0 /\ ~complete

ToolNext ==
  \/ Tool /\ UNCHANGED <<now, daemonVars, asked, rolled, faults, site, files, torn>>
  \/ Publish /\ torn' = torn \union Only(HalfBuilt, ts) /\ UNCHANGED toolVars
  \/ Other /\ (faults' > faults => faults + aborts < MaxFailures)
           /\ UNCHANGED <<site, files, torn, toolVars>>

ToolSpec == ToolInit /\ [][ToolNext]_allVars

-----------------------------------------------------------------------------
(* "Regenerate all cached values in the database" (veterodb.cc:66): after  *)
(* a run that came to its end, every day that was over when it began is    *)
(* in day_statistics and in month_statistics with all of its rows, for     *)
(* good, whatever veterod did meanwhile and what had failed before.        *)
RegeneratedAll ==
  complete =>
    \A d \in owed : rows[d] > 0 =>
      /\ dayStats[d] = rows[d]
      /\ monthStats[MonthOf[d]] # NoRow
      /\ monthStats[MonthOf[d]][d] = rows[d]

(* The promise of a completed day change, that the month of yesterday is   *)
(* settled (SettledDays), survives a run that came to its end, also when   *)
(* veterod changed the day on tables that were half empty: the months come *)
(* after the days (veterodb.cc:133, 137).  A month without any data loses  *)
(* the row of NULLs that veterod made for it.                              *)
SettledAgain ==
  (complete \/ runs = 0) =>
    \A t \in rolled : MonthOf[t - 1] \in DataMonths => SettledBy(t)

(* Pages made of half-built tables lack links and rows, and nobody makes   *)
(* them again.  Those of neighbouring days that were made on other days    *)
(* link both ways, also after the statistics were deleted and built anew   *)
(* (dbaccess.cc:492), but for two pairs per failure: those of a day whose  *)
(* statistics a failure left out and the tool has made up for.             *)
LinkedUnlessTorn ==
  Cardinality({ d \in Broken : {d + 1, d + 2} \cap torn = {} }) <= 2 * faults

(* A page that was never made of half-built tables shows what is final of  *)
(* the days that ended, of those that have more than one temperature, when *)
(* the statistics are built anew: what it shows and what the tool computes *)
(* is the same (monthreportgenerator.cc:95, yearreportgenerator.cc:92).    *)
FinalUnlessTorn ==
  ((complete \/ runs = 0) /\ faults = 0) =>
    \A j \in asked :
      /\ MonthOf[j.on - 1] \in DataMonths
      /\ \A k \in asked : k.page = j.page => k.on \notin torn
      => ShowsFinal(j.page, j.on)
=============================================================================
