----------------------------- MODULE WeatherDb ------------------------------
(***************************************************************************)
(* The SQLite database that every process of vetero shares                 *)
(* (src/src/common/dbaccess.cc) and the statements that change it.         *)
(*                                                                         *)
(* weatherdata is append-only.  What the aggregates are compared by is     *)
(* which rows they were computed from, so a table is abstracted to row     *)
(* counts:                                                                 *)
(*   rows[d]        the number of weatherdata rows of day d;               *)
(*   dayStats[d]    how many of them the day_statistics row of d           *)
(*                  aggregates, NoRow when there is no such row;           *)
(*   monthStats[m]  the day_statistics rows the month_statistics row of m  *)
(*                  aggregates, as they were at that time: a function that *)
(*                  is NoRow on the days without one and on the days of    *)
(*                  other months; NoRow when month m has no row at all.    *)
(* MIN, MAX, AVG and SUM of the same rows are the same values, so equal    *)
(* counts stand for equal aggregates.                                      *)
(*                                                                         *)
(* Each operator is one SQL statement: it commits or it changes nothing.   *)
(* The module has no behaviour of its own; the processes that use the      *)
(* database choose when a statement runs.                                  *)
(***************************************************************************)
EXTENDS Calendar

CONSTANT NoRow

VARIABLES rows, dayStats, monthStats

dbVars == <<rows, dayStats, monthStats>>

DayStat   == Nat \union {NoRow}
MonthStat == [Day -> DayStat] \union {NoRow}

ASSUME NoRowAssumption == NoRow \notin Nat /\ NoRow \notin [Day -> DayStat]

DbTypeOK ==
  /\ rows \in [Day -> Nat]
  /\ dayStats \in [Day -> DayStat]
  /\ monthStats \in [Month -> MonthStat]

(* DbAccess::initTables: the tables, empty *)
InitTables ==
  /\ rows = [d \in Day |-> 0]
  /\ dayStats = [d \in Day |-> NoRow]
  /\ monthStats = [m \in Month |-> NoRow]

(* INSERT INTO weatherdata *)
InsertRow(d) ==
  /\ rows' = [rows EXCEPT ![d] = @ + 1]
  /\ UNCHANGED <<dayStats, monthStats>>

(* INSERT OR REPLACE INTO day_statistics ... SELECT ... FROM weatherdata.  *)
(* The SELECT has no GROUP BY: it yields a row, of NULLs, for no rows too. *)
UpdateDayStatistics(d) ==
  /\ dayStats' = [dayStats EXCEPT ![d] = rows[d]]
  /\ UNCHANGED <<rows, monthStats>>

(* What the SELECT of updateMonthStatistics(m) sees. *)
MonthAggregate(m) == [d \in Day |-> IF MonthOf[d] = m THEN dayStats[d] ELSE NoRow]

(* INSERT OR REPLACE INTO month_statistics ... SELECT ... FROM day_statistics *)
UpdateMonthStatistics(m) ==
  /\ monthStats' = [monthStats EXCEPT ![m] = MonthAggregate(m)]
  /\ UNCHANGED <<rows, dayStats>>

(* The statistics row of d aggregates every row of d. *)
DayCurrent(d) == dayStats[d] = rows[d] \/ (rows[d] = 0 /\ dayStats[d] = NoRow)
=============================================================================
