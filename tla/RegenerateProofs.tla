-------------------------- MODULE RegenerateProofs ---------------------------
(***************************************************************************)
(* Theorems about Regenerate, vetero-db beside veterod, for every calendar *)
(* and horizon and every bound on datasets, faults, runs of the program    *)
(* and failures of it.                                                     *)
(***************************************************************************)
EXTENDS Regenerate, SiteProofs

USE RegenerateBounds DEF RegenerateBounds

(* A step of Regenerate is one of the program, or one of veterod that      *)
(* leaves the program where it is.                                         *)
ToolStep    == Tool /\ UNCHANGED <<now, daemonVars, asked, rolled, faults, torn>>
VeterodStep == [Next]_vars /\ UNCHANGED toolVars

LEMMA StepOfEither == [ToolNext]_allVars => ToolStep \/ VeterodStep
BY DEF ToolNext, ToolStep, VeterodStep, Publish, Other, Next, Iteration, allVars, siteVars

(* Rows are only added. *)
LEMMA RowsGrow ==
  ASSUME TypeOK, [Next]_vars
  PROVE  \A d \in Day : rows'[d] = rows[d] \/ (rows'[d] > 0 /\ Insert /\ d = ts)
<1>1. CASE Insert
  BY <1>1 DEF Insert, InsertRow, TypeOK, DbTypeOK
<1>2. CASE ~Insert
  BY <1>2 DEF Next, Iteration, Tick, Start, Stop, StatementFails, Read, WriteLastRain, UpdateDay,
     UpdateDayStatistics, QueryCurrent, UpdateThisMonth, UpdateLastMonth, UpdateMonthStatistics,
     UpdateReports, ReportsFail, EndIteration, vars, dbVars
<1> QED
  BY <1>1, <1>2

-----------------------------------------------------------------------------
(* Types                                                                   *)

LEMMA ToolTypeInit == ToolInit => ToolTypeOK
<1> SUFFICES ASSUME ToolInit PROVE ToolTypeOK
  OBVIOUS
<1>1. TypeOK
  BY TypeInit, SiteInitIsVeterods DEF ToolInit
<1>2. tool = "none" /\ todo = {} /\ torn = {} /\ runs = 0 /\ aborts = 0 /\ complete = FALSE
      /\ owed = {}
  BY DEF ToolInit
<1>3. runs \in 0 .. MaxRuns /\ aborts \in 0 .. MaxFailures
  BY <1>2
<1> QED
  BY <1>1, <1>2, <1>3 DEF ToolTypeOK, ToolPC

LEMMA ToolTypeStep == ToolTypeOK /\ [ToolNext]_allVars => ToolTypeOK'
<1> SUFFICES ASSUME ToolTypeOK, [ToolNext]_allVars PROVE ToolTypeOK'
  OBVIOUS
<1>0. TypeOK
  BY DEF ToolTypeOK
<1>1. torn' \subseteq RunDay
  BY DEF ToolTypeOK, ToolNext, Only, allVars, TypeOK
<1>2. CASE VeterodStep
  <2>1. TypeOK'
    BY <1>0, <1>2, TypeStep DEF VeterodStep
  <2>2. \A d \in Day : rows[d] > 0 => rows'[d] > 0
    BY <1>0, <1>2, RowsGrow DEF VeterodStep
  <2> QED
    BY <1>1, <1>2, <2>1, <2>2 DEF ToolTypeOK, VeterodStep, toolVars
<1>3. CASE ToolStep
  <2> USE DEF ToolTypeOK, ToolPC, GoOn
  <2>1. ASSUME DbTypeOK' PROVE TypeOK'
    BY <1>0, <1>3, <2>1 DEF ToolStep, daemonVars, TypeOK
  <2>2. ASSUME NEW d, UpdateDayStatistics(d) PROVE DbTypeOK'
    <3>1. dayStats' \in [Day -> DayStat]
      BY <1>0, <2>2 DEF UpdateDayStatistics, TypeOK, DbTypeOK, DayStat
    <3> QED
      BY <1>0, <2>2, <3>1 DEF UpdateDayStatistics, TypeOK, DbTypeOK
  <2>3. ASSUME NEW m, UpdateMonthStatistics(m) PROVE DbTypeOK'
    <3>1. MonthAggregate(m) \in MonthStat
      BY <1>0 DEF MonthAggregate, MonthStat, TypeOK, DbTypeOK, DayStat
    <3>2. monthStats' \in [Month -> MonthStat]
      BY <1>0, <2>3, <3>1 DEF UpdateMonthStatistics, TypeOK, DbTypeOK
    <3> QED
      BY <1>0, <2>3, <3>2 DEF UpdateMonthStatistics, TypeOK, DbTypeOK
  <2>4. CASE Begin
    BY <1>0, <1>1, <2>1, <2>4 DEF Begin, dbVars, TypeOK, DbTypeOK
  <2>5. CASE DeleteDays
    <3>1. DbTypeOK'
      BY <1>0, <2>5 DEF DeleteDays, TypeOK, DbTypeOK, DayStat
    <3> QED
      BY <1>1, <2>1, <2>5, <3>1 DEF DeleteDays
  <2>6. CASE DeleteMonths
    <3>1. DbTypeOK'
      BY <1>0, <2>6 DEF DeleteMonths, TypeOK, DbTypeOK, MonthStat
    <3> QED
      BY <1>1, <2>1, <2>6, <3>1 DEF DeleteMonths
  <2>7. CASE ListDays \/ ListMonths
    <3>1. DbTypeOK' /\ rows' = rows
      BY <1>0, <2>7 DEF ListDays, ListMonths, dbVars, TypeOK, DbTypeOK
    <3> QED
      BY <1>1, <2>1, <2>7, <3>1 DEF ListDays, ListMonths, DataDays, DataMonths
  <2>8. CASE UpdateADay
    BY <1>1, <2>1, <2>2, <2>8 DEF UpdateADay, UpdateDayStatistics
  <2>9. CASE UpdateAMonth
    BY <1>1, <2>1, <2>3, <2>9 DEF UpdateAMonth, UpdateMonthStatistics
  <2>10. CASE End \/ Abort \/ ProgressDies
    <3>1. DbTypeOK'
      BY <1>0, <2>10 DEF End, Abort, ProgressDies, dbVars, TypeOK, DbTypeOK
    <3>2. aborts' \in 0 .. MaxFailures
      BY <1>0, <2>10 DEF End, Abort, ProgressDies, TypeOK
    <3> QED
      BY <1>1, <2>1, <2>10, <3>1, <3>2 DEF End, Abort, ProgressDies
  <2> QED
    BY <1>3, <2>4, <2>5, <2>6, <2>7, <2>8, <2>9, <2>10 DEF ToolStep, Tool
<1> QED
  BY <1>2, <1>3, StepOfEither

(* Types of both programs, and that what is still to be aggregated has     *)
(* rows (veterodb.cc:129, 136), whatever veterod adds meanwhile.           *)
THEOREM ToolTypeCorrect == ToolSpec => []ToolTypeOK
BY ToolTypeInit, ToolTypeStep, PTL DEF ToolSpec

-----------------------------------------------------------------------------
(* A run that came to its end has built everything anew.                   *)

Fresh(d)   == dayStats[d] = rows[d]
InMonth(d) == monthStats[MonthOf[d]] # NoRow /\ monthStats[MonthOf[d]][d] = rows[d]

(* The days that were over when the program began stay over. *)
OwedAreOver == \A d \in owed : d < now /\ ~(Active /\ ts = d)

(* How far the program is with them: a day waits in todo or is aggregated, *)
(* and then its month waits or holds it.                                   *)
OwedInOrder ==
  /\ tool = "days" => \A d \in owed : rows[d] > 0 => d \in todo \/ Fresh(d)
  /\ tool = "months" =>
       \A d \in owed : rows[d] > 0 => Fresh(d) /\ (MonthOf[d] \in todo \/ InMonth(d))

CompleteIsOver == complete => tool = "none"

RegenerateInv == ToolTypeOK /\ OwedAreOver /\ CompleteIsOver /\ OwedInOrder /\ RegeneratedAll

LEMMA OwedStep ==
  ASSUME TypeOK, OwedAreOver, owed \subseteq Day, VeterodStep
  PROVE  OwedAreOver'
<1> USE DEF OwedAreOver, VeterodStep, toolVars
<1>1. CASE Tick
  BY <1>1 DEF Tick, daemonVars, Active, TypeOK, RunDay, Day
<1>2. CASE Read
  BY <1>2 DEF Read, TypeOK, RunDay, Day
<1>3. CASE ~Tick /\ ~Read
  <2>1. now' = now /\ (Active' => Active /\ ts' = ts)
    BY <1>3 DEF Next, Iteration, Start, Stop, StatementFails, Insert, WriteLastRain, UpdateDay,
       QueryCurrent, UpdateThisMonth, UpdateLastMonth, UpdateReports, ReportsFail, EndIteration,
       Active, vars, daemonVars
  <2> QED
    BY <2>1
<1> QED
  BY <1>1, <1>2, <1>3

(* veterod leaves the rows and the statistics of such a day alone, and     *)
(* when it aggregates the month of a day that is fresh, the month has it.  *)
LEMMA OwedStays ==
  ASSUME TypeOK, OwedAreOver, [Next]_vars, NEW d \in Day, d \in owed
  PROVE  /\ rows'[d] = rows[d] /\ dayStats'[d] = dayStats[d]
         /\ Fresh(d) /\ InMonth(d) => InMonth(d)'
<1>0. MonthOf[d] \in Month
  BY CalendarTypes
<1>1. CASE Insert \/ UpdateDay
  <2>1. d # ts
    BY <1>1 DEF Insert, UpdateDay, Active, OwedAreOver
  <2> QED
    BY <1>1, <2>1 DEF Insert, UpdateDay, InsertRow, UpdateDayStatistics, InMonth, TypeOK, DbTypeOK
<1>2. ASSUME NEW m, UpdateMonthStatistics(m)
      PROVE  /\ rows'[d] = rows[d] /\ dayStats'[d] = dayStats[d]
             /\ Fresh(d) /\ InMonth(d) => InMonth(d)'
  <2>1. CASE MonthOf[d] = m
    <3>1. monthStats'[m] = MonthAggregate(m)
      BY <1>0, <1>2, <2>1 DEF UpdateMonthStatistics, TypeOK, DbTypeOK
    <3>2. MonthAggregate(m) # NoRow /\ MonthAggregate(m)[d] = dayStats[d]
      BY <1>0, <2>1, AggregateHolds DEF TypeOK, DbTypeOK, DaysOf
    <3> QED
      BY <1>2, <2>1, <3>1, <3>2 DEF UpdateMonthStatistics, Fresh, InMonth
  <2>2. CASE MonthOf[d] # m
    BY <1>0, <1>2, <2>2 DEF UpdateMonthStatistics, InMonth, TypeOK, DbTypeOK
  <2> QED
    BY <2>1, <2>2
<1>3. CASE UpdateThisMonth \/ UpdateLastMonth
  BY <1>2, <1>3 DEF UpdateThisMonth, UpdateLastMonth
<1>4. CASE ~(Insert \/ UpdateDay \/ UpdateThisMonth \/ UpdateLastMonth)
  BY <1>4 DEF Next, Iteration, Tick, Start, Stop, StatementFails, Read, WriteLastRain,
     QueryCurrent, UpdateReports, ReportsFail, EndIteration, vars, dbVars, InMonth
<1> QED
  BY <1>1, <1>3, <1>4

LEMMA RegenerateStep == RegenerateInv /\ [ToolNext]_allVars => RegenerateInv'
<1> SUFFICES ASSUME RegenerateInv, [ToolNext]_allVars PROVE RegenerateInv'
  OBVIOUS
<1> USE DEF RegenerateInv
<1>0. TypeOK /\ ToolTypeOK' /\ owed \subseteq Day
  BY ToolTypeStep DEF ToolTypeOK
<1>1. CASE VeterodStep
  <2>1. UNCHANGED <<tool, todo, complete, owed>> /\ CompleteIsOver' /\ OwedAreOver'
    BY <1>0, <1>1, OwedStep DEF VeterodStep, toolVars, CompleteIsOver
  <2>2. ASSUME NEW d \in owed
        PROVE  /\ rows'[d] = rows[d] /\ (Fresh(d)' <=> Fresh(d))
               /\ Fresh(d) /\ InMonth(d) => InMonth(d)'
    BY <1>0, <1>1, <2>2, OwedStays DEF VeterodStep, Fresh, InMonth
  <2>3. OwedInOrder'
    <3>1. tool = "days" => \A d \in owed : rows'[d] > 0 => d \in todo \/ Fresh(d)'
      BY <2>2 DEF OwedInOrder
    <3>2. tool = "months" =>
            \A d \in owed : rows'[d] > 0 => Fresh(d)' /\ (MonthOf[d] \in todo \/ InMonth(d)')
      BY <2>2 DEF OwedInOrder
    <3> QED
      BY <2>1, <3>1, <3>2 DEF OwedInOrder
  <2>4. RegeneratedAll'
    <3>1. complete => \A d \in owed : rows'[d] > 0 => Fresh(d)' /\ InMonth(d)'
      BY <2>2 DEF RegeneratedAll, Fresh, InMonth
    <3> QED
      BY <2>1, <3>1 DEF RegeneratedAll, Fresh, InMonth
  <2> QED
    BY <1>0, <2>1, <2>3, <2>4
<1>2. CASE ToolStep
  <2>1. UNCHANGED <<now, ts, pc>>
    BY <1>2 DEF ToolStep, daemonVars
  <2>2. ASSUME UNCHANGED owed PROVE OwedAreOver'
    BY <2>1, <2>2 DEF OwedAreOver, Active
  (* A step within a run, that goes on or ends without success *)
  <2>3. ASSUME tool # "none", UNCHANGED <<complete, owed>> PROVE RegeneratedAll' /\ CompleteIsOver'
    BY <2>3 DEF CompleteIsOver, RegeneratedAll
  <2>4. CASE Begin
    BY <1>0, <2>1, <2>4 DEF Begin, OwedAreOver, Active, CompleteIsOver, OwedInOrder, RegeneratedAll
  <2>5. CASE DeleteDays \/ DeleteMonths \/ Abort \/ ProgressDies
    BY <1>0, <2>2, <2>3, <2>5 DEF DeleteDays, DeleteMonths, Abort, ProgressDies, GoOn, OwedInOrder
  <2>6. CASE ListDays
    BY <1>0, <2>2, <2>3, <2>6 DEF ListDays, GoOn, OwedInOrder, DataDays, dbVars
  <2>7. CASE UpdateADay
    <3>1. \A d \in owed : rows[d] > 0 => d \in todo' \/ Fresh(d)'
      BY <1>0, <2>7 DEF UpdateADay, UpdateDayStatistics, OwedInOrder, Fresh, TypeOK, DbTypeOK
    <3> QED
      BY <1>0, <2>2, <2>3, <2>7, <3>1 DEF UpdateADay, UpdateDayStatistics, GoOn, OwedInOrder
  <2>8. CASE ListMonths
    <3>1. \A d \in owed : rows[d] > 0 => Fresh(d)' /\ MonthOf[d] \in todo'
      BY <1>0, <2>8 DEF ListMonths, OwedInOrder, Fresh, DataMonths, DataDays, dbVars
    <3> QED
      BY <1>0, <2>2, <2>3, <2>8, <3>1 DEF ListMonths, GoOn, OwedInOrder, dbVars
  <2>9. CASE UpdateAMonth
    <3> DEFINE m == Min(todo)
    <3>1. ASSUME NEW d \in owed, rows[d] > 0
          PROVE  Fresh(d)' /\ (MonthOf[d] \in todo' \/ InMonth(d)')
      <4>1. Fresh(d)' /\ Fresh(d) /\ (MonthOf[d] \in todo \/ InMonth(d)) /\ MonthOf[d] \in Month
        BY <1>0, <2>9, <3>1, CalendarTypes
           DEF UpdateAMonth, UpdateMonthStatistics, OwedInOrder, Fresh
      <4>2. CASE MonthOf[d] = m
        <5>1. monthStats'[MonthOf[d]] = MonthAggregate(MonthOf[d])
          BY <1>0, <2>9, <4>1, <4>2 DEF UpdateAMonth, UpdateMonthStatistics, TypeOK, DbTypeOK
        <5>2. MonthAggregate(MonthOf[d]) # NoRow /\ MonthAggregate(MonthOf[d])[d] = dayStats[d]
          BY <1>0, <4>1, AggregateHolds DEF TypeOK, DbTypeOK, DaysOf
        <5> QED
          BY <2>9, <4>1, <5>1, <5>2 DEF UpdateAMonth, UpdateMonthStatistics, Fresh, InMonth
      <4>3. CASE MonthOf[d] # m
        <5>1. monthStats'[MonthOf[d]] = monthStats[MonthOf[d]] /\ rows' = rows
          BY <1>0, <2>9, <4>1, <4>3 DEF UpdateAMonth, UpdateMonthStatistics, TypeOK, DbTypeOK
        <5>2. MonthOf[d] \in todo => MonthOf[d] \in todo'
          BY <2>9, <4>3 DEF UpdateAMonth
        <5> QED
          BY <4>1, <5>1, <5>2 DEF InMonth
      <4> QED
        BY <4>2, <4>3
    <3>2. rows' = rows /\ tool = "months" /\ tool' = "months" /\ UNCHANGED <<complete, owed>>
      BY <2>9 DEF UpdateAMonth, UpdateMonthStatistics, GoOn
    <3> QED
      BY <1>0, <2>2, <2>3, <3>1, <3>2 DEF OwedInOrder
  <2>10. CASE End
    <3>1. RegeneratedAll'
      BY <2>10 DEF End, OwedInOrder, RegeneratedAll, Fresh, InMonth, dbVars
    <3> QED
      BY <1>0, <2>2, <2>10, <3>1 DEF End, OwedInOrder, CompleteIsOver
  <2> QED
    BY <1>2, <2>4, <2>5, <2>6, <2>7, <2>8, <2>9, <2>10 DEF ToolStep, Tool
<1> QED
  BY <1>1, <1>2, StepOfEither

(* After a run that came to its end every day that was over is complete in *)
(* both tables, whatever veterod did between any two statements, whatever  *)
(* failed before, and for good (veterodb.cc:125-139).                      *)
THEOREM RegeneratedAllHolds == ToolSpec => []RegeneratedAll
<1>1. ToolInit => RegenerateInv
  BY ToolTypeInit DEF ToolInit, RegenerateInv, OwedAreOver, CompleteIsOver, OwedInOrder,
     RegeneratedAll
<1>2. RegenerateInv => RegeneratedAll
  BY DEF RegenerateInv
<1> QED
  BY <1>1, <1>2, RegenerateStep, PTL DEF ToolSpec
-----------------------------------------------------------------------------
(* The months of completed day changes are settled again.                  *)

(* Day changes that were completed, and the one whose month statistics     *)
(* veterod has just written                                                *)
Rolls(t) == t \in rolled \/ (t = ts /\ pc = "reports" /\ DayChanged)

(* The stages of the day change, as far as the program cannot disturb them.*)
StagesInOrder ==
  /\ pc \in {"monthThis", "monthLast"} => DayChanged
  /\ pc = "monthLast" => MonthChanged

(* A day change was made by a dataset, and the dataset at hand is stored.  *)
RowsOfRolled ==
  /\ \A t \in rolled : rows[t] > 0
  /\ Active /\ pc # "insert" => rows[ts] > 0

(* Once its first day has come, a month stays behind. *)
MonthsGoOn ==
  /\ MonthOf[ts] <= MonthOf[now]
  /\ \A t \in rolled : MonthOf[t] # MonthOf[t - 1] =>
       MonthOf[t - 1] < MonthOf[now] /\ (Active => MonthOf[t - 1] < MonthOf[ts])

(* The months of the program's last stage, and all of them when it has     *)
(* not run or has come to its end                                          *)
MonthsInOrder ==
  (complete \/ runs = 0 \/ tool = "months") =>
    \A t \in RunDay : Rolls(t) /\ MonthOf[t - 1] \in DataMonths =>
       MonthOf[t - 1] \in todo \/ SettledBy(t)

FirstRun == runs = 0 => tool = "none"

AgainInv ==
  /\ ToolTypeOK /\ CompleteIsOver /\ FirstRun /\ RolledInThePast /\ StagesInOrder
  /\ RowsOfRolled /\ MonthsGoOn /\ MonthsInOrder

LEMMA MonthSteps ==
  ASSUME NEW d \in RunDay
  PROVE  /\ MonthOf[d] \in Nat /\ MonthOf[d - 1] \in Nat
         /\ MonthOf[d] = MonthOf[d - 1] \/ MonthOf[d] = MonthOf[d - 1] + 1
BY CalendarTypes, CalendarAssumption, MonthAssumption DEF CalendarAssumption, MonthAssumption

(* What veterod's steps keep, whatever the program does to its tables.     *)
LEMMA LoopStep ==
  ASSUME TypeOK, [Next]_vars, RolledInThePast, StagesInOrder, RowsOfRolled, MonthsGoOn
  PROVE  RolledInThePast' /\ StagesInOrder' /\ RowsOfRolled' /\ MonthsGoOn'
<1>0. /\ rolled \subseteq RunDay /\ ts \in RunDay /\ now \in RunDay
      /\ \A d \in RunDay : d \in Nat /\ d \in Day
      /\ rows \in [Day -> Nat]
  BY CalendarTypes DEF TypeOK, DbTypeOK
<1>1. \A d \in RunDay : MonthOf[d] \in Nat /\ MonthOf[d - 1] \in Nat
  BY MonthSteps
<1> USE DEF RolledInThePast, StagesInOrder, RowsOfRolled, MonthsGoOn
<1>2. CASE Tick
  <2>1. now + 1 \in RunDay
    BY <1>0, <1>2, HorizonAssumption DEF HorizonAssumption, Tick, RunDay
  <2>2. MonthOf[now + 1] \in Nat /\ MonthOf[now] <= MonthOf[now + 1]
    BY <1>0, <2>1, MonthSteps DEF RunDay
  <2>3. UNCHANGED <<pc, ts, lastInserted, rows, rolled>> /\ now' = now + 1
    BY <1>2 DEF Tick, daemonVars, dbVars
  <2>4. MonthsGoOn'
    BY <1>0, <1>1, <2>2, <2>3 DEF Active
  <2> QED
    BY <1>0, <2>3, <2>4 DEF Active, DayChanged, MonthChanged, LastDay
<1>3. CASE Start \/ Stop \/ StatementFails
  BY <1>3 DEF Start, Stop, StatementFails, Active, dbVars
<1>4. CASE Read
  BY <1>0, <1>1, <1>4 DEF Read, Active, dbVars
<1>5. CASE Insert
  <2>1. /\ \A d \in Day : rows[d] > 0 => rows'[d] > 0
        /\ rows'[ts] > 0
    BY <1>0, <1>5 DEF Insert, InsertRow
  <2> QED
    BY <1>0, <1>5, <2>1 DEF Insert, InsertRow, Active
<1>6. CASE WriteLastRain \/ UpdateDay \/ QueryCurrent \/ UpdateThisMonth \/ UpdateLastMonth
  <2>1. UNCHANGED <<ts, now, lastInserted, rolled, rows>> /\ Active /\ pc # "insert"
        /\ pc' # "insert"
    BY <1>6 DEF WriteLastRain, UpdateDay, QueryCurrent, UpdateThisMonth, UpdateLastMonth,
       UpdateDayStatistics, UpdateMonthStatistics, Active, dbVars
  <2>2. StagesInOrder'
    BY <1>6, <2>1 DEF WriteLastRain, UpdateDay, QueryCurrent, UpdateThisMonth, UpdateLastMonth,
       DayChanged, MonthChanged, LastDay
  <2> QED
    BY <2>1, <2>2
<1>7. CASE UpdateReports \/ ReportsFail
  <2>1. /\ UNCHANGED <<rows, ts, now>> /\ pc = "reports" /\ pc' = "read"
        /\ rolled' \subseteq rolled \union {ts}
    BY <1>7 DEF UpdateReports, ReportsFail, EndIteration, dbVars
  <2>2. MonthOf[ts] # MonthOf[ts - 1] => MonthOf[ts - 1] < MonthOf[now]
    BY <1>0, <1>1, MonthSteps
  <2> QED
    BY <1>0, <2>1, <2>2 DEF Active
<1>8. CASE UNCHANGED vars
  BY <1>8 DEF vars, dbVars, daemonVars, Active, DayChanged, MonthChanged, LastDay
<1> QED
  BY <1>2, <1>3, <1>4, <1>5, <1>6, <1>7, <1>8 DEF Next, Iteration

(* A month statement settles the day changes of its month and disturbs     *)
(* those of no other.                                                      *)
LEMMA MonthSettles ==
  ASSUME TypeOK, NEW t \in RunDay, NEW m, UpdateMonthStatistics(m)
  PROVE  /\ MonthOf[t - 1] = m => SettledBy(t)'
         /\ SettledBy(t) => SettledBy(t)'
<1> DEFINE mt == MonthOf[t - 1]
<1>1. dayStats' = dayStats /\ mt \in Month
  BY CalendarTypes DEF UpdateMonthStatistics
<1>2. CASE mt = m
  <2>1. monthStats'[mt] = MonthAggregate(mt)
    BY <1>1, <1>2 DEF UpdateMonthStatistics, TypeOK, DbTypeOK
  <2> QED
    BY <1>1, <2>1, AggregateHolds DEF SettledBy, TypeOK, DbTypeOK
<1>3. CASE mt # m
  <2>1. monthStats'[mt] = monthStats[mt]
    BY <1>1, <1>3 DEF UpdateMonthStatistics, TypeOK, DbTypeOK
  <2> QED
    BY <1>1, <1>3, <2>1 DEF SettledBy
<1> QED
  BY <1>2, <1>3

(* A day change of veterod, whether it has been completed or is about to   *)
(* be, stays settled or is so by this step.                                *)
LEMMA RollsStaySettled ==
  ASSUME TypeOK, [Next]_vars, RolledInThePast, StagesInOrder, NEW t \in RunDay, Rolls(t)',
         Rolls(t) => SettledBy(t)
  PROVE  SettledBy(t)'
<1>1. CASE UpdateThisMonth
  <2>1. UpdateMonthStatistics(MonthOf[ts]) /\ UNCHANGED <<rolled, ts, lastInserted>>
        /\ pc' = IF MonthChanged THEN "monthLast" ELSE "reports"
    BY <1>1 DEF UpdateThisMonth
  <2>2. t \in rolled \/ (t = ts /\ MonthOf[t - 1] = MonthOf[ts])
    BY <2>1 DEF Rolls, MonthChanged, LastDay
  <2> QED
    BY <2>1, <2>2, MonthSettles DEF Rolls
<1>2. CASE UpdateLastMonth
  <2>1. UpdateMonthStatistics(MonthOf[LastDay]) /\ UNCHANGED <<rolled, ts>>
    BY <1>2 DEF UpdateLastMonth
  <2>2. t \in rolled \/ MonthOf[t - 1] = MonthOf[LastDay]
    BY <2>1 DEF Rolls, LastDay
  <2> QED
    BY <2>1, <2>2, MonthSettles DEF Rolls
<1>3. CASE UpdateDay
  <2>1. t \in rolled /\ t <= ts /\ UpdateDayStatistics(ts)
    BY <1>3 DEF UpdateDay, Rolls, RolledInThePast, Active
  <2> QED
    BY <2>1, LaterDayKeepsSettled DEF Rolls
<1>4. CASE ~(UpdateThisMonth \/ UpdateLastMonth \/ UpdateDay)
  <2>1. UNCHANGED <<dayStats, monthStats>>
    BY <1>4 DEF Next, Iteration, Tick, Start, Stop, StatementFails, Read, Insert, InsertRow,
       WriteLastRain, QueryCurrent, UpdateReports, ReportsFail, EndIteration, vars, dbVars
  <2>2. Rolls(t)
    BY <1>4 DEF Rolls, DayChanged, Next, Iteration, Tick, Start, Stop, StatementFails, Read,
       Insert, WriteLastRain, QueryCurrent, UpdateReports, ReportsFail, EndIteration, vars,
       daemonVars
  <2> QED
    BY <2>1, <2>2, UnchangedKeepsSettled
<1> QED
  BY <1>1, <1>2, <1>3, <1>4

(* A row of a month without data is of no month that a completed day       *)
(* change has left behind: the dataset of that day change has a row.       *)
LEMMA NoNewMonthsBehind ==
  ASSUME TypeOK, RowsOfRolled, MonthsGoOn, [Next]_vars, NEW t \in rolled,
         MonthOf[t - 1] \in DataMonths'
  PROVE  MonthOf[t - 1] \in DataMonths
<1>1. t \in RunDay /\ t \in Day /\ ts \in RunDay /\ ts \in Day
  BY CalendarTypes DEF TypeOK
<1>2. PICK d \in Day : rows'[d] > 0 /\ MonthOf[t - 1] = MonthOf[d]
  BY DEF DataMonths, DataDays
<1>3. CASE rows[d] > 0
  BY <1>2, <1>3 DEF DataMonths, DataDays
<1>4. CASE ~(rows[d] > 0)
  <2>1. Insert /\ d = ts
    BY <1>2, <1>4, RowsGrow
  <2>2. ~(MonthOf[t - 1] < MonthOf[ts])
    BY <1>1, <1>2, <2>1, MonthSteps
  <2>3. MonthOf[t] = MonthOf[t - 1]
    BY <2>1, <2>2 DEF MonthsGoOn, Insert, Active
  <2>4. rows[t] > 0
    BY DEF RowsOfRolled
  <2> QED
    BY <1>1, <2>3, <2>4 DEF DataMonths, DataDays
<1> QED
  BY <1>3, <1>4

LEMMA AgainStep == AgainInv /\ [ToolNext]_allVars => AgainInv'
<1> SUFFICES ASSUME AgainInv, [ToolNext]_allVars PROVE AgainInv'
  OBVIOUS
<1> USE DEF AgainInv
<1>0. TypeOK /\ ToolTypeOK'
  BY ToolTypeStep DEF ToolTypeOK
<1>1. CASE VeterodStep
  <2>1. RolledInThePast' /\ StagesInOrder' /\ RowsOfRolled' /\ MonthsGoOn'
    BY <1>0, <1>1, LoopStep DEF VeterodStep
  <2>2. CompleteIsOver' /\ FirstRun' /\ UNCHANGED <<tool, todo, runs, complete>>
    BY <1>1 DEF VeterodStep, toolVars, CompleteIsOver, FirstRun
  <2>3. MonthsInOrder'
    <3> SUFFICES ASSUME complete \/ runs = 0 \/ tool = "months",
                        NEW t \in RunDay, Rolls(t)', MonthOf[t - 1] \in DataMonths'
                 PROVE  MonthOf[t - 1] \in todo \/ SettledBy(t)'
      BY <2>2 DEF MonthsInOrder
    <3>1. MonthOf[t - 1] \in DataMonths
      <4>1. CASE t \in rolled
        BY <1>0, <1>1, <4>1, NoNewMonthsBehind DEF VeterodStep
      <4>2. CASE t \notin rolled
        <5>1. rows' = rows
          BY <1>1, <4>2 DEF Rolls, VeterodStep, Next, Iteration, Tick, Start, Stop,
             StatementFails, Read, Insert, WriteLastRain, UpdateDay, UpdateDayStatistics,
             QueryCurrent, UpdateThisMonth, UpdateLastMonth, UpdateMonthStatistics,
             UpdateReports, ReportsFail, EndIteration, vars, dbVars
        <5> QED
          BY <5>1 DEF DataMonths, DataDays
      <4> QED
        BY <4>1, <4>2
    <3>2. CASE MonthOf[t - 1] \in todo
      BY <3>2
    <3>3. CASE MonthOf[t - 1] \notin todo
      <4>1. Rolls(t) => SettledBy(t)
        BY <3>1, <3>3 DEF MonthsInOrder
      <4> QED
        BY <1>0, <1>1, <4>1, RollsStaySettled DEF VeterodStep
    <3> QED
      BY <3>2, <3>3
  <2> QED
    BY <1>0, <2>1, <2>2, <2>3
<1>2. CASE ToolStep
  <2>1. UNCHANGED <<now, pc, ts, lastInserted, rolled, rows>>
    BY <1>2 DEF ToolStep, Tool, daemonVars, Begin, DeleteDays, DeleteMonths, ListDays, UpdateADay,
       UpdateDayStatistics, ListMonths, UpdateAMonth, UpdateMonthStatistics, End, Abort,
       ProgressDies, dbVars
  <2>2. RolledInThePast' /\ StagesInOrder' /\ RowsOfRolled' /\ MonthsGoOn'
    BY <2>1 DEF RolledInThePast, StagesInOrder, RowsOfRolled, MonthsGoOn, Active, DayChanged,
       MonthChanged, LastDay
  <2>3. \A t : Rolls(t)' <=> Rolls(t)
    BY <2>1 DEF Rolls, DayChanged
  <2>4. DataMonths' = DataMonths
    BY <2>1 DEF DataMonths, DataDays
  (* Nothing is owed before the last stage, nor after a failure. *)
  <2>5. CASE Begin \/ DeleteDays \/ DeleteMonths \/ ListDays \/ UpdateADay \/ Abort \/ ProgressDies
    <3>1. ~complete' /\ runs' # 0 /\ tool' # "months"
      BY <1>0, <2>5 DEF Begin, DeleteDays, DeleteMonths, ListDays, UpdateADay, Abort, ProgressDies,
         GoOn, CompleteIsOver, FirstRun, ToolTypeOK
    <3> QED
      BY <1>0, <2>2, <3>1 DEF CompleteIsOver, FirstRun, MonthsInOrder
  <2>6. CASE ListMonths
    <3>1. todo' = DataMonths /\ tool' = "months" /\ ~complete' /\ runs' # 0
      BY <2>6 DEF ListMonths, GoOn, CompleteIsOver, FirstRun
    <3> QED
      BY <1>0, <2>2, <2>4, <3>1 DEF CompleteIsOver, FirstRun, MonthsInOrder
  <2>7. CASE UpdateAMonth
    <3> DEFINE m == Min(todo)
    <3> HIDE DEF m
    <3>1. /\ tool = "months" /\ tool' = "months" /\ ~complete' /\ runs' # 0
          /\ UpdateMonthStatistics(m) /\ todo' = todo \ {m}
      BY <2>7 DEF UpdateAMonth, GoOn, CompleteIsOver, FirstRun, m
    <3>2. ASSUME NEW t \in RunDay, Rolls(t), MonthOf[t - 1] \in DataMonths
          PROVE  MonthOf[t - 1] \in todo' \/ SettledBy(t)'
      <4>1. MonthOf[t - 1] \in todo \/ SettledBy(t)
        BY <3>1, <3>2 DEF MonthsInOrder
      <4>2. /\ MonthOf[t - 1] = m => SettledBy(t)'
            /\ SettledBy(t) => SettledBy(t)'
        BY <1>0, <3>1, MonthSettles
      <4> QED
        BY <3>1, <4>1, <4>2
    <3>3. MonthsInOrder'
      BY <2>3, <2>4, <3>2 DEF MonthsInOrder
    <3> QED
      BY <1>0, <2>2, <3>1, <3>3 DEF CompleteIsOver, FirstRun
  <2>8. CASE End
    <3>1. /\ tool = "months" /\ todo = {} /\ todo' = {} /\ tool' = "none" /\ runs' # 0
          /\ UNCHANGED <<dayStats, monthStats>>
      BY <2>8 DEF End, dbVars, FirstRun
    <3>2. ASSUME NEW t \in RunDay, Rolls(t), MonthOf[t - 1] \in DataMonths
          PROVE  SettledBy(t)'
      BY <3>1, <3>2, UnchangedKeepsSettled DEF MonthsInOrder
    <3>3. MonthsInOrder'
      BY <2>3, <2>4, <3>2 DEF MonthsInOrder
    <3> QED
      BY <1>0, <2>2, <3>1, <3>3 DEF CompleteIsOver, FirstRun
  <2> QED
    BY <1>2, <2>5, <2>6, <2>7, <2>8 DEF ToolStep, Tool
<1> QED
  BY <1>1, <1>2, StepOfEither

LEMMA AgainInit == ToolInit => AgainInv
<1> SUFFICES ASSUME ToolInit PROVE AgainInv
  OBVIOUS
<1>1. ToolTypeOK /\ tool = "none" /\ complete = FALSE
  BY ToolTypeInit DEF ToolInit
<1>2. rolled = {} /\ pc = "down" /\ ts = now /\ now = 1
  BY SiteInitIsVeterods DEF ToolInit, Init
<1>3. MonthOf[1] \in Nat /\ 1 \in RunDay
  BY <1>1, <1>2, MonthSteps DEF ToolTypeOK, TypeOK
<1> QED
  BY <1>1, <1>2, <1>3 DEF AgainInv, CompleteIsOver, FirstRun, RolledInThePast, StagesInOrder,
     RowsOfRolled, MonthsGoOn, MonthsInOrder, Rolls, Active

(* After a run that came to its end each completed day change is settled   *)
(* as if the tables had never been deleted, also one that veterod made on  *)
(* half-built tables (veterodb.cc:133, 137, veterod.cc:403).               *)
THEOREM SettledAgainHolds == ToolSpec => []SettledAgain
<1>1. AgainInv => SettledAgain
  <2> SUFFICES ASSUME AgainInv, complete \/ runs = 0, NEW t \in rolled,
                      MonthOf[t - 1] \in DataMonths
               PROVE  SettledBy(t)
    BY DEF SettledAgain
  <2>1. t \in RunDay /\ todo = {}
    BY DEF AgainInv, ToolTypeOK, TypeOK, CompleteIsOver, FirstRun
  <2> QED
    BY <2>1 DEF AgainInv, MonthsInOrder, Rolls
<1> QED
  BY <1>1, AgainInit, AgainStep, PTL DEF ToolSpec

-----------------------------------------------------------------------------
(* The days and their pages while the tables come and go                   *)

(* A step of Regenerate, by what it does to the pages *)
ProgramStep == ToolStep /\ UNCHANGED site
Published   == Publish /\ torn' = torn \union Only(HalfBuilt, ts) /\ UNCHANGED toolVars
LoopQuiet   == (Other \/ UNCHANGED vars) /\ UNCHANGED <<site, torn, toolVars>>

LEMMA StepOfThree ==
  ASSUME [ToolNext]_allVars
  PROVE  /\ ProgramStep \/ Published \/ LoopQuiet
         /\ Published \/ LoopQuiet => VeterodStep
<1>1. ProgramStep \/ Published \/ LoopQuiet
  BY DEF ToolNext, ProgramStep, ToolStep, Published, LoopQuiet, allVars, siteVars
<1>2. Published \/ LoopQuiet => VeterodStep
  BY DEF Published, LoopQuiet, VeterodStep, Publish, Other, Next, Iteration
<1> QED
  BY <1>1, <1>2

LEMMA ProgramLeaves ==
  ASSUME ToolStep
  PROVE  UNCHANGED <<rows, now, pc, ts, lastInserted, asked, rolled, faults, torn>>
BY DEF ToolStep, Tool, daemonVars, Begin, DeleteDays, DeleteMonths, ListDays, UpdateADay,
   UpdateDayStatistics, ListMonths, UpdateAMonth, UpdateMonthStatistics, End, Abort,
   ProgressDies, dbVars

LEMMA LeastOfFinite ==
  ASSUME NEW S \in SUBSET Int, IsFiniteSet(S), S # {}
  PROVE  Min(S) \in S
BY LeastExists DEF Min

(* The day whose turn it is *)
LEMMA NextDay ==
  ASSUME ToolTypeOK, UpdateADay
  PROVE  Min(todo) \in todo /\ Min(todo) \in Day /\ rows[Min(todo)] > 0
<1>1. todo \subseteq Day /\ todo # {} /\ \A d \in todo : rows[d] > 0
  BY DEF UpdateADay, ToolTypeOK
<1>2. IsFiniteSet(todo)
  BY <1>1, DaysAreFinite, FS_Subset
<1>3. todo \in SUBSET Int
  BY <1>1 DEF Day
<1> QED
  BY <1>1, <1>2, <1>3, LeastOfFinite

(* The tables hold day d: they were never deleted or are complete again, or*)
(* the program has been at d.                                              *)
Known(d) ==
  \/ runs = 0 \/ complete \/ tool = "months"
  \/ tool = "days" /\ d \notin todo

(* Rows, statistics and pages are there for the days up to the dataset at  *)
(* hand, statistics for stored rows only; the dataset at work is in the    *)
(* statistics, unless the program has taken them away; a daemon that runs  *)
(* made no page of a day after lastInserted.                               *)
DaysInOrder ==
  /\ \A d \in Day : rows[d] > 0 => d <= Horizon
  /\ \A d \in Day : rows[d] = 0 => dayStats[d] = NoRow
  /\ \A d \in Day : HasPage(d) =>
       /\ d <= Horizon /\ (rows[d] > 0 \/ d < Horizon)
       /\ pc # "down" => d <= lastInserted
  /\ Aggregated /\ Known(ts) => DataAtDay(ts)

LEMMA UnknownIsHalfBuilt ==
  ASSUME ToolTypeOK, NEW d, ~Known(d)
  PROVE  HalfBuilt
BY DEF Known, HalfBuilt, ToolTypeOK

(* What the program knows of a stored day it has just computed or left as  *)
(* it was, and it makes no statistics of a day without rows.               *)
LEMMA ProgramKnows ==
  ASSUME ToolTypeOK, CompleteIsOver, FirstRun, ToolStep, NEW d \in Day
  PROVE  /\ rows[d] > 0 /\ Known(d)' =>
              \/ Known(d) /\ dayStats'[d] = dayStats[d]
              \/ dayStats'[d] = rows[d]
         /\ rows[d] = 0 /\ dayStats[d] = NoRow => dayStats'[d] = NoRow
<1> USE DEF GoOn
<1>1. CASE Begin \/ DeleteDays \/ DeleteMonths \/ Abort \/ ProgressDies
  <2>1. ~complete' /\ runs' # 0 /\ tool' \notin {"days", "months"}
    BY <1>1 DEF Begin, DeleteDays, DeleteMonths, Abort, ProgressDies, CompleteIsOver, FirstRun,
       ToolTypeOK
  <2>2. dayStats' = dayStats \/ dayStats' = [e \in Day |-> NoRow]
    BY <1>1 DEF Begin, DeleteDays, DeleteMonths, Abort, ProgressDies, dbVars
  <2> QED
    BY <2>1, <2>2 DEF Known
<1>2. CASE ListDays
  <2>1. /\ ~complete' /\ runs' # 0 /\ tool' = "days" /\ todo' = DataDays /\ dayStats' = dayStats
    BY <1>2 DEF ListDays, CompleteIsOver, FirstRun, dbVars
  <2> QED
    BY <2>1 DEF Known, DataDays
<1>3. CASE UpdateADay
  <2> DEFINE n == Min(todo)
  <2>1. n \in todo /\ rows[n] > 0
    BY <1>3, NextDay
  <2>2. /\ tool = "days" /\ tool' = "days" /\ UNCHANGED <<complete, runs>>
        /\ todo' = todo \ {n} /\ dayStats' = [dayStats EXCEPT ![n] = rows[n]]
    BY <1>3 DEF UpdateADay, UpdateDayStatistics
  <2>3. dayStats'[d] = IF d = n THEN rows[n] ELSE dayStats[d]
    BY <2>2 DEF ToolTypeOK, TypeOK, DbTypeOK
  <2> HIDE DEF n
  <2> QED
    BY <2>1, <2>2, <2>3 DEF Known
<1>4. CASE ListMonths \/ UpdateAMonth \/ End
  <2>1. dayStats' = dayStats
    BY <1>4 DEF ListMonths, UpdateAMonth, UpdateMonthStatistics, End, dbVars
  <2>2. tool \in {"days", "months"} /\ (tool = "days" => todo = {})
    BY <1>4 DEF ListMonths, UpdateAMonth, End
  <2> QED
    BY <2>1, <2>2 DEF Known
<1> QED
  BY <1>1, <1>2, <1>3, <1>4 DEF ToolStep, Tool

(* A quiet step of the loop keeps the order of the days. *)
LEMMA QuietKeepsDays ==
  ASSUME TypeOK, DaysInOrder, UNCHANGED <<site, rows, dayStats, toolVars>>,
         Horizon \in Nat, Horizon' \in Nat, Horizon <= Horizon',
         lastInserted \in Nat, lastInserted' \in Nat,
         pc' # "down" => (pc # "down" /\ lastInserted <= lastInserted') \/ Horizon <= lastInserted',
         Aggregated' => Aggregated /\ ts' = ts
  PROVE  DaysInOrder'
<1>1. ASSUME NEW d \in Day, HasPage(d)'
      PROVE  /\ d <= Horizon' /\ (rows'[d] > 0 \/ d < Horizon')
             /\ pc' # "down" => d <= lastInserted'
  <2>1. d \in Nat /\ HasPage(d)
    BY <1>1 DEF HasPage, Day
  <2> QED
    BY <2>1 DEF DaysInOrder
<1>2. \A d \in Day : rows'[d] > 0 => d <= Horizon'
  BY DEF DaysInOrder, Day
<1>3. Aggregated' /\ Known(ts)' => DataAtDay(ts)'
  BY DEF DaysInOrder, DataAtDay, Known, toolVars
<1> QED
  BY <1>1, <1>2, <1>3 DEF DaysInOrder

(* What the steps on the days work with *)
LEMMA DayNumbers ==
  ASSUME TypeOK, RolledInThePast, [Next]_vars
  PROVE  /\ TypeOK' /\ ts \in RunDay /\ ts \in Day /\ ts \in Nat /\ now \in Nat /\ ts <= now
         /\ ts - 1 \in Day /\ lastInserted \in Nat /\ lastInserted' \in Nat
         /\ Horizon \in Nat /\ Horizon' \in Nat /\ Horizon <= Horizon'
         /\ \A d \in Day : d \in Nat /\ rows[d] \in Nat
<1>1. TypeOK' /\ Horizon \in RunDay /\ Horizon' \in RunDay /\ Horizon <= Horizon'
  BY TypeStep, HorizonStep
<1>2. \A d \in Day : d \in Nat /\ rows[d] \in Nat
  BY DEF Day, TypeOK, DbTypeOK
<1> QED
  BY <1>1, <1>2, CalendarTypes DEF TypeOK, RolledInThePast

LEMMA DaysInOrderStep ==
  ASSUME AgainInv, DaysInOrder, [ToolNext]_allVars
  PROVE  DaysInOrder'
<1>0. TypeOK /\ ToolTypeOK /\ CompleteIsOver /\ FirstRun /\ RolledInThePast
  BY DEF AgainInv, ToolTypeOK
<1>1. CASE ProgramStep
  <2>1. UNCHANGED <<rows, now, pc, ts, lastInserted, site>> /\ ToolStep
    BY <1>1, ProgramLeaves DEF ProgramStep
  <2>2. Horizon' = Horizon /\ (Aggregated' <=> Aggregated) /\ \A d : HasPage(d)' <=> HasPage(d)
    BY <2>1 DEF Horizon, Active, Aggregated, HasPage
  <2>3. \A d \in Day : rows[d] = 0 => dayStats'[d] = NoRow
    BY <1>0, <2>1, ProgramKnows DEF DaysInOrder
  <2>4. ASSUME Aggregated, Known(ts)' PROVE DataAtDay(ts)'
    <3>1. rows[ts] > 0 /\ rows[ts] \in Nat /\ ts \in Day
      BY <1>0, <2>4, CalendarTypes DEF AgainInv, RowsOfRolled, Aggregated, Active, TypeOK, DbTypeOK
    <3>2. (Known(ts) /\ dayStats'[ts] = dayStats[ts]) \/ dayStats'[ts] = rows[ts]
      BY <1>0, <2>1, <2>4, <3>1, ProgramKnows
    <3> QED
      BY <2>1, <2>4, <3>1, <3>2, NoRowAssumption DEF DaysInOrder, DataAtDay, NoRowAssumption
  <2> QED
    BY <2>1, <2>2, <2>3, <2>4 DEF DaysInOrder
<1>2. CASE Published \/ LoopQuiet
  <2>0. [Next]_vars /\ UNCHANGED toolVars
    BY <1>2, StepOfThree DEF VeterodStep
  <2>1. /\ TypeOK' /\ ts \in RunDay /\ ts \in Day /\ ts \in Nat /\ now \in Nat /\ ts <= now
        /\ ts - 1 \in Day /\ lastInserted \in Nat /\ lastInserted' \in Nat
        /\ Horizon \in Nat /\ Horizon' \in Nat /\ Horizon <= Horizon'
        /\ \A d \in Day : d \in Nat /\ rows[d] \in Nat
    BY <1>0, <2>0, DayNumbers
  <2>2. CASE Published
    <3>1. /\ UNCHANGED <<rows, dayStats, now, ts>> /\ pc = "reports" /\ pc' = "read"
          /\ lastInserted' = ts /\ Publish
      BY <2>2 DEF Published, Publish, UpdateReports, EndIteration, dbVars
    <3>2. Horizon = ts /\ Horizon' = now
      BY <3>1 DEF Horizon, Active
    <3>3. rows[ts] > 0
      BY <3>1 DEF AgainInv, RowsOfRolled, Active
    <3>4. ASSUME NEW d \in Day, HasPage(d)'
          PROVE  d <= Horizon' /\ (rows[d] > 0 \/ d < Horizon') /\ d <= ts
      <4>1. CASE d = ts \/ d = ts - 1
        BY <2>1, <3>2, <3>3, <4>1
      <4>2. CASE ~(d = ts \/ d = ts - 1)
        <5>1. site'[DayPage(d)] = site[DayPage(d)]
          BY <1>0, <3>1, <4>2, DayPagesMade
        <5>2. HasPage(d) /\ d \in Nat
          BY <2>1, <3>4, <5>1 DEF HasPage
        <5> QED
          BY <2>1, <3>2, <5>2 DEF DaysInOrder
      <4> QED
        BY <4>1, <4>2
    <3>5. \A d \in Day : rows[d] > 0 => d <= Horizon'
      BY <2>1, <3>2 DEF DaysInOrder
    <3>6. ~Aggregated'
      BY <3>1 DEF Aggregated
    <3> QED
      BY <3>1, <3>4, <3>5, <3>6 DEF DaysInOrder
  <2>3. CASE LoopQuiet /\ Insert
    <3>1. /\ UNCHANGED <<site, dayStats, ts, lastInserted>> /\ pc = "insert"
          /\ pc' \in {"lastRain", "dayStats"}
          /\ rows' = [rows EXCEPT ![ts] = rows[ts] + 1]
      BY <2>3 DEF LoopQuiet, Insert, InsertRow
    <3>2. rows \in [Day -> Nat]
      BY <1>0 DEF TypeOK, DbTypeOK
    <3>3. \A d \in Day : rows'[d] = IF d = ts THEN rows[ts] + 1 ELSE rows[d]
      BY <2>1, <3>1, <3>2
    <3>4. Horizon' = Horizon /\ Horizon = ts /\ ~Aggregated'
      BY <3>1 DEF Horizon, Active, Aggregated
    <3>5. \A d : HasPage(d)' <=> HasPage(d)
      BY <3>1 DEF HasPage
    <3> QED
      BY <2>1, <3>1, <3>3, <3>4, <3>5 DEF DaysInOrder
  <2>4. CASE LoopQuiet /\ UpdateDay
    <3>1. /\ UNCHANGED <<site, rows, ts, lastInserted>> /\ pc = "dayStats" /\ pc' = "current"
          /\ dayStats' = [dayStats EXCEPT ![ts] = rows[ts]]
      BY <2>4 DEF LoopQuiet, UpdateDay, UpdateDayStatistics
    <3>2. \A d \in Day : dayStats'[d] = IF d = ts THEN rows[ts] ELSE dayStats[d]
      BY <1>0, <3>1 DEF TypeOK, DbTypeOK
    <3>3. Horizon' = Horizon /\ Horizon = ts
      BY <3>1 DEF Horizon, Active
    <3>4. rows[ts] > 0
      BY <3>1 DEF AgainInv, RowsOfRolled, Active
    <3>5. DataAtDay(ts)'
      BY <2>1, <3>1, <3>2, NoRowAssumption DEF DataAtDay, NoRowAssumption
    <3>6. \A d : HasPage(d)' <=> HasPage(d)
      BY <3>1 DEF HasPage
    <3> QED
      BY <2>1, <3>1, <3>2, <3>3, <3>4, <3>5, <3>6 DEF DaysInOrder
  <2>5. CASE LoopQuiet /\ ~Insert /\ ~UpdateDay
    <3>1. UNCHANGED <<site, rows, dayStats>>
      BY <2>5 DEF LoopQuiet, Other, Tick, Start, Stop, StatementFails, Read, WriteLastRain,
         QueryCurrent, UpdateThisMonth, UpdateLastMonth, UpdateMonthStatistics, ReportsFail,
         EndIteration, vars, dbVars
    <3>2. pc' # "down" =>
            (pc # "down" /\ lastInserted <= lastInserted') \/ Horizon <= lastInserted'
      <4>1. \/ pc' = "down"
            \/ lastInserted' = lastInserted /\ pc # "down"
            \/ lastInserted' = now /\ pc = "down"
            \/ lastInserted' = ts /\ pc = "reports"
        BY <2>5 DEF LoopQuiet, Other, Tick, Start, Stop, StatementFails, Read, WriteLastRain,
           QueryCurrent, UpdateThisMonth, UpdateLastMonth, ReportsFail, EndIteration, vars,
           daemonVars, DbSteps
      <4> QED
        BY <2>1, <4>1 DEF Horizon, Active
    <3>3. Aggregated' => Aggregated /\ ts' = ts
      BY <2>5 DEF LoopQuiet, Other, Tick, Start, Stop, StatementFails, Read, WriteLastRain,
         QueryCurrent, UpdateThisMonth, UpdateLastMonth, ReportsFail,
         EndIteration, vars, daemonVars, Aggregated
    <3> QED
      BY <1>0, <2>0, <2>1, <3>1, <3>2, <3>3, QuietKeepsDays
  <2> QED
    BY <1>2, <2>2, <2>3, <2>4, <2>5
<1> QED
  BY <1>1, <1>2, StepOfThree

-----------------------------------------------------------------------------
(* Neighbouring days link to each other, unless torn or paid for.          *)

(* A day with rows and without statistics, at which nobody is at work and  *)
(* to which the program does not come any more                             *)
LeftOut(d) == rows[d] > 0 /\ dayStats[d] = NoRow /\ d \notin InFlight /\ Known(d)

(* The first iteration that brings rows of the next day makes the page of  *)
(* d again.                                                                *)
WillLink(d) ==
  /\ pc # "down" /\ lastInserted = d
  /\ rows[d + 1] = 0 \/ (Active /\ ts = d + 1)

NoForwardLink(d) ==
  /\ HasPage(d) /\ DayPage(d + 1) \notin site[DayPage(d)].links
  /\ rows[d + 1] > 0 \/ d + 1 >= Horizon
  /\ ~WillLink(d)

NoBackLink(d) == HasPage(d + 1) /\ DayPage(d) \notin site[DayPage(d + 1)].links

(* The pages of d and of the next day were not made of half-built tables   *)
(* when they were last made.                                               *)
PairUntorn(d) == {d + 1, d + 2} \intersect torn = {}

(* The pairs of d and the next day that failures have cost: the back link  *)
(* will be missing, or a link of pages that were not torn is missing.      *)
PairsLost ==
  { d \in Day \ {MaxDay} :
      \/ LeftOut(d)
      \/ rows[d] > 0 /\ PairUntorn(d) /\ (NoForwardLink(d) \/ NoBackLink(d)) }

LinkedInv == AgainInv /\ DaysInOrder /\ Cardinality(PairsLost) <= 2 * faults

LEMMA PairsOfProgram ==
  ASSUME AgainInv, ProgramStep
  PROVE  PairsLost' \subseteq PairsLost
<1>1. UNCHANGED <<rows, now, pc, ts, lastInserted, site, torn>> /\ ToolStep
  BY ProgramLeaves DEF ProgramStep
<1>2. ASSUME NEW d \in Day, LeftOut(d)' PROVE LeftOut(d)
  <2>1. rows[d] > 0 /\ rows[d] \in Nat /\ Known(d)' /\ dayStats'[d] = NoRow /\ d \notin InFlight
    BY <1>1, <1>2 DEF LeftOut, InFlight, AgainInv, ToolTypeOK, TypeOK, DbTypeOK
  <2>2. Known(d) /\ dayStats'[d] = dayStats[d]
    <3>1. dayStats'[d] # rows[d]
      BY <2>1, NoRowAssumption DEF NoRowAssumption
    <3> QED
      BY <1>1, <2>1, <3>1, ProgramKnows DEF AgainInv
  <2> QED
    BY <2>1, <2>2 DEF LeftOut
<1>3. \A d : (NoForwardLink(d)' <=> NoForwardLink(d)) /\ (NoBackLink(d)' <=> NoBackLink(d))
  BY <1>1 DEF NoForwardLink, NoBackLink, WillLink, HasPage, Horizon, Active
<1>4. \A d : PairUntorn(d)' <=> PairUntorn(d)
  BY <1>1 DEF PairUntorn
<1> QED
  BY <1>1, <1>2, <1>3, <1>4 DEF PairsLost

(* When the pages are made, a link is only left out when the statistics    *)
(* are, and that is known before.                                          *)
LEMMA PairsOfPublish ==
  ASSUME AgainInv, DaysInOrder, Published
  PROVE  PairsLost' \subseteq PairsLost
<1>0. TypeOK /\ ToolTypeOK /\ RolledInThePast /\ [Next]_vars /\ Publish
  BY DEF AgainInv, ToolTypeOK, Published, Publish, Next, Iteration
<1>1. /\ TypeOK' /\ ts \in RunDay /\ ts \in Day /\ ts \in Nat /\ now \in Nat /\ ts <= now
      /\ ts - 1 \in Day /\ lastInserted \in Nat /\ lastInserted' \in Nat
      /\ Horizon \in Nat /\ Horizon' \in Nat /\ Horizon <= Horizon'
      /\ \A d \in Day : d \in Nat /\ rows[d] \in Nat
  BY <1>0, DayNumbers
<1>2. /\ UNCHANGED <<rows, dayStats, now, ts, toolVars>> /\ pc = "reports" /\ pc' = "read"
      /\ lastInserted' = ts
  BY <1>0 DEF Published, Publish, UpdateReports, EndIteration, dbVars
<1>3. Horizon = ts /\ Horizon' = now /\ Active /\ InFlight = {} /\ InFlight' = {}
  BY <1>2 DEF Horizon, Active, InFlight
<1>4. \A d : LeftOut(d)' <=> LeftOut(d)
  BY <1>2, <1>3 DEF LeftOut, Known, toolVars
<1>5. ASSUME ts \notin torn' PROVE \A d : Known(d)
  BY <1>0, <1>5, UnknownIsHalfBuilt DEF Published, Only
<1>6. ASSUME NEW d \in Day, d # MaxDay, rows[d] > 0, PairUntorn(d)', NoForwardLink(d)'
      PROVE  NoForwardLink(d)
  <2>0. d \in Nat /\ d + 1 \in Day
    BY <1>6, HorizonAssumption DEF HorizonAssumption, Day
  <2>1. d # ts
    <3> SUFFICES ASSUME d = ts PROVE FALSE
      OBVIOUS
    <3>1. ts + 1 \in Day /\ rows[ts + 1] \in Nat /\ ~(rows[ts + 1] > 0)
      BY <1>1, <1>3, <2>0 DEF DaysInOrder
    <3> QED
      BY <1>2, <1>6, <3>1 DEF NoForwardLink, WillLink
  <2>2. ~(d = ts - 1 /\ DayChanged)
    <3> SUFFICES ASSUME d = ts - 1, DayChanged PROVE FALSE
      OBVIOUS
    <3>1. site'[DayPage(d)].links = DayLinks(d)
      BY <1>0, DayPagesMade
    <3>2. ts = d + 1 /\ ts \notin torn'
      BY <1>1, <1>6 DEF PairUntorn
    <3>3. DataAtDay(d + 1)
      BY <1>2, <1>5, <3>2 DEF DaysInOrder, Aggregated
    <3>4. DayPage(d + 1) \in DayLinks(d)
      BY <2>0, <3>3, DayLinksTo
    <3> QED
      BY <1>6, <3>1, <3>4 DEF NoForwardLink
  <2>3. site'[DayPage(d)] = site[DayPage(d)]
    BY <1>0, <2>1, <2>2, DayPagesMade
  <2>4. HasPage(d) /\ DayPage(d + 1) \notin site[DayPage(d)].links
    BY <1>6, <2>3 DEF NoForwardLink, HasPage
  <2>5. d <= ts
    BY <1>3, <2>4 DEF DaysInOrder
  <2>6. ~WillLink(d)
    <3> SUFFICES ASSUME WillLink(d) PROVE FALSE
      OBVIOUS
    <3>1. CASE d = ts - 1
      <4>1. DomOf[ts] # DomOf[ts - 1]
        BY <1>1, CalendarTypes, CalendarAssumption, MonthAssumption
           DEF CalendarAssumption, MonthAssumption
      <4> QED
        BY <2>2, <3>1, <4>1 DEF WillLink, DayChanged
    <3>2. CASE d # ts - 1
      <4>1. d + 1 < ts
        BY <1>1, <2>0, <2>1, <2>5, <3>2
      <4>2. rows[d + 1] = 0
        BY <1>1, <2>0, <4>1 DEF WillLink
      <4>3. d + 1 >= Horizon'
        BY <1>2, <1>6, <4>2 DEF NoForwardLink
      <4> QED
        BY <1>1, <1>3, <2>0, <4>1, <4>3
    <3> QED
      BY <3>1, <3>2
  <2>7. rows[d + 1] > 0 \/ d + 1 >= Horizon
    <3>1. rows[d + 1] > 0 \/ d + 1 >= Horizon'
      BY <1>2, <1>6 DEF NoForwardLink
    <3> QED
      BY <1>1, <2>0, <3>1
  <2> QED
    BY <2>4, <2>6, <2>7 DEF NoForwardLink
<1>7. ASSUME NEW d \in Day, d # MaxDay, rows[d] > 0, PairUntorn(d)', NoBackLink(d)'
      PROVE  NoBackLink(d) \/ LeftOut(d)
  <2>0. d \in Nat /\ d + 1 \in Day /\ d + 1 \in Nat
    BY <1>7, HorizonAssumption DEF HorizonAssumption, Day
  <2>1. CASE d + 1 = ts \/ (d + 1 = ts - 1 /\ DayChanged)
    <3>1. site'[DayPage(d + 1)].links = DayLinks(d + 1)
      BY <1>0, <2>0, <2>1, DayPagesMade
    <3>2. ts \notin torn'
      BY <1>1, <1>7, <2>0, <2>1 DEF PairUntorn
    <3>3. Known(d)
      BY <1>5, <3>2
    <3>4. DayPage(d) \notin DayLinks(d + 1)
      BY <1>7, <3>1 DEF NoBackLink
    <3>5. ~DataAtDay(d)
      <4>1. d = (d + 1) - 1
        BY <2>0
      <4> QED
        BY <2>0, <3>4, <4>1, DayLinksTo
    <3> QED
      BY <1>3, <1>7, <3>3, <3>5 DEF LeftOut, DataAtDay
  <2>2. CASE ~(d + 1 = ts \/ (d + 1 = ts - 1 /\ DayChanged))
    <3>1. site'[DayPage(d + 1)] = site[DayPage(d + 1)]
      BY <1>0, <2>0, <2>2, DayPagesMade
    <3> QED
      BY <1>7, <3>1 DEF NoBackLink, HasPage
  <2> QED
    BY <2>1, <2>2
<1>8. \A d : PairUntorn(d)' => PairUntorn(d)
  BY DEF PairUntorn, Published
<1> QED
  BY <1>2, <1>4, <1>6, <1>7, <1>8 DEF PairsLost


(* What a step between two publications does to the days *)
Fails == Stop \/ StatementFails \/ ReportsFail

LEMMA LoopSteps ==
  ASSUME TypeOK, LoopQuiet
  PROVE  /\ Insert => /\ Active' /\ ts' = ts /\ Horizon = ts
                      /\ InFlight = {} /\ InFlight' = {ts}
         /\ \A d \in Day : rows'[d] = rows[d] \/ (Insert /\ d = ts /\ rows'[d] > 0)
         /\ \A d \in Day : dayStats'[d] = dayStats[d] \/ (UpdateDay /\ d = ts)
         /\ UpdateDay => InFlight = {ts} /\ dayStats'[ts] = rows[ts]
         /\ ~Fails => /\ InFlight \subseteq InFlight' \/ UpdateDay
                      /\ pc # "down" => pc' # "down" /\ lastInserted' = lastInserted
                      /\ Active => Active' /\ ts' = ts
         /\ faults' = IF Fails THEN faults + 1 ELSE faults
<1>0. /\ rows \in [Day -> Nat] /\ dayStats \in [Day -> DayStat] /\ ts \in Day
  BY CalendarTypes DEF TypeOK, DbTypeOK
<1>1. CASE Insert
  <2>1. /\ rows' = [rows EXCEPT ![ts] = rows[ts] + 1] /\ dayStats' = dayStats /\ pc = "insert"
        /\ pc' \in {"lastRain", "dayStats"} /\ UNCHANGED <<ts, lastInserted, faults>>
    BY <1>1 DEF Insert, InsertRow
  <2>2. ~Fails /\ ~UpdateDay
    BY <2>1 DEF Fails, Stop, StatementFails, ReportsFail, UpdateDay, dbVars
  <2>3. \A d \in Day : rows'[d] = rows[d] \/ (d = ts /\ rows'[d] > 0)
    BY <1>0, <2>1
  <2>4. Active' /\ Horizon = ts /\ InFlight = {} /\ InFlight' = {ts}
    BY <2>1 DEF Active, Horizon, InFlight
  <2> QED
    BY <1>1, <2>1, <2>2, <2>3, <2>4
<1>2. CASE UpdateDay
  <2>1. /\ dayStats' = [dayStats EXCEPT ![ts] = rows[ts]] /\ rows' = rows /\ pc = "dayStats"
        /\ pc' = "current" /\ UNCHANGED <<ts, lastInserted, faults>>
    BY <1>2 DEF UpdateDay, UpdateDayStatistics
  <2>2. ~Fails /\ ~Insert
    BY <2>1 DEF Fails, Stop, StatementFails, ReportsFail, Insert
  <2>3. \A d \in Day : dayStats'[d] = IF d = ts THEN rows[ts] ELSE dayStats[d]
    BY <1>0, <2>1
  <2> QED
    BY <1>0, <1>2, <2>1, <2>2, <2>3 DEF Active, InFlight
<1>3. CASE Fails
  <2>1. UNCHANGED <<rows, dayStats>> /\ faults' = faults + 1 /\ ~Insert /\ ~UpdateDay
    BY <1>3 DEF Fails, Stop, StatementFails, ReportsFail, EndIteration, dbVars, Insert, UpdateDay
  <2> QED
    BY <1>3, <2>1
<1>4. CASE ~Insert /\ ~UpdateDay /\ ~Fails
  <2>1. /\ UNCHANGED <<rows, dayStats, faults>>
        /\ InFlight \subseteq InFlight'
        /\ pc # "down" => pc' # "down" /\ lastInserted' = lastInserted
        /\ Active => Active' /\ ts' = ts
    BY <1>4 DEF LoopQuiet, Fails, Other, Tick, Start, Read, WriteLastRain, QueryCurrent,
       UpdateThisMonth, UpdateLastMonth, UpdateMonthStatistics, vars, dbVars, daemonVars, Active,
       InFlight
  <2> QED
    BY <1>4, <2>1
<1> QED
  BY <1>1, <1>2, <1>3, <1>4

(* The steps between two publications: a pair is only lost by a failure,   *)
(* which costs the day at work and the one that was to be linked.          *)
LEMMA PairsOfLoop ==
  ASSUME AgainInv, DaysInOrder, LoopQuiet
  PROVE  /\ PairsLost' \subseteq PairsLost \union {ts, lastInserted}
         /\ ~Fails => PairsLost' \subseteq PairsLost
<1>0. TypeOK /\ RolledInThePast /\ [Next]_vars /\ UNCHANGED <<site, torn, toolVars>>
  BY DEF AgainInv, ToolTypeOK, LoopQuiet, Other, Next, Iteration
<1>1. /\ TypeOK' /\ ts \in RunDay /\ ts \in Day /\ ts \in Nat /\ now \in Nat /\ ts <= now
      /\ ts - 1 \in Day /\ lastInserted \in Nat /\ lastInserted' \in Nat
      /\ Horizon \in Nat /\ Horizon' \in Nat /\ Horizon <= Horizon'
      /\ \A d \in Day : d \in Nat /\ rows[d] \in Nat
  BY <1>0, DayNumbers
<1>2. \A d \in Day \ {MaxDay} : d + 1 \in Day
  BY HorizonAssumption DEF HorizonAssumption, Day
<1>3. /\ Insert => /\ Active' /\ ts' = ts /\ Horizon = ts /\ InFlight' = {ts}
      /\ \A d \in Day : rows'[d] = rows[d] \/ (Insert /\ d = ts /\ rows'[d] > 0)
      /\ \A d \in Day : dayStats'[d] = dayStats[d] \/ (UpdateDay /\ d = ts)
      /\ UpdateDay => InFlight = {ts} /\ dayStats'[ts] = rows[ts]
  BY <1>0, LoopSteps
<1>4. ~Fails => /\ InFlight \subseteq InFlight' \/ UpdateDay
                /\ pc # "down" => pc' # "down" /\ lastInserted' = lastInserted
                /\ Active => Active' /\ ts' = ts
  BY <1>0, LoopSteps
<1>5. InFlight \subseteq {ts}
  BY DEF InFlight
<1>6. ASSUME NEW d \in Day, LeftOut(d)' PROVE LeftOut(d) \/ (Fails /\ d = ts)
  <2>1. rows'[d] > 0 /\ dayStats'[d] = NoRow /\ d \notin InFlight' /\ Known(d)
    BY <1>0, <1>6 DEF LeftOut, Known, toolVars
  <2>2. rows[d] > 0 /\ rows[d] # NoRow
    BY <1>1, <1>3, <2>1, NoRowAssumption DEF NoRowAssumption
  <2>3. dayStats[d] = NoRow /\ ~(UpdateDay /\ d = ts)
    BY <1>3, <2>1, <2>2
  <2>4. d \in InFlight => Fails /\ d = ts
    BY <1>4, <1>5, <2>1, <2>3
  <2> QED
    BY <2>1, <2>2, <2>3, <2>4 DEF LeftOut
<1>7. ASSUME NEW d \in Day, HasPage(d), rows'[d] > 0 PROVE rows[d] > 0
  BY <1>1, <1>3, <1>7 DEF DaysInOrder
<1>8. ASSUME NEW d \in Day, d # MaxDay, rows'[d] > 0, NoForwardLink(d)'
      PROVE  rows[d] > 0 /\ (NoForwardLink(d) \/ (Fails /\ d = lastInserted))
  <2>0. d \in Nat /\ d + 1 \in Day
    BY <1>1, <1>2, <1>8
  <2>1. HasPage(d) /\ DayPage(d + 1) \notin site[DayPage(d)].links
    BY <1>0, <1>8 DEF NoForwardLink, HasPage
  <2>2. rows[d + 1] > 0 \/ d + 1 >= Horizon
    <3>1. rows'[d + 1] > 0 \/ d + 1 >= Horizon'
      BY <1>8 DEF NoForwardLink
    <3> QED
      BY <1>1, <1>3, <2>0, <3>1
  <2>3. WillLink(d) => Fails /\ d = lastInserted
    <3> SUFFICES ASSUME WillLink(d), ~Fails PROVE FALSE
      BY DEF WillLink
    <3>1. /\ pc' # "down" /\ lastInserted' = d
          /\ Active => Active' /\ ts' = ts
      BY <1>4 DEF WillLink
    <3>2. rows'[d + 1] = rows[d + 1] \/ (Active' /\ ts' = ts /\ d + 1 = ts)
      BY <1>3, <2>0
    <3>3. WillLink(d)'
      BY <3>1, <3>2 DEF WillLink
    <3> QED
      BY <1>8, <3>3 DEF NoForwardLink
  <2> QED
    BY <1>7, <1>8, <2>1, <2>2, <2>3 DEF NoForwardLink
<1>9. ASSUME NEW d \in Day, d # MaxDay, rows'[d] > 0, NoBackLink(d)'
      PROVE  rows[d] > 0 /\ NoBackLink(d)
  <2>0. d \in Nat /\ d + 1 \in Day
    BY <1>1, <1>2, <1>9
  <2>1. NoBackLink(d) /\ HasPage(d + 1)
    BY <1>0, <1>9 DEF NoBackLink, HasPage
  <2>2. ~(Insert /\ d = ts)
    <3>1. d + 1 <= Horizon
      BY <2>0, <2>1 DEF DaysInOrder
    <3> QED
      BY <1>1, <1>3, <2>0, <3>1
  <2> QED
    BY <1>3, <1>9, <2>1, <2>2
<1>10. \A d : PairUntorn(d)' <=> PairUntorn(d)
  BY <1>0 DEF PairUntorn
<1>11. ASSUME NEW d \in PairsLost'
       PROVE  d \in PairsLost \/ (Fails /\ d \in {ts, lastInserted})
  <2>1. d \in Day /\ d # MaxDay
    BY <1>11 DEF PairsLost
  <2>2. CASE LeftOut(d)'
    BY <1>6, <2>1, <2>2 DEF PairsLost
  <2>3. CASE rows'[d] > 0 /\ PairUntorn(d)' /\ (NoForwardLink(d)' \/ NoBackLink(d)')
    BY <1>8, <1>9, <1>10, <2>1, <2>3 DEF PairsLost
  <2> QED
    BY <1>11, <2>2, <2>3 DEF PairsLost
<1> QED
  BY <1>11

LEMMA LinkedStep == LinkedInv /\ [ToolNext]_allVars => LinkedInv'
<1> SUFFICES ASSUME LinkedInv, [ToolNext]_allVars PROVE LinkedInv'
  OBVIOUS
<1>1. AgainInv /\ AgainInv' /\ DaysInOrder /\ DaysInOrder'
  BY AgainStep, DaysInOrderStep DEF LinkedInv
<1>2. /\ faults \in Nat /\ faults' \in Nat /\ 2 * faults \in Nat
      /\ PairsLost \in SUBSET Day /\ Cardinality(PairsLost) <= 2 * faults
  BY <1>1 DEF LinkedInv, AgainInv, ToolTypeOK, TypeOK, PairsLost
<1>3. ASSUME PairsLost' \subseteq PairsLost, faults <= faults'
      PROVE  Cardinality(PairsLost') <= 2 * faults'
  <2>1. \A m, n \in Nat : m <= n => 2 * n \in Nat /\ 2 * m <= 2 * n
    OBVIOUS
  <2>2. 2 * faults' \in Nat /\ 2 * faults <= 2 * faults'
    BY <1>2, <1>3, <2>1
  <2> QED
    BY <1>2, <1>3, <2>2, CountKept
<1>4. ASSUME PairsLost' \subseteq PairsLost \union {ts, lastInserted}, faults' = faults + 1
      PROVE  Cardinality(PairsLost') <= 2 * faults'
  <2> DEFINE More == PairsLost \union {ts}
             m == 2 * faults
  <2>1. ts \in Day
    BY <1>1, CalendarTypes DEF AgainInv, ToolTypeOK, TypeOK
  <2>2. /\ More \in SUBSET Day /\ More \in SUBSET (PairsLost \union {ts})
        /\ PairsLost' \in SUBSET (More \union {lastInserted})
    BY <1>2, <1>4, <2>1
  <2>3. m \in Nat /\ m + 1 \in Nat /\ Cardinality(PairsLost) <= m
    BY <1>2
  <2>4. 2 * faults' = (m + 1) + 1
    BY <1>2, <1>4
  <2> HIDE DEF More, m
  <2>5. Cardinality(More) <= m + 1
    BY <1>2, <2>2, <2>3, CountOneMore
  <2>6. Cardinality(PairsLost') <= (m + 1) + 1
    BY <2>2, <2>3, <2>5, CountOneMore
  <2> QED
    BY <2>4, <2>6
<1>5. CASE ProgramStep
  BY <1>1, <1>2, <1>3, <1>5, PairsOfProgram, ProgramLeaves DEF LinkedInv, ProgramStep
<1>6. CASE Published
  <2>1. faults' = faults
    BY <1>6 DEF Published, Publish, UpdateReports
  <2> QED
    BY <1>1, <1>2, <1>3, <1>6, <2>1, PairsOfPublish DEF LinkedInv
<1>7. CASE LoopQuiet
  <2>1. faults' = IF Fails THEN faults + 1 ELSE faults
    BY <1>1, <1>7, LoopSteps DEF AgainInv, ToolTypeOK
  <2> QED
    BY <1>1, <1>2, <1>3, <1>4, <1>7, <2>1, PairsOfLoop DEF LinkedInv
<1> QED
  BY <1>5, <1>6, <1>7, StepOfThree

LEMMA DaysInOrderInit ==
  ASSUME ToolInit
  PROVE  DaysInOrder /\ (\A d \in Day : rows[d] = 0 /\ dayStats[d] = NoRow /\ ~HasPage(d))
<1>1. \A d \in Day : rows[d] = 0 /\ dayStats[d] = NoRow
  BY SiteInitIsVeterods DEF ToolInit, Init, InitTables
<1>2. \A d \in Day : ~HasPage(d)
  BY DEF ToolInit, SiteInit, HasPage, NoPage, SitePage, Page, DayPage
<1>3. ~Aggregated
  BY SiteInitIsVeterods DEF ToolInit, Init, Aggregated
<1> QED
  BY <1>1, <1>2, <1>3 DEF DaysInOrder

LEMMA LinkedInit == ToolInit => LinkedInv
<1> SUFFICES ASSUME ToolInit PROVE LinkedInv
  OBVIOUS
<1>1. PairsLost = {}
  BY DaysInOrderInit DEF PairsLost, LeftOut
<1>2. Cardinality(PairsLost) <= 2 * faults
  BY <1>1, FS_EmptySet, SiteInitIsVeterods DEF ToolInit, Init
<1> QED
  BY <1>2, AgainInit, DaysInOrderInit DEF LinkedInv

(* Pages of neighbouring days with data that were made of whole tables and *)
(* do not link both ways have been paid for by a failure, each failure for *)
(* two pairs at most, while the statistics are deleted and built anew      *)
(* (dbaccess.cc:492, veterod.cc:410).                                      *)
THEOREM LinkedUnlessTornHolds == ToolSpec => []LinkedUnlessTorn
<1>1. LinkedInv => LinkedUnlessTorn
  <2> SUFFICES ASSUME LinkedInv PROVE LinkedUnlessTorn
    OBVIOUS
  <2> DEFINE Unpaid == { d \in Broken : {d + 1, d + 2} \intersect torn = {} }
  <2>1. ASSUME NEW d \in Unpaid PROVE d \in PairsLost
    <3>1. /\ d \in Day \ {MaxDay} /\ d + 1 \in Day /\ d \in Nat /\ PairUntorn(d)
          /\ DataAtDay(d) /\ DataAtDay(d + 1) /\ HasPage(d) /\ HasPage(d + 1)
      <4>1. d \in Day \ {MaxDay} /\ d + 1 \in Day /\ d \in Nat
        BY HorizonAssumption DEF HorizonAssumption, Broken, Day
      <4> QED
        BY <4>1 DEF Broken, HasPage, PairUntorn
    <3>2. \A e \in Day : rows[e] \in Nat /\ (DataAtDay(e) => rows[e] > 0)
      BY DEF LinkedInv, AgainInv, ToolTypeOK, TypeOK, DbTypeOK, DaysInOrder, DataAtDay
    <3>3. ~WillLink(d)
      <4>1. pc # "down" => d + 1 <= lastInserted
        BY <3>1 DEF LinkedInv, DaysInOrder
      <4> QED
        BY <3>1, <4>1 DEF WillLink
    <3>4. NoForwardLink(d) \/ NoBackLink(d)
      BY <3>1, <3>2, <3>3 DEF Broken, NoForwardLink, NoBackLink
    <3> QED
      BY <3>1, <3>2, <3>4 DEF PairsLost
  <2>2. 2 * faults \in Nat /\ PairsLost \in SUBSET Day /\ Cardinality(PairsLost) <= 2 * faults
    BY DEF LinkedInv, AgainInv, ToolTypeOK, TypeOK, PairsLost
  <2>3. Unpaid \in SUBSET PairsLost
    BY <2>1
  <2> HIDE DEF Unpaid
  <2>4. Cardinality(Unpaid) <= 2 * faults
    BY <2>2, <2>3, CountKept
  <2> QED
    BY <2>4 DEF Unpaid, LinkedUnlessTorn
<1> QED
  BY <1>1, LinkedInit, LinkedStep, PTL DEF ToolSpec

-----------------------------------------------------------------------------
(* What pages of whole tables show is final.                               *)

(* Without a fault, the program and veterod leave out no day: the          *)
(* statistics that are there count every row, but for the row at work.     *)
DaysExact == \A d \in Day : Known(d) => DayCurrent(d) \/ d \in InFlight

(* The row of a day in the statistics, when all of its rows are counted *)
Counted(d) == IF rows[d] = 0 THEN NoRow ELSE rows[d]

(* The statistics of the days that count all rows *)
ByRows == [d \in Day |-> Counted(d)]

(* The days of m that are over on day t *)
Over(m, t) == { d \in DaysOf(m) : d < t }

(* The tables of a month and of a year show of m what the rows say. *)
MonthByRows(shows, m, t) ==
  \A d \in Over(m, t) : shows[d] = IF Differ(ByRows, {d}) THEN Counted(d) ELSE NoRow
YearByRows(row, m, t) ==
  /\ Differ(ByRows, Over(m, t)) => row # NoRow
  /\ row # NoRow => \A d \in Over(m, t) : row[d] = Counted(d)

(* What ShowsFinal asks for, by the rows: they stay when the statistics are*)
(* deleted.                                                                *)
ShowsRows(p, t) ==
  LET m == MonthOf[t - 1] IN
    /\ p = DayPage(t - 1) => site[p].shows = rows[t - 1]
    /\ p = MonthPage(m) => MonthByRows(site[p].shows, m, t)
    /\ p = YearPage(YearOf[m]) /\ m \in DataMonths => YearByRows(site[p].shows[m], m, t)

(* The page was never made of half-built tables. *)
Untorn(p) == \A k \in asked : k.page = p => k.on \notin torn

UntornExact == \A j \in asked : Untorn(j.page) => ShowsRows(j.page, j.on)

ExactInv ==
  /\ AgainInv /\ DaysInOrder /\ AskedInThePast /\ YearsOfDayChanges
  /\ faults = 0 => DaysExact /\ UntornExact

LEMMA CurrentIsCounted ==
  ASSUME TypeOK, DaysInOrder, NEW d \in Day, DayCurrent(d)
  PROVE  dayStats[d] = Counted(d)
BY DEF DaysInOrder, DayCurrent, Counted

LEMMA DaysExactStep ==
  ASSUME AgainInv, DaysInOrder, DaysExact, [ToolNext]_allVars, ~Fails
  PROVE  DaysExact'
<1>0. TypeOK /\ ToolTypeOK /\ CompleteIsOver /\ FirstRun
  BY DEF AgainInv, ToolTypeOK
<1>1. CASE ProgramStep
  <2>1. UNCHANGED <<rows, pc, ts>> /\ ToolStep
    BY <1>1, ProgramLeaves DEF ProgramStep
  <2>2. InFlight' = InFlight
    BY <2>1 DEF InFlight
  <2>3. ASSUME NEW d \in Day, Known(d)' PROVE DayCurrent(d)' \/ d \in InFlight
    <3>1. rows[d] \in Nat
      BY <1>0 DEF TypeOK, DbTypeOK
    <3>2. CASE rows[d] = 0
      BY <1>0, <2>1, <3>2, ProgramKnows DEF DaysInOrder, DayCurrent
    <3>3. CASE rows[d] > 0
      <4>1. (Known(d) /\ dayStats'[d] = dayStats[d]) \/ dayStats'[d] = rows[d]
        BY <1>0, <2>1, <2>3, <3>3, ProgramKnows
      <4> QED
        BY <2>1, <4>1 DEF DaysExact, DayCurrent
    <3> QED
      BY <3>1, <3>2, <3>3
  <2> QED
    BY <2>2, <2>3 DEF DaysExact
<1>2. CASE Published
  <2>1. UNCHANGED <<rows, dayStats, toolVars>> /\ pc = "reports"
    BY <1>2 DEF Published, Publish, UpdateReports, EndIteration, dbVars
  <2>2. InFlight = {}
    BY <2>1 DEF InFlight
  <2> QED
    BY <2>1, <2>2 DEF DaysExact, DayCurrent, Known, toolVars
<1>3. CASE LoopQuiet
  <2>1. /\ Insert => InFlight' = {ts}
        /\ \A d \in Day : rows'[d] = rows[d] \/ (Insert /\ d = ts)
        /\ \A d \in Day : dayStats'[d] = dayStats[d] \/ (UpdateDay /\ d = ts)
        /\ UpdateDay => InFlight = {ts} /\ dayStats'[ts] = rows[ts]
        /\ InFlight \subseteq InFlight' \/ UpdateDay
    BY <1>0, <1>3, LoopSteps
  <2>2. ASSUME NEW d \in Day, Known(d)' PROVE DayCurrent(d)' \/ d \in InFlight'
    <3>1. Known(d)
      BY <1>3, <2>2 DEF LoopQuiet, Known, toolVars
    <3>2. CASE Insert
      BY <2>1, <3>1, <3>2 DEF DaysExact, DayCurrent, Insert, UpdateDay
    <3>3. CASE UpdateDay
      BY <2>1, <3>1, <3>3 DEF DaysExact, DayCurrent, Insert, UpdateDay
    <3>4. CASE ~Insert /\ ~UpdateDay
      BY <2>1, <3>1, <3>4 DEF DaysExact, DayCurrent
    <3> QED
      BY <3>2, <3>3, <3>4
  <2> QED
    BY <2>2 DEF DaysExact
<1> QED
  BY <1>1, <1>2, <1>3, StepOfThree

(* A page that stays shows what it showed, and the days before the day it  *)
(* was asked for keep their rows.                                          *)
LEMMA RowsStayShown ==
  ASSUME NEW p, NEW t \in RunDay, ShowsRows(p, t), site'[p] = site[p],
         \A d \in Day : d < t => rows'[d] = rows[d],
         p = YearPage(YearOf[MonthOf[t - 1]]) =>
            (MonthOf[t - 1] \in DataMonths' => MonthOf[t - 1] \in DataMonths)
  PROVE  ShowsRows(p, t)'
<1> DEFINE m == MonthOf[t - 1]
<1>1. rows'[t - 1] = rows[t - 1]
  BY CalendarTypes DEF RunDay
<1>2. \A e \in Over(m, t) : e \in Day /\ Counted(e)' = Counted(e)
  BY DEF Over, DaysOf, Counted
<1>3. \A e \in Over(m, t) : ByRows'[e] = ByRows[e]
  BY <1>2 DEF ByRows
<1>4. \A e \in Over(m, t) : Differ(ByRows', {e}) <=> Differ(ByRows, {e})
  BY <1>3, DifferSame
<1>5. Differ(ByRows', Over(m, t)) => Differ(ByRows, Over(m, t))
  BY <1>3, DifferSame
<1>6. /\ \A S : Differ(ByRows, S)' <=> Differ(ByRows', S)
      /\ Over(m, t)' = Over(m, t)
  BY DEF Differ, Over, DaysOf
<1>7. \A shows : MonthByRows(shows, m, t) => MonthByRows(shows, m, t)'
  BY <1>2, <1>4, <1>6 DEF MonthByRows
<1>8. \A row : YearByRows(row, m, t) => YearByRows(row, m, t)'
  BY <1>2, <1>5, <1>6 DEF YearByRows
<1> HIDE DEF m
<1> QED
  BY <1>1, <1>7, <1>8 DEF ShowsRows, m

(* A page that is made of whole tables shows the rows. *)
LEMMA NewPageShowsRows ==
  ASSUME ~West, TypeOK, NEW p \in Page, NEW t \in RunDay,
         \A d \in Day : dayStats[d] = Counted(d),
         p.kind = "year" /\ MonthOf[t - 1] \in DataMonths => SettledBy(t),
         site'[p] = Generated(p, now), UNCHANGED rows
  PROVE  ShowsRows(p, t)'
<1> DEFINE m == MonthOf[t - 1]
<1>1. t - 1 \in Day /\ m \in Month
  BY CalendarTypes
<1>2. \A e \in Day : Counted(e)' = Counted(e) /\ ByRows[e] = Counted(e) /\ ByRows'[e] = ByRows[e]
  BY DEF ByRows, Counted
<1>3. \A e \in Over(m, t) : e \in Day /\ e \in DaysOf(m) /\ ByRows'[e] = dayStats[e]
  BY <1>2 DEF Over, DaysOf
<1>4. CASE p = DayPage(t - 1)
  BY <1>4 DEF ShowsRows, Generated, DayShows, DayPage, MonthPage, YearPage
<1>5. CASE p = MonthPage(m)
  <2>1. site'[p].shows = [d \in Day |-> IF d \in DaysListed(m) THEN dayStats[d] ELSE NoRow]
    BY <1>5 DEF Generated, MonthShows, MonthPage
  <2>2. \A e \in DaysOf(m) : e \in DaysListed(m) <=> DayVaries(e)
    BY ~West DEF DaysListed, DaysBetween, DaysOf
  <2>3. \A e \in Over(m, t) : DayVaries(e) <=> Differ(ByRows', {e})
    BY <1>3, DifferSame DEF DayVaries
  <2>4. MonthByRows(site[p].shows, m, t)'
    <3>1. ASSUME NEW e \in Over(m, t)
          PROVE  site'[p].shows[e] = IF Differ(ByRows', {e}) THEN Counted(e)' ELSE NoRow
      BY <1>2, <1>3, <2>1, <2>2, <2>3, <3>1
    <3>2. Over(m, t)' = Over(m, t) /\ \A S : Differ(ByRows, S)' <=> Differ(ByRows', S)
      BY DEF Over, DaysOf, Differ
    <3> HIDE DEF m
    <3> QED
      BY <3>1, <3>2 DEF MonthByRows
  <2> QED
    BY <1>5, <2>4 DEF ShowsRows, DayPage, MonthPage, YearPage
<1>6. CASE p = YearPage(YearOf[m])
  <2>1. site'[p].shows[m] = IF MonthVaries(m) THEN monthStats[m] ELSE NoRow
    BY <1>1, <1>6 DEF Generated, YearShows, MonthsBetween, YearPage
  <2>2. ASSUME m \in DataMonths' PROVE YearByRows(site[p].shows[m], m, t)'
    <3>1. SettledBy(t)
      BY <1>6, <2>2 DEF YearPage, DataMonths, DataDays
    <3>2. monthStats[m] # NoRow /\ \A e \in Over(m, t) : monthStats[m][e] = dayStats[e]
      BY <3>1 DEF SettledBy, Over
    <3>3. Differ(ByRows', Over(m, t)) => MonthVaries(m)
      <4>1. Over(m, t) \subseteq DaysOf(m)
        BY DEF Over
      <4>2. \A e \in Over(m, t) : ByRows'[e] = monthStats[m][e]
        BY <1>3, <3>2
      <4> HIDE DEF m
      <4> QED
        BY <3>2, <4>1, <4>2, DifferSame DEF MonthVaries
    <3>4. \A e \in Over(m, t) : monthStats[m][e] = Counted(e)'
      BY <1>2, <1>3, <3>2
    <3>5. Over(m, t)' = Over(m, t) /\ \A S : Differ(ByRows, S)' <=> Differ(ByRows', S)
      BY DEF Over, DaysOf, Differ
    <3> HIDE DEF m
    <3> QED
      BY <2>1, <3>2, <3>3, <3>4, <3>5 DEF YearByRows
  <2> QED
    BY <1>6, <2>2 DEF ShowsRows, DayPage, MonthPage, YearPage
<1> QED
  BY <1>4, <1>5, <1>6 DEF ShowsRows

(* Whole tables hold every row that is stored when pages are asked for,    *)
(* and the months of the day changes are settled.                          *)
LEMMA WholeTables ==
  ASSUME AgainInv, DaysInOrder, DaysExact, ~HalfBuilt, pc = "reports"
  PROVE  /\ \A d \in Day : dayStats[d] = Counted(d)
         /\ \A t \in RunDay : Rolls(t) /\ MonthOf[t - 1] \in DataMonths => SettledBy(t)
<1>0. TypeOK /\ ToolTypeOK /\ CompleteIsOver /\ FirstRun
  BY DEF AgainInv, ToolTypeOK
<1>1. (complete \/ runs = 0) /\ todo = {} /\ \A d : Known(d)
  BY <1>0 DEF HalfBuilt, Known, ToolTypeOK, CompleteIsOver, FirstRun
<1>2. InFlight = {}
  BY DEF InFlight
<1>3. \A d \in Day : DayCurrent(d)
  BY <1>1, <1>2 DEF DaysExact
<1> QED
  BY <1>0, <1>1, <1>3, CurrentIsCounted DEF AgainInv, MonthsInOrder

LEMMA UntornExactStep ==
  ASSUME ~West, AgainInv, DaysInOrder, AskedInThePast, YearsOfDayChanges, DaysExact, UntornExact,
         [ToolNext]_allVars
  PROVE  UntornExact'
<1>0. TypeOK /\ ToolTypeOK /\ RolledInThePast /\ RowsOfRolled /\ MonthsGoOn
  BY DEF AgainInv, ToolTypeOK
<1>1. \A j \in asked : j.page \in Page /\ j.on \in RunDay
  BY <1>0 DEF TypeOK, Job
(* A page that is not made shows what it showed. *)
<1>2. ASSUME VeterodStep, NEW j \in asked, ShowsRows(j.page, j.on),
             site'[j.page] = site[j.page]
      PROVE  ShowsRows(j.page, j.on)'
  <2>1. \A d \in Day : d < j.on => rows'[d] = rows[d]
    BY <1>0, <1>2, EarlierDaysStay DEF VeterodStep
  <2>2. ASSUME j.page = YearPage(YearOf[MonthOf[j.on - 1]]), MonthOf[j.on - 1] \in DataMonths'
        PROVE  MonthOf[j.on - 1] \in DataMonths
    <3>1. j.on \in rolled
      BY <2>2 DEF YearsOfDayChanges, YearPage
    <3> QED
      BY <1>0, <1>2, <2>2, <3>1, NoNewMonthsBehind DEF VeterodStep
  <2> QED
    BY <1>1, <1>2, <2>1, <2>2, RowsStayShown
<1>3. CASE ProgramStep
  <2>1. UNCHANGED <<rows, site, asked, torn>>
    BY <1>3, ProgramLeaves DEF ProgramStep
  <2>2. \A j \in asked : Untorn(j.page)' => Untorn(j.page)
    BY <2>1 DEF Untorn
  <2>3. /\ \A d \in Day : rows'[d] = rows[d]
        /\ DataMonths' = DataMonths
    BY <2>1 DEF DataMonths, DataDays
  <2> QED
    BY <1>1, <2>1, <2>2, <2>3, RowsStayShown DEF UntornExact
<1>4. CASE LoopQuiet
  <2>1. UNCHANGED <<site, asked, torn>> /\ VeterodStep
    BY <1>4, StepOfThree DEF LoopQuiet, Other, Tick, Start, Stop, StatementFails, Read, Insert,
       WriteLastRain, UpdateDay, QueryCurrent, UpdateThisMonth, UpdateLastMonth, ReportsFail, vars
  <2> QED
    BY <1>2, <2>1 DEF UntornExact, Untorn
<1>5. CASE Published
  <2>1. /\ \A p \in SitePage :
              site'[p] = IF p \in WithIndex(Jobs) THEN Generated(p, now) ELSE site[p]
        /\ asked' = asked \union [page : Jobs, on : {ts}]
        /\ torn' = torn \union Only(HalfBuilt, ts)
        /\ rolled' = IF DayChanged THEN rolled \union {ts} ELSE rolled
        /\ UNCHANGED <<now, ts, rows, dayStats, monthStats>> /\ pc = "reports"
    BY <1>5 DEF Published, Publish, Exec, UpdateReports, EndIteration, dbVars
  <2>2. VeterodStep /\ AgainInv' /\ YearsOfDayChanges'
    BY <1>0, <1>5, StepOfThree, AgainStep, AskedStep DEF VeterodStep
  <2>3. \A j \in asked' : j.page \in Page /\ j.on \in RunDay
    BY <2>2 DEF AgainInv, ToolTypeOK, TypeOK, Job
  <2>4. ASSUME NEW j \in asked', Untorn(j.page)' PROVE ShowsRows(j.page, j.on)'
    <3>1. CASE j.page \in WithIndex(Jobs)
      <4>1. j.page \in Jobs
        BY <2>3, <3>1 DEF WithIndex, Only, Index, Page
      <4>2. [page |-> j.page, on |-> ts] \in asked'
        BY <2>1, <4>1
      <4>3. ~HalfBuilt
        BY <2>1, <2>4, <4>2 DEF Untorn, Only
      <4>4. \A d \in Day : dayStats[d] = Counted(d)
        BY <2>1, <4>3, WholeTables
      <4>5. ASSUME j.page.kind = "year", MonthOf[j.on - 1] \in DataMonths PROVE SettledBy(j.on)
        <5>1. Rolls(j.on)
          BY <2>1, <2>2, <2>4, <4>5 DEF YearsOfDayChanges, Rolls
        <5> QED
          BY <2>1, <2>3, <4>3, <4>5, <5>1, WholeTables
      <4>6. site'[j.page] = Generated(j.page, now)
        BY <2>1, <2>3, <3>1 DEF SitePage
      <4> QED
        BY <1>0, <2>1, <2>3, <4>4, <4>5, <4>6, NewPageShowsRows
    <3>2. CASE j.page \notin WithIndex(Jobs)
      <4>1. j \in asked
        BY <2>1, <2>4, <3>2 DEF WithIndex
      <4>2. Untorn(j.page)
        BY <2>1, <2>4 DEF Untorn
      <4>3. site'[j.page] = site[j.page]
        BY <2>1, <2>3, <3>2 DEF SitePage
      <4> QED
        BY <1>2, <2>2, <4>1, <4>2, <4>3 DEF UntornExact
    <3> QED
      BY <3>1, <3>2
  <2> QED
    BY <2>4 DEF UntornExact
<1> QED
  BY <1>3, <1>4, <1>5, StepOfThree

LEMMA ExactStep ==
  ASSUME ~West
  PROVE  ExactInv /\ [ToolNext]_allVars => ExactInv'
<1> SUFFICES ASSUME ExactInv, [ToolNext]_allVars PROVE ExactInv'
  OBVIOUS
<1>1. AgainInv /\ DaysInOrder /\ AskedInThePast /\ YearsOfDayChanges /\ TypeOK
  BY DEF ExactInv, AgainInv, ToolTypeOK
<1>2. AgainInv' /\ DaysInOrder'
  BY <1>1, AgainStep, DaysInOrderStep
<1>3. AskedInThePast' /\ YearsOfDayChanges'
  <2>1. CASE ProgramStep
    BY <1>1, <2>1, ProgramLeaves DEF ProgramStep, AskedInThePast, YearsOfDayChanges, Active
  <2>2. CASE VeterodStep
    BY <1>1, <2>2, AskedStep DEF VeterodStep, AgainInv
  <2> QED
    BY <2>1, <2>2, StepOfThree
<1>4. faults' = 0 => faults = 0 /\ ~Fails
  <2>1. faults \in Nat /\ (Fails => faults' = faults + 1)
    BY <1>1 DEF TypeOK, Fails, Stop, StatementFails, ReportsFail
  <2>2. ~Fails => faults' = faults
    BY <1>1, ProgramLeaves, LoopSteps, StepOfThree
       DEF ProgramStep, Published, Publish, UpdateReports
  <2> QED
    BY <2>1, <2>2
<1>5. faults' = 0 => DaysExact' /\ UntornExact'
  BY <1>1, <1>4, DaysExactStep, UntornExactStep DEF ExactInv
<1> QED
  BY <1>2, <1>3, <1>5 DEF ExactInv

LEMMA ExactInit == ToolInit => ExactInv
<1> SUFFICES ASSUME ToolInit PROVE ExactInv
  OBVIOUS
<1>1. asked = {}
  BY SiteInitIsVeterods DEF ToolInit, Init
<1>2. DaysExact
  BY DaysInOrderInit DEF DaysExact, DayCurrent
<1> QED
  BY <1>1, <1>2, AgainInit, DaysInOrderInit
     DEF ExactInv, AskedInThePast, YearsOfDayChanges, UntornExact

(* In a time zone that is not west of Greenwich and without a fault of     *)
(* veterod, a page that was never made of half-built tables shows what the *)
(* program computes anew of the days that ended, whenever the program ran  *)
(* and was interrupted (veterodb.cc:125-139, veterod.cc:399-421).          *)
THEOREM FinalUnlessTornHolds ==
  ASSUME ~West
  PROVE  ToolSpec => []FinalUnlessTorn
<1>1. ExactInv => FinalUnlessTorn
  <2> SUFFICES ASSUME ExactInv, complete \/ runs = 0, faults = 0, NEW j \in asked,
                      MonthOf[j.on - 1] \in DataMonths, Untorn(j.page)
               PROVE  ShowsFinal(j.page, j.on)
    BY DEF FinalUnlessTorn, Untorn
  <2> DEFINE m == MonthOf[j.on - 1]
  <2>1. TypeOK /\ DaysInOrder /\ j.on \in RunDay /\ ShowsRows(j.page, j.on)
    BY DEF ExactInv, AgainInv, ToolTypeOK, TypeOK, Job, UntornExact
  <2>2. ASSUME NEW e \in Over(m, j.on)
        PROVE  dayStats[e] = Counted(e) /\ dayStats[e] = ByRows[e]
    <3>1. e \in Day /\ e < j.on
      BY <2>2 DEF Over, DaysOf
    <3>2. e \notin InFlight
      <4>1. Active => j.on <= ts /\ ts \in Int
        BY <2>1, CalendarTypes DEF ExactInv, AskedInThePast, TypeOK
      <4> QED
        BY <2>1, <3>1, <4>1 DEF InFlight, Active, Day, RunDay
    <3>3. DayCurrent(e)
      BY <3>1, <3>2 DEF ExactInv, DaysExact, Known
    <3> QED
      BY <2>1, <3>1, <3>3, CurrentIsCounted DEF ByRows
  <2>3. \A e \in Over(m, j.on) : DayVaries(e) <=> Differ(ByRows, {e})
    BY <2>2, DifferSame DEF DayVaries
  <2>4. Differ(dayStats, Over(m, j.on)) => Differ(ByRows, Over(m, j.on))
    BY <2>2, DifferSame
  <2>5. Over(m, j.on) = { d \in DaysOf(m) : d < j.on }
    BY DEF Over
  <2>6. m \in DataMonths
    OBVIOUS
  <2> HIDE DEF m
  <2> QED
    BY <2>1, <2>2, <2>3, <2>4, <2>5, <2>6
       DEF ShowsRows, ShowsFinal, MonthByRows, YearByRows, m
<1> QED
  BY <1>1, ExactInit, ExactStep, PTL DEF ToolSpec
=============================================================================
