----------------------------- MODULE SiteProofs ------------------------------
(***************************************************************************)
(* Theorems about the loop of veterod (Veterod) and about the report tree  *)
(* (Site) for every calendar, every horizon and every bound on datasets    *)
(* and faults.  A step of Site is one of Veterod: what the loop does to its*)
(* tables is proved once, for Veterod.                                     *)
(***************************************************************************)
EXTENDS Site, FiniteSetTheorems, WellFoundedInduction, TLAPS

-----------------------------------------------------------------------------
(* The tables of months on the index page *)

(* The least of a set, without an induction: of the sets of what is less   *)
(* than an element, one has none below it.                                 *)
LEMMA LeastExists ==
  ASSUME NEW S \in SUBSET Int, IsFiniteSet(S), S # {}
  PROVE  \E x \in S : \A y \in S : x <= y
<1> DEFINE Below(x) == { y \in S : y < x }
           T == { Below(x) : x \in S }
<1>1. T \subseteq FiniteSubsetsOf(S) /\ T # {}
  <2>1. PICK x \in S : TRUE
    OBVIOUS
  <2>2. Below(x) \in T /\ T \subseteq SUBSET S
    OBVIOUS
  <2> HIDE DEF T
  <2> QED
    BY <2>2, FS_FiniteSubsetsOfFinite
<1>2. PICK A \in T : \A B \in T : ~ <<B, A>> \in StrictSubsetOrdering(S)
  <2> HIDE DEF T
  <2> QED
    BY <1>1, FS_StrictSubsetOrderingWellFounded, WFMin
<1>3. PICK x \in S : A = Below(x)
  BY <1>2
<1>4. \A y \in S : x <= y
  <2> SUFFICES ASSUME NEW y \in S, y < x PROVE FALSE
    OBVIOUS
  <2>1. Below(y) \subseteq Below(x) /\ y \in Below(x) /\ y \notin Below(y)
    <3>1. \A z \in S : z < y => z < x
      OBVIOUS
    <3>2. ~(y < y)
      OBVIOUS
    <3> QED
      BY <3>1, <3>2
  <2>2. <<Below(y), Below(x)>> \in StrictSubsetOrdering(S)
    BY <2>1 DEF StrictSubsetOrdering
  <2> QED
    BY <1>2, <1>3, <2>2
<1> QED
  BY <1>4

(* A month is as long as the calendar makes it: only February's length     *)
(* takes the leap years.                                                   *)
LEMMA LengthOfMonth ==
  ASSUME NEW year \in Nat \ {0}, NEW month \in 1 .. 12
  PROVE  Length(year, month) = DaysPerMonth(year, month)
<1>1. CASE month = 1
  BY <1>1 DEF Length, DaysPerMonth, DayNumber
<1>2. CASE month = 12
  BY <1>2 DEF Length, DaysPerMonth, DayNumber
<1>3. CASE month \in {3, 4, 5, 6, 7, 8, 9, 10, 11}
  BY <1>3 DEF Length, DaysPerMonth, DayNumber
<1>4. CASE month = 2
  <2>1. \A k \in {4, 100, 400} : year \div k - (year - 1) \div k = IF year % k = 0 THEN 1 ELSE 0
    OBVIOUS
  <2>2. (year % 400 = 0 => year % 100 = 0) /\ (year % 100 = 0 => year % 4 = 0)
    OBVIOUS
  <2>3. Length(year, 2) = 28 + (year \div 4 - (year - 1) \div 4) - (year \div 100 - (year - 1) \div 100)
                + (year \div 400 - (year - 1) \div 400)
    BY DEF Length, DayNumber
  <2> QED
    BY <1>4, <2>1, <2>2, <2>3 DEF DaysPerMonth, IsLeapYear
<1> QED
  BY <1>1, <1>2, <1>3, <1>4

LEMMA TheSizes ==
  ASSUME NEW year \in Nat \ {0}, NEW month \in 1 .. 12
  PROVE  Weekday(year, month, 1) \in 1 .. 7 /\ Length(year, month) \in 28 .. 31
<1>1. DayNumber(year, month, 1) \in Int
  BY DEF DayNumber
<1>2. Weekday(year, month, 1) \in 1 .. 7
  BY <1>1 DEF Weekday
<1>3. Length(year, month) \in 28 .. 31
  BY LengthOfMonth DEF DaysPerMonth
<1> QED
  BY <1>2, <1>3

(* The weekdays of a month follow each other. *)
LEMMA TheWeekday ==
  ASSUME NEW year \in Nat \ {0}, NEW month \in 1 .. 12, NEW day \in 1 .. 31
  PROVE  Weekday(year, month, day) = ((Weekday(year, month, 1) + day - 2) % 7) + 1
<1> DEFINE n == DayNumber(year, month, 1)
<1>1. n \in Int /\ DayNumber(year, month, day) = n + day - 1
  BY DEF DayNumber
<1> HIDE DEF n
<1>2. ((n + day - 1 + 2) % 7) = ((((n + 2) % 7) + 1 + day - 2) % 7)
  BY <1>1
<1> QED
  BY <1>1, <1>2 DEF Weekday, n

(* The cells in closed form.  The loop over the cells has this solution,   *)
(* and by the least cell in which another one would differ it has no other.*)
LEMMA TheCell ==
  ASSUME NEW year \in Nat \ {0}, NEW month \in 1 .. 12
  PROVE  \A i \in 0 .. 41 : Cell(year, month)[i] =
           LET day == i + 2 - Weekday(year, month, 1)
           IN  IF day \in 1 .. Length(year, month) THEN day ELSE 0
<1> DEFINE first == Weekday(year, month, 1)
           length == Length(year, month)
           Wday(i) == (i % 7) + 1
           current[i \in 0 .. 7 * Lines] ==
             IF i = 0 THEN 1
             ELSE LET day == current[i - 1]
                  IN  IF Filled(year, month, Wday(i - 1), day) THEN day + 1 ELSE day
           Body(f) == [i \in 0 .. 42 |->
             IF i = 0 THEN 1
             ELSE LET day == f[i - 1]
                  IN  IF Filled(year, month, Wday(i - 1), day) THEN day + 1 ELSE day]
           g == [i \in 0 .. 42 |-> IF i < first THEN 1
                                   ELSE IF i - first + 2 <= length THEN i - first + 2 ELSE length + 1]
<1>1. first \in 1 .. 7 /\ length \in 28 .. 31
  BY TheSizes
<1>2. g = Body(g)
  BY <1>1 DEF Filled
<1>3. current = CHOOSE f : f = Body(f)
  BY DEF Lines
<1>4. current = Body(current)
  BY <1>2, <1>3
<1>5. \A i \in 0 .. 42 : current[i] = g[i]
  <2> HIDE DEF current, g, first, length
  <2> DEFINE Bad == { i \in 0 .. 42 : current[i] # g[i] }
  <2> SUFFICES ASSUME NEW j \in Bad PROVE FALSE
    OBVIOUS
  <2>1. PICK i \in Bad : \A k \in Bad : i <= k
    <3>1. IsFiniteSet(0 .. 42)
      <4>1. \A a, b \in Int : IsFiniteSet(a .. b)
        BY FS_Interval
      <4>2. 0 \in Int /\ 42 \in Int
        OBVIOUS
      <4> QED
        BY <4>1, <4>2, Zenon
    <3>2. Bad \in SUBSET Int /\ Bad # {} /\ IsFiniteSet(Bad)
      BY <3>1, FS_Subset
    <3> HIDE DEF Bad
    <3> QED
      BY <3>2, LeastExists
  <2>2. i \in 1 .. 42 => i - 1 \in 0 .. 42 /\ current[i - 1] = g[i - 1]
    BY <2>1
  <2>3. /\ current[i] = IF i = 0 THEN 1
             ELSE LET day == current[i - 1]
                  IN  IF Filled(year, month, Wday(i - 1), day) THEN day + 1 ELSE day
        /\ g[i] = IF i = 0 THEN 1
             ELSE LET day == g[i - 1]
                  IN  IF Filled(year, month, Wday(i - 1), day) THEN day + 1 ELSE day
    BY <1>2, <1>4
  <2> QED
    BY <2>2, <2>3
<1>6. Cell(year, month) = [i \in 0 .. 41 |->
        LET day == current[i] IN IF Filled(year, month, Wday(i), day) THEN day ELSE 0]
  BY DEF Cell, Lines
<1> HIDE DEF current
<1> SUFFICES ASSUME NEW i \in 0 .. 41
             PROVE  Cell(year, month)[i] = LET day == i + 2 - first
                                           IN  IF day \in 1 .. length THEN day ELSE 0
  OBVIOUS
<1>7. current[i] = g[i]
  BY <1>5
<1>8. Cell(year, month)[i] = IF Filled(year, month, Wday(i), g[i]) THEN g[i] ELSE 0
  BY <1>6, <1>7
<1> QED
  BY <1>1, <1>8 DEF Filled

LEMMA TableOfMonth ==
  ASSUME NEW year \in Nat \ {0}, NEW month \in 1 .. 12
  PROVE  RightTable(year, month)
<1> DEFINE first == Weekday(year, month, 1)
           length == Length(year, month)
           cell == Cell(year, month)
<1>1. first \in 1 .. 7 /\ length \in 28 .. 31
  BY TheSizes
<1>2. DOMAIN cell = 0 .. 41
  BY DEF Cell, Lines
<1>3. \A i \in 0 .. 41 : cell[i] = LET day == i + 2 - first IN IF day \in 1 .. length THEN day ELSE 0
  BY TheCell
<1>4. \A day \in 1 .. length : Weekday(year, month, day) = ((first + day - 2) % 7) + 1
  <2> SUFFICES ASSUME NEW day \in 1 .. length
               PROVE  Weekday(year, month, day) = ((first + day - 2) % 7) + 1
    OBVIOUS
  <2>1. day \in 1 .. 31
    BY <1>1
  <2> QED
    BY <2>1, TheWeekday
<1> HIDE DEF first, length, cell
<1>5. \A day \in 1 .. length : { i \in DOMAIN cell : cell[i] = day } = {first + day - 2}
  <2> SUFFICES ASSUME NEW day \in 1 .. length
               PROVE  \A i \in 0 .. 41 : cell[i] = day <=> i = first + day - 2
    BY <1>1, <1>2
  <2> QED
    BY <1>1, <1>3
<1>6. \A i \in DOMAIN cell : cell[i] > 0 => Weekday(year, month, cell[i]) = (i % 7) + 1
  BY <1>1, <1>2, <1>3, <1>4
<1> QED
  BY <1>5, <1>6, LengthOfMonth DEF RightTable, first, length, cell

LEMMA InvTables == MonthTables
<1>1. \A year \in TableYears : year \in Nat \ {0}
  BY TableYearsAssumption
<1> QED
  BY <1>1, TableOfMonth DEF MonthTables, RightTables

(* In every month of every year the index page has each day once, in the   *)
(* column of its weekday and in the week of its neighbours                 *)
(* (indexgenerator.cc:119-142), and a month page selects up to the last    *)
(* day of its month (calendar.cc:25-48).                                   *)
THEOREM MonthTablesHold == SiteSpec => []MonthTables
BY InvTables, PTL

-----------------------------------------------------------------------------
USE HorizonAssumption, CalendarAssumption, NoRowAssumption, BoundAssumption
  DEF HorizonAssumption, CalendarAssumption, NoRowAssumption, BoundAssumption

(* The calendar functions on the days the daemon runs on: today and        *)
(* yesterday have a month, and every month has a year.                     *)
LEMMA CalendarTypes ==
  /\ RunDay \subseteq Day
  /\ \A d \in RunDay : d - 1 \in Day /\ d \in Nat
  /\ \A d \in Day : MonthOf[d] \in Month
  /\ \A m \in Month : YearOf[m] \in Year
<1>1. RunDay \subseteq Day /\ \A d \in RunDay : d - 1 \in Day /\ d \in Nat
  BY DEF RunDay, Day
<1>2. \A d \in Day : MonthOf[d] \in Month
  BY DEF Month
<1>3. \A m \in Month : YearOf[m] \in Year
  BY DEF Year
<1> QED
  BY <1>1, <1>2, <1>3

(* The month aggregate is a value month_statistics can hold. *)
LEMMA MonthAggregateType ==
  ASSUME dayStats \in [Day -> DayStat], NEW m \in Month
  PROVE  MonthAggregate(m) \in [Day -> DayStat]
BY DEF MonthAggregate, DayStat

-----------------------------------------------------------------------------
(* Type correctness: every variable keeps its type in every step.          *)
LEMMA TypeStep == TypeOK /\ [Next]_vars => TypeOK'
<1> SUFFICES ASSUME TypeOK, [Next]_vars PROVE TypeOK'
  OBVIOUS
<1> USE DEF TypeOK, DbTypeOK, PC, DbSteps
<1>1. CASE Tick
  BY <1>1 DEF Tick, dbVars, daemonVars, RunDay
<1>2. CASE Start
  BY <1>2 DEF Start, dbVars
<1>3. CASE Stop
  BY <1>3 DEF Stop, dbVars
<1>4. CASE StatementFails
  BY <1>4 DEF StatementFails, dbVars
<1>5. CASE Read
  BY <1>5 DEF Read, dbVars
<1>6. CASE Insert
  <2>1. rows' \in [Day -> Nat]
    BY <1>6, CalendarTypes DEF Insert, InsertRow
  <2> QED
    BY <1>6, <2>1 DEF Insert, InsertRow
<1>7. CASE WriteLastRain
  BY <1>7 DEF WriteLastRain, dbVars
<1>8. CASE UpdateDay
  <2>1. dayStats' \in [Day -> DayStat]
    BY <1>8, CalendarTypes DEF UpdateDay, UpdateDayStatistics, DayStat
  <2> QED
    BY <1>8, <2>1 DEF UpdateDay, UpdateDayStatistics
<1>9. CASE QueryCurrent
  BY <1>9 DEF QueryCurrent, dbVars
<1>10. ASSUME NEW m \in Month, UpdateMonthStatistics(m)
       PROVE  monthStats' \in [Month -> MonthStat]
  BY <1>10, MonthAggregateType DEF UpdateMonthStatistics, MonthStat
<1>11. CASE UpdateThisMonth
  <2>1. monthStats' \in [Month -> MonthStat]
    BY <1>10, <1>11, CalendarTypes DEF UpdateThisMonth
  <2> QED
    BY <1>11, <2>1 DEF UpdateThisMonth, UpdateMonthStatistics
<1>12. CASE UpdateLastMonth
  <2>1. monthStats' \in [Month -> MonthStat]
    BY <1>10, <1>12, CalendarTypes DEF UpdateLastMonth, LastDay
  <2> QED
    BY <1>12, <2>1 DEF UpdateLastMonth, UpdateMonthStatistics
<1>13. CASE UpdateReports
  <2>1. Jobs \subseteq Page
    BY CalendarTypes DEF Jobs, Page, DayPage, MonthPage, YearPage, LastDay
  <2>2. asked' \subseteq Job
    BY <1>13, <2>1 DEF UpdateReports, Job
  <2> QED
    BY <1>13, <2>2 DEF UpdateReports, EndIteration, dbVars
<1>14. CASE ReportsFail
  BY <1>14 DEF ReportsFail, EndIteration, dbVars
<1>15. CASE UNCHANGED vars
  BY <1>15 DEF vars, dbVars, daemonVars
<1> QED
  BY <1>1, <1>2, <1>3, <1>4, <1>5, <1>6, <1>7, <1>8, <1>9, <1>11, <1>12, <1>13,
     <1>14, <1>15 DEF Next, Iteration

LEMMA TypeInit == Init => TypeOK
BY DEF Init, InitTables, TypeOK, DbTypeOK, RunDay, PC, DbSteps, DayStat, MonthStat

(* Every reachable state of the daemon and its database is well typed. *)
THEOREM TypeCorrect == Spec => []TypeOK
BY TypeInit, TypeStep, PTL DEF Spec

-----------------------------------------------------------------------------
(* A completed day change is settled for good.                             *)

(* The month aggregate taken now holds the statistics of its days as they  *)
(* are now, and it is a row.                                               *)
LEMMA AggregateHolds ==
  ASSUME dayStats \in [Day -> DayStat], NEW m \in Month
  PROVE  /\ MonthAggregate(m) # NoRow
         /\ \A d \in DaysOf(m) : MonthAggregate(m)[d] = dayStats[d]
<1>1. MonthAggregate(m) \in [Day -> DayStat]
  BY MonthAggregateType
<1>2. \A d \in DaysOf(m) : MonthAggregate(m)[d] = dayStats[d]
  BY DEF MonthAggregate, DaysOf
<1> QED
  BY <1>1, <1>2

(* Statistics of a day not before t do not disturb what t settled. *)
LEMMA LaterDayKeepsSettled ==
  ASSUME TypeOK, NEW t \in rolled, SettledBy(t), t <= ts, UpdateDayStatistics(ts)
  PROVE  SettledBy(t)'
<1>1. \A d \in Day : d < t => dayStats'[d] = dayStats[d]
  BY DEF TypeOK, DbTypeOK, UpdateDayStatistics, Day, RunDay
<1>2. monthStats' = monthStats
  BY DEF UpdateDayStatistics
<1> QED
  BY <1>1, <1>2 DEF SettledBy, DaysOf

(* A month statement replaces a row by the statistics as they are, so what *)
(* was settled stays settled.                                              *)
LEMMA MonthKeepsSettled ==
  ASSUME TypeOK, NEW t \in RunDay, SettledBy(t), NEW m \in Month,
         UpdateMonthStatistics(m)
  PROVE  SettledBy(t)'
<1> DEFINE mt == MonthOf[t - 1]
<1>1. dayStats' = dayStats /\ mt \in Month
  BY CalendarTypes DEF UpdateMonthStatistics
<1>2. CASE mt = m
  <2>1. monthStats'[mt] = MonthAggregate(mt)
    BY <1>1, <1>2 DEF UpdateMonthStatistics, TypeOK, DbTypeOK
  <2> QED
    BY <1>1, <2>1, AggregateHolds DEF SettledBy, TypeOK, DbTypeOK
<1>3. CASE mt # m
  <2>1. monthStats'[mt] = monthStats[mt]
    BY <1>1, <1>3 DEF UpdateMonthStatistics, TypeOK, DbTypeOK
  <2> QED
    BY <1>1, <2>1 DEF SettledBy
<1> QED
  BY <1>2, <1>3

(* Nothing else touches the statistics. *)
LEMMA UnchangedKeepsSettled ==
  ASSUME NEW t, SettledBy(t), UNCHANGED <<dayStats, monthStats>>
  PROVE  SettledBy(t)'
BY DEF SettledBy

(* The day change of the iteration at hand is settled when it ends. *)
LEMMA EndSettles ==
  ASSUME TypeOK, DayChangeInOrder, pc = "reports", DayChanged
  PROVE  SettledBy(ts)
<1>1. MonthOf[ts - 1] \in Month
  BY CalendarTypes DEF TypeOK
<1>2. monthStats[MonthOf[ts - 1]] = MonthAggregate(MonthOf[ts - 1])
  BY DEF DayChangeInOrder, LastDay
<1> QED
  BY <1>1, <1>2, AggregateHolds DEF SettledBy, TypeOK, DbTypeOK
LEMMA SettledInit == Init => SettledInv
BY TypeInit DEF Init, SettledInv, RolledInThePast, DayChangeInOrder, SettledDays, Active

LEMMA SettledStep == SettledInv /\ [Next]_vars => SettledInv'
<1> SUFFICES ASSUME SettledInv, [Next]_vars PROVE SettledInv'
  OBVIOUS
<1>0. TypeOK /\ TypeOK' /\ rolled \subseteq RunDay
  BY TypeStep DEF SettledInv, TypeOK
<1> USE DEF SettledInv
(* A step that leaves the statistics and the completed days alone. *)
<1>1. ASSUME UNCHANGED <<dayStats, monthStats, rolled>> PROVE SettledDays'
  BY <1>1, UnchangedKeepsSettled DEF SettledDays
<1>2. CASE Tick
  <2>1. RolledInThePast' /\ DayChangeInOrder'
    BY <1>0, <1>2 DEF Tick, dbVars, daemonVars, RolledInThePast, DayChangeInOrder, Active,
       DayChanged, MonthChanged, LastDay, MonthAggregate, TypeOK, RunDay
  <2> QED
    BY <1>0, <1>1, <1>2, <2>1 DEF Tick, dbVars
<1>3. CASE Start \/ Stop \/ StatementFails
  <2>1. UNCHANGED <<dayStats, monthStats, rolled, ts, now>> /\ ~Active'
    BY <1>3 DEF Start, Stop, StatementFails, dbVars, Active
  <2>2. pc' \in {"read", "down"}
    BY <1>3 DEF Start, Stop, StatementFails
  <2>3. RolledInThePast' /\ DayChangeInOrder'
    BY <2>1, <2>2 DEF RolledInThePast, DayChangeInOrder
  <2> QED
    BY <1>0, <1>1, <2>1, <2>3
<1>4. CASE Read
  <2>1. RolledInThePast' /\ DayChangeInOrder'
    BY <1>0, <1>4 DEF Read, dbVars, RolledInThePast, DayChangeInOrder, TypeOK, RunDay
  <2> QED
    BY <1>0, <1>1, <1>4, <2>1 DEF Read, dbVars
<1>5. CASE Insert \/ WriteLastRain
  <2>1. /\ UNCHANGED <<dayStats, monthStats, rolled, ts, now>>
        /\ Active /\ pc' \in {"lastRain", "dayStats"}
    BY <1>5 DEF Insert, WriteLastRain, InsertRow, dbVars, Active
  <2>2. RolledInThePast' /\ DayChangeInOrder'
    BY <2>1 DEF RolledInThePast, DayChangeInOrder, Active
  <2> QED
    BY <1>0, <1>1, <2>1, <2>2
<1>6. CASE UpdateDay
  <2>1. UNCHANGED <<rolled, ts, now>> /\ pc' = "current" /\ Active
    BY <1>6 DEF UpdateDay, Active
  <2>2. RolledInThePast' /\ DayChangeInOrder'
    BY <2>1 DEF RolledInThePast, DayChangeInOrder, Active
  <2>3. SettledDays'
    BY <1>0, <1>6, <2>1, LaterDayKeepsSettled DEF SettledDays, RolledInThePast, UpdateDay
  <2> QED
    BY <1>0, <2>2, <2>3
<1>7. CASE QueryCurrent
  <2>1. /\ UNCHANGED <<dayStats, monthStats, rolled, ts, now, lastInserted>> /\ Active
        /\ pc' = IF DayChanged THEN "monthThis" ELSE "reports"
    BY <1>7 DEF QueryCurrent, dbVars, Active
  <2>2. RolledInThePast' /\ DayChangeInOrder'
    BY <2>1 DEF RolledInThePast, DayChangeInOrder, Active, DayChanged
  <2> QED
    BY <1>0, <1>1, <2>1, <2>2
<1>8. CASE UpdateThisMonth
  <2>1. /\ UNCHANGED <<dayStats, rolled, ts, now, lastInserted>> /\ Active /\ DayChanged
        /\ pc' = IF MonthChanged THEN "monthLast" ELSE "reports"
        /\ UpdateMonthStatistics(MonthOf[ts])
    BY <1>8 DEF UpdateThisMonth, UpdateMonthStatistics, Active, DayChangeInOrder
  <2>2. MonthOf[ts] \in Month
    BY <1>0, CalendarTypes DEF TypeOK
  <2>3. SettledDays'
    BY <1>0, <2>1, <2>2, MonthKeepsSettled DEF SettledDays
  <2>4. monthStats'[MonthOf[ts]] = MonthAggregate(MonthOf[ts])
    BY <1>0, <2>1, <2>2 DEF UpdateMonthStatistics, TypeOK, DbTypeOK
  <2>5. DayChangeInOrder'
    BY <2>1, <2>4 DEF DayChangeInOrder, DayChanged, MonthChanged, LastDay, MonthAggregate
  <2> QED
    BY <1>0, <2>1, <2>3, <2>5 DEF RolledInThePast, Active
<1>9. CASE UpdateLastMonth
  <2>1. /\ UNCHANGED <<dayStats, rolled, ts, now, lastInserted>> /\ Active /\ DayChanged
        /\ pc' = "reports"
        /\ UpdateMonthStatistics(MonthOf[LastDay])
    BY <1>9 DEF UpdateLastMonth, UpdateMonthStatistics, Active, DayChangeInOrder
  <2>2. MonthOf[LastDay] \in Month
    BY <1>0, CalendarTypes DEF TypeOK, LastDay
  <2>3. SettledDays'
    BY <1>0, <2>1, <2>2, MonthKeepsSettled DEF SettledDays
  <2>4. monthStats'[MonthOf[LastDay]] = MonthAggregate(MonthOf[LastDay])
    BY <1>0, <2>1, <2>2 DEF UpdateMonthStatistics, TypeOK, DbTypeOK
  <2>5. DayChangeInOrder'
    BY <2>1, <2>4 DEF DayChangeInOrder, LastDay, MonthAggregate
  <2> QED
    BY <1>0, <2>1, <2>3, <2>5 DEF RolledInThePast, Active
<1>10. CASE UpdateReports \/ ReportsFail
  <2>1. /\ UNCHANGED <<dayStats, monthStats, ts, now>> /\ pc = "reports" /\ pc' = "read"
        /\ rolled' = IF DayChanged THEN rolled \union {ts} ELSE rolled
    BY <1>10 DEF UpdateReports, ReportsFail, EndIteration, dbVars
  <2>2. \A t \in rolled' : SettledBy(t)
    BY <1>0, <2>1, EndSettles DEF SettledDays
  <2>3. SettledDays'
    BY <2>1, <2>2, UnchangedKeepsSettled DEF SettledDays
  <2>4. RolledInThePast' /\ DayChangeInOrder'
    BY <2>1 DEF RolledInThePast, DayChangeInOrder, Active
  <2> QED
    BY <1>0, <2>3, <2>4
<1>11. CASE UNCHANGED vars
  <2>1. RolledInThePast' /\ DayChangeInOrder'
    BY <1>11 DEF vars, dbVars, daemonVars, RolledInThePast, DayChangeInOrder, Active,
       DayChanged, MonthChanged, LastDay, MonthAggregate
  <2> QED
    BY <1>0, <1>1, <1>11, <2>1 DEF vars, dbVars
<1> QED
  BY <1>2, <1>3, <1>4, <1>5, <1>6, <1>7, <1>8, <1>9, <1>10, <1>11 DEF Next, Iteration

(* What a completed day change put into the month statistics stays equal   *)
(* to the day statistics, whatever fails and whenever the daemon is        *)
(* stopped and started again (veterod.cc:393-426).                         *)
THEOREM SettledDaysHold == Spec => []SettledDays
<1>1. SettledInv => SettledDays
  BY DEF SettledInv
<1> QED
  BY SettledInit, SettledStep, <1>1, PTL DEF Spec
-----------------------------------------------------------------------------
(* A fault costs the statistics of at most one day.                        *)

LEMMA LaggingFinite == IsFiniteSet(Lagging)
<1>1. IsFiniteSet(Day)
  BY FS_Interval DEF Day
<1> QED
  BY <1>1, FS_Subset DEF Lagging

(* Fewer days lag, and no fault is forgotten. *)
LEMMA FewerLag ==
  ASSUME FaultsCostOneDay, TypeOK, TypeOK', Lagging' \subseteq Lagging, faults <= faults'
  PROVE  FaultsCostOneDay'
<1>1. Cardinality(Lagging') <= Cardinality(Lagging)
  BY LaggingFinite, FS_Subset
<1>2. Cardinality(Lagging) \in Nat /\ Cardinality(Lagging') \in Nat
  BY <1>1, LaggingFinite, FS_Subset, FS_CardinalityType
<1> QED
  BY <1>1, <1>2 DEF FaultsCostOneDay, TypeOK

(* One more day lags and one more fault has happened. *)
LEMMA OneMoreLags ==
  ASSUME FaultsCostOneDay, TypeOK, NEW d, Lagging' \subseteq Lagging \union {d},
         faults' = faults + 1
  PROVE  FaultsCostOneDay'
<1> DEFINE More == Lagging \union {d}
<1> HIDE DEF More
<1>1. IsFiniteSet(More) /\ Cardinality(More) \in {Cardinality(Lagging), Cardinality(Lagging) + 1}
  BY LaggingFinite, FS_AddElement DEF More
<1>2. IsFiniteSet(Lagging') /\ Cardinality(Lagging') <= Cardinality(More)
  <2>1. Lagging' \subseteq More
    BY DEF More
  <2> QED
    BY <1>1, <2>1, FS_Subset
<1>3. Cardinality(Lagging) \in Nat /\ Cardinality(Lagging') \in Nat
  BY <1>2, LaggingFinite, FS_CardinalityType
<1> QED
  BY <1>1, <1>2, <1>3 DEF FaultsCostOneDay, TypeOK

LEMMA FaultStep ==
  TypeOK /\ FaultsCostOneDay /\ [Next]_vars => FaultsCostOneDay'
<1> SUFFICES ASSUME TypeOK, FaultsCostOneDay, [Next]_vars PROVE FaultsCostOneDay'
  OBVIOUS
<1>0. TypeOK' /\ faults \in Nat
  BY TypeStep DEF TypeOK
<1>1. ASSUME UNCHANGED <<rows, dayStats>>, InFlight' = InFlight PROVE Lagging' = Lagging
  BY <1>1 DEF Lagging, DayCurrent
<1>2. CASE Stop \/ StatementFails
  <2>1. UNCHANGED <<rows, dayStats>> /\ InFlight' = {} /\ faults' = faults + 1
    BY <1>2 DEF Stop, StatementFails, dbVars, InFlight
  <2>2. Lagging' \subseteq Lagging \union {ts}
    BY <2>1 DEF Lagging, DayCurrent, InFlight
  <2> QED
    BY <2>1, <2>2, OneMoreLags
<1>3. CASE Insert
  <2>1. /\ InFlight' = {ts} /\ faults' = faults /\ dayStats' = dayStats
        /\ \A d \in Day \ {ts} : rows'[d] = rows[d]
    BY <1>3 DEF Insert, InsertRow, InFlight, TypeOK, DbTypeOK
  <2>2. Lagging' \subseteq Lagging
    BY <1>3, <2>1 DEF Lagging, DayCurrent, InFlight, Insert
  <2> QED
    BY <1>0, <2>1, <2>2, FewerLag
<1>4. CASE UpdateDay
  <2>1. /\ InFlight = {ts} /\ InFlight' = {} /\ faults' = faults /\ rows' = rows
        /\ \A d \in Day \ {ts} : dayStats'[d] = dayStats[d]
    BY <1>4 DEF UpdateDay, UpdateDayStatistics, InFlight, TypeOK, DbTypeOK
  <2>2. dayStats'[ts] = rows[ts]
    BY <1>4, CalendarTypes DEF UpdateDay, UpdateDayStatistics, TypeOK, DbTypeOK
  <2>3. Lagging' \subseteq Lagging
    BY <2>1, <2>2 DEF Lagging, DayCurrent
  <2> QED
    BY <1>0, <2>1, <2>3, FewerLag
<1>5. CASE Tick \/ Start \/ Read \/ WriteLastRain \/ QueryCurrent \/ UpdateThisMonth
             \/ UpdateLastMonth \/ UpdateReports \/ ReportsFail \/ UNCHANGED vars
  <2>1. UNCHANGED <<rows, dayStats>> /\ faults' \in {faults, faults + 1}
    BY <1>5 DEF Tick, Start, Read, WriteLastRain, QueryCurrent, UpdateThisMonth,
       UpdateLastMonth, UpdateMonthStatistics, UpdateReports, ReportsFail, EndIteration,
       dbVars, vars
  <2>2. InFlight' = InFlight
    BY <1>5 DEF Tick, Start, Read, WriteLastRain, QueryCurrent, UpdateThisMonth,
       UpdateLastMonth, UpdateReports, ReportsFail, EndIteration, daemonVars, vars, InFlight
  <2> QED
    BY <1>0, <1>1, <2>1, <2>2, FewerLag
<1> QED
  BY <1>2, <1>3, <1>4, <1>5 DEF Next, Iteration

LEMMA FaultInit == Init => FaultsCostOneDay
<1> SUFFICES ASSUME Init PROVE FaultsCostOneDay
  OBVIOUS
<1>1. Lagging = {}
  BY DEF Init, InitTables, Lagging, DayCurrent
<1> QED
  BY <1>1, FS_EmptySet DEF Init, FaultsCostOneDay

(* The statistics of a day lag behind its rows only after a fault, and     *)
(* each fault leaves at most one day behind (veterod.cc:383-386).          *)
THEOREM FaultsCostOneDayHolds == Spec => []FaultsCostOneDay
<1>1. Init => TypeOK /\ FaultsCostOneDay
  BY TypeInit, FaultInit
<1>2. TypeOK /\ FaultsCostOneDay /\ [Next]_vars => (TypeOK /\ FaultsCostOneDay)'
  BY TypeStep, FaultStep
<1> QED
  BY <1>1, <1>2, PTL DEF Spec

-----------------------------------------------------------------------------
(* The up links of the month pages.                                        *)

(* Yesterday is in this year unless today is New Year's Day. *)
LEMMA YearOfYesterday ==
  ASSUME NEW d \in RunDay, ~IsNewYearsDay(d)
  PROVE  YearOf[MonthOf[d - 1]] = YearOf[MonthOf[d]]
BY DEF IsNewYearsDay

LEMMA JobsUpLink ==
  ASSUME TypeOK, NEW m, MonthPage(m) \in Jobs
  PROVE  YearPage(YearOf[m]) \in Jobs
<1>1. DayChanged /\ YearPage(YearOf[MonthOf[LastDay]]) \in Jobs
  BY DEF Jobs, DayPage, MonthPage
<1>2. m = MonthOf[ts] \/ m = MonthOf[LastDay]
  BY DEF Jobs, DayPage, MonthPage, YearPage
<1>3. YearPage(YearOf[MonthOf[ts]]) \in Jobs
  BY <1>1, YearOfYesterday DEF Jobs, LastDay, TypeOK
<1> QED
  BY <1>1, <1>2, <1>3

LEMMA MonthUpLinkStep == TypeOK /\ MonthUpLink /\ [Next]_vars => MonthUpLink'
<1> SUFFICES ASSUME TypeOK, MonthUpLink, [Next]_vars PROVE MonthUpLink'
  OBVIOUS
<1>1. CASE UpdateReports
  <2>1. asked' = asked \union [page : Jobs, on : {ts}]
    BY <1>1 DEF UpdateReports
  <2>2. SUFFICES ASSUME NEW j \in asked', j.page.kind = "month"
                 PROVE  \E k \in asked' : k.page = YearPage(YearOf[j.page.of])
    BY DEF MonthUpLink
  <2>3. CASE j \in asked
    BY <2>1, <2>2, <2>3 DEF MonthUpLink
  <2>4. CASE j \in [page : Jobs, on : {ts}]
    <3>1. j.page \in Jobs
      BY <2>4
    <3>2. j.page = MonthPage(j.page.of)
      BY <2>2, <3>1 DEF Jobs, DayPage, MonthPage, YearPage
    <3>3. YearPage(YearOf[j.page.of]) \in Jobs
      BY <3>1, <3>2, JobsUpLink
    <3>4. [page |-> YearPage(YearOf[j.page.of]), on |-> ts] \in asked'
      BY <2>1, <3>3
    <3> QED
      BY <3>4
  <2> QED
    BY <2>1, <2>3, <2>4
<1>2. CASE asked' = asked
  BY <1>2 DEF MonthUpLink
<1>3. UpdateReports \/ asked' = asked
  BY DEF Next, Iteration, Tick, Start, Stop, StatementFails, Read, Insert, WriteLastRain,
     UpdateDay, QueryCurrent, UpdateThisMonth, UpdateLastMonth, ReportsFail, vars
<1> QED
  BY <1>1, <1>2, <1>3

(* Every month page that was asked for has a year page to link up to,      *)
(* whatever the calendar (veterod.cc:412-422, monthreportgenerator.cc:230).*)
THEOREM MonthUpLinkHolds == Spec => []MonthUpLink
<1>1. Init => TypeOK /\ MonthUpLink
  BY TypeInit DEF Init, MonthUpLink
<1>2. TypeOK /\ MonthUpLink /\ [Next]_vars => (TypeOK /\ MonthUpLink)'
  BY TypeStep, MonthUpLinkStep
<1> QED
  BY <1>1, <1>2, PTL DEF Spec

-----------------------------------------------------------------------------
(* The report tree                                                         *)

LEMMA SiteStepIsVeterods == [SiteNext]_siteVars => [Next]_vars
BY DEF SiteNext, Publish, Other, Next, Iteration, siteVars

LEMMA SiteInitIsVeterods == SiteInit => Init
BY DEF SiteInit

-----------------------------------------------------------------------------
(* Types: the pages that exist are those that were asked for.              *)

LEMMA JobsArePages == ASSUME TypeOK PROVE Jobs \subseteq Page
BY CalendarTypes DEF TypeOK, Jobs, Page, DayPage, MonthPage, YearPage, LastDay

LEMMA PageKinds ==
  /\ Index \notin Page
  /\ \A p \in Page : \/ p.kind = "day"   /\ p.of \in Day
                     \/ p.kind = "month" /\ p.of \in Month
                     \/ p.kind = "year"  /\ p.of \in Year
BY DEF Index, Page

(* The navigation only has links to pages of the horizon. *)
LEMMA LinksArePages ==
  ASSUME TypeOK, NEW p \in SitePage
  PROVE  Generated(p, now).links \subseteq Page
<1>1. /\ \A d \in Day : DayPage(d) \in Page
      /\ \A m \in Month : MonthPage(m) \in Page
      /\ \A y \in Year : YearPage(y) \in Page
  BY DEF Page, DayPage, MonthPage, YearPage
<1>2. ASSUME NEW d \in Day PROVE DayLinks(d) \subseteq Page
  BY <1>1, CalendarTypes DEF DayLinks, Only, DataAtDay
<1>3. ASSUME NEW m \in Month PROVE MonthLinks(m) \subseteq Page
  BY <1>1, CalendarTypes DEF MonthLinks, Only, DataInMonth
<1>4. ASSUME NEW y \in Year PROVE YearLinks(y) \subseteq Page
  <2>1. \A z : DataInYear(z) => z \in Year
    BY DEF DataInYear, Year
  <2> QED
    BY <1>1, <2>1 DEF YearLinks, Only, MonthsBetween
<1>5. IndexLinks(now) \subseteq Page
  BY <1>1, CalendarTypes DEF IndexLinks, TypeOK
<1>6. CASE p = Index
  BY <1>5, <1>6 DEF Generated, Index
<1>7. CASE p \in Page
  BY <1>2, <1>3, <1>4, <1>7, PageKinds DEF Generated
<1> QED
  BY <1>6, <1>7 DEF SitePage

LEMMA PlottedType ==
  ASSUME NEW p \in Page
  PROVE  Plotted(p) \subseteq {p} \X Diagram
<1>1. Images(p) \subseteq Diagram
  BY PageKinds, SiteAssumption DEF Images, DayImages, MonthImages, YearImages, SiteAssumption,
     Diagram
<1> QED
  BY <1>1 DEF Plotted

(* A page that was generated exists. *)
LEMMA GeneratedIsMade ==
  \A p : Generated(p, now).made = TRUE /\ Generated(p, now).images = Images(p)
BY DEF Generated

LEMMA SiteTypeInit == SiteInit => SiteTypeOK
<1> SUFFICES ASSUME SiteInit PROVE SiteTypeOK
  OBVIOUS
<1>1. \A p \in SitePage : site[p] = NoPage
  BY DEF SiteInit
<1>2. \A p \in SitePage : site[p].made = FALSE /\ site[p].links = {}
  BY <1>1 DEF NoPage
<1>3. asked = {} /\ files = {} /\ Page \subseteq SitePage
  BY DEF SiteInit, Init, SitePage
<1> QED
  BY <1>2, <1>3, TypeInit, SiteInitIsVeterods DEF SiteTypeOK

LEMMA SiteTypeStep == SiteTypeOK /\ [SiteNext]_siteVars => SiteTypeOK'
<1> SUFFICES ASSUME SiteTypeOK, [SiteNext]_siteVars PROVE SiteTypeOK'
  OBVIOUS
<1>0. TypeOK /\ TypeOK'
  BY TypeStep, SiteStepIsVeterods DEF SiteTypeOK
<1>1. CASE Publish
  <2> DEFINE made == WithIndex(Jobs)
  <2>1. /\ \A p \in SitePage : site'[p] = IF p \in made THEN Generated(p, now) ELSE site[p]
        /\ files' = files \union UNION { Plotted(p) : p \in Jobs }
        /\ asked' = asked \union [page : Jobs, on : {ts}]
    BY <1>1 DEF Publish, Exec, UpdateReports
  <2>2. made \cap Page = Jobs
    BY <1>0, JobsArePages, PageKinds DEF WithIndex, Only
  <2>3. \A p \in SitePage : site'[p].made \in BOOLEAN /\ site'[p].links \subseteq Page
    BY <1>0, <2>1, LinksArePages, GeneratedIsMade DEF SiteTypeOK
  <2>4. \A p \in Page : site'[p].made <=> p \in Jobs \/ site[p].made
    BY <2>1, <2>2, GeneratedIsMade DEF SitePage
  <2>5. { j.page : j \in asked' } = { j.page : j \in asked } \union Jobs
    <3>1. { j.page : j \in [page : Jobs, on : {ts}] } = Jobs
      <4>1. ASSUME NEW p \in Jobs PROVE p \in { j.page : j \in [page : Jobs, on : {ts}] }
        <5>1. [page |-> p, on |-> ts] \in [page : Jobs, on : {ts}]
          OBVIOUS
        <5>2. [page |-> p, on |-> ts].page = p
          OBVIOUS
        <5> HIDE DEF made
        <5> QED
          BY <5>1, <5>2, Zenon
      <4>2. \A j \in [page : Jobs, on : {ts}] : j.page \in Jobs
        OBVIOUS
      <4> QED
        BY <4>1, <4>2
    <3> QED
      BY <2>1, <3>1
  <2>6. { p \in Page : site'[p].made } = { j.page : j \in asked' }
    BY <1>0, <2>4, <2>5, JobsArePages DEF SiteTypeOK
  <2>7. files' \subseteq UNION { {p} \X Diagram : p \in { q \in Page : site'[q].made } }
    <3>1. \A p \in Jobs : Plotted(p) \subseteq {p} \X Diagram /\ p \in Page /\ site'[p].made
      BY <1>0, <2>4, JobsArePages, PlottedType
    <3> QED
      BY <2>1, <2>4, <3>1 DEF SiteTypeOK
  <2> QED
    BY <1>0, <2>3, <2>6, <2>7 DEF SiteTypeOK
<1>2. CASE UNCHANGED <<site, files, asked>>
  BY <1>0, <1>2 DEF SiteTypeOK
<1>3. Publish \/ UNCHANGED <<site, files, asked>>
  BY DEF SiteNext, Other, Tick, Start, Stop, StatementFails, Read, Insert, WriteLastRain,
     UpdateDay, QueryCurrent, UpdateThisMonth, UpdateLastMonth, ReportsFail, siteVars, vars
<1> QED
  BY <1>1, <1>2, <1>3

(* The pages that exist are those that were asked for, they link to pages  *)
(* of the horizon, and there are diagrams of pages that exist only         *)
(* (vetero_reportgen.cc:105-160).                                          *)
THEOREM SiteTypeCorrect == SiteSpec => []SiteTypeOK
BY SiteTypeInit, SiteTypeStep, PTL DEF SiteSpec

-----------------------------------------------------------------------------
(* The reports of a day change are final.                                  *)

(* No report was asked for on a day later than the dataset at hand. *)
AskedInThePast == \A j \in asked : j.on <= now /\ (Active => j.on <= ts)

(* A year is asked for by a day change that is then complete. *)
YearsOfDayChanges == \A j \in asked : j.page.kind = "year" => j.on \in rolled

PagesInv == SettledInv /\ AskedInThePast /\ YearsOfDayChanges /\ SettledPages

LEMMA AskedStep ==
  ASSUME TypeOK, RolledInThePast, AskedInThePast, YearsOfDayChanges, [Next]_vars
  PROVE  AskedInThePast' /\ YearsOfDayChanges'
<1> USE DEF AskedInThePast, YearsOfDayChanges
<1>0. \A j \in asked : j \in Job /\ j.on \in RunDay
  BY DEF TypeOK, Job
<1>1. CASE Tick
  BY <1>0, <1>1 DEF Tick, daemonVars, Active, TypeOK, RunDay
<1>2. CASE Start \/ Stop \/ StatementFails
  BY <1>2 DEF Start, Stop, StatementFails, Active
<1>3. CASE Read
  BY <1>3 DEF Read, Active
<1>4. CASE Insert \/ WriteLastRain \/ UpdateDay \/ QueryCurrent \/ UpdateThisMonth
             \/ UpdateLastMonth
  BY <1>4 DEF Insert, WriteLastRain, UpdateDay, QueryCurrent, UpdateThisMonth, UpdateLastMonth,
     Active
<1>5. CASE UpdateReports
  <2>1. /\ asked' = asked \union [page : Jobs, on : {ts}]
        /\ UNCHANGED <<now, ts>> /\ pc' = "read"
        /\ rolled' = IF DayChanged THEN rolled \union {ts} ELSE rolled
    BY <1>5 DEF UpdateReports, EndIteration
  <2>2. \A p \in Jobs : p.kind = "year" => DayChanged
    BY DEF Jobs, DayPage
  <2> QED
    BY <2>1, <2>2 DEF RolledInThePast, Active
<1>6. CASE ReportsFail
  BY <1>6 DEF ReportsFail, EndIteration, Active
<1>7. CASE UNCHANGED vars
  BY <1>7 DEF vars, daemonVars, Active
<1> QED
  BY <1>1, <1>2, <1>3, <1>4, <1>5, <1>6, <1>7 DEF Next, Iteration

(* Whether days differ depends on their own statistics alone, and more     *)
(* days have no fewer temperatures.                                        *)
LEMMA DifferSame ==
  ASSUME NEW f, NEW g, NEW S, NEW T, S \subseteq T, \A d \in S : f[d] = g[d], Differ(f, S)
  PROVE  Differ(g, T)
BY DEF Differ

(* A page keeps what it has to show while the days it was made for keep    *)
(* their rows and their statistics.                                        *)
LEMMA PageStaysFinal ==
  ASSUME NEW p, NEW t \in RunDay, ShowsFinal(p, t), site'[p] = site[p],
         \A d \in Day : d < t => rows'[d] = rows[d] /\ dayStats'[d] = dayStats[d]
  PROVE  ShowsFinal(p, t)'
<1> DEFINE m == MonthOf[t - 1]
           over == { d \in DaysOf(m) : d < t }
<1>1. t - 1 \in Day /\ t - 1 < t
  BY CalendarTypes DEF RunDay
<1>2. \A e \in over : dayStats'[e] = dayStats[e]
  BY DEF DaysOf
<1>3. \A e \in over : DayVaries(e)' <=> DayVaries(e)
  <2> SUFFICES ASSUME NEW e \in over PROVE Differ(dayStats', {e}) <=> Differ(dayStats, {e})
    BY DEF DayVaries, Differ
  <2>1. dayStats'[e] = dayStats[e]
    BY <1>2
  <2> HIDE DEF over
  <2> QED
    BY <2>1, DifferSame
<1>4. Differ(dayStats, over)' => Differ(dayStats, over)
  <2>1. Differ(dayStats, over)' <=> Differ(dayStats', over)
    BY DEF Differ
  <2> HIDE DEF over
  <2> QED
    BY <1>2, <2>1, DifferSame
<1>5. CASE p = DayPage(t - 1)
  BY <1>1, <1>5 DEF ShowsFinal, DayPage, MonthPage, YearPage
<1>6. CASE p = MonthPage(m)
  BY <1>2, <1>3, <1>6 DEF ShowsFinal, DayPage, MonthPage, YearPage
<1>7. CASE p = YearPage(YearOf[m])
  BY <1>2, <1>4, <1>7 DEF ShowsFinal, DayPage, MonthPage, YearPage
<1> QED
  BY <1>5, <1>6, <1>7 DEF ShowsFinal

(* The loop only touches the rows and the statistics of its dataset's day. *)
LEMMA EarlierDaysStay ==
  ASSUME TypeOK, AskedInThePast, [Next]_vars, NEW j \in asked, NEW d \in Day, d < j.on
  PROVE  rows'[d] = rows[d] /\ dayStats'[d] = dayStats[d]
<1>1. j.on \in RunDay
  BY DEF TypeOK, Job
<1>2. CASE Insert \/ UpdateDay
  <2>1. Active
    BY <1>2 DEF Insert, UpdateDay, Active
  <2>2. j.on <= ts /\ ts \in Nat
    BY <2>1, CalendarTypes DEF AskedInThePast, TypeOK
  <2>3. d # ts
    <3>1. d \in Nat
      BY DEF Day
    <3>2. j.on \in Nat
      BY <1>1, CalendarTypes
    <3> QED
      BY <2>2, <3>1, <3>2, SMT
  <2> QED
    BY <1>2, <2>3 DEF Insert, UpdateDay, InsertRow, UpdateDayStatistics, TypeOK, DbTypeOK
<1>3. CASE ~(Insert \/ UpdateDay)
  BY <1>3 DEF Next, Iteration, Tick, Start, Stop, StatementFails, Read, WriteLastRain,
     QueryCurrent, UpdateThisMonth, UpdateLastMonth, UpdateMonthStatistics, UpdateReports,
     ReportsFail, EndIteration, vars, dbVars
<1> QED
  BY <1>2, <1>3

(* A page that is made now shows what is final: of a year the months whose *)
(* day changes are complete.                                               *)
LEMMA NewPageIsFinal ==
  ASSUME ~West, TypeOK, NEW p \in Page, NEW t \in RunDay,
         p.kind = "year" => SettledBy(t),
         site'[p] = Generated(p, now), UNCHANGED <<rows, dayStats, monthStats>>
  PROVE  ShowsFinal(p, t)'
<1> DEFINE m == MonthOf[t - 1]
<1>1. t - 1 \in Day /\ m \in Month
  BY CalendarTypes
<1>2. CASE p = DayPage(t - 1)
  BY <1>2 DEF ShowsFinal, Generated, DayShows, DayPage, MonthPage, YearPage
<1>3. CASE p = MonthPage(m)
  <2>1. site'[p].shows = [d \in Day |-> IF d \in DaysListed(m) THEN dayStats[d] ELSE NoRow]
    BY <1>3 DEF Generated, MonthShows, MonthPage
  <2>2. \A e \in DaysOf(m) : e \in DaysListed(m) <=> DayVaries(e)'
    BY ~West DEF DaysListed, DaysBetween, DaysOf, DayVaries, Differ
  <2>3. \A e \in DaysOf(m) :
          site'[p].shows[e] = IF DayVaries(e)' THEN dayStats'[e] ELSE NoRow
    BY <2>1, <2>2 DEF DaysOf
  <2> QED
    BY <1>3, <2>3 DEF ShowsFinal, DayPage, MonthPage, YearPage
<1>4. CASE p = YearPage(YearOf[m])
  <2> DEFINE over == { d \in DaysOf(m) : d < t }
  <2>1. site'[p].shows[m] = IF MonthVaries(m) THEN monthStats[m] ELSE NoRow
    BY <1>1, <1>4 DEF Generated, YearShows, MonthsBetween, YearPage
  <2>2. monthStats[m] # NoRow /\ \A d \in over : monthStats[m][d] = dayStats[d]
    BY <1>4 DEF YearPage, SettledBy
  <2>3. Differ(dayStats, over)' => MonthVaries(m)
    <3>1. SUFFICES ASSUME Differ(dayStats, over) PROVE MonthVaries(m)
      BY DEF Differ
    <3>2. over \subseteq DaysOf(m)
      OBVIOUS
    <3>3. Differ(monthStats[m], DaysOf(m))
      <4> HIDE DEF over
      <4> QED
        BY <2>2, <3>1, <3>2, DifferSame
    <3> QED
      BY <2>2, <3>3 DEF MonthVaries
  <2> QED
    BY <1>4, <2>1, <2>2, <2>3 DEF ShowsFinal, DayPage, MonthPage, YearPage
<1> QED
  BY <1>2, <1>3, <1>4 DEF ShowsFinal

LEMMA PagesStep ==
  ASSUME ~West
  PROVE  PagesInv /\ [SiteNext]_siteVars => PagesInv'
<1> SUFFICES ASSUME PagesInv, [SiteNext]_siteVars PROVE PagesInv'
  OBVIOUS
<1>0. [Next]_vars /\ SettledInv /\ SettledInv'
  BY SiteStepIsVeterods, SettledStep DEF PagesInv
<1>1. AskedInThePast' /\ YearsOfDayChanges'
  BY <1>0, AskedStep DEF PagesInv, SettledInv
<1>2. \A j \in asked' : j.page \in Page /\ j.on \in RunDay
  BY <1>0 DEF SettledInv, TypeOK, Job
<1>3. ASSUME NEW j \in asked, site'[j.page] = site[j.page] PROVE ShowsFinal(j.page, j.on)'
  <2>1. j.on \in RunDay
    BY <1>0 DEF SettledInv, TypeOK, Job
  <2>2. \A d \in Day : d < j.on => rows'[d] = rows[d] /\ dayStats'[d] = dayStats[d]
    BY <1>0, EarlierDaysStay DEF PagesInv, SettledInv
  <2> QED
    BY <1>3, <2>1, <2>2, PageStaysFinal DEF PagesInv, SettledPages
<1>4. CASE Publish
  <2>1. /\ \A p \in SitePage :
              site'[p] = IF p \in WithIndex(Jobs) THEN Generated(p, now) ELSE site[p]
        /\ asked' = asked \union [page : Jobs, on : {ts}]
        /\ UNCHANGED <<now, rows, dayStats, monthStats>>
    BY <1>4 DEF Publish, Exec, UpdateReports, EndIteration, dbVars
  <2>2. ASSUME NEW j \in asked' PROVE ShowsFinal(j.page, j.on)'
    <3>1. CASE j.page \in WithIndex(Jobs)
      <4>1. site'[j.page] = Generated(j.page, now)
        BY <1>2, <2>1, <2>2, <3>1 DEF SitePage
      <4>2. j.page.kind = "year" => SettledBy(j.on)
        BY <1>0, <1>1, <2>1, <2>2 DEF YearsOfDayChanges, SettledInv, SettledDays, SettledBy
      <4> QED
        BY <1>0, <1>2, <2>1, <2>2, <4>1, <4>2, NewPageIsFinal DEF SettledInv
    <3>2. CASE j.page \notin WithIndex(Jobs)
      <4>1. j \in asked
        BY <2>1, <2>2, <3>2 DEF WithIndex
      <4>2. site'[j.page] = site[j.page]
        BY <1>2, <2>1, <2>2, <3>2 DEF SitePage
      <4> QED
        BY <1>3, <4>1, <4>2
    <3> QED
      BY <3>1, <3>2
  <2> QED
    BY <1>0, <1>1, <2>2 DEF PagesInv, SettledPages
<1>5. CASE UNCHANGED <<site, asked>>
  BY <1>0, <1>1, <1>3, <1>5 DEF PagesInv, SettledPages
<1>6. Publish \/ UNCHANGED <<site, asked>>
  BY DEF SiteNext, Other, Tick, Start, Stop, StatementFails, Read, Insert, WriteLastRain,
     UpdateDay, QueryCurrent, UpdateThisMonth, UpdateLastMonth, ReportsFail, siteVars, vars
<1> QED
  BY <1>4, <1>5, <1>6

(* In a time zone that is not west of Greenwich, and whatever the station  *)
(* measures, the pages of a day change show every row of the day that      *)
(* ended and the final statistics of the days of its month that have more  *)
(* than one temperature, and of no others, for good (veterod.cc:399-421,   *)
(* monthreportgenerator.cc:94).                                            *)
THEOREM SettledPagesHold ==
  ASSUME ~West
  PROVE  SiteSpec => []SettledPages
<1>1. SiteInit => PagesInv
  BY SettledInit, SiteInitIsVeterods
     DEF SiteInit, Init, PagesInv, AskedInThePast, YearsOfDayChanges, SettledPages
<1>2. PagesInv => SettledPages
  BY DEF PagesInv
<1> QED
  BY <1>1, <1>2, PagesStep, PTL DEF SiteSpec
-----------------------------------------------------------------------------
(* Pages refer to diagrams that are there.                                 *)

(* Nothing is plotted of a pressure that was lost. *)
PressurePlotted == \A d \in Day : <<DayPage(d), "pressure">> \in files => Pressed(d)

ImagesInv == PagesInv /\ ImagesThere /\ PressurePlotted

(* What there is to plot for a page that was asked for does not grow: the  *)
(* days before have all they get, and a day change that is completed on    *)
(* the day of a year's page is the one that asked for it.                  *)
LEMMA NoMoreToPlot ==
  ASSUME PagesInv, [Next]_vars, NEW j \in asked
  PROVE  DaysToPlot(j.page, j.on)' \subseteq DaysToPlot(j.page, j.on)
<1>0. TypeOK /\ j.on \in RunDay /\ j.page \in Page
  BY DEF PagesInv, SettledInv, TypeOK, Job
<1>1. \A d \in Day : d < j.on => rows'[d] = rows[d] /\ dayStats'[d] = dayStats[d]
  BY <1>0, EarlierDaysStay DEF PagesInv
<1>2. j.page.kind = "year" => \A u \in rolled' : u <= j.on => u \in rolled
  <2>1. CASE UpdateReports \/ ReportsFail
    <3>1. rolled' \subseteq rolled \union {ts} /\ Active
      BY <2>1 DEF UpdateReports, ReportsFail, EndIteration, Active
    <3>2. j.on <= ts /\ ts \in Nat /\ j.on \in Nat
      BY <1>0, <3>1, CalendarTypes DEF PagesInv, AskedInThePast, TypeOK
    <3> QED
      BY <3>1, <3>2 DEF PagesInv, YearsOfDayChanges
  <2>2. CASE ~(UpdateReports \/ ReportsFail)
    BY <2>2 DEF Next, Iteration, Tick, Start, Stop, StatementFails, Read, Insert, WriteLastRain,
       UpdateDay, QueryCurrent, UpdateThisMonth, UpdateLastMonth, vars
  <2> QED
    BY <2>1, <2>2
<1> QED
  <2> SUFFICES ASSUME NEW d \in DaysToPlot(j.page, j.on)' PROVE d \in DaysToPlot(j.page, j.on)
    OBVIOUS
  <2>1. d \in Day /\ d < j.on /\ rows'[d] = rows[d] /\ dayStats'[d] = dayStats[d]
    BY <1>1 DEF DaysToPlot
  <2>2. CASE j.page.kind = "day"
    BY <2>1, <2>2 DEF DaysToPlot
  <2>3. CASE j.page.kind = "month"
    BY <2>1, <2>3 DEF DaysToPlot, DayVaries, Differ
  <2>4. CASE j.page.kind = "year"
    BY <1>2, <2>1, <2>4 DEF DaysToPlot, DayVaries, Differ
  <2> QED
    BY <1>0, <2>2, <2>3, <2>4, PageKinds

(* When there is something to plot, the queries for the diagrams have a    *)
(* result: those of a year find what a day change has settled.             *)
LEMMA PlottableVaries ==
  ASSUME ~West, TypeOK, SettledDays', NEW p \in Page, NEW t \in RunDay,
         DaysToPlot(p, t)' # {}, UNCHANGED <<rows, dayStats, monthStats>>
  PROVE  Varies(p)
<1>1. PICK d \in Day : d \in DaysToPlot(p, t)'
  BY DEF DaysToPlot
<1>2. CASE p.kind = "day"
  BY <1>1, <1>2 DEF DaysToPlot, Varies
<1>3. CASE p.kind = "month"
  <2>1. MonthOf[d] = p.of /\ DayVaries(d)
    BY <1>1, <1>3 DEF DaysToPlot, DayVaries, Differ
  <2> QED
    BY <1>3, <2>1, ~West DEF Varies, DaysListed, DaysBetween, DaysOf
<1>4. CASE p.kind = "year"
  <2> DEFINE m == MonthOf[d]
  <2>1. PICK u \in rolled' : d < u /\ MonthOf[u - 1] = m
    BY <1>1, <1>4 DEF DaysToPlot
  <2>2. YearOf[m] = p.of /\ DayVaries(d)
    BY <1>1, <1>4 DEF DaysToPlot, DayVaries, Differ
  <2>3. m \in Month /\ d \in DaysOf(m)
    BY CalendarTypes DEF DaysOf
  <2>4. monthStats[m] # NoRow /\ monthStats[m][d] = dayStats[d]
    BY <2>1, <2>3 DEF SettledDays, SettledBy
  <2>5. Differ(monthStats[m], DaysOf(m))
    <3> HIDE DEF m
    <3> QED
      BY <2>2, <2>3, <2>4, DifferSame DEF DayVaries
  <2>6. MonthVaries(m)
    BY <2>4, <2>5 DEF MonthVaries
  <2>7. m \in MonthsBetween(p.of)
    BY <2>2, <2>3 DEF MonthsBetween
  <2> QED
    BY <1>4, <2>6, <2>7 DEF Varies
<1> QED
  BY <1>2, <1>3, <1>4, PageKinds

(* The rows of a day are never deleted. *)
LEMMA PressedStays ==
  ASSUME TypeOK, [Next]_vars, NEW d \in Day, Pressed(d)
  PROVE  Pressed(d)'
<1>1. rows[d] \in Nat /\ (rows'[d] = rows[d] \/ rows'[d] = rows[d] + 1)
  <2>1. CASE Insert
    BY <2>1 DEF Insert, InsertRow, TypeOK, DbTypeOK
  <2>2. CASE ~Insert
    BY <2>2 DEF TypeOK, DbTypeOK, Next, Iteration, Tick, Start, Stop, StatementFails, Read,
       WriteLastRain, UpdateDay, UpdateDayStatistics, QueryCurrent, UpdateThisMonth,
       UpdateLastMonth, UpdateMonthStatistics, UpdateReports, ReportsFail, EndIteration, vars,
       dbVars
  <2> QED
    BY <2>1, <2>2
<1>2. PICK i \in 1 .. rows[d] : Pressure[d][i] > 0
  BY DEF Pressed
<1>3. i \in 1 .. rows'[d]
  BY <1>1, <1>2
<1> QED
  BY <1>2, <1>3 DEF Pressed

(* A page that is made when it has something to plot gets its diagrams,    *)
(* but for that of a pressure that was lost.                               *)
LEMMA NewPageHasImages ==
  ASSUME NEW p \in Page, Varies(p), PressurePlotted', rows' = rows,
         site'[p].images = Images(p), Plotted(p) \subseteq files'
  PROVE  MissingImages(p)' = NeverPlotted(p)'
<1>1. \A k \in Images(p) : (k = "pressure" => Pressed(p.of)) => <<p, k>> \in files'
  BY DEF Plotted
<1>2. CASE p.kind = "day"
  <2>1. p = DayPage(p.of) /\ p.of \in Day
    BY <1>2 DEF Page, DayPage
  <2>2. Images(p) = {"temperature"} \union Measured
    BY <1>2 DEF Varies, Images, DayImages
  <2>3. Pressed(p.of)' <=> Pressed(p.of)
    BY DEF Pressed
  <2>4. <<p, "pressure">> \in files' => Pressed(p.of)
    BY <2>1, <2>3 DEF PressurePlotted
  <2>5. \A k : k \in MissingImages(p)' <=>
                  k = "pressure" /\ "pressure" \in Measured /\ ~Pressed(p.of)
    BY <1>1, <2>2, <2>4 DEF MissingImages
  <2>6. \A k : k \in NeverPlotted(p)' <=>
                  k = "pressure" /\ "pressure" \in Measured /\ ~Pressed(p.of)
    BY <1>2, <2>3 DEF NeverPlotted, Only
  <2> QED
    BY <2>5, <2>6
<1>3. CASE p.kind # "day"
  <2>1. "pressure" \notin Images(p)
    BY <1>3, PageKinds DEF Images, MonthImages, YearImages
  <2> QED
    BY <1>1, <1>3, <2>1 DEF MissingImages, NeverPlotted, Only
<1> QED
  BY <1>2, <1>3

LEMMA PressurePlottedStep ==
  ASSUME TypeOK, PressurePlotted, [SiteNext]_siteVars
  PROVE  PressurePlotted'
<1>1. ASSUME NEW d \in Day, <<DayPage(d), "pressure">> \in files' PROVE Pressed(d)'
  <2>1. CASE <<DayPage(d), "pressure">> \in files
    BY <1>1, <2>1, PressedStays, SiteStepIsVeterods DEF PressurePlotted
  <2>2. CASE <<DayPage(d), "pressure">> \notin files
    <3>1. Publish
      BY <1>1, <2>2 DEF SiteNext, siteVars
    <3>2. PICK p \in Jobs : <<DayPage(d), "pressure">> \in Plotted(p)
      BY <1>1, <2>2, <3>1 DEF Publish, Exec
    <3>3. Pressed(d)
      BY <3>2 DEF Plotted, DayPage
    <3> QED
      BY <3>3, PressedStays, SiteStepIsVeterods
  <2> QED
    BY <2>1, <2>2
<1> QED
  BY <1>1 DEF PressurePlotted

LEMMA ImagesStep ==
  ASSUME ~West
  PROVE  ImagesInv /\ [SiteNext]_siteVars => ImagesInv'
<1> SUFFICES ASSUME ImagesInv, [SiteNext]_siteVars PROVE ImagesInv'
  OBVIOUS
<1>0. /\ [Next]_vars /\ PagesInv /\ PagesInv' /\ TypeOK /\ TypeOK' /\ SettledDays'
      /\ PressurePlotted'
  BY SiteStepIsVeterods, PagesStep, PressurePlottedStep DEF ImagesInv, PagesInv, SettledInv
<1>1. ASSUME NEW j \in asked, site'[j.page] = site[j.page], files \subseteq files',
             DaysToPlot(j.page, j.on)' # {}
      PROVE  MissingImages(j.page)' = NeverPlotted(j.page)'
  <2>1. DaysToPlot(j.page, j.on) # {}
    BY <1>0, <1>1, NoMoreToPlot
  <2>2. MissingImages(j.page) = NeverPlotted(j.page)
    BY <2>1 DEF ImagesInv, ImagesThere
  <2>3. NeverPlotted(j.page)' = NeverPlotted(j.page)
    <3>1. CASE j.page.kind = "day"
      <4>1. j.page.of \in Day /\ j.page.of < j.on
        BY <2>1, <3>1 DEF DaysToPlot
      <4>2. rows'[j.page.of] = rows[j.page.of]
        BY <1>0, <4>1, EarlierDaysStay DEF PagesInv
      <4> QED
        BY <4>2 DEF NeverPlotted, Pressed, Only
    <3> QED
      BY <3>1 DEF NeverPlotted, Only
  <2>4. MissingImages(j.page)' \subseteq MissingImages(j.page)
    BY <1>1 DEF MissingImages
  <2>5. ASSUME NEW k \in NeverPlotted(j.page)' PROVE k \in MissingImages(j.page)'
    <3>1. k = "pressure" /\ j.page.kind = "day" /\ ~Pressed(j.page.of)'
      BY <2>5 DEF NeverPlotted, Only
    <3>2. j.page = DayPage(j.page.of) /\ j.page.of \in Day
      BY <1>0, <3>1 DEF TypeOK, Job, Page, DayPage
    <3>3. <<j.page, k>> \notin files'
      BY <1>0, <3>1, <3>2 DEF PressurePlotted
    <3> QED
      BY <1>1, <2>2, <2>3, <2>5, <3>3 DEF MissingImages
  <2> QED
    BY <2>2, <2>3, <2>4, <2>5
<1>2. CASE Publish
  <2>1. /\ \A p \in SitePage :
              site'[p] = IF p \in WithIndex(Jobs) THEN Generated(p, now) ELSE site[p]
        /\ files' = files \union UNION { Plotted(p) : p \in Jobs }
        /\ asked' = asked \union [page : Jobs, on : {ts}]
        /\ UNCHANGED <<rows, dayStats, monthStats>>
    BY <1>2 DEF Publish, Exec, UpdateReports, EndIteration, dbVars
  <2>2. WithIndex(Jobs) \cap Page = Jobs
    BY <1>0, JobsArePages, PageKinds DEF WithIndex, Only
  <2>3. ASSUME NEW j \in asked', DaysToPlot(j.page, j.on)' # {}
        PROVE  MissingImages(j.page)' = NeverPlotted(j.page)'
    <3>0. j.page \in Page /\ j.on \in RunDay
      BY <1>0, <2>3 DEF TypeOK, Job
    <3>1. CASE j.page \in Jobs
      <4>1. Varies(j.page)
        BY <1>0, <2>1, <2>3, <3>0, PlottableVaries
      <4>2. site'[j.page].images = Images(j.page)
        BY <2>1, <2>2, <3>0, <3>1, GeneratedIsMade DEF SitePage
      <4>3. Plotted(j.page) \subseteq files'
        BY <2>1, <3>1
      <4> QED
        BY <1>0, <2>1, <3>0, <4>1, <4>2, <4>3, NewPageHasImages
    <3>2. CASE j.page \notin Jobs
      <4>1. j \in asked /\ site'[j.page] = site[j.page] /\ files \subseteq files'
        BY <2>1, <2>2, <2>3, <3>0, <3>2 DEF SitePage
      <4> QED
        BY <1>1, <2>3, <4>1
    <3> QED
      BY <3>1, <3>2
  <2> QED
    BY <1>0, <2>3 DEF ImagesInv, ImagesThere
<1>3. CASE UNCHANGED <<site, files, asked>>
  BY <1>0, <1>1, <1>3 DEF ImagesInv, ImagesThere
<1>4. Publish \/ UNCHANGED <<site, files, asked>>
  BY DEF SiteNext, Other, Tick, Start, Stop, StatementFails, Read, Insert, WriteLastRain,
     UpdateDay, QueryCurrent, UpdateThisMonth, UpdateLastMonth, ReportsFail, siteVars, vars
<1> QED
  BY <1>2, <1>3, <1>4

(* The diagrams a page refers to are there, once it was made on a day      *)
(* after one of its own that can be plotted, but for the pressure of a day *)
(* that has lost it, for every calendar and all data in a time zone that   *)
(* is not west of Greenwich (gnuplot.cc:80, dayreportgenerator.cc:289).    *)
THEOREM ImagesThereHolds ==
  ASSUME ~West
  PROVE  SiteSpec => []ImagesThere
<1>1. SiteInit => ImagesInv
  BY SettledInit, SiteInitIsVeterods
     DEF SiteInit, Init, ImagesInv, PagesInv, AskedInThePast, YearsOfDayChanges, SettledPages,
         ImagesThere, PressurePlotted
<1>2. ImagesInv => ImagesThere
  BY DEF ImagesInv
<1> QED
  BY <1>1, <1>2, ImagesStep, PTL DEF SiteSpec

-----------------------------------------------------------------------------
(* The pages of the days                                                   *)

(* No dataset of a day before it is still to come or at work. *)
Horizon == IF Active THEN ts ELSE now

HasPage(d) == site[DayPage(d)].made

(* The dataset at work is in the statistics of its day. *)
Aggregated == pc \in {"current", "monthThis", "monthLast", "reports"}

(* Pages and statistics are there for the days up to the dataset at hand,  *)
(* statistics for stored rows only; a page of a day links back, and a      *)
(* daemon that runs never made one for a day after lastInserted.           *)
DayPagesInOrder ==
  /\ \A d \in Day : DataAtDay(d) => d <= Horizon /\ rows[d] > 0
  /\ \A d \in Day : HasPage(d) =>
       /\ d <= Horizon /\ (DataAtDay(d) \/ d < Horizon)
       /\ pc # "down" => d <= lastInserted
       /\ DataAtDay(d - 1) => DayPage(d - 1) \in site[DayPage(d)].links
  /\ pc \in {"lastRain", "dayStats"} => rows[ts] > 0
  /\ Aggregated => DataAtDay(ts)

LEMMA HorizonStep ==
  ASSUME TypeOK, RolledInThePast, [Next]_vars
  PROVE  Horizon \in RunDay /\ Horizon' \in RunDay /\ Horizon <= Horizon'
<1>0. TypeOK' /\ now \in Nat /\ ts \in Nat /\ ts <= now
  BY TypeStep, CalendarTypes DEF TypeOK, RolledInThePast
<1>1. Horizon \in RunDay /\ Horizon' \in RunDay
  BY <1>0 DEF Horizon, TypeOK
<1>2. CASE Tick
  BY <1>0, <1>1, <1>2 DEF Tick, daemonVars, Horizon, Active
<1>3. CASE ~Tick
  <2>1. UNCHANGED now
    BY <1>3 DEF Next, Iteration, Start, Stop, StatementFails, Read, Insert, WriteLastRain,
       UpdateDay, QueryCurrent, UpdateThisMonth, UpdateLastMonth, UpdateReports, ReportsFail,
       EndIteration, vars
  <2>2. ts' = ts \/ ts' = now
    BY <1>3 DEF Next, Iteration, Start, Stop, StatementFails, Read, Insert, WriteLastRain,
       UpdateDay, QueryCurrent, UpdateThisMonth, UpdateLastMonth, UpdateReports, ReportsFail,
       EndIteration, vars, daemonVars
  <2>3. Active' => Active \/ ts' = now
    BY <1>3 DEF Next, Iteration, Start, Stop, StatementFails, Read, Insert, WriteLastRain,
       UpdateDay, QueryCurrent, UpdateThisMonth, UpdateLastMonth, UpdateReports, ReportsFail,
       EndIteration, vars, daemonVars, Active
  <2> QED
    BY <1>0, <1>1, <2>1, <2>2, <2>3 DEF Horizon
<1> QED
  BY <1>1, <1>2, <1>3

(* The navigation of the page of a day *)
LEMMA DayLinksTo ==
  ASSUME NEW d \in Day, NEW e \in Day
  PROVE  DayPage(e) \in DayLinks(d) <=> DataAtDay(e) /\ (e = d - 1 \/ e = d + 1)
BY DEF DayLinks, Only, DayPage, MonthPage

(* The pages of days that an iteration makes *)
LEMMA DayPagesMade ==
  ASSUME TypeOK, Publish, NEW d \in Day
  PROVE  /\ d = ts \/ (d = ts - 1 /\ DayChanged) =>
              site'[DayPage(d)].made /\ site'[DayPage(d)].links = DayLinks(d)
         /\ ~(d = ts \/ (d = ts - 1 /\ DayChanged)) => site'[DayPage(d)] = site[DayPage(d)]
<1>1. DayPage(d) \in Jobs <=> d = ts \/ (d = ts - 1 /\ DayChanged)
  BY DEF Jobs, DayPage, MonthPage, YearPage, LastDay
<1>2. DayPage(d) \in WithIndex(Jobs) <=> DayPage(d) \in Jobs
  BY DEF WithIndex, Only, DayPage, Index
<1>3. site'[DayPage(d)] = IF DayPage(d) \in WithIndex(Jobs) THEN Generated(DayPage(d), now)
                          ELSE site[DayPage(d)]
  BY DEF Publish, Exec, SitePage, Page, DayPage
<1>4. Generated(DayPage(d), now).made /\ Generated(DayPage(d), now).links = DayLinks(d)
  BY DEF Generated, DayPage
<1> QED
  BY <1>1, <1>2, <1>3, <1>4

LEMMA QuietKeepsOrder ==
  ASSUME TypeOK, DayPagesInOrder, UNCHANGED <<site, rows, dayStats>>,
         Horizon \in Nat, Horizon' \in Nat, Horizon <= Horizon',
         lastInserted \in Nat, lastInserted' \in Nat,
         pc' # "down" => (pc # "down" /\ lastInserted <= lastInserted') \/ Horizon <= lastInserted',
         pc' \in {"lastRain", "dayStats"} => pc \in {"lastRain", "dayStats"} /\ ts' = ts,
         Aggregated' => Aggregated /\ ts' = ts
  PROVE  DayPagesInOrder'
<1>1. ASSUME NEW d \in Day, DataAtDay(d)' PROVE d <= Horizon' /\ rows'[d] > 0
  BY <1>1 DEF DayPagesInOrder, DataAtDay, Day
<1>2. ASSUME NEW d \in Day, HasPage(d)'
      PROVE  /\ d <= Horizon' /\ (DataAtDay(d)' \/ d < Horizon')
             /\ pc' # "down" => d <= lastInserted'
             /\ DataAtDay(d - 1)' => DayPage(d - 1) \in site'[DayPage(d)].links
  <2>1. d \in Nat /\ HasPage(d) /\ (DataAtDay(d)' <=> DataAtDay(d))
          /\ (DataAtDay(d - 1)' <=> DataAtDay(d - 1))
    BY <1>2 DEF HasPage, DataAtDay, Day
  <2> QED
    BY <2>1 DEF DayPagesInOrder
<1>3. /\ pc' \in {"lastRain", "dayStats"} => rows'[ts'] > 0
      /\ Aggregated' => DataAtDay(ts)'
  BY DEF DayPagesInOrder, DataAtDay
<1> QED
  BY <1>1, <1>2, <1>3 DEF DayPagesInOrder

LEMMA DayPagesStep ==
  ASSUME SettledInv, SiteTypeOK, DayPagesInOrder, [SiteNext]_siteVars
  PROVE  DayPagesInOrder'
<1>0. /\ [Next]_vars /\ TypeOK /\ TypeOK' /\ RolledInThePast
      /\ Horizon \in RunDay /\ Horizon' \in RunDay /\ Horizon <= Horizon'
  BY SiteStepIsVeterods, TypeStep, HorizonStep DEF SettledInv
<1>1. /\ ts \in RunDay /\ ts \in Day /\ ts \in Nat /\ now \in Nat /\ ts <= now
      /\ lastInserted \in Nat /\ lastInserted' \in Nat /\ Horizon \in Nat /\ Horizon' \in Nat
  BY <1>0, CalendarTypes DEF TypeOK, RolledInThePast
<1>2. CASE Insert
  <2>0. UNCHANGED site
    BY <1>2 DEF SiteNext, Publish, UpdateReports, Insert, siteVars
  <2>1. /\ UNCHANGED <<site, dayStats, ts, lastInserted>> /\ pc = "insert"
        /\ pc' \in {"lastRain", "dayStats"}
        /\ \A d \in Day : rows'[d] >= rows[d] /\ rows[d] \in Nat /\ rows'[d] \in Nat
        /\ rows'[ts] > 0
    <3>1. /\ UNCHANGED <<dayStats, ts, lastInserted>> /\ pc = "insert"
          /\ pc' \in {"lastRain", "dayStats"}
          /\ rows' = [rows EXCEPT ![ts] = rows[ts] + 1]
      BY <1>2 DEF Insert, InsertRow
    <3>2. rows \in [Day -> Nat]
      BY <1>0 DEF TypeOK, DbTypeOK
    <3>3. rows[ts] \in Nat /\ rows'[ts] = rows[ts] + 1
      BY <1>1, <3>1, <3>2
    <3>4. \A d \in Day : rows[d] \in Nat /\ rows'[d] = IF d = ts THEN rows[ts] + 1 ELSE rows[d]
      BY <3>1, <3>2
    <3>5. \A d \in Day : rows'[d] >= rows[d] /\ rows[d] \in Nat /\ rows'[d] \in Nat
      BY <3>3, <3>4
    <3>6. rows'[ts] > 0
      BY <3>3
    <3> QED
      BY <2>0, <3>1, <3>5, <3>6
  <2>2. Horizon' = Horizon /\ Horizon = ts
    BY <2>1 DEF Horizon, Active
  <2>3. \A d : DataAtDay(d)' <=> DataAtDay(d)
    BY <2>1 DEF DataAtDay
  <2>4. \A d : HasPage(d)' <=> HasPage(d)
    BY <2>1 DEF HasPage
  <2> QED
    BY <1>1, <2>1, <2>2, <2>3, <2>4 DEF DayPagesInOrder, Aggregated
<1>3. CASE UpdateDay
  <2>0. UNCHANGED site
    BY <1>3 DEF SiteNext, Publish, UpdateReports, UpdateDay, siteVars
  <2>1. /\ UNCHANGED <<site, rows, ts, lastInserted>> /\ pc = "dayStats" /\ pc' = "current"
        /\ \A d \in Day : d # ts => dayStats'[d] = dayStats[d]
        /\ dayStats'[ts] = rows[ts] /\ rows[ts] \in Nat
    BY <1>0, <1>1, <1>3, <2>0 DEF UpdateDay, UpdateDayStatistics, TypeOK, DbTypeOK
  <2>2. Horizon' = Horizon /\ Horizon = ts
    BY <2>1 DEF Horizon, Active
  <2>3. DataAtDay(ts)' /\ \A d : d # ts => (DataAtDay(d)' <=> DataAtDay(d))
    BY <1>1, <2>1, NoRowAssumption DEF DataAtDay, NoRowAssumption
  <2>4. \A d : HasPage(d)' <=> HasPage(d)
    BY <2>1 DEF HasPage
  <2>5. rows[ts] > 0
    BY <2>1 DEF DayPagesInOrder
  <2>6. ASSUME NEW d \in Day, HasPage(d) PROVE d <= ts /\ d - 1 # ts
    BY <1>1, <2>2, <2>6 DEF DayPagesInOrder, Day
  <2> QED
    BY <1>1, <2>1, <2>2, <2>3, <2>4, <2>5, <2>6 DEF DayPagesInOrder, Aggregated
<1>4. CASE Publish
  <2>1. /\ UNCHANGED <<rows, dayStats, now, ts>> /\ pc = "reports" /\ pc' = "read"
        /\ lastInserted' = ts
    BY <1>4 DEF Publish, UpdateReports, EndIteration, dbVars
  <2>2. Horizon = ts /\ Horizon' = now
    BY <2>1 DEF Horizon, Active
  <2>3. \A d : DataAtDay(d)' <=> DataAtDay(d)
    BY <2>1 DEF DataAtDay
  <2>4. DataAtDay(ts)
    BY <2>1 DEF DayPagesInOrder, Aggregated
  <2>5. ASSUME NEW d \in Day, HasPage(d)'
        PROVE  /\ d <= Horizon' /\ (DataAtDay(d) \/ d < Horizon') /\ d <= ts
               /\ DataAtDay(d - 1) => DayPage(d - 1) \in site'[DayPage(d)].links
    <3>1. CASE d = ts \/ (d = ts - 1 /\ DayChanged)
      <4>1. site'[DayPage(d)].links = DayLinks(d)
        BY <1>0, <1>4, <3>1, DayPagesMade
      <4>2. DataAtDay(d - 1) => d - 1 \in Day /\ DayPage(d - 1) \in DayLinks(d)
        BY DayLinksTo DEF DataAtDay
      <4> QED
        BY <1>1, <2>2, <2>4, <3>1, <4>1, <4>2
    <3>2. CASE ~(d = ts \/ (d = ts - 1 /\ DayChanged))
      <4>1. site'[DayPage(d)] = site[DayPage(d)]
        BY <1>0, <1>4, <3>2, DayPagesMade
      <4>2. HasPage(d) /\ d \in Nat
        BY <2>5, <4>1 DEF HasPage, Day
      <4> QED
        BY <1>1, <2>2, <4>1, <4>2 DEF DayPagesInOrder
    <3> QED
      BY <3>1, <3>2
  <2>6. ASSUME NEW d \in Day, DataAtDay(d) PROVE d <= Horizon' /\ rows[d] > 0
    BY <1>1, <2>2, <2>6 DEF DayPagesInOrder, Day
  <2> QED
    BY <2>1, <2>3, <2>5, <2>6 DEF DayPagesInOrder, Aggregated
<1>5. CASE ~(Insert \/ UpdateDay \/ Publish)
  <2>1. UNCHANGED <<site, rows, dayStats>>
    BY <1>5 DEF SiteNext, Other, Tick, Start, Stop, StatementFails, Read, WriteLastRain,
       QueryCurrent, UpdateThisMonth, UpdateLastMonth, UpdateMonthStatistics, ReportsFail,
       EndIteration, siteVars, vars, dbVars
  <2>2. pc' # "down" =>
          (pc # "down" /\ lastInserted <= lastInserted') \/ Horizon <= lastInserted'
    <3>1. \/ pc' = "down"
          \/ lastInserted' = lastInserted /\ pc # "down"
          \/ lastInserted' = now /\ pc = "down"
          \/ lastInserted' = ts /\ pc = "reports"
      BY <1>5 DEF SiteNext, Other, Tick, Start, Stop, StatementFails, Read, WriteLastRain,
         QueryCurrent, UpdateThisMonth, UpdateLastMonth, ReportsFail, EndIteration, siteVars,
         vars, daemonVars, DbSteps
    <3> QED
      BY <1>1, <3>1 DEF Horizon, Active
  <2>3. /\ pc' \in {"lastRain", "dayStats"} => pc \in {"lastRain", "dayStats"} /\ ts' = ts
        /\ Aggregated' => Aggregated /\ ts' = ts
    BY <1>5 DEF SiteNext, Other, Tick, Start, Stop, StatementFails, Read, WriteLastRain,
       QueryCurrent, UpdateThisMonth, UpdateLastMonth, ReportsFail,
       EndIteration, siteVars, vars, daemonVars, Aggregated
  <2> QED
    BY <1>0, <1>1, <2>1, <2>2, <2>3, QuietKeepsOrder
<1> QED
  BY <1>2, <1>3, <1>4, <1>5

LEMMA DayPagesInit == SiteInit => DayPagesInOrder
<1> SUFFICES ASSUME SiteInit PROVE DayPagesInOrder
  OBVIOUS
<1>1. \A d \in Day : ~HasPage(d)
  BY DEF SiteInit, HasPage, NoPage, SitePage, Page, DayPage
<1>2. \A d \in Day : ~DataAtDay(d)
  BY DEF SiteInit, Init, InitTables, DataAtDay
<1>3. pc = "down"
  BY DEF SiteInit, Init
<1> QED
  BY <1>1, <1>2, <1>3 DEF DayPagesInOrder, Aggregated

-----------------------------------------------------------------------------
(* Neighbouring days link to each other, but for one pair a fault.         *)

(* The page of the day shall link to the next day, which has data or may   *)
(* still get it, and does not.                                             *)
Unlinked(d) ==
  /\ d # MaxDay /\ DataAtDay(d) /\ HasPage(d)
  /\ DayPage(d + 1) \notin site[DayPage(d)].links
  /\ DataAtDay(d + 1) \/ d + 1 >= Horizon

(* The daemon has not forgotten the day, and the first iteration that      *)
(* brings data of the next one makes its page again.                       *)
Remembered(d) ==
  /\ pc # "down" /\ lastInserted = d
  /\ ~DataAtDay(d + 1) \/ (Aggregated /\ ts = d + 1)

LinksLost == { d \in Day : Unlinked(d) /\ ~Remembered(d) }

LinksInv ==
  /\ SettledInv /\ SiteTypeOK /\ DayPagesInOrder
  /\ Cardinality(LinksLost) <= faults

LEMMA DaysAreFinite == IsFiniteSet(Day)
BY FS_Interval DEF Day

(* What is counted are days. *)
LEMMA CountKept ==
  ASSUME NEW S \in SUBSET Day, NEW T \in SUBSET S, NEW m \in Nat, NEW n \in Nat, m <= n,
         Cardinality(S) <= m
  PROVE  Cardinality(T) <= n
<1>1. IsFiniteSet(S)
  BY DaysAreFinite, FS_Subset
<1>2. IsFiniteSet(T) /\ Cardinality(T) <= Cardinality(S)
  BY <1>1, FS_Subset
<1>3. Cardinality(S) \in Nat /\ Cardinality(T) \in Nat
  BY <1>1, <1>2, FS_CardinalityType
<1> QED
  BY <1>2, <1>3

LEMMA CountOneMore ==
  ASSUME NEW S \in SUBSET Day, NEW d, NEW T \in SUBSET (S \union {d}), NEW m \in Nat,
         Cardinality(S) <= m
  PROVE  Cardinality(T) <= m + 1
<1> DEFINE More == S \union {d}
<1> HIDE DEF More
<1>1. IsFiniteSet(S)
  BY DaysAreFinite, FS_Subset
<1>2. IsFiniteSet(More) /\ Cardinality(More) \in {Cardinality(S), Cardinality(S) + 1}
  BY <1>1, FS_AddElement DEF More
<1>3. IsFiniteSet(T) /\ Cardinality(T) <= Cardinality(More)
  BY <1>2, FS_Subset DEF More
<1>4. Cardinality(S) \in Nat /\ Cardinality(T) \in Nat
  BY <1>1, <1>3, FS_CardinalityType
<1> QED
  BY <1>2, <1>3, <1>4

(* A day only comes to lack its link by its page being made. *)
LEMMA UnlinkedBefore ==
  ASSUME SettledInv, SiteTypeOK, DayPagesInOrder, [SiteNext]_siteVars, NEW d \in Day,
         Unlinked(d)', site'[DayPage(d)] = site[DayPage(d)]
  PROVE  Unlinked(d)
<1>0. /\ [Next]_vars /\ TypeOK
      /\ Horizon \in Nat /\ Horizon' \in Nat /\ Horizon <= Horizon' /\ ts \in Nat
      /\ d \in Nat /\ MaxDay \in Nat
  <2>1. [Next]_vars /\ TypeOK /\ RolledInThePast
    BY SiteStepIsVeterods DEF SettledInv
  <2>2. Horizon \in RunDay /\ Horizon' \in RunDay /\ Horizon <= Horizon' /\ ts \in RunDay
    BY <2>1, HorizonStep DEF TypeOK
  <2>3. d \in Nat
    BY DEF Day
  <2> QED
    BY <2>1, <2>2, <2>3, CalendarTypes
<1>1. HasPage(d) /\ DayPage(d + 1) \notin site[DayPage(d)].links /\ d # MaxDay
  BY DEF Unlinked, HasPage
<1>2. CASE UpdateDay
  <2>1. Horizon = ts /\ Horizon' = ts
    BY <1>2 DEF UpdateDay, Horizon, Active
  <2>2. \A e : e # ts => (DataAtDay(e)' <=> DataAtDay(e))
    BY <1>0, <1>2 DEF UpdateDay, UpdateDayStatistics, DataAtDay, TypeOK, DbTypeOK
  <2>3. DataAtDay(d)
    BY <1>0, <1>1, <2>1, <2>2 DEF DayPagesInOrder, Unlinked
  <2>4. DataAtDay(d + 1) \/ d + 1 >= Horizon
    <3>1. DataAtDay(d + 1)' \/ d + 1 >= Horizon'
      BY DEF Unlinked
    <3> QED
      BY <1>0, <2>1, <2>2, <3>1
  <2> QED
    BY <1>1, <2>3, <2>4 DEF Unlinked
<1>3. CASE ~UpdateDay
  <2>1. dayStats' = dayStats
    BY <1>0, <1>3 DEF Next, Iteration, Tick, Start, Stop, StatementFails, Read, Insert, InsertRow,
       WriteLastRain, QueryCurrent, UpdateThisMonth, UpdateLastMonth, UpdateMonthStatistics,
       UpdateReports, ReportsFail, EndIteration, vars, dbVars
  <2>2. \A e : DataAtDay(e)' <=> DataAtDay(e)
    BY <2>1 DEF DataAtDay
  <2> QED
    BY <1>0, <1>1, <2>2 DEF Unlinked
<1> QED
  BY <1>2, <1>3

LEMMA LinksStep ==
  ASSUME SettledInv, SiteTypeOK, DayPagesInOrder, Cardinality(LinksLost) <= faults,
         [SiteNext]_siteVars
  PROVE  Cardinality(LinksLost') <= faults'
<1>0. /\ [Next]_vars /\ TypeOK /\ TypeOK' /\ RolledInThePast /\ faults \in Nat /\ faults' \in Nat
      /\ Horizon \in Nat /\ Horizon' \in Nat /\ Horizon <= Horizon'
      /\ ts \in RunDay /\ ts \in Nat /\ ts - 1 \in Day
  BY SiteStepIsVeterods, TypeStep, HorizonStep, CalendarTypes DEF SettledInv, TypeOK
<1>1. LinksLost \in SUBSET Day
  BY DEF LinksLost
<1>2. CASE Stop \/ StatementFails \/ ReportsFail
  <2>1. site' = site /\ faults' = faults + 1
    BY <1>0, <1>2 DEF SiteNext, Publish, UpdateReports, Stop, StatementFails, ReportsFail,
       siteVars, vars
  <2>2. LinksLost' \subseteq LinksLost \union {lastInserted}
    BY <2>1, UnlinkedBefore DEF LinksLost, Remembered
  <2> QED
    BY <1>0, <1>1, <2>1, <2>2, CountOneMore
<1>3. CASE Publish
  <2>1. /\ UNCHANGED <<rows, dayStats, now, ts, faults>> /\ pc = "reports" /\ pc' = "read"
        /\ lastInserted' = ts
    BY <1>3 DEF Publish, UpdateReports, EndIteration, dbVars
  <2>2. Horizon = ts /\ Horizon' = now /\ now \in Nat /\ ts <= now
    BY <1>0, <2>1 DEF Horizon, Active, RolledInThePast
  <2>3. \A d : DataAtDay(d)' <=> DataAtDay(d)
    BY <2>1 DEF DataAtDay
  <2>4. ASSUME NEW d \in Day, Unlinked(d)', ~Remembered(d)' PROVE Unlinked(d) /\ ~Remembered(d)
    <3>0. d \in Nat
      BY DEF Day
    <3>1. d # ts
      <4>1. ~DataAtDay(ts + 1)
        BY <1>0, <2>2 DEF DayPagesInOrder, DataAtDay
      <4> QED
        BY <2>1, <2>3, <2>4, <4>1 DEF Remembered
    <3>2. ~(d = ts - 1 /\ DayChanged)
      <4> SUFFICES ASSUME d = ts - 1, DayChanged PROVE FALSE
        OBVIOUS
      <4>1. site'[DayPage(d)].links = DayLinks(d)
        BY <1>0, <1>3, DayPagesMade
      <4>2. DataAtDay(ts) /\ ts \in Day /\ ts = d + 1
        BY <1>0, <2>1, CalendarTypes DEF DayPagesInOrder, Aggregated
      <4>3. DayPage(d + 1) \in DayLinks(d)
        BY <4>2, DayLinksTo
      <4> QED
        BY <2>4, <4>1, <4>3 DEF Unlinked
    <3>3. site'[DayPage(d)] = site[DayPage(d)]
      BY <1>0, <1>3, <3>1, <3>2, DayPagesMade
    <3>4. Unlinked(d)
      BY <2>4, <3>3, UnlinkedBefore
    <3>5. d <= ts
      BY <2>2, <3>4 DEF Unlinked, DayPagesInOrder
    <3>6. ~Remembered(d)
      <4> SUFFICES ASSUME Remembered(d) PROVE FALSE
        OBVIOUS
      <4>1. CASE d = ts - 1
        <5>1. DomOf[ts] # DomOf[ts - 1]
          BY <1>0, MonthAssumption DEF MonthAssumption
        <5> QED
          BY <3>2, <4>1, <5>1 DEF Remembered, DayChanged
      <4>2. CASE d # ts - 1
        <5>1. d + 1 < ts
          BY <1>0, <3>0, <3>1, <3>5, <4>2
        <5>2. ~DataAtDay(d + 1)
          BY <1>0, <3>0, <5>1 DEF Remembered
        <5>3. d + 1 >= Horizon'
          BY <2>3, <2>4, <5>2 DEF Unlinked
        <5> QED
          BY <1>0, <2>2, <3>0, <5>1, <5>3
      <4> QED
        BY <4>1, <4>2
    <3> QED
      BY <3>4, <3>6
  <2>5. LinksLost' \subseteq LinksLost
    BY <2>4 DEF LinksLost
  <2> QED
    BY <1>0, <1>1, <2>1, <2>5, CountKept
<1>4. CASE ~(Stop \/ StatementFails \/ ReportsFail \/ Publish)
  <2>1. UNCHANGED <<site, faults>>
    BY <1>4 DEF SiteNext, Other, Tick, Start, Read, Insert, WriteLastRain, UpdateDay,
       QueryCurrent, UpdateThisMonth, UpdateLastMonth, siteVars, vars
  <2>2. pc # "down" => pc' # "down" /\ lastInserted' = lastInserted
    BY <1>4 DEF SiteNext, Other, Tick, Start, Read, Insert, WriteLastRain, UpdateDay,
       QueryCurrent, UpdateThisMonth, UpdateLastMonth, siteVars, vars, daemonVars
  <2>3. Aggregated => Aggregated' /\ ts' = ts
    BY <1>4 DEF SiteNext, Other, Tick, Start, Read, Insert, WriteLastRain, UpdateDay,
       QueryCurrent, UpdateThisMonth, UpdateLastMonth, siteVars, vars, daemonVars, Aggregated
  <2>4. CASE UpdateDay
    <3>1. Aggregated' /\ ts' = ts
      BY <2>4 DEF UpdateDay, Aggregated
    <3>2. \A e : e # ts => (DataAtDay(e)' <=> DataAtDay(e))
      BY <1>0, <2>4 DEF UpdateDay, UpdateDayStatistics, DataAtDay, TypeOK, DbTypeOK
    <3>3. \A d \in Day : Remembered(d) => Remembered(d)'
      BY <2>2, <3>1, <3>2 DEF Remembered
    <3>4. LinksLost' \subseteq LinksLost
      BY <2>1, <3>3, UnlinkedBefore DEF LinksLost
    <3> QED
      BY <1>0, <1>1, <2>1, <3>4, CountKept
  <2>5. CASE ~UpdateDay
    <3>1. dayStats' = dayStats
      BY <1>4, <2>5 DEF SiteNext, Other, Tick, Start, Read, Insert, InsertRow, WriteLastRain,
         QueryCurrent, UpdateThisMonth, UpdateLastMonth, UpdateMonthStatistics, siteVars, vars,
         dbVars
    <3>2. \A d \in Day : Remembered(d) => Remembered(d)'
      BY <2>2, <2>3, <3>1 DEF Remembered, DataAtDay
    <3>3. LinksLost' \subseteq LinksLost
      BY <2>1, <3>2, UnlinkedBefore DEF LinksLost
    <3> QED
      BY <1>0, <1>1, <2>1, <3>3, CountKept
  <2> QED
    BY <2>4, <2>5
<1> QED
  BY <1>2, <1>3, <1>4

LEMMA LinksInvStep == LinksInv /\ [SiteNext]_siteVars => LinksInv'
BY SiteStepIsVeterods, SettledStep, SiteTypeStep, DayPagesStep, LinksStep DEF LinksInv

LEMMA LinksInvInit == SiteInit => LinksInv
<1> SUFFICES ASSUME SiteInit PROVE LinksInv
  OBVIOUS
<1>1. \A d \in Day : ~DataAtDay(d)
  BY DEF SiteInit, Init, InitTables, DataAtDay
<1>2. LinksLost = {}
  BY <1>1 DEF LinksLost, Unlinked
<1>3. Cardinality(LinksLost) <= faults
  BY <1>2, FS_EmptySet DEF SiteInit, Init
<1> QED
  BY <1>3, SiteInitIsVeterods, SettledInit, SiteTypeInit, DayPagesInit DEF LinksInv

(* A pair of days whose pages do not link both ways has been paid for. *)
LEMMA BrokenAreLost == LinksInv => Broken \subseteq LinksLost
<1> SUFFICES ASSUME LinksInv, NEW d \in Broken PROVE d \in LinksLost
  OBVIOUS
<1>1. /\ d \in Day \ {MaxDay} /\ d \in Nat /\ d + 1 \in Day
      /\ DataAtDay(d) /\ DataAtDay(d + 1) /\ HasPage(d) /\ HasPage(d + 1)
  BY DEF Broken, Day, HasPage
<1>2. DayPage(d) \in site[DayPage(d + 1)].links
  <2>1. DataAtDay((d + 1) - 1) => DayPage((d + 1) - 1) \in site[DayPage(d + 1)].links
    BY <1>1 DEF LinksInv, DayPagesInOrder
  <2>2. (d + 1) - 1 = d
    BY <1>1
  <2> QED
    BY <1>1, <2>1, <2>2
<1>3. DayPage(d + 1) \notin site[DayPage(d)].links
  BY <1>2 DEF Broken
<1>4. pc # "down" => d + 1 <= lastInserted
  BY <1>1 DEF LinksInv, DayPagesInOrder
<1> QED
  BY <1>1, <1>3, <1>4 DEF LinksLost, Unlinked, Remembered

(* Neighbouring days link to each other both ways but for one pair a       *)
(* fault, for every calendar and horizon (veterod.cc:410).                 *)
THEOREM DaysLinkedHold == SiteSpec => []DaysLinked
<1>1. LinksInv => DaysLinked
  <2> SUFFICES ASSUME LinksInv PROVE DaysLinked
    OBVIOUS
  <2>1. faults \in Nat /\ LinksLost \in SUBSET Day /\ Cardinality(LinksLost) <= faults
    BY DEF LinksInv, SettledInv, TypeOK, LinksLost
  <2> QED
    BY <2>1, BrokenAreLost, CountKept DEF DaysLinked
<1> QED
  BY <1>1, LinksInvInit, LinksInvStep, PTL DEF SiteSpec

-----------------------------------------------------------------------------
(* Dead links are paid for.                                                *)

(* Days with data and without a page that nobody is working on *)
PagesLost == { d \in Day : rows[d] > 0 /\ ~HasPage(d) /\ ~(Active /\ d = ts) }

(* The days that the page of a day or month links to have data, and those  *)
(* that may still get some have their page.                                *)
DayLinksLead ==
  \A p \in Page : \A e \in Day :
    DayPage(e) \in site[p].links => rows[e] > 0 /\ (HasPage(e) \/ e < Horizon)

(* The month statistics that have no page before the iteration ends *)
MonthsAtWork ==
  (IF pc \in {"monthLast", "reports"} /\ DayChanged THEN {MonthOf[ts]} ELSE {})
    \union (IF pc = "reports" /\ DayChanged THEN {MonthOf[LastDay]} ELSE {})

(* Without faults a month with statistics has its page, or gets it when    *)
(* the iteration ends, and all links lead to months and years with a page, *)
(* other than those of the days, which lead up to their month: that has    *)
(* its page once a day change has come to it or left it.                   *)
MonthLinksLead ==
  /\ \A m \in Month : DataInMonth(m) => site[MonthPage(m)].made \/ m \in MonthsAtWork
  /\ \A p \in SitePage : \A q \in site[p].links :
       (q.kind = "year" \/ (q.kind = "month" /\ p.kind # "day")) => site[q].made
  /\ \A t \in rolled : \A m \in {MonthOf[t], MonthOf[t - 1]} : site[MonthPage(m)].made

DeadLinksInv ==
  /\ SettledInv /\ SiteTypeOK /\ MonthUpLink /\ DayPagesInOrder /\ DayLinksLead
  /\ Cardinality(PagesLost) <= faults
  /\ faults = 0 => MonthLinksLead

(* A page that was made stays, and is replaced by a new one at most. *)
LEMMA PagesReplaced ==
  ASSUME SiteTypeOK, [SiteNext]_siteVars, NEW p \in SitePage
  PROVE  /\ site[p].made => site'[p].made
         /\ site'[p] = site[p] \/ (Publish /\ site'[p] = Generated(p, now))
<1>1. CASE Publish
  BY <1>1, GeneratedIsMade DEF Publish, Exec
<1>2. CASE ~Publish
  BY <1>2 DEF SiteNext, siteVars
<1> QED
  BY <1>1, <1>2

(* The navigation of a page that is made leads to days, months and years   *)
(* with data, and up.                                                      *)
LEMMA GeneratedLinks ==
  ASSUME TypeOK, NEW p \in SitePage, NEW q \in Generated(p, now).links
  PROVE  /\ q.kind = "day" /\ p # Index /\ ~West => DataAtDay(q.of)
         /\ q.kind = "month" /\ p.kind # "day" => DataInMonth(q.of)
         /\ q.kind = "year" => DataInYear(q.of) \/ (p.kind = "month" /\ q.of = YearOf[p.of])
<1> USE DEF DayPage, MonthPage, YearPage, Only
<1>1. CASE p = Index
  BY <1>1 DEF Generated, Index, IndexLinks
<1>2. CASE p \in Page /\ p.kind = "day"
  <2>1. q \in DayLinks(p.of)
    BY <1>2 DEF Generated
  <2> QED
    BY <1>2, <2>1 DEF DayLinks, DataAtDay
<1>3. CASE p \in Page /\ p.kind = "month"
  <2>1. q \in MonthLinks(p.of)
    BY <1>3 DEF Generated
  <2> QED
    BY <1>3, <2>1 DEF MonthLinks, LocalDay, DaysListed, DaysBetween, DayVaries, Differ,
       DataAtDay, DataInMonth
<1>4. CASE p \in Page /\ p.kind = "year"
  <2>1. q \in YearLinks(p.of)
    BY <1>4 DEF Generated
  <2> QED
    BY <1>4, <2>1 DEF YearLinks, MonthVaries, DataInMonth, MonthsBetween
<1> QED
  BY <1>1, <1>2, <1>3, <1>4, PageKinds DEF SitePage

LEMMA PagesLostStep ==
  ASSUME SettledInv, SiteTypeOK, Cardinality(PagesLost) <= faults, [SiteNext]_siteVars
  PROVE  Cardinality(PagesLost') <= faults'
<1>0. /\ [Next]_vars /\ TypeOK /\ TypeOK' /\ faults \in Nat /\ faults' \in Nat /\ ts \in Day
      /\ PagesLost \in SUBSET Day
  BY SiteStepIsVeterods, TypeStep, CalendarTypes DEF SettledInv, TypeOK, PagesLost
<1>1. \A d \in Day : HasPage(d) => HasPage(d)'
  <2>1. \A d \in Day : DayPage(d) \in SitePage
    BY DEF SitePage, Page, DayPage
  <2> QED
    BY <2>1, PagesReplaced DEF HasPage
<1>2. CASE Stop \/ StatementFails \/ ReportsFail
  <2>1. rows' = rows /\ faults' = faults + 1
    BY <1>2 DEF Stop, StatementFails, ReportsFail, EndIteration, dbVars
  <2>2. PagesLost' \subseteq PagesLost \union {ts}
    BY <1>1, <2>1 DEF PagesLost
  <2> QED
    BY <1>0, <2>1, <2>2, CountOneMore
<1>3. CASE Publish
  <2>1. rows' = rows /\ faults' = faults
    BY <1>3 DEF Publish, UpdateReports, EndIteration, dbVars
  <2>2. HasPage(ts)'
    BY <1>0, <1>3, <2>1, DayPagesMade DEF HasPage, Publish, UpdateReports, EndIteration
  <2>3. PagesLost' \subseteq PagesLost
    <3>1. ts' = ts
      BY <1>3 DEF Publish, UpdateReports, EndIteration
    <3> QED
      BY <1>1, <2>1, <2>2, <3>1 DEF PagesLost
  <2> QED
    BY <1>0, <2>1, <2>3, CountKept
<1>4. CASE Insert
  <2>1. /\ faults' = faults /\ ts' = ts /\ Active /\ Active'
        /\ \A d \in Day : d # ts => rows'[d] = rows[d]
    BY <1>0, <1>4 DEF Insert, InsertRow, Active, TypeOK, DbTypeOK
  <2>2. PagesLost' \subseteq PagesLost
    BY <1>1, <2>1 DEF PagesLost
  <2> QED
    BY <1>0, <2>1, <2>2, CountKept
<1>5. CASE ~(Stop \/ StatementFails \/ ReportsFail \/ Publish \/ Insert)
  <2>1. rows' = rows /\ faults' = faults /\ (Active => Active' /\ ts' = ts)
    BY <1>5 DEF SiteNext, Other, Tick, Start, Read, WriteLastRain, UpdateDay,
       UpdateDayStatistics, QueryCurrent, UpdateThisMonth, UpdateLastMonth,
       UpdateMonthStatistics, siteVars, vars, daemonVars, dbVars, Active
  <2>2. PagesLost' \subseteq PagesLost
    BY <1>1, <2>1 DEF PagesLost
  <2> QED
    BY <1>0, <2>1, <2>2, CountKept
<1> QED
  BY <1>2, <1>3, <1>4, <1>5

LEMMA DayLinksLeadStep ==
  ASSUME ~West, SettledInv, SiteTypeOK, DayPagesInOrder, DayLinksLead, [SiteNext]_siteVars
  PROVE  DayLinksLead'
<1> SUFFICES ASSUME NEW p \in Page, NEW e \in Day, DayPage(e) \in site'[p].links
             PROVE  rows'[e] > 0 /\ (HasPage(e)' \/ e < Horizon')
  BY DEF DayLinksLead
<1>0. /\ [Next]_vars /\ TypeOK /\ RolledInThePast
      /\ p \in SitePage /\ DayPage(e) \in SitePage /\ e \in Nat
  BY SiteStepIsVeterods DEF SettledInv, SitePage, Page, DayPage, Day
<1>1. /\ Horizon \in Nat /\ Horizon' \in Nat /\ Horizon <= Horizon'
      /\ ts \in Nat /\ ts \in Day /\ now \in Nat /\ ts <= now
  <2>1. Horizon \in RunDay /\ Horizon' \in RunDay /\ Horizon <= Horizon' /\ ts \in RunDay
          /\ now \in RunDay
    BY <1>0, HorizonStep DEF TypeOK
  <2> QED
    BY <1>0, <2>1, CalendarTypes DEF RolledInThePast
<1>2. HasPage(e) => HasPage(e)'
  BY <1>0, PagesReplaced DEF HasPage
<1>3. rows[e] > 0 => rows'[e] > 0
  <2>1. rows' = rows \/ rows' = [rows EXCEPT ![ts] = rows[ts] + 1]
    BY <1>0 DEF Next, Iteration, Tick, Start, Stop, StatementFails, Read, Insert, InsertRow,
       WriteLastRain, UpdateDay, UpdateDayStatistics, QueryCurrent, UpdateThisMonth,
       UpdateLastMonth, UpdateMonthStatistics, UpdateReports, ReportsFail, EndIteration, vars,
       dbVars
  <2>2. rows \in [Day -> Nat]
    BY <1>0 DEF TypeOK, DbTypeOK
  <2> QED
    BY <1>1, <2>1, <2>2
<1>4. CASE site'[p] = site[p]
  BY <1>0, <1>1, <1>2, <1>3, <1>4 DEF DayLinksLead
<1>5. CASE Publish /\ site'[p] = Generated(p, now)
  <2>1. /\ UNCHANGED <<now, ts>> /\ pc = "reports" /\ pc' = "read"
    BY <1>5 DEF Publish, UpdateReports, EndIteration
  <2>2. Horizon = ts /\ Horizon' = now
    BY <2>1 DEF Horizon, Active
  <2>3. DataAtDay(e)
    <3>1. DayPage(e).kind = "day" /\ DayPage(e).of = e /\ p # Index
      BY PageKinds DEF DayPage
    <3> QED
      BY <1>0, <1>5, <3>1, GeneratedLinks
  <2>4. e <= ts /\ rows[e] > 0
    BY <2>2, <2>3 DEF DayPagesInOrder
  <2>5. CASE e = ts
    BY <1>0, <1>3, <1>5, <2>4, <2>5, DayPagesMade DEF HasPage
  <2>6. CASE e < ts
    BY <1>0, <1>1, <1>3, <2>2, <2>4, <2>6
  <2> QED
    BY <1>0, <1>1, <2>4, <2>5, <2>6
<1> QED
  BY <1>0, <1>4, <1>5, PagesReplaced

(* Without faults, an iteration gives a page to every month that has       *)
(* statistics.                                                             *)
LEMMA MonthsAtWorkStep ==
  ASSUME SettledInv, SiteTypeOK, faults' = 0, [SiteNext]_siteVars, NEW m \in Month,
         DataInMonth(m) => site[MonthPage(m)].made \/ m \in MonthsAtWork,
         DataInMonth(m)'
  PROVE  site'[MonthPage(m)].made \/ m \in MonthsAtWork'
<1>0. [Next]_vars /\ TypeOK /\ faults \in Nat /\ MonthPage(m) \in SitePage
  BY SiteStepIsVeterods DEF SettledInv, TypeOK, SitePage, Page, MonthPage
<1>1. site[MonthPage(m)].made => site'[MonthPage(m)].made
  BY <1>0, PagesReplaced
<1>2. ~(Stop \/ StatementFails \/ ReportsFail)
  BY <1>0 DEF Stop, StatementFails, ReportsFail
<1>3. CASE Publish
  <2>1. pc = "reports" /\ monthStats' = monthStats
    BY <1>3 DEF Publish, UpdateReports, EndIteration, dbVars
  <2>2. CASE m \in MonthsAtWork
    <3>1. DayChanged /\ (m = MonthOf[ts] \/ m = MonthOf[LastDay])
      BY <2>1, <2>2 DEF MonthsAtWork
    <3>2. MonthPage(m) \in Jobs
      BY <3>1 DEF Jobs, MonthChanged
    <3>3. MonthPage(m) \in WithIndex(Jobs)
      BY <3>2 DEF WithIndex
    <3>4. site'[MonthPage(m)] = Generated(MonthPage(m), now)
      BY <1>0, <1>3, <3>3 DEF Publish, Exec
    <3> QED
      BY <3>4, GeneratedIsMade
  <2> QED
    BY <1>1, <2>1, <2>2 DEF DataInMonth
<1>4. CASE UpdateThisMonth
  <2>1. /\ pc = "monthThis" /\ pc' \in {"monthLast", "reports"} /\ UNCHANGED <<ts, lastInserted>>
        /\ monthStats' = [monthStats EXCEPT ![MonthOf[ts]] = MonthAggregate(MonthOf[ts])]
    BY <1>4 DEF UpdateThisMonth, UpdateMonthStatistics
  <2>2. DayChanged
    BY <2>1 DEF SettledInv, DayChangeInOrder
  <2>3. MonthsAtWork = {} /\ MonthOf[ts] \in MonthsAtWork'
    BY <2>1, <2>2 DEF MonthsAtWork, DayChanged
  <2>4. m # MonthOf[ts] => monthStats'[m] = monthStats[m]
    BY <1>0, <2>1 DEF TypeOK, DbTypeOK
  <2> QED
    BY <1>1, <2>3, <2>4 DEF DataInMonth
<1>5. CASE UpdateLastMonth
  <2>1. /\ pc = "monthLast" /\ pc' = "reports" /\ UNCHANGED <<ts, lastInserted>>
        /\ monthStats' = [monthStats EXCEPT ![MonthOf[LastDay]] = MonthAggregate(MonthOf[LastDay])]
    BY <1>5 DEF UpdateLastMonth, UpdateMonthStatistics
  <2>2. DayChanged
    BY <2>1 DEF SettledInv, DayChangeInOrder
  <2>3. MonthsAtWork = {MonthOf[ts]} /\ MonthsAtWork' = {MonthOf[ts], MonthOf[LastDay]}
    BY <2>1, <2>2 DEF MonthsAtWork, DayChanged, LastDay
  <2>4. m # MonthOf[LastDay] => monthStats'[m] = monthStats[m]
    BY <1>0, <2>1 DEF TypeOK, DbTypeOK
  <2> QED
    BY <1>1, <2>3, <2>4 DEF DataInMonth
<1>6. CASE ~(Publish \/ UpdateThisMonth \/ UpdateLastMonth)
  <2>1. monthStats' = monthStats
    BY <1>2, <1>6 DEF SiteNext, Other, Tick, Start, Read, Insert, InsertRow, WriteLastRain,
       UpdateDay, UpdateDayStatistics, QueryCurrent, siteVars, vars, dbVars
  <2>2. pc \in {"monthLast", "reports"} => UNCHANGED <<pc, ts, lastInserted>>
    BY <1>2, <1>6 DEF SiteNext, Other, Tick, Start, Read, Insert, WriteLastRain,
       UpdateDay, QueryCurrent, siteVars, vars, daemonVars
  <2>3. MonthsAtWork \subseteq MonthsAtWork'
    BY <2>2 DEF MonthsAtWork, DayChanged, LastDay
  <2> QED
    BY <1>1, <2>1, <2>3 DEF DataInMonth
<1> QED
  BY <1>3, <1>4, <1>5, <1>6

LEMMA MonthLinksLeadStep ==
  ASSUME SettledInv, SiteTypeOK, MonthUpLink, MonthLinksLead, faults' = 0,
         [SiteNext]_siteVars
  PROVE  MonthLinksLead'
<1>0. [Next]_vars /\ TypeOK /\ TypeOK' /\ SiteTypeOK' /\ MonthUpLink'
  BY SiteStepIsVeterods, TypeStep, SiteTypeStep, MonthUpLinkStep DEF SettledInv
<1>1. ASSUME NEW m \in Month, DataInMonth(m)'
      PROVE  site'[MonthPage(m)].made \/ m \in MonthsAtWork'
  BY <1>1, MonthsAtWorkStep DEF MonthLinksLead
<1>2. ASSUME NEW m \in Month, site'[MonthPage(m)].made PROVE site'[YearPage(YearOf[m])].made
  <2>1. /\ MonthPage(m) \in Page /\ MonthPage(m).kind = "month" /\ MonthPage(m).of = m
        /\ YearPage(YearOf[m]) \in Page
    BY CalendarTypes DEF Page, MonthPage, YearPage
  <2>2. \A p \in Page : site'[p].made <=> \E j \in asked' : j.page = p
    BY <1>0 DEF SiteTypeOK, TypeOK, Job
  <2>3. PICK j \in asked' : j.page = MonthPage(m)
    BY <1>2, <2>1, <2>2
  <2>4. \E k \in asked' : k.page = YearPage(YearOf[m])
    BY <1>0, <2>1, <2>3 DEF MonthUpLink
  <2> QED
    BY <2>1, <2>2, <2>4
<1>3. ASSUME NEW p \in SitePage, NEW q \in site'[p].links,
             q.kind = "year" \/ (q.kind = "month" /\ p.kind # "day")
      PROVE  site'[q].made
  <2>1. CASE site'[p] = site[p]
    <3>1. site[q].made /\ q \in SitePage
      BY <1>3, <2>1 DEF MonthLinksLead, SiteTypeOK, SitePage
    <3> QED
      BY <3>1, PagesReplaced
  <2>2. CASE Publish /\ site'[p] = Generated(p, now)
    <3>1. monthStats' = monthStats /\ pc' = "read"
      BY <2>2 DEF Publish, UpdateReports, EndIteration, dbVars
    <3>2. ASSUME NEW m \in Month, DataInMonth(m) PROVE site'[MonthPage(m)].made
      <4>1. DataInMonth(m)' /\ MonthsAtWork' = {}
        BY <3>1, <3>2 DEF DataInMonth, MonthsAtWork
      <4> QED
        BY <1>1, <4>1
    <3>3. q \in Page
      BY <1>0, <1>3 DEF SiteTypeOK
    <3>4. CASE q.kind = "month"
      <4>1. DataInMonth(q.of) /\ q = MonthPage(q.of)
        BY <1>0, <1>3, <2>2, <3>3, <3>4, GeneratedLinks DEF Page, MonthPage
      <4> QED
        BY <3>2, <4>1 DEF DataInMonth
    <3>5. CASE q.kind = "year"
      <4>1. q = YearPage(q.of)
        BY <3>3, <3>5 DEF Page, YearPage
      <4>2. CASE DataInYear(q.of)
        <5>1. PICK m \in Month : YearOf[m] = q.of /\ DataInMonth(m)
          BY <4>2 DEF DataInYear, DataInMonth
        <5> QED
          BY <1>2, <3>2, <4>1, <5>1
      <4>3. CASE p.kind = "month" /\ q.of = YearOf[p.of]
        <5>1. p = MonthPage(p.of) /\ p.of \in Month
          BY <4>3, PageKinds DEF SitePage, Page, Index, MonthPage
        <5>2. site'[p].made
          BY <2>2, GeneratedIsMade
        <5> QED
          BY <1>2, <4>1, <4>3, <5>1, <5>2
      <4> QED
        BY <1>0, <1>3, <2>2, <3>5, <4>2, <4>3, GeneratedLinks
    <3> QED
      BY <1>3, <3>4, <3>5
  <2> QED
    BY <2>1, <2>2, PagesReplaced
<1>4. ASSUME NEW t \in rolled', NEW m \in {MonthOf[t], MonthOf[t - 1]}
      PROVE  site'[MonthPage(m)].made
  <2>1. CASE t \in rolled
    <3>1. MonthPage(m) \in SitePage
      BY <1>0, <2>1, CalendarTypes DEF TypeOK, SitePage, Page, MonthPage
    <3> QED
      BY <1>4, <2>1, <3>1, PagesReplaced DEF MonthLinksLead
  <2>2. CASE t \notin rolled
    <3>1. ~ReportsFail
      BY <1>0 DEF ReportsFail, TypeOK
    <3>2. Publish /\ DayChanged /\ t = ts
      BY <1>4, <2>2, <3>1 DEF SiteNext, Other, Publish, UpdateReports, EndIteration, Tick, Start,
         Stop, StatementFails, Read, Insert, WriteLastRain, UpdateDay, QueryCurrent,
         UpdateThisMonth, UpdateLastMonth, siteVars, vars
    <3>3. MonthPage(m) \in Jobs
      BY <1>4, <3>2 DEF Jobs, MonthChanged, LastDay
    <3>4. MonthPage(m) \in WithIndex(Jobs) /\ MonthPage(m) \in SitePage
      BY <1>0, <3>3, JobsArePages DEF WithIndex, SitePage
    <3> QED
      BY <3>2, <3>4, GeneratedIsMade DEF Publish, Exec
  <2> QED
    BY <2>1, <2>2
<1> QED
  BY <1>1, <1>3, <1>4 DEF MonthLinksLead

LEMMA DeadLinksStep ==
  ASSUME ~West
  PROVE  DeadLinksInv /\ [SiteNext]_siteVars => DeadLinksInv'
<1> SUFFICES ASSUME DeadLinksInv, [SiteNext]_siteVars PROVE DeadLinksInv'
  OBVIOUS
<1>0. [Next]_vars /\ TypeOK /\ SettledInv /\ SiteTypeOK
  BY SiteStepIsVeterods DEF DeadLinksInv, SettledInv
<1>1. SettledInv' /\ SiteTypeOK' /\ MonthUpLink' /\ DayPagesInOrder'
  BY <1>0, SettledStep, SiteTypeStep, MonthUpLinkStep, DayPagesStep DEF DeadLinksInv
<1>2. DayLinksLead' /\ Cardinality(PagesLost') <= faults'
  BY <1>0, DayLinksLeadStep, PagesLostStep DEF DeadLinksInv
<1>3. faults' = 0 => faults = 0
  <2>1. faults' = faults \/ faults' = faults + 1
    BY <1>0 DEF Next, Iteration, Tick, Start, Stop, StatementFails, Read, Insert, WriteLastRain,
       UpdateDay, QueryCurrent, UpdateThisMonth, UpdateLastMonth, UpdateReports, ReportsFail,
       EndIteration, vars
  <2>2. faults \in Nat
    BY <1>0 DEF TypeOK
  <2> QED
    BY <2>1, <2>2
<1>4. faults' = 0 => MonthLinksLead'
  BY <1>0, <1>3, MonthLinksLeadStep DEF DeadLinksInv
<1> QED
  BY <1>1, <1>2, <1>4 DEF DeadLinksInv

LEMMA DeadLinksInit == SiteInit => DeadLinksInv
<1> SUFFICES ASSUME SiteInit PROVE DeadLinksInv
  OBVIOUS
<1>1. \A p \in SitePage : site[p] = NoPage
  BY DEF SiteInit
<1>2. \A p \in SitePage : site[p].links = {}
  BY <1>1 DEF NoPage
<1>3. asked = {} /\ rolled = {} /\ faults = 0 /\ \A d \in Day : rows[d] = 0
  BY DEF SiteInit, Init, InitTables
<1>4. \A m \in Month : ~DataInMonth(m)
  BY DEF SiteInit, Init, InitTables, DataInMonth
<1>5. PagesLost = {}
  BY <1>3 DEF PagesLost
<1>6. DayLinksLead /\ MonthLinksLead /\ MonthUpLink
  BY <1>2, <1>3, <1>4 DEF DayLinksLead, MonthLinksLead, MonthUpLink, SitePage
<1> QED
  BY <1>3, <1>5, <1>6, FS_EmptySet, SiteInitIsVeterods, SettledInit, SiteTypeInit, DayPagesInit
     DEF DeadLinksInv

(* A day that a dead link leads to has lost its page. *)
LEMMA DeadDayIsLost ==
  ASSUME DeadLinksInv, NEW p \in SitePage, NEW q \in site[p].links,
         ~site[q].made, ~KnownDead(p, q), q.kind = "day"
  PROVE  q = DayPage(q.of) /\ q.of \in PagesLost
<1>0. q \in Page /\ q = DayPage(q.of) /\ q.of \in Day
  BY DEF DeadLinksInv, SiteTypeOK, Page, DayPage
<1>1. ~HasPage(q.of) /\ rows[q.of] \in Nat
  BY <1>0 DEF HasPage, DeadLinksInv, SettledInv, TypeOK, DbTypeOK
<1>2. CASE p = Index
  BY <1>0, <1>1, <1>2 DEF KnownDead, PagesLost
<1>3. CASE p \in Page
  <2>1. rows[q.of] > 0 /\ q.of < Horizon
    BY <1>0, <1>1, <1>3 DEF DeadLinksInv, DayLinksLead
  <2>2. ~(Active /\ q.of = ts)
    <3>1. q.of \in Nat
      BY <1>0 DEF Day
    <3> QED
      BY <2>1, <3>1 DEF Horizon
  <2> QED
    BY <1>0, <1>1, <2>1, <2>2 DEF PagesLost
<1> QED
  BY <1>2, <1>3 DEF SitePage

LEMMA DeadLinksPaid == DeadLinksInv => DeadLinksCostFaults
<1> HAVE DeadLinksInv
<1> DEFINE dead == { l[2] : l \in { k \in DeadLinks : ~KnownDead(k[1], k[2]) } }
           days == { q \in dead : q.kind = "day" }
           day  == [q \in days |-> q.of]
<1>0. faults \in Nat /\ PagesLost \in SUBSET Day /\ Cardinality(PagesLost) <= faults
  BY DEF DeadLinksInv, SettledInv, TypeOK, PagesLost
<1>1. ASSUME NEW q \in dead
      PROVE  \E p \in SitePage : q \in site[p].links /\ ~site[q].made /\ ~KnownDead(p, q)
  BY DEF DeadLinks
<1>2. \A q \in days : q = DayPage(q.of) /\ q.of \in PagesLost
  BY <1>1, DeadDayIsLost
<1> HIDE DEF dead
<1>3. IsFiniteSet(PagesLost) /\ Cardinality(PagesLost) \in Nat
  BY <1>0, DaysAreFinite, FS_Subset, FS_CardinalityType
<1>4. IsFiniteSet(days) /\ Cardinality(days) <= Cardinality(PagesLost)
  <2>1. day \in Injection(days, PagesLost)
    BY <1>2 DEF Injection, IsInjective
  <2> QED
    BY <1>3, <2>1, FS_Injection
<1>5. Cardinality(days) <= faults
  BY <1>0, <1>3, <1>4, FS_CardinalityType
<1>6. ASSUME faults = 0, NEW q \in dead PROVE FALSE
  <2>1. PICK p \in SitePage : q \in site[p].links /\ ~site[q].made /\ ~KnownDead(p, q)
    BY <1>1
  <2>2. q \in Page
    BY <2>1 DEF DeadLinksInv, SiteTypeOK
  <2>3. CASE q.kind = "day"
    <3>1. q.of \in PagesLost
      BY <1>2, <1>6, <2>3
    <3>2. PagesLost = {}
      BY <1>0, <1>3, <1>6, FS_EmptySet
    <3> QED
      BY <3>1, <3>2
  <2>4. CASE q.kind # "day"
    <3>1. MonthLinksLead
      BY <1>6 DEF DeadLinksInv
    <3>2. p.kind = "day" /\ q.kind = "month"
      BY <2>1, <2>2, <2>4, <3>1, PageKinds DEF MonthLinksLead
    <3>3. PICK t \in rolled : q.of \in {MonthOf[t], MonthOf[t - 1]}
      BY <2>1, <3>2 DEF KnownDead
    <3>4. q = MonthPage(q.of)
      BY <2>2, <3>2 DEF Page, MonthPage
    <3> QED
      BY <2>1, <3>1, <3>3, <3>4 DEF MonthLinksLead
  <2> QED
    BY <2>3, <2>4
<1>7. dead # {} => faults > 0
  BY <1>0, <1>6
<1> QED
  BY <1>5, <1>7 DEF DeadLinksCostFaults, dead

(* The links that are dead for another reason than the two known ones are  *)
(* paid for by faults, and those to days one by one, for every calendar in *)
(* a time zone that is not west of Greenwich, where the table of a month   *)
(* has the days before its own (veterod.cc:416, monthreportgenerator.cc:348). *)
THEOREM DeadLinksCostFaultsHolds ==
  ASSUME ~West
  PROVE  SiteSpec => []DeadLinksCostFaults
BY DeadLinksInit, DeadLinksStep, DeadLinksPaid, PTL DEF SiteSpec
==============================================================================
