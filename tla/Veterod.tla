------------------------------ MODULE Veterod -------------------------------
(***************************************************************************)
(* The weather daemon veterod (src/src/veterod/veterod.cc, Veterod::exec): *)
(* read a dataset from the station, store it, keep the statistics of the   *)
(* day, and when the day of the month differs from the one of the last     *)
(* stored dataset, update the month statistics and ask for the reports of  *)
(* the day that ended.                                                     *)
(*                                                                         *)
(* Every statement of the loop that touches the database is a step, since  *)
(* the daemon can be killed between any two of them and each of them can   *)
(* throw a DatabaseError (locked for more than 20 s, disk full).  The      *)
(* catch block at the end of the loop logs and goes on with the next       *)
(* dataset: what the iteration had done stays done and lastInserted keeps  *)
(* its value.                                                              *)
(*                                                                         *)
(* A time stamp is the day it falls on.  The clock does not go back by a   *)
(* day.  What the loop does to the display daemon (notifyDisplay) and to   *)
(* the cloud service touches none of this state.                           *)
(***************************************************************************)
EXTENDS WeatherDb, FiniteSets

CONSTANTS HasRain,    \* the station has a rain gauge (SensorType::hasRain)
          MaxRows,    \* bound: datasets of one day
          MaxFaults   \* bound: statements, forks and processes that fail

ASSUME BoundAssumption ==
  HasRain \in BOOLEAN /\ MaxRows \in Nat \ {0} /\ MaxFaults \in Nat

VARIABLES now,          \* the day on the wall clock
          pc,           \* where the loop is; "down" when veterod does not run
          ts,           \* dataset.timestamp()
          lastInserted, \* the local variable of that name
          asked,        \* jobs of the reportgen processes started so far
          rolled,       \* history: days whose day change was completed
          faults        \* history: what failed so far

daemonVars == <<pc, ts, lastInserted>>
vars == <<dbVars, now, daemonVars, asked, rolled, faults>>

(* The statements that can throw; "monthThis" and "monthLast" are those of *)
(* the day change.                                                         *)
DbSteps == {"insert", "lastRain", "dayStats", "current", "monthThis", "monthLast"}
PC == DbSteps \union {"down", "read", "reports"}

(* A page of the report tree, and a job for it with the dataset's day. *)
Page == [kind : {"day"}, of : Day] \union [kind : {"month"}, of : Month]
          \union [kind : {"year"}, of : Year]
DayPage(d)   == [kind |-> "day", of |-> d]
MonthPage(m) == [kind |-> "month", of |-> m]
YearPage(y)  == [kind |-> "year", of |-> y]
Job == [page : Page, on : RunDay]

TypeOK ==
  /\ DbTypeOK
  /\ now \in RunDay /\ ts \in RunDay /\ lastInserted \in RunDay
  /\ pc \in PC
  /\ asked \subseteq Job
  /\ rolled \subseteq RunDay
  /\ faults \in 0 .. MaxFaults

Init ==
  /\ InitTables
  /\ now = 1 /\ ts = 1 /\ lastInserted = 1
  /\ pc = "down"
  /\ asked = {} /\ rolled = {} /\ faults = 0

-----------------------------------------------------------------------------
(* Midnight passes, whatever the daemon is doing. *)
Tick ==
  /\ now < MaxDay
  /\ now' = now + 1
  /\ UNCHANGED <<dbVars, daemonVars, asked, rolled, faults>>

(* exec up to the loop: "don't assume we need to regenerate everything on  *)
(* startup".                                                               *)
Start ==
  /\ pc = "down"
  /\ pc' = "read"
  /\ lastInserted' = now
  /\ UNCHANGED <<dbVars, now, ts, asked, rolled, faults>>

(* SIGTERM, SIGINT, power loss or an exception the loop does not catch:    *)
(* the process ends where it is, its variables are lost.                   *)
Stop ==
  /\ pc # "down"
  /\ faults < MaxFaults
  /\ pc' = "down"
  /\ faults' = faults + 1
  /\ UNCHANGED <<dbVars, now, ts, lastInserted, asked, rolled>>

(* Mutant of StatementFails: lastInserted is advanced before the statements *)
(* that can throw.                                                         *)
FailAfterAdvance ==
  /\ pc \in DbSteps
  /\ faults < MaxFaults
  /\ pc' = "read"
  /\ faults' = faults + 1
  /\ lastInserted' = ts
  /\ UNCHANGED <<dbVars, now, ts, asked, rolled>>

(* A statement throws and the catch block goes back to the loop head. *)
StatementFails ==
  /\ pc \in DbSteps
  /\ faults < MaxFaults
  /\ pc' = "read"
  /\ faults' = faults + 1
  /\ UNCHANGED <<dbVars, now, ts, lastInserted, asked, rolled>>

(* The station delivers a valid dataset.  (A read that throws and a        *)
(* dataset that fails the temperature check leave the daemon at the loop   *)
(* head.)                                                                  *)
Read ==
  /\ pc = "read"
  /\ rows[now] < MaxRows
  /\ ts' = now
  /\ pc' = "insert"
  /\ UNCHANGED <<dbVars, now, lastInserted, asked, rolled, faults>>

(* insertDataset is two statements: the row and then, for a station with a *)
(* rain gauge, the gauge reading in misc (see RainGauge).                  *)
Insert ==
  /\ pc = "insert"
  /\ InsertRow(ts)
  /\ pc' = IF HasRain THEN "lastRain" ELSE "dayStats"
  /\ UNCHANGED <<now, ts, lastInserted, asked, rolled, faults>>

WriteLastRain ==
  /\ pc = "lastRain"
  /\ pc' = "dayStats"
  /\ UNCHANGED <<dbVars, now, ts, lastInserted, asked, rolled, faults>>

(* Mutant of UpdateDay: the day of the previous dataset is aggregated. *)
UpdateDayOfLastInserted ==
  /\ pc = "dayStats"
  /\ UpdateDayStatistics(lastInserted)
  /\ pc' = "current"
  /\ UNCHANGED <<now, ts, lastInserted, asked, rolled, faults>>

UpdateDay ==
  /\ pc = "dayStats"
  /\ UpdateDayStatistics(ts)
  /\ pc' = "current"
  /\ UNCHANGED <<now, ts, lastInserted, asked, rolled, faults>>

(* timestamp().day() != lastInserted.day(): the days of the month differ *)
DayChanged == DomOf[ts] # DomOf[lastInserted]
(* Mutant of LastDay: addDays(-1) is forgotten. *)
SameDay == ts
LastDay == ts - 1
MonthChanged == MonthOf[ts] # MonthOf[LastDay]

(* Mutant of QueryCurrent: the reports are asked for before the statistics. *)
QueryCurrentToReports ==
  /\ pc = "current"
  /\ pc' = "reports"
  /\ UNCHANGED <<dbVars, now, ts, lastInserted, asked, rolled, faults>>

(* queryCurrentWeather for the upload, then the test for the day change *)
QueryCurrent ==
  /\ pc = "current"
  /\ pc' = IF DayChanged THEN "monthThis" ELSE "reports"
  /\ UNCHANGED <<dbVars, now, ts, lastInserted, asked, rolled, faults>>

UpdateThisMonth ==
  /\ pc = "monthThis"
  /\ UpdateMonthStatistics(MonthOf[ts])
  /\ pc' = IF MonthChanged THEN "monthLast" ELSE "reports"
  /\ UNCHANGED <<now, ts, lastInserted, asked, rolled, faults>>

UpdateLastMonth ==
  /\ pc = "monthLast"
  /\ UpdateMonthStatistics(MonthOf[LastDay])
  /\ pc' = "reports"
  /\ UNCHANGED <<now, ts, lastInserted, asked, rolled, faults>>

(* Mutant of Jobs: the page of the last day is not made again. *)
JobsWithoutLastDay ==
  {DayPage(ts)} \union
  (IF ~DayChanged THEN {} ELSE
     {MonthPage(MonthOf[ts]), YearPage(YearOf[MonthOf[LastDay]])}
       \union (IF MonthChanged THEN {MonthPage(MonthOf[LastDay])} ELSE {})
       \union (IF IsNewYearsDay(ts) THEN {YearPage(YearOf[MonthOf[ts]])} ELSE {}))

(* The pages the job list names ("current" is asked for each time and left *)
(* out).                                                                   *)
Jobs ==
  {DayPage(ts)} \union
  (IF ~DayChanged THEN {} ELSE
     {DayPage(LastDay), MonthPage(MonthOf[ts]), YearPage(YearOf[MonthOf[LastDay]])}
       \union (IF MonthChanged THEN {MonthPage(MonthOf[LastDay])} ELSE {})
       \union (IF IsNewYearsDay(ts) THEN {YearPage(YearOf[MonthOf[ts]])} ELSE {}))

(* lastInserted = dataset.timestamp(): the iteration is complete. *)
EndIteration ==
  /\ lastInserted' = ts
  /\ rolled' = IF DayChanged THEN rolled \union {ts} ELSE rolled
  /\ pc' = "read"
  /\ UNCHANGED <<dbVars, now, ts>>

(* updateReports starts one vetero-reportgen with all jobs. *)
UpdateReports ==
  /\ pc = "reports"
  /\ asked' = asked \union [page : Jobs, on : {ts}]
  /\ EndIteration
  /\ UNCHANGED faults

(* start_background throws; updateReports catches and logs it, and the     *)
(* iteration ends as if the reports had been asked for.                    *)
ReportsFail ==
  /\ pc = "reports"
  /\ faults < MaxFaults
  /\ faults' = faults + 1
  /\ EndIteration
  /\ UNCHANGED asked

Iteration ==
  \/ Read \/ Insert \/ WriteLastRain \/ UpdateDay \/ QueryCurrent
  \/ UpdateThisMonth \/ UpdateLastMonth \/ UpdateReports

Next == Tick \/ Start \/ Stop \/ StatementFails \/ Iteration \/ ReportsFail

Spec == Init /\ [][Next]_vars

(* The station keeps delivering and a running daemon keeps going.  Nothing *)
(* is assumed of the clock, nor that anybody starts the daemon.            *)
FairSpec == Spec /\ WF_vars(Iteration)

-----------------------------------------------------------------------------
(* What the statistics and the reports owe to the stored data.             *)

(* Every day before t in yesterday's month is in month_statistics with     *)
(* the day statistics it has now.                                          *)
SettledBy(t) ==
  LET m == MonthOf[t - 1] IN
    /\ monthStats[m] # NoRow
    /\ \A d \in DaysOf(m) : d < t => monthStats[m][d] = dayStats[d]

(* A day change that was completed on day t leaves every earlier day of    *)
(* yesterday's month in month_statistics with its final day statistics,    *)
(* for good: on the first of a month this closes the month that ended      *)
(* (veterod.cc:403-405).                                                   *)
SettledDays == \A t \in rolled : SettledBy(t)

(* The day the running iteration has stored and not yet aggregated *)
InFlight == IF pc \in {"lastRain", "dayStats"} THEN {ts} ELSE {}

(* Days whose statistics are behind and that nobody is working on *)
Lagging == { d \in Day \ InFlight : ~DayCurrent(d) }

(* "is updated on every measurement": one failed statement or one kill     *)
(* leaves the statistics of at most one day behind its rows, since every   *)
(* later dataset of that day repairs them (veterod.cc:383-386).            *)
FaultsCostOneDay == Cardinality(Lagging) <= faults

(* The up link of a month page (monthreportgenerator.cc:230) leads to a    *)
(* year page: whoever asks for a month asks for its year, also on New      *)
(* Year's Day, when the daemon asks for the pages of two years.            *)
MonthUpLink ==
  \A j \in asked : j.page.kind = "month" =>
     \E k \in asked : k.page = YearPage(YearOf[j.page.of])

(* The statistics of yesterday have reached month_statistics. *)
YesterdayInMonth(d) ==
  LET m == MonthOf[d - 1] IN
    monthStats[m] # NoRow /\ monthStats[m][d - 1] = dayStats[d - 1]

(* A day change that was begun is retried with every dataset of that day   *)
(* until it succeeds, because lastInserted only advances at the end of an  *)
(* iteration (veterod.cc:426): yesterday reaches the month statistics      *)
(* unless the daemon goes down or the day ends first.                      *)
DayChangeRetried ==
  \A d \in RunDay :
    (pc = "monthThis" /\ ts = d) ~> (YesterdayInMonth(d) \/ pc = "down" \/ now > d)

-----------------------------------------------------------------------------
(* The strengthening of SettledDays that each step preserves.              *)

(* An iteration is under way: ts is the dataset it works on. *)
Active == pc \notin {"down", "read"}

(* No day change was completed for a day later than the dataset at hand. *)
RolledInThePast ==
  /\ ts <= now
  /\ \A t \in rolled : t <= now /\ (Active => t <= ts)

(* The steps of the day change are only reached on a day change, and when  *)
(* the job list is built, the month of yesterday has been aggregated from  *)
(* the statistics as they are.                                             *)
DayChangeInOrder ==
  /\ pc \in {"monthThis", "monthLast"} => DayChanged
  /\ pc = "monthLast" => MonthChanged
  /\ pc = "reports" /\ DayChanged =>
       monthStats[MonthOf[LastDay]] = MonthAggregate(MonthOf[LastDay])

SettledInv == TypeOK /\ RolledInThePast /\ DayChangeInOrder /\ SettledDays
=============================================================================
