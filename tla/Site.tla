-------------------------------- MODULE Site --------------------------------
(***************************************************************************)
(* The report tree: which pages and diagrams exist, what they show and how *)
(* they link to each other (DayReportGenerator, MonthReportGenerator,      *)
(* YearReportGenerator and IndexGenerator of src/src/vetero-reportgen),    *)
(* while veterod (module Veterod) runs and asks for pages.                 *)
(*                                                                         *)
(* A generator is atomic here: it runs before the next dataset arrives.    *)
(* (What generators that overlap do to each other is in Reportgen.)        *)
(*                                                                         *)
(* What the station measures is fixed beforehand: the i-th dataset that is *)
(* stored on day d has Temperature[d][i] and Pressure[d][i], and the first *)
(* dayStats[d] of them are in the statistics of the day.  Nothing else of  *)
(* the data decides what is made of it.                                    *)
(* The tables of the months on the index page are in MonthTable.           *)
(***************************************************************************)
EXTENDS Veterod, MonthTable

CONSTANTS West,         \* the time zone is west of Greenwich
          Measured,     \* what the station has besides the temperature
          Temperature,  \* of each dataset of a day, in tenths of a degree
          Pressure      \* 0 when the station has lost it (datareader.cc:403)

Diagram == {"temperature", "humidity", "wind", "rain", "solar", "pressure"}

ASSUME SiteAssumption ==
  /\ West \in BOOLEAN
  /\ Measured \subseteq Diagram \ {"temperature"}
  /\ HasRain <=> "rain" \in Measured
  /\ Temperature \in [Day -> [1 .. MaxRows -> Int]]
  /\ Pressure \in [Day -> [1 .. MaxRows -> Nat]]

Index   == [kind |-> "index", of |-> 0]
NoPage  == [shows |-> NoRow, links |-> {}, images |-> {}, made |-> FALSE]
SitePage == Page \union {Index}

VARIABLES site,  \* [SitePage -> what the page shows, its diagrams and links]
          files  \* the diagrams in the report directory: <<page, diagram>>

siteVars == <<vars, site, files>>

-----------------------------------------------------------------------------
(* ValidDataCache, as the database is when the generator starts *)
DataAtDay(d)   == d \in Day /\ dayStats[d] # NoRow
DataInMonth(m) == m \in Month /\ monthStats[m] # NoRow
DataInYear(y)  == \E m \in Month : YearOf[m] = y /\ monthStats[m] # NoRow

(* BETWEEN date(first, 'localtime') AND date(last, 'localtime'): the dates *)
(* are local ones already and taken for UTC, at midnight.  West of         *)
(* Greenwich that is the evening before, so a month is one day off, and a  *)
(* year begins with the last month of the year before.                     *)
DaysBetween(m) == { d \in Day : IF West THEN d + 1 \in DaysOf(m) ELSE d \in DaysOf(m) }
MonthsBetween(y) ==
  { m \in Month : \/ YearOf[m] = y
                  \/ West /\ m + 1 \in Month /\ YearOf[m + 1] = y }

(* "temp_min != temp_max" over the datasets that stats has of some days *)
Differ(stats, days) ==
  \E d, e \in days :
    /\ stats[d] # NoRow /\ stats[e] # NoRow
    /\ \E i \in 1 .. stats[d], j \in 1 .. stats[e] : Temperature[d][i] # Temperature[e][j]

(* ... in a row of day_statistics and of month_statistics *)
DayVaries(d)   == Differ(dayStats, {d})
MonthVaries(m) == monthStats[m] # NoRow /\ Differ(monthStats[m], DaysOf(m))

(* A column is not NULL in one of these rows of day_statistics. *)
HasValues(stats, days) == \E d \in days : stats[d] # NoRow /\ stats[d] > 0

(* "pressure > 0" for one row of weatherdata *)
Pressed(d) == \E i \in 1 .. rows[d] : Pressure[d][i] > 0

Only(test, p) == IF test THEN {p} ELSE {}

(* Mutant of DayLinks: the back link is tested with the day itself. *)
DayLinksBackAlways(d) ==
  {MonthPage(MonthOf[d])}
    \union Only(DataAtDay(d + 1), DayPage(d + 1))
    \union Only(DataAtDay(d), DayPage(d - 1))

(* Navigation of DayReportGenerator::createHtml: forward, backward and up *)
DayLinks(d) ==
  {MonthPage(MonthOf[d])}
    \union Only(DataAtDay(d + 1), DayPage(d + 1))
    \union Only(DataAtDay(d - 1), DayPage(d - 1))

(* The days of the table of a month *)
DaysListed(m) == { d \in DaysBetween(m) : DayVaries(d) }

(* strftime('%s', date) is midnight in Greenwich, and the time stamp is    *)
(* taken for a local one: west of it that is the evening before.           *)
LocalDay(d) == IF West THEN d - 1 ELSE d

MonthLinks(m) ==
  {YearPage(YearOf[m])}
    \union Only(DataInMonth(m + 1), MonthPage(m + 1))
    \union Only(DataInMonth(m - 1), MonthPage(m - 1))
    \union { DayPage(d) : d \in Day \cap { LocalDay(e) : e \in DaysListed(m) } }

YearLinks(y) ==
  Only(DataInYear(y + 1), YearPage(y + 1))
    \union Only(DataInYear(y - 1), YearPage(y - 1))
    \union { MonthPage(m) : m \in { n \in MonthsBetween(y) : MonthVaries(n) } }

(* The index: today, the years and in each the months and days with data. *)
IndexLinks(today) ==
  {DayPage(today)}
    \union { YearPage(y) : y \in { z \in Year : DataInYear(z) } }
    \union { MonthPage(m) : m \in { n \in Month : DataInMonth(n) } }
    \union { DayPage(d) : d \in { e \in Day : DataAtDay(e) /\ DataInMonth(MonthOf[e]) } }

(* The rows of the tables and diagrams of a page, a year's for each of its *)
(* months: a day, or a month, of a single temperature is left out.         *)
DayShows(d)   == rows[d]
MonthShows(m) == [d \in Day |-> IF d \in DaysListed(m) THEN dayStats[d] ELSE NoRow]
YearShows(y)  == [m \in Month |-> IF m \in MonthsBetween(y) /\ MonthVaries(m)
                                    THEN monthStats[m] ELSE NoRow]

(* The queries for the diagrams of a page have a result. *)
Varies(p) ==
  CASE p.kind = "day"   -> rows[p.of] > 0
    [] p.kind = "month" -> DaysListed(p.of) # {}
    [] p.kind = "year"  -> \E m \in MonthsBetween(p.of) : MonthVaries(m)
    [] p.kind = "index" -> FALSE

(* haveWindData and so on: a column has values, also when these are 0 for  *)
(* a pressure that was lost; the temperature's section is always there.    *)
DayImages(d) == {"temperature"} \union (IF rows[d] > 0 THEN Measured ELSE {})
MonthImages(m) ==
  {"temperature"} \union
    (IF HasValues(dayStats, DaysBetween(m)) THEN Measured \intersect {"wind", "rain"} ELSE {})
YearImages(y) ==
  {"temperature"} \union
    (IF \E m \in MonthsBetween(y) : monthStats[m] # NoRow /\ HasValues(monthStats[m], DaysOf(m))
       THEN Measured \intersect {"rain"} ELSE {})

Images(p) ==
  CASE p.kind = "day"   -> DayImages(p.of)
    [] p.kind = "month" -> MonthImages(p.of)
    [] p.kind = "year"  -> YearImages(p.of)
    [] p.kind = "index" -> {}

(* Gnuplot::plot warns and writes no file when there is nothing to plot.   *)
(* Only the diagram of the pressure, which a day has, asks for more than   *)
(* that there are rows.                                                    *)
Plotted(p) ==
  {p} \X { k \in Images(p) : Varies(p) /\ (k = "pressure" => Pressed(p.of)) }

Generated(p, today) ==
  [made   |-> TRUE,
   images |-> Images(p),
   shows  |-> CASE p.kind = "day"   -> DayShows(p.of)
                [] p.kind = "month" -> MonthShows(p.of)
                [] p.kind = "year"  -> YearShows(p.of)
                [] p.kind = "index" -> NoRow,
   links  |-> CASE p.kind = "day"   -> DayLinks(p.of)
                [] p.kind = "month" -> MonthLinks(p.of)
                [] p.kind = "year"  -> YearLinks(p.of)
                [] p.kind = "index" -> IndexLinks(today)]

(* Mutant of WithIndex: exec does not know the job "year". *)
WithoutYears(jobs) ==
  { p \in jobs : p.kind # "year" } \union Only(\E p \in jobs : p.kind = "month", Index)

(* VeteroReportgen::exec: the pages of the jobs; each month job makes the  *)
(* index, too.                                                             *)
WithIndex(jobs) == jobs \union Only(\E p \in jobs : p.kind = "month", Index)

Exec(jobs) ==
  /\ site' = [p \in SitePage |-> IF p \in WithIndex(jobs) THEN Generated(p, now) ELSE site[p]]
  /\ files' = files \union UNION { Plotted(p) : p \in jobs }

-----------------------------------------------------------------------------
SiteInit == Init /\ site = [p \in SitePage |-> NoPage] /\ files = {}

Publish == UpdateReports /\ Exec(Jobs)

Other ==
  \/ Tick \/ Start \/ Stop \/ StatementFails \/ Read \/ Insert \/ WriteLastRain
  \/ UpdateDay \/ QueryCurrent \/ UpdateThisMonth \/ UpdateLastMonth \/ ReportsFail

SiteNext == Publish \/ (Other /\ UNCHANGED <<site, files>>)

SiteSpec == SiteInit /\ [][SiteNext]_siteVars

(* The fairness of Veterod's FairSpec; a generator runs at once. *)
SiteIteration ==
  \/ Publish
  \/ /\ \/ Read \/ Insert \/ WriteLastRain \/ UpdateDay \/ QueryCurrent
        \/ UpdateThisMonth \/ UpdateLastMonth
     /\ UNCHANGED <<site, files>>

FairSiteSpec == SiteSpec /\ WF_siteVars(SiteIteration)

-----------------------------------------------------------------------------
(* What a reader of the pages can rely on.                                 *)

SiteTypeOK ==
  /\ TypeOK
  /\ \A p \in SitePage : site[p].made \in BOOLEAN /\ site[p].links \subseteq Page
  /\ { p \in Page : site[p].made } = { j.page : j \in asked }
  /\ files \subseteq UNION { {p} \X Diagram : p \in { q \in Page : site[q].made } }

(* Links whose page was never made *)
DeadLinks ==
  UNION { {p} \X { q \in site[p].links : ~site[q].made } : p \in SitePage }

(* Two kinds are there without any failure: the page of a day links up to  *)
(* its month before a day change to or from a day of it was completed (on  *)
(* the first day of an installation, or when an outage hides the change),  *)
(* and the index links to the day it was made on, whose first dataset is   *)
(* still to come or at work when midnight has just passed.                 *)
KnownDead(p, q) ==
  \/ /\ p.kind = "day" /\ q.kind = "month"
     /\ \A t \in rolled : q.of \notin {MonthOf[t], MonthOf[t - 1]}
  \/ p = Index /\ q.kind = "day" /\ (rows[q.of] = 0 \/ (Active /\ q.of = ts))

(* Without failures no other link is dead (veterod.cc:416).  A failure can *)
(* cost the pages of a month and a year, but of days at most one: a day    *)
(* page is asked for with every dataset.                                   *)
DeadLinksCostFaults ==
  LET dead == { l[2] : l \in { k \in DeadLinks : ~KnownDead(k[1], k[2]) } } IN
    /\ Cardinality({ q \in dead : q.kind = "day" }) <= faults
    /\ dead # {} => faults > 0

(* Neighbouring days with data whose pages do not link both ways *)
Broken ==
  { d \in Day \ {MaxDay} :
      /\ \A e \in {d, d + 1} : DataAtDay(e) /\ site[DayPage(e)].made
      /\ DayPage(d + 1) \notin site[DayPage(d)].links
           \/ DayPage(d) \notin site[DayPage(d + 1)].links }

(* Neighbouring days link to each other both ways, unless a failure came   *)
(* between them; one failure breaks one pair (veterod.cc:410).             *)
DaysLinked == Cardinality(Broken) <= faults

(* What page p has to show after the day change on day t: of the page of   *)
(* the day that ended every row, of the page of its month the final        *)
(* statistics of every day up to it that has more than one temperature and *)
(* no others, and of the page of its year those of all these days, in the  *)
(* row of the month, which is there if they have more than one.            *)
ShowsFinal(p, t) ==
  LET m    == MonthOf[t - 1]
      over == { d \in DaysOf(m) : d < t }
      row  == site[p].shows[m]
  IN  /\ p = DayPage(t - 1) => site[p].shows = rows[t - 1]
      /\ p = MonthPage(m) =>
           \A d \in over : site[p].shows[d] = IF DayVaries(d) THEN dayStats[d] ELSE NoRow
      /\ p = YearPage(YearOf[m]) =>
           /\ Differ(dayStats, over) => row # NoRow
           /\ row # NoRow => \A d \in over : row[d] = dayStats[d]

(* The reports of a day change show what there is to show of the day that  *)
(* ended and of those before it, for good (veterod.cc:399-421: statistics  *)
(* first, then the reports).  West of Greenwich this does not hold: the    *)
(* page of a month lacks its last day.                                     *)
SettledPages == \A j \in asked : ShowsFinal(j.page, j.on)

(* The diagrams a page refers to and that are not there *)
MissingImages(p) == { k \in site[p].images : <<p, k>> \notin files }

(* ... and never will be *)
NeverPlotted(p) ==
  Only(p.kind = "day" /\ "pressure" \in Measured /\ ~Pressed(p.of), "pressure")

(* The days whose data page p has to show when it is made on day t: of a   *)
(* year those that a completed day change has brought into their month     *)
DaysToPlot(p, t) ==
  { d \in Day :
      /\ d < t
      /\ CASE p.kind = "day"   -> d = p.of /\ rows[d] > 0
           [] p.kind = "month" -> MonthOf[d] = p.of /\ DayVaries(d)
           [] p.kind = "year"  -> /\ YearOf[MonthOf[d]] = p.of /\ DayVaries(d)
                                  /\ \E u \in rolled : d < u /\ u <= t /\ MonthOf[u - 1] = MonthOf[d] }

(* A page never refers to a diagram that was not plotted (gnuplot.cc:80),  *)
(* once it was made on a day after one of its own that can be plotted: on  *)
(* the first of a month its page, and that of the year on New Year's Day,  *)
(* lack their diagrams, and so do the pages of times without data.  The    *)
(* one diagram that is missing for good is that of the pressure, on a day  *)
(* all datasets of which have lost it (dayreportgenerator.cc:289, 431).    *)
ImagesThere ==
  \A j \in asked :
    DaysToPlot(j.page, j.on) # {} => MissingImages(j.page) = NeverPlotted(j.page)

(* When there is an index page, the tables of its months have every day    *)
(* once, in the column of its weekday and in the week of its neighbours, in*)
(* leap years and others and whatever weekday the month begins with        *)
(* (indexgenerator.cc:119-142, calendar.cc:25-48).                         *)
MonthTables == site[Index].made => RightTables
=============================================================================
