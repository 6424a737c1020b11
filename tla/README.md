# TLA+ models of vetero

vetero reads a wireless weather station, stores every dataset in an SQLite
database, keeps day and month statistics, writes a tree of HTML reports, uploads
the current weather to a cloud service and feeds a small LCD. This directory
models the parts of it in which state, time and failure meet, checks them with
TLC on small instances and proves every safety property of the runs with TLAPS
for all instances.

## The system and its parts

| part | state it keeps | operations | talks to |
|------|----------------|------------|----------|
| `veterod` (`src/src/veterod/veterod.cc`) | `lastInserted`, `s_displayPid` | start-up of `main` and `exec`; the loop of `exec`: read, check, postscript, insert, day statistics, notify, upload, day change, start a report generator | station, database, display daemon (signals), report generators (fork, SIGCHLD), cloud |
| database (`src/src/common/dbaccess.cc`, `database.cc`) | `weatherdata`, `day_statistics`, `month_statistics`, `misc` | one SQL statement each, no transactions; 20 s busy timeout | shared by all programs |
| configuration (`configuration.cc`) | the settings of a program | found, parsed and corrected once per program | three files and `--configfile` |
| data readers (`datareader.cc`, `datasocket.cc`) | time of the next read, device or socket | `openConnection`, `read` | serial line, TCP, USB |
| child process watcher (`childprocesswatcher.cc`) | list of children | `addChild` in the main program, `handleZombies` in the SIGCHLD handler | kernel |
| `vetero-displayd` (`vetero_displayd.cc`, `serdisplibdisplay.cc`, `charset.cc`) | `s_quit`, `new_data` | query, render, wait 2 s for SIGUSR1 | database (read-only), LCD |
| `vetero-reportgen` | cache of days with data; the report directory | one page per job, upload | database (read-only), `flock` on the directory, gnuplot |
| `vetero-db` (`veterodb.cc`) | none | SQL shell, `--regenerate-metadata` | database |
| conversions (`dataset.cc`, `weather.cc`, `clouduploader.cc`) | none | units, Beaufort, names of directions, digits | |

Hard behaviour: each statement of the loop can fail or be the last one before
a kill; signals arrive between a test and a wait, or between a fork and the
assignment of its result; children end before their parent has noted them;
process numbers are used again; counters wrap; the clock is set; a station
answers late, never, or with garbage; several report generators run at the same
time over one directory; the database tool rebuilds tables that veterod uses.
`PROJECT.json` lists these hazards at the lines where they bite.

### What makes each part correct

* **veterod**: what a completed day change settled stays settled; a failed
  statement or a kill costs little and is made up for; the reports asked for
  fit together; however it is started and ended, it knows its display.
* **Database**: the rain stored is the rain that fell; statistics agree with the
  rows they are made from; a query gets a row with the statistics of its day.
* **Configuration**: the programs that belong together run on the same file.
* **Data readers**: the pause between two reads is kept, no descriptor is left
  open, what a station does cannot end veterod, and a station that is back is
  read again.
* **Conversions, cloud, display**: what is published and shown is what the
  station measured, to the precision its digits promise, and it fits.
* **Child process watcher**: every report generator is waited for, nobody else.
* **Display daemon**: signals reach it and nobody else; it ends when told to, and
  only then; it shows what it was told about.
* **Report generators**: the upload never reads half-written pages; nobody waits
  in a circle; pages are whole, final, and refer to pages and diagrams that exist.
* **Database tool**: after a regeneration the statistics are complete, whatever
  veterod did meanwhile.

## Modules

The models follow the source's names where they can. A program counter (`pc`,
`vpc`, `main`, `dpc`, `stage`, `tool`) says which statement of a function comes
next, so that a kill, a signal or another process can come between any two of
them. History variables are marked as such in each module; no action's guard
looks at one, except for the counters that a bound limits (and `mark` in
`RainGauge!Fall`, see the assumptions there).

*The database and the loop*

* `Calendar` - days, months and years, as parameters: the functions `MonthOf`,
  `DomOf` (day of the month) and `YearOf` and what is assumed of them. A time
  stamp is the day it falls on. (libbw's `Datetime` is not in this repository.)
* `WeatherDb` - the three tables as row counts: what an aggregate was computed
  from. One operator per SQL statement (`InsertRow`, `UpdateDayStatistics`,
  `UpdateMonthStatistics`). It has no behaviour of its own.
* `Veterod` - the loop of `Veterod::exec`; composes `WeatherDb` and `Calendar`.
  One action per statement (`Read`, `Insert`, `WriteLastRain`, `UpdateDay`,
  `QueryCurrent`, `UpdateThisMonth`, `UpdateLastMonth`, `UpdateReports`), a
  failing variant for those that throw (`StatementFails`, `ReportsFail`),
  `Start`, `Stop` and `Tick` (midnight). `asked` collects the report jobs.
* `Site` - `Veterod` and the tree of pages its report jobs make. `Publish` is
  `UpdateReports` and the whole generator (`Exec`); `DayLinks`, `MonthLinks`,
  `YearLinks` and `IndexLinks` are the navigation of the four kinds of pages,
  `DayImages`, `MonthImages` and `YearImages` the diagrams they refer to,
  `Plotted` those that gnuplot makes. What the i-th dataset of a day measures is a
  parameter (`Temperature`, `Pressure`), since the pages leave out days of a single
  temperature and the diagram of a lost pressure.
* `MonthTable` (extended by `Site`) - pure operators: the weeks of a month on the
  index page, cell by cell, and the lengths of months; checked against the
  Gregorian calendar.
* `Regenerate` - `Site` beside `vetero-db --regenerate-metadata`: two processes
  that interleave by the statement, and the pages made of half-built tables.
* `RainGauge` - `insertDataset`'s rain: the counter of the station, the reading
  kept in `misc`, and the interruption between the two statements.

*From the station to whoever looks*

* `Sensors` - pure operators: the columns each type of station has, the
  decoding of the three kinds of readers, the Beaufort scale, the names of the
  directions. The encodings are the stations', modelled from how the code reads
  them.
* `Readers` - composes `Configuration` with the control of the readers: opening,
  the pause between reads, addresses, connecting, `select` with its timeout, the
  signals that cut a wait short, what the loop does with each kind of exception.
* `CloudUploader`, `Screen` - pure operators: the numbers of the upload as
  `setprecision` writes them and as the service reads them; the texts of the
  display, their places and widths, the cut at its edge, the character sets.
* `CurrentWeather` - composes `Sensors`, `Screen` and `CloudUploader` with the way
  of a dataset through veterod's loop and the two SELECTs of
  `queryCurrentWeather`, run by veterod for the upload and by another program at
  any time; the environment of the postscript.

*Processes*

* `Configuration` - pure operators over a small file system: which file a program
  reads, what it means when it cannot, defaults and corrections.
* `Displayd` - the display daemon, the steps of veterod that concern it, and
  the effects of SIGUSR1 and SIGTERM at each of its program points.
* `Session` - composes `Displayd` and `Configuration`: veterod from one start to
  the next (`Launch`, `ReadConfiguration`, `Connect`, `SingleTest`, `StartDisplay`,
  `OpenDatabase`, `InitTables`, the loop, `End`, `Kill`) over the same database
  file, and the display that each start leaves, or not.
* `ChildProcessWatcher` - report generators, the display as a child, the shell of
  the postscript, SIGCHLD, `addChild` with its blocked section, the handler as it
  goes through the list.
* `Reportgen` - report generators that run at the same time: `flock`, the files
  they write in place (opened, cut off, overwritten by two writers, closed), the
  compression, the failure of a job, the upload.
* `ReportDirectory` - the abstract specification of what `LockFile` promises: users
  that work in the directory together, an upload that has it for itself, and
  contents that only change by the hand of a user. `Reportgen!ImplementsDirectory`
  is the refinement mapping: its users are the generators in a job, its contents
  are the files.

*Instances and proofs*

* `MC<module>` - instances for TLC. `Displayd` and `ChildProcessWatcher` have
  parameters a `.cfg` can give directly.
* `SiteProofs` (about `Veterod` and `Site`) and `RegenerateProofs`, which extends
  it; `CurrentWeatherProofs`, `RainGaugeProofs`, `ChildProcessWatcherProofs`,
  `ReportgenProofs`, `SessionProofs`, `ReadersProofs` - the theorems.

`PROJECT.json` maps every definition to the lines it models, lists the hazards
of the code at the lines where they bite with the properties that watch them,
and has for each property a plausible bug in the code that breaks it; the
operators marked "Mutant of" in the modules are those bugs and not part of the
models.

## Runs

Twelve runs; each is `tlc -config <cfg> <module>`. `CHECK_DEADLOCK FALSE` stands
where the system really may stop: the horizon of days, datasets, starts or
generators is bounded, or a daemon that is down stays down. The runs `watcher`
and `readers` check for deadlocks. A type invariant that is proved is not
repeated in a run.

| run | module, cfg | what it shows | states |
|-----|-------------|---------------|-------:|
| `site` | `MCSite` | The loop: `SettledDays`: a completed day change leaves every earlier day of yesterday's month in the month statistics with its final value, for good. `FaultsCostOneDay`: a failure or kill leaves at most one day's statistics behind. `DayChangeRetried`: a day change that was begun and failed is tried again with each dataset. The pages: `DeadLinksCostFaults`: no dead links but two known kinds, unless something failed. `DaysLinked`: neighbouring days link both ways but for one pair per failure. `SettledPages`: the pages a day change asks for show, for good, every row of the day that ended and the final statistics of its month's days, of those that have more than one temperature and of no others. `ImagesThere`: the diagrams a page refers to are there once they can be plotted, and the one that is missing is that of the pressure on a day that has lost it. `MonthTables`: the tables of the index page have each day once, in its week and weekday. | 72 k |
| `regenerate` | `MCRegenerate` | `RegeneratedAll`: a run that came to its end leaves each day that was over complete in both tables, whatever veterod did between its statements and whatever had failed before. `SettledAgain`: the promise of `SettledDays` holds again. `LinkedUnlessTorn`, `FinalUnlessTorn`: a page that was not made of half-built tables is linked and final as before. | 1.1 M |
| `rain` | `MCRainGauge` | `RainNeverLost`: stored rain never falls short of what fell, whatever was interrupted. `RainExact`: it is exact when nothing was. | 137 k |
| `rain_freetec` | `MCRainGauge`, `MCRainGaugeFreeTec.cfg` | violated, see Findings | |
| `weather` | `MCCurrentWeather` | `PublishedAsMeasured`: SVG, JSON, upload and postscript have what the station measured, in the right unit, and nothing it does not measure. `UploadCoherent`, `ShownCoherent`: the row fits to the extremes and the rain published with it; a clock that was set back makes the upload late by no more than that. `WindNamed`: the Beaufort strength follows the formula, the name of the direction is that of the nearest sixteenth or the one before it. `UploadedPrecisely`: what the service reads is as near to the measurement as its digits promise. `ScreenLegible`: a display shows all texts, in either language, exactly when it has 7 lines and 21 columns. | 381 k |
| `readers` | `MCReaders` | `Paced`: two good reads are a pause apart by the clock. `NoSocketLeft`: one descriptor for the connection that is open, none for another. `SurvivesStation`: what a station does ends veterod in two known ways only. `OwnSensor`: temperature and humidity are of the sensor that is configured. `StationServed`: a station that is back is read again and again. | 24 k |
| `session` | `MCSession` | `PidIsDisplay`: signals go to the display. `OrphansCostKills`: only a kill, or a signal between `fork` and the assignment of its result, leaves a display running. `TablesOrCut`: the loop has its tables unless an earlier start was cut short. `UnopenedOnce`: for want of a database a display ends once per start that ended early, and once more. `ToldByMisfire`: while veterod runs its display is told to quit only by a report generator that could not be executed. `SameConfiguration`: both programs run on the same file. `QuitEndsDisplay`: a display that is told to quit ends. `WokenDisplayShows`: one that new data woke shows it. | 428 k |
| `displayd_lost_signal` | `Displayd`, `MCDisplaydLostSignal.cfg` | violated, see Findings | |
| `watcher` | `ChildProcessWatcher` | `WatchedAreReports`, `NoLostChild`, `EveryZombieReaped`: each report generator is waited for, nobody else is. | 1.9 k |
| `reportgen` | `MCReportgen` | `PagesComplete`: a page whose latest job did not fail, in a generator that was alone, is whole, compressed once, shows all its rows and has its next link. `ImplementsDirectory`: the generators implement `ReportDirectory`. | 598 k |
| `reportgen_ends` | `MCReportgen`, `MCReportgenEnds.cfg` | `GeneratorsEnd`: each generator that is started ends. | 69 k |
| `reportgen_twice` | `MCReportgen`, `MCReportgenTwice.cfg` | violated, see Findings | |

### Bounds

* *Days* (`MaxDay`). `site` has six days with months of two and three days: they have
  an ordinary day change, a month's end, a year's end on which the first of January
  follows the last of December, a day of the month that the other month does not
  have, the same day of the month in two months, and any of them without data.
  `regenerate` has four of them (a month's and a year's end), since two
  processes interleave. A day has up to two datasets (`MaxRows`): the one that
  does the day change and one after it.
* *Faults* (`MaxFaults`, `MaxDbErrors`) are one, or two for the rain:
  every property that counts faults compares two counts, and what one failure
  does is undone or not before the next one. In `regenerate`, `MaxFailures` counts
  those of both programs together; the tool is started up to twice (`MaxRuns`), the
  second time after a failure, on a terminal of 80 columns and on one that is too
  narrow for its progress bar (`TerminalWidths`). The theorems have no such bound.
* *Diagrams* (`Measured`). `site` has a station with wind, rain and pressure, whose
  diagrams depend on different things; `regenerate` has none, since it asks nothing
  about them.
* *Temperatures and pressures* (`Temperature`, `Pressure`). In `site` days 2 and 5
  have a single temperature, as one of the days of a month or its only one, and
  the others have one or two, by their number of datasets. Days 1 and 5
  have lost their pressure, day 3 gets it with its second dataset and day 4 loses
  it with that. In `regenerate` day 2 has a single temperature. The theorems are
  of all values.
* *Time zone* (`West`). The runs have a zone that is not west of Greenwich, and the
  theorems about complete pages and dead links assume it: in the others the pages of
  months are made without their last day, and their tables link each day to the page
  of the day before, see below.
* *Calendar*. `MonthTables` looks at the years 1999 to 2028, in which each kind of
  year begins with each weekday, and at 1900 and 2100; `regenerate` asks nothing
  about them and has a single one.
* *Rain*. `GaugeMod` is 4097 as the code assumes, falls are a third of a turn and
  a whole one less a tip, beginning at 0 and shortly before the wrap, up to more
  than three turns.
* *Weather* (`DaySlots` 2, `MaxTime` 3, `MaxBack` 1). Two days of two datasets,
  a clock that is set back once by one slot and never over midnight, one failed
  statement; readings below zero, above a byte, lost and corrupt; four stations,
  each with readings of its own (`MCSamples`), of weather that there is
  (`PlausibleSamples`); displays that are just large enough,
  and ones that lack a pixel (`MCDisplays`).
  `normal` is the station without anything but temperature and humidity.
* *Readers* (`Pace` 3, `Timeout` 2, `MaxShift` 2, `MaxAddresses` 2, `MaxChildren` 2).
  A pause longer than the timeout, a clock set in either direction by less than a
  pause, an address that fails before one that answers, and SIGCHLD twice in one
  wait. Sensor numbers are the boundaries, -1, 0, 1 and 8.
* *Sessions* (`MaxStarts` 3, `MaxKills`, `MaxEdits`, `MaxMisfires` 1, `MaxData` 2). A
  start that is cut short, the one that finds what it left, and one more; two
  layouts of configuration files in which the order of the search matters, one
  of which cannot be parsed where it is asked for.
* *Processes*. Three process numbers: the display and two report generators that
  end in any order, or three generators. A number is used again as soon as it is
  free. Two generators are at work at a time (`MaxRunning`) of three that are
  started, over two days and a day after one without data.

### Fairness

* `Site!FairSiteSpec` has weak fairness of an iteration's steps: the station keeps
  delivering and a running daemon goes on. Nothing is assumed of the clock, and
  nobody has to start a daemon that is down.
* `Session!FairSessionSpec`: both programs keep running (weak fairness of the display's
  steps and of `notifyDisplay`); nobody has to deliver data or start or stop veterod.
  `sigtimedwait` has a timeout of two seconds, so `Timeout` is one of the steps.
* `Readers!FairSpec`: veterod takes a step when it is not waiting, which includes an
  answer from a station that is up, and time passes. `StationServed` leaves out
  the three things that nothing in the code ends: a device that was unplugged, a
  veterod that has ended, and a start that waits for the answer of a station that
  has gone in the meantime (`OpenHangs`: `openConnection` reads without `select`).
* `ChildProcessWatcher!FairSpec`: a started `addChild` and a running handler go on,
  and the postscript ends (weak): veterod waits for it without a limit. The delivery
  of a pending SIGCHLD is strongly fair, since
  `sigprocmask` delivers it before it returns from unblocking: a main program
  that blocks SIGCHLD again and again cannot hold it back for ever.
* `Reportgen!FairSpec`: weak fairness of each process. Finitely many generators are
  started in an instance, so the exclusive `flock` is not starved by new ones; the
  kernel makes no promise about that for an endless stream of them.

`Regenerate`, `RainGauge` and `CurrentWeather` only have safety properties and no
fairness.

## Findings

1. `rain_freetec`. The wrap of the rain counter is put right by 4096 + 1 for every
   station (`dbaccess.cc:283`), but the FreeTec reader takes the counter from two
   bytes (`datareader.cc:286`): a tip over its wrap is stored as -61438 tips,
   against `doc/Database.md:18`.
2. `displayd_lost_signal`. SIGUSR1 is not blocked between the display's query and
   its `sigtimedwait` (`vetero_displayd.cc:225-241`); a notification in between runs
   the empty handler and its dataset is not shown until the next one comes,
   against `veterod.h:130`.
3. `reportgen_twice`. Two generators share the lock of the report directory and
   compress the same diagram in place (`utils.cc:158-180`): the second one
   compresses what the first one has compressed, against `gnuplot.h:115`. The
   next generator that is alone repairs it (`PagesComplete`).

## Theorems

Each module of proofs says at its head for which constants it holds; the named
assumptions are in the modules that declare the constants, and TLC evaluates
them in the runs.

| module | theorem | assumptions | inductive invariant |
|--------|---------|-------------|---------------------|
| `SiteProofs` | `TypeCorrect`, `SettledDaysHold`, `FaultsCostOneDayHolds`, `MonthUpLinkHolds` (who asks for a month's page asks for its year's) | the calendar: months follow each other and have more than one day, a year changes with a month; nothing of the lengths and of the number of days, datasets and faults | `SettledInv` for the second; the others have their own, in the module |
| | `SiteTypeCorrect`, `SettledPagesHold`, `ImagesThereHolds`, `DaysLinkedHold`, `DeadLinksCostFaultsHolds` | the same, and any measurements; `SettledPagesHold`, `ImagesThereHolds` and `DeadLinksCostFaultsHolds` `~West` | `PagesInv` = `SettledInv` and three more parts; `ImagesInv`; `LinksInv`; `DeadLinksInv` |
| | `MonthTablesHold` | any set of years | none, it is about operators |
| `RegenerateProofs` | `ToolTypeCorrect`, `RegeneratedAllHolds`, `SettledAgainHolds`, `LinkedUnlessTornHolds`, `FinalUnlessTornHolds` | the same calendar; the last one `~West` | `RegenerateInv`; `AgainInv`; `LinkedInv`; `ExactInv` |
| `CurrentWeatherProofs` | `WeatherTypeCorrect`, `UploadCoherentHolds`, `ShownCoherentHolds`, `WindNamedHolds` | `SamplesAssumption`: the samples are what the encodings of the stations can carry | `DataInv` = `WeatherTypeOK` and `RowsDecoded`; `UploadInv`; `ShownInv`; `PublishInv` |
| | `PublishedAsMeasuredHolds`, `UploadedPreciselyHolds`, `ScreenLegibleHolds` | the same, and stations that a reader reads anything of (`ReadTypes`); for the last two weather that there is (`PlausibleReadings`): no wind of 1600 km/h, no humidity over 100 %, a pressure between 300 and 1100 hPa, or a lost sensor; for the last one that a day has at most 30000 datasets, each a tip of the gauge (`DatasetsOfDay`: nine metres of rain) | `PublishInv`; `UploadInv` and `PublishInv`; `ScreenInv` |
| `RainGaugeProofs` | `TypeCorrect`, `RainNeverLostHolds`, `RainExactHolds` | `CodeWraps`: the counter wraps after 4096; less than a turn between two readings (`Fall`) | `RainInv` = `TypeOK` and `RainLedger` |
| `ChildProcessWatcherProofs` | `TypeCorrect`, `WatchedAreReportsHolds`, `DisplayPidIsDisplayHolds` (`s_displayPid` is the display), `NoLostChildHolds` | process numbers are not 0 | `WatcherInv` |
| `ReportgenProofs` | `TypeCorrect`, `UploadAloneHolds` (nobody writes during an upload), `SomebodyProceedsHolds` (the locks never block everybody), `ImplementsDirectoryHolds`, `PagesCompleteHolds` | the days of the datasets do not go back | `ReportgenInv`; `CompleteInv` |
| `SessionProofs` | `SessionTypeCorrect`, `PidIsDisplayHolds`, `OrphansCostKillsHolds`, `TablesOrCutHolds`, `UnopenedOnceHolds`, `ToldByMisfireHolds`, `SameConfigurationHolds` | any layouts of configuration files, any number of starts, kills and edits | `SessionInv` |
| `ReadersProofs` | `ReadersTypeCorrect`, `NoSocketLeftHolds`, `SurvivesStationHolds`, `OwnSensorHolds`, `PacedHolds` (an action property) | any pause, timeout, number of addresses and configurations | `ReadersInv` |

Why the strengthenings are needed:

* `SettledDays` speaks of statistics that an iteration may still change. What keeps
  it is that no day change was completed for a day after the dataset at hand
  (`RolledInThePast`: so the only day statistics that are written are not among
  the settled ones) and that, when the reports are asked for on a day change, the
  month of yesterday has just been aggregated (`DayChangeInOrder`). A month that
  is aggregated again is so from the same final statistics.
* `SettledPages` adds what connects the pages to the day changes: no report was
  asked for on a day after the dataset at hand (`AskedInThePast`: a page that is
  made again is made of statistics that are at least as complete), and the page of a
  year only by a day change that is complete (`YearsOfDayChanges`). A page that
  is made later shows the same final values by `SettledDays`.
* `DaysLinked` counts pairs of days. A pair that lacks a link is either remembered
  by the running daemon, which makes the page again with the next day's first
  dataset (`Remembered`), or lost for good (`LinksLost`); only a failed or killed
  step moves a pair from the first to the second, and each moves one at most.
  `DayPagesInOrder` says for which days there can be pages and statistics at all.
* `DeadLinksCostFaults` needs the same for days whose page was never made
  (`PagesLost`), that every other day a page links to has one (`DayLinksLead`), and
  that without a failure the pages of months and years come with the statistics they
  are linked for, and the page of a month with each day change to or from a day of it
  (`MonthLinksLead`).
* `ImagesThere` says which diagram is missing, so that it needs that the diagram of a
  lost pressure is not there either (`PressurePlotted`).
* `MonthTables` says that each date is in one cell, in its column and week. The table
  is filled cell by cell; the proof has a closed form of the cells (a cell holds its
  number less the weekday of the first), and takes the least cell that does not.
* `RegeneratedAll` follows the program: a day it owes waits in `todo` or has been
  aggregated, and then its month waits or holds it (`OwedInOrder`); veterod adds no
  row to such a day because it is over (`OwedAreOver`).
* `SettledAgain` has to hold through tables that are half empty, where `SettledDays`
  does not. Both programs aggregate a month from the day statistics of that moment,
  so the last stage of the program settles each month anew (`MonthsInOrder`). That
  veterod does not aggregate the month once more from fewer days needs that a month
  whose successor's first dataset has come stays behind: `MonthsGoOn`
  states it for the clock and the dataset at hand, in place of an
  induction over the calendar.
* `LinkedUnlessTorn` is `DaysLinked` with a second program that takes statistics away:
  `DaysInOrder` is its order of days, `PairsLost` are the pairs that failures have cost,
  to which belong those of a day that the program left out (`LeftOut`: its rows
  have no statistics and nobody is about to make them), unless they will be made up
  for (`WillLink`). A failure costs two pairs, that of a day with the one before and
  that with the one after. For `FinalUnlessTorn`, without failures, the statistics
  are exact but for the days the program has still to come to (`DaysExact`), and so are
  the pages that were not made of half-built tables (`UntornExact`).
* The rain needs a ledger: what the rows add up to is the way of the counter to
  the reading in `misc`, plus the rain of each row whose reading did not get
  there, which is counted again. `DifferenceIsRain` is the arithmetic of the wrap.
* The watcher needs to know who can have started a process (`Known`), that the
  number `addChild` works on is not the display's (`NewChild`), and that the
  handler never runs in `addChild`'s blocked part (`HandlerState`).
* The generators need that the set of shared locks is the set of those in a job
  (part of `TypeOK`), that one in a job has a job left and a file open exactly
  while it writes (`Busy`), and that those not started are idle (`InOrder`). The
  refinement maps each step to one of `ReportDirectory` or to a stutter: a generator
  that is not in a job leaves the files alone, and one enters a job or begins to
  upload only when nobody is in the way.
* `PagesComplete` speaks of a generator that was alone. Such a one is the last one
  that was started (`NotDisturbed`), so what it knows is what the database
  holds (`UpToDate`), and the file it has open is that of its job and of nobody else
  (`WritesItsPage`).
* `UploadCoherent`: the latest row is not of a later day than the dataset at hand, nor
  further ahead than the clock was set back (`ClockInv`), so the day that has just been
  aggregated is its day (`DayAggregated`).
* `ShownCoherent`: between two SELECTs anything may happen, but the row stays what it was
  (`CopyOfRow`), and as long as no statement fails all rows but the one at hand are
  counted in the statistics of their day (`RowsCovered`). What the statistics
  count they go on counting, since they are made of all rows of the day each time.
* `PublishedAsMeasured`: each row is the decoding of what was measured for it
  (`RowsDecoded`), and decoding is exact for every number an encoding can carry.
  `WindNamed` has a table of limits against a formula: both rise, so it
  is enough to compare them at the limits.
* `UploadedPrecisely`: how many digits a number has in front of the point is
  found by cases (`ExponentOf`); where rounding carries into one more digit, what
  is read is the same (`FineUp`, `FineDown`, `CoarseUp`). What is then left
  is the error of one rounding, which is linear but for the rain (`ScaledNear`).
* `ScreenLegible`: the numbers of a display are not only those of the row. The extremes
  are of rows of a day, and the rain of a day is bounded by the number of rows it can
  have (`RowsOfDay`); so the statistics fit (`StatsFit`), and so does what is queried,
  also of a day that has no statistics yet (`WeatherFits`). How long such numbers are
  is a matter of cases, and how many columns the 14 texts take follows from
  the last ones of the lines (`ScreenFits`).
* The session has to know which start a display belongs to: none has one before
  `startDisplay` (`NoDisplayYet`), and from the assignment on it knows the one that
  lives (`PidKnown`). `FileState` relates the database file to the program point that
  made it, and `UnopenedPaid` counts the display that may still find the file missing
  against the veterod that has still to create it. `FilesAsRead` ties the
  configuration in use to the files on disk.
* `Paced` needs that `m_nextRead` is at least a pause after the last good read, less
  what the clock was set ahead (`Due`); the rest of `ReadersInv` says which program
  points belong to which reader, and that there is a peer exactly while there is a
  socket.

Model-checked only: liveness (`DayChangeRetried`, `QuitEndsDisplay`,
`WokenDisplayShows`, `EveryZombieReaped`, `GeneratorsEnd`, `StationServed`). It
rests on fairness and ENABLED, which are out of TLAPS' reach.

## What is not modelled, and known limits

* The SQL shell of `vetero-db`, the wording and layout of pages and diagrams, the
  pixels of the display, log files and `daemonize`, and the scripts:
  `convert_db_7_to_8.sh` and `update_rain.sh` are run once, by hand.
* Neither the HTTP request of the upload nor the postscript has a timeout; both hold
  up the loop for as long as they take; `StationServed` takes for granted that they
  end. The failure of the request is logged and
  ignored, so that it has no effect on what is modelled.
* The upload's dew point (`clouduploader.cc:52`) is left out. A response of the
  WS980 of 82 bytes has no checksum: what garbage is stored is not followed further
  (`Readers!Response`). `ChildProcessWatcher!Block` installs the handler and blocks the
  signal in one step; a handler that runs in between finds an empty list.
* Dew point and pressure at sea level are floating point, and so are averages;
  minimum, maximum and sum stand for the statistics. The sum of a
  month's rain adds values that the views have rounded. `month_statistics_float`
  divides Beaufort numbers by 1000; no report reads it.
* `Reportgen` has the jobs for the current weather and for days. Jobs for months and
  years are made in the same order by the same base class and come after them; one
  diagram stands for the four or so of a page. A generator that is killed is not
  modelled (its job fails instead, which leaves the same files behind).
* `Site` takes a generator as atomic, `Reportgen` has generators that overlap.

The models also have steps for things the code does that nothing in the
repository promises otherwise; they are visible in the known exceptions of the
properties:

* the up link of a day's page is dead until a day change to or from a day of its month
  was completed: on the first day of an installation, and after an outage that hides
  the change; and the index links to the day it was made on (`Site!KnownDead`);
* a day of a single temperature, as one with a single dataset, is never on the page of
  its month, and such a month not on the page of its year (`Site!MonthShows`,
  `Site!YearShows`);
* the page of a day all datasets of which have lost the pressure refers to a diagram
  that is never made (`Site!NeverPlotted`);
* the page of a month on its first day, that of a year on New Year's Day and those
  of times without data refer to diagrams that cannot be plotted yet
  (`Site!DaysToPlot`);
* west of Greenwich the bounds of a month are local times that are taken for UTC:
  its page lacks the last day (`Site!DaysBetween`, with `West` TRUE
  `SettledPages` is violated), and each row of its table has the date of the day
  before and links to it (`Site!LocalDay`; `DeadLinksCostFaults` is violated, too);
* a restart after midnight hides the day change, as does a failed fork: the reports
  of the day that ended are not made (`DaysLinked` counts them);
* when no dataset arrives on the first of a month, the month that ended never gets
  its next link and its statistics stay as they were at its last complete day change
  (`veterod.cc:404`, although `:410` asks for the last month because of that link);
* an insertion that is interrupted before the gauge reading is kept counts its rain
  again (`RainGauge!repeated`);
* pages made while `vetero-db` rebuilds the statistics lack links and rows, and
  nobody makes them again (`Regenerate!torn`);
* a display daemon that starts before the database exists ends and is not started
  again (`Displayd!OpenReadonly`), and one that was left by a kill is never signalled
  (`Session!orphans`);
* a configuration file that cannot be parsed ends a program only when it was given
  on the command line; one that was found is replaced by the defaults without a word
  (`Configuration`);
* a read error is thrown at once and the loop reads again without a pause, with a
  device that was unplugged for ever (`Readers!lost`);
* nothing is read for the sensor types `kombi_no_rain` and `pool`, zeros are stored
  (`Sensors!ParseDataset`), and a quantity the station has lost is stored as 0; a
  wind that the FreeTec station has lost is published as 1556 km/h and cut by the
  display, and a humidity that was lost has no dew point (`Screen`);
* a display too small for the fixed layout makes its daemon end with
  `std::out_of_range`, and it shows 0 for what a station does not measure;
* `doc/Database.md:12-16` has 0 for what a station does not measure, the code stores
  NULL;
* the sectors of the wind direction are 22 degrees wide (`Sensors!WindIndex`);
* local time is the primary key: in an hour that is repeated rows are refused or
  are not the latest (`CurrentWeather!InsertRejected`).

## What could follow

* Generators that overlap in `Site`, so that pages are made from older statistics than
  those of the latest day change; it takes the interleavings of `Reportgen` over the
  days of `Site`, which is too much for one instance.
* An abstract specification of the database, in which the statistics of a day or month
  are a function of the rows, that `Veterod` and `vetero-db` implement up to the
  delays of their statements.
