--------------------------- MODULE CurrentWeather ---------------------------
(***************************************************************************)
(* The way of a dataset from the station to what vetero publishes as the   *)
(* current weather: the reader decodes it, veterod checks, inserts and     *)
(* aggregates it (veterod.cc, insertDataset), and queryCurrentWeather puts *)
(* the latest row and the statistics of its day together again, for the    *)
(* cloud upload of veterod and for the other programs: the display, the    *)
(* SVG and the JSON file.                                                  *)
(*                                                                         *)
(* queryCurrentWeather is two SELECTs and no transaction: veterod and the  *)
(* clock go on between them.  weatherdata has the local time as its key, so*)
(* when the clock is set back (at the end of summer time) a new row may    *)
(* not be the latest, and an INSERT may be refused.                        *)
(*                                                                         *)
(* A time stamp is a number of time slots.  A column of a row is a set: {} *)
(* is NULL, and the empty string of a query's result.  Of the dew point    *)
(* there is what matters to the display; how the rain of a row is counted  *)
(* is in RainGauge, here it is one tip.                                    *)
(***************************************************************************)
EXTENDS Sensors, Screen, CloudUploader

CONSTANTS Types,     \* the stations to look at
          Samples,   \* Samples[t]: what a station of type t may measure
          Displays,  \* the displays to look at: [width, height] in pixels
          DaySlots,  \* time slots of a day
          MaxTime,   \* bound: the last time slot
          MaxBack,   \* bound: how often the clock is set back by a slot
          MaxFaults  \* bound: statements that fail

ASSUME CurrentWeatherAssumption ==
  /\ Types \subseteq SensorType /\ Types \subseteq DOMAIN Samples
  /\ Displays \subseteq [width : Nat, height : Nat]
  /\ DaySlots \in Nat \ {0} /\ MaxTime \in Nat /\ MaxBack \in Nat /\ MaxFaults \in Nat

ASSUME SamplesAssumption == \A t \in Types : \A m \in Samples[t] : Measurable(t, m)

VARIABLES type,      \* sensor_type of the configuration
          wall,      \* the local time
          pc,        \* veterod: "read", "insert", "dayStats", "current", "reports"
          ts,        \* dataset.timestamp()
          reading,   \* what the station measured for it
          table,     \* weatherdata: time stamp -> row
          stats,     \* day_statistics: day -> row
          uploaded,  \* the CurrentWeather veterod has uploaded
          row,       \* time stamp of the row another program's query has; None before
          shown,     \* the CurrentWeather that program got
          measured,  \* history: time stamp -> what was measured for its row
          torn,      \* history: that program read a row veterod was still at work on
          backs,     \* history: how often the clock was set back
          faults     \* history: failed statements

clockVars  == <<wall, backs>>
daemonVars == <<pc, ts, reading, table, stats, uploaded, measured, faults>>
queryVars  == <<row, shown, torn>>
vars == <<type, clockVars, daemonVars, queryVars>>

None == -1
Time == 0 .. MaxTime
DayOf(t) == t \div DaySlots

(* INSERT (OR REPLACE) of a row with the key x *)
With(rows, x, new) == [y \in DOMAIN rows \union {x} |-> IF y = x THEN new ELSE rows[y]]

RowsOf(d) == { t \in DOMAIN table : DayOf(t) = d }

(* A new CurrentWeather; rain and the other columns tell if they are there. *)
NoWeather ==
  [stamp |-> None, temp |-> 0, min |-> 0, max |-> 0, maxWind |-> 0, maxGust |-> 0,
   column |-> [q \in Quantity \ {"temp"} |-> {}]]

(* A column is NULL exactly when the station does not measure it. *)
WeatherTypeOK ==
  /\ type \in Types /\ wall \in Time
  /\ pc \in {"read", "insert", "dayStats", "current", "reports"}
  /\ ts \in Time /\ row \in Time \union {None}
  /\ DOMAIN table \subseteq Time /\ DOMAIN measured = DOMAIN table
  /\ \A t \in DOMAIN table : \A q \in Quantity :
       /\ (table[t][q] # {}) <=> Has(type, q)
       /\ \A v \in table[t][q] : q # "temp" => v >= 0
  /\ DOMAIN stats \subseteq { DayOf(t) : t \in DOMAIN table }
  /\ torn \in BOOLEAN /\ backs \in 0 .. MaxBack /\ faults \in 0 .. MaxFaults

WeatherInit ==
  /\ type \in Types
  /\ wall = 0 /\ pc = "read" /\ ts = 0 /\ reading = Zeros
  /\ table = <<>> /\ stats = <<>> /\ measured = <<>>
  /\ uploaded = NoWeather /\ shown = NoWeather
  /\ row = None /\ torn = FALSE
  /\ backs = 0 /\ faults = 0

-----------------------------------------------------------------------------
(* The clock *)

Tick ==
  /\ wall < MaxTime
  /\ wall' = wall + 1
  /\ UNCHANGED <<type, backs, daemonVars, queryVars>>

(* Not over midnight *)
SetBack ==
  /\ backs < MaxBack
  /\ wall % DaySlots # 0
  /\ wall' = wall - 1
  /\ backs' = backs + 1
  /\ UNCHANGED <<type, daemonVars, queryVars>>

-----------------------------------------------------------------------------
(* queryCurrentWeather *)

(* ORDER BY timestamp DESC LIMIT 1 *)
LatestStamp == Max(DOMAIN table)

(* from_str<int> of a column, 0 for NULL *)
Value(column) == IF column = {} THEN 0 ELSE CHOOSE v \in column : TRUE

(* Both SELECTs: the row of time stamp t, the statistics of day d. *)
Weather(t, d) ==
  LET r == table[t]
      w == [NoWeather EXCEPT !.stamp = t, !.temp = Value(r.temp),
                             !.column = [q \in Quantity \ {"temp"} |->
                                           IF q = "rain" THEN {} ELSE r[q]]]
  IN  IF d \notin DOMAIN stats
        THEN [w EXCEPT !.min = w.temp, !.max = w.temp,
                       !.maxWind = Value(r.wind), !.maxGust = Value(r.gust)]
        ELSE [w EXCEPT !.min = Value(stats[d].min), !.max = Value(stats[d].max),
                       !.maxWind = Value(stats[d].wind), !.maxGust = Value(stats[d].gust),
                       !.column.rain = stats[d].rain]

-----------------------------------------------------------------------------
(* veterod *)

(* The dataset and the weather are local to an iteration. *)
BackToRead == pc' = "read" /\ ts' = 0 /\ reading' = Zeros /\ uploaded' = NoWeather

(* reader->read() and the check of the temperature: a corrupt dataset      *)
(* leaves veterod where it is.                                             *)
Read ==
  /\ pc = "read"
  /\ \E m \in Samples[type] :
       /\ ~Corrupt(Decode(type, m))
       /\ reading' = m
  /\ ts' = wall
  /\ pc' = "insert"
  /\ UNCHANGED <<type, clockVars, table, stats, uploaded, measured, faults, queryVars>>

(* The row of insertDataset *)
Row(dataset) ==
  [q \in Quantity |-> IF ~Has(type, q) THEN {}
                      ELSE IF q = "rain" THEN {RainGaugeFactor(type)} ELSE {dataset[q]}]

Insert ==
  /\ pc = "insert"
  /\ ts \notin DOMAIN table
  /\ table' = With(table, ts, Row(Decode(type, reading)))
  /\ measured' = With(measured, ts, reading)
  /\ pc' = "dayStats"
  /\ UNCHANGED <<type, clockVars, ts, reading, stats, uploaded, faults, queryVars>>

(* UNIQUE constraint of the time stamp: the dataset is lost. *)
InsertRejected ==
  /\ pc = "insert"
  /\ ts \in DOMAIN table
  /\ BackToRead
  /\ UNCHANGED <<type, clockVars, table, stats, measured, faults, queryVars>>

(* MIN, MAX and SUM over the rows of a day *)
Aggregate(d) ==
  LET All(q) == UNION { table[t][q] : t \in RowsOf(d) }
      Least(c) == IF c = {} THEN {} ELSE {Min(c)}
      Most(c)  == IF c = {} THEN {} ELSE {Max(c)}
  IN  [min |-> Least(All("temp")), max |-> Most(All("temp")),
       wind |-> Most(All("wind")), gust |-> Most(All("gust")),
       rain |-> { Cardinality(RowsOf(d)) * v : v \in All("rain") }]

(* Mutant of UpdateDay: the day is that of the clock. *)
UpdateToday ==
  /\ pc = "dayStats"
  /\ stats' = With(stats, DayOf(wall), Aggregate(DayOf(wall)))
  /\ pc' = "current"
  /\ UNCHANGED <<type, clockVars, ts, reading, table, uploaded, measured, faults, queryVars>>

UpdateDay ==
  /\ pc = "dayStats"
  /\ stats' = With(stats, DayOf(ts), Aggregate(DayOf(ts)))
  /\ pc' = "current"
  /\ UNCHANGED <<type, clockVars, ts, reading, table, uploaded, measured, faults, queryVars>>

(* uploadCloudData(queryCurrentWeather()): nobody else writes, so both     *)
(* SELECTs see the same database.                                          *)
Upload ==
  /\ pc = "current"
  /\ uploaded' = Weather(LatestStamp, DayOf(LatestStamp))
  /\ pc' = "reports"
  /\ UNCHANGED <<type, clockVars, ts, reading, table, stats, measured, faults, queryVars>>

EndIteration ==
  /\ pc = "reports"
  /\ BackToRead
  /\ UNCHANGED <<type, clockVars, table, stats, measured, faults, queryVars>>

StatementFails ==
  /\ pc \in {"insert", "dayStats", "current"}
  /\ faults < MaxFaults
  /\ faults' = faults + 1
  /\ BackToRead
  /\ UNCHANGED <<type, clockVars, table, stats, measured, queryVars>>

-----------------------------------------------------------------------------
(* Another program queries the weather.  (Without any row it gets the new  *)
(* CurrentWeather that shown is at first.)                                 *)

SelectRow ==
  /\ row = None
  /\ DOMAIN table # {}
  /\ row' = LatestStamp
  /\ UNCHANGED <<type, clockVars, daemonVars, shown, torn>>

(* Mutant of SelectStats: WHERE date = date('now', 'localtime') *)
SelectStatsOfToday ==
  /\ row # None
  /\ shown' = Weather(row, DayOf(wall))
  /\ torn' = (pc = "dayStats" /\ row = ts)
  /\ row' = None
  /\ UNCHANGED <<type, clockVars, daemonVars>>

SelectStats ==
  /\ row # None
  /\ shown' = Weather(row, DayOf(row))
  /\ torn' = (pc = "dayStats" /\ row = ts)
  /\ row' = None
  /\ UNCHANGED <<type, clockVars, daemonVars>>

(* It shows what it got, or writes it to a file: at once, since nothing    *)
(* else has to do with it.                                                 *)
Present ==
  /\ shown.stamp # None
  /\ shown' = NoWeather /\ torn' = FALSE
  /\ UNCHANGED <<type, clockVars, daemonVars, row>>

WeatherNext ==
  \/ Present
  \/ /\ shown.stamp = None
     /\ \/ Tick \/ SetBack
        \/ Read \/ Insert \/ InsertRejected \/ UpdateDay \/ Upload \/ EndIteration
        \/ StatementFails
        \/ SelectRow \/ SelectStats

WeatherSpec == WeatherInit /\ [][WeatherNext]_vars

-----------------------------------------------------------------------------
(* What is published of a CurrentWeather; {} stands for dashes, and for a  *)
(* key that is left out.                                                   *)

(* CurrentReportGenerator::createSVG *)
Svg(w) ==
  [temp |-> {w.temp}, humid |-> w.column.humid, rain |-> w.column.rain,
   pressure |-> w.column.pressure, sun |-> w.column.sun,
   wind |-> w.column.wind, windBft |-> { Beaufort(v) : v \in w.column.wind },
   gust |-> w.column.gust, gustBft |-> { Beaufort(v) : v \in w.column.gust },
   arrow |-> { (180 + v) % 360 : v \in w.column.dir },
   name |-> { WindDirectionStr(v) : v \in w.column.dir }]

(* CurrentReportGenerator::createJSON: humidity is not asked for. *)
Json(w) ==
  [temp |-> {w.temp}, humid |-> {Value(w.column.humid)}, wind |-> w.column.wind,
   dir |-> w.column.dir, rain |-> w.column.rain, pressure |-> w.column.pressure]

(* weather::dewpoint, the values that matter to a text of it: with 1 %     *)
(* humidity or more the longest text is of -83 degrees.  A humidity of 0,  *)
(* as of a sensor that is lost, makes it a NaN, and what an int gets of    *)
(* that is undefined: its least value (here without the last tenth) on one *)
(* processor, 0 on another.                                                *)
Dewpoint(w) ==
  IF w.column.humid = {} THEN {0}
  ELSE IF w.column.humid = {0} THEN {-2147483640, 0} ELSE {-8300}

(* The values of VeteroDisplayd::updateDisplay, which asks for no column if*)
(* the weather has it.                                                     *)
OnDisplay(w, dewpoint) ==
  [temp |-> w.temp, min |-> w.min, max |-> w.max, maxWind |-> w.maxWind,
   dewpoint |-> dewpoint,
   humid |-> Value(w.column.humid), wind |-> Value(w.column.wind),
   rain |-> Value(w.column.rain), pressure |-> Value(w.column.pressure)]

(* Veterod::updateEnvironment: what the update postscript finds *)
Environment(dataset) ==
  LET Variable(q, value) == IF Has(type, q) THEN {value} ELSE {}
  IN  [temp |-> Variable("temp", dataset.temp), humid |-> Variable("humid", dataset.humid),
       rain |-> Variable("rain", RainGaugeFactor(type)), wind |-> Variable("wind", dataset.wind)]

(* The accessors of CurrentWeather in the units of the service *)
temperatureRealF(w) == {celsius2Fahrenheit(w.temp)}
humidityReal(w)     == { Percent(v) : v \in w.column.humid }
windSpeedRealMph(w) == { kmh2mph(v) : v \in w.column.wind }
windGustRealMph(w)  == { kmh2mph(v) : v \in w.column.gust }
rainRealIn(w)       == { mm2in(v) : v \in w.column.rain }
pressureRealIn(w)   == { hPa2inHg(v) : v \in w.column.pressure }

(* WeatherUndergroundUploader::upload *)
Url(w) ==
  LET Put(values, precision) == { Written(v, precision) : v \in values }
  IN  [tempf |-> Put(temperatureRealF(w), OtherDigits),
       humidity |-> Put(humidityReal(w), OtherDigits),
       windspeedmph |-> Put(windSpeedRealMph(w), OtherDigits),
       winddir |-> w.column.dir,
       windgustmph |-> Put(windGustRealMph(w), OtherDigits),
       dailyrainin |-> Put(rainRealIn(w), RainDigits),
       baromin |-> Put(pressureRealIn(w), PressureDigits)]

-----------------------------------------------------------------------------
(* What veterod uploads is the dataset just inserted, or one that is no    *)
(* further in the future than the clock was set back (dbaccess.cc:357), and*)
(* it fits together: the extremes and the rain are those of all the rows of*)
(* the day of the row they come with, through restarts of the loop after   *)
(* failures and with a clock that is set back (veterod.cc:383-388).        *)
UploadCoherent ==
  pc = "reports" =>
    LET d == DayOf(uploaded.stamp)
        s == Aggregate(d)
    IN  /\ uploaded.stamp - ts \in 0 .. backs
        /\ s.min = {uploaded.min} /\ s.max = {uploaded.max}
        /\ uploaded.maxWind = Value(s.wind) /\ uploaded.maxGust = Value(s.gust)
        /\ uploaded.column.rain = s.rain

(* Two SELECTs without a transaction (dbaccess.cc:352, 394): another       *)
(* program gets a temperature and a wind between the extremes it gets with *)
(* them, and rain that counts that row, also when midnight and new rows    *)
(* come between the SELECTs, unless the row is the one veterod has         *)
(* inserted and not yet aggregated.                                        *)
ShownCoherent ==
  (shown.stamp # None /\ ~torn /\ faults = 0) =>
    /\ shown.min <= shown.temp /\ shown.temp <= shown.max
    /\ \A v \in shown.column.wind : v <= shown.maxWind
    /\ \A v \in shown.column.gust : v <= shown.maxGust
    /\ Has(type, "rain") => \E v \in shown.column.rain : v >= RainGaugeFactor(type)

(* The value of a measurement in the unit of the database (doc/Database.md)*)
Physical(m, q) ==
  CASE q = "temp" -> m.temp * 10
    [] q = "humid" -> m.humid * 100
    [] q \in {"wind", "gust"} ->
         m[q] * (CASE type = "freetec" -> 38 [] type = "ws980" -> 36 [] OTHER -> 10)
    [] q = "dir" -> IF type = "freetec" THEN (m.dir * 45) \div 2 ELSE m.dir
    [] q = "pressure" -> m.pressure * 10

(* A quantity is published exactly when the station measures it, as the    *)
(* value it measured, in every unit and byte order, below zero and above a *)
(* byte; and nothing is published of a corrupt dataset.  (A quantity the   *)
(* station has lost is published as 0, and the JSON file has a humidity for*)
(* every station.)  The update postscript gets it, too.                    *)
PublishedAsMeasured ==
  /\ pc = "dayStats" =>
       LET e == Environment(Decode(type, reading)) IN
         \A q \in {"temp", "humid", "wind"} :
           reading[q] # Lost => e[q] = IF Has(type, q) THEN {Physical(reading, q)} ELSE {}
  /\ \A w \in {shown, uploaded} : w.stamp # None =>
    LET m == measured[w.stamp]
        svg == Svg(w)
        json == Json(w)
        Expect(q) == IF Has(type, q) THEN {Physical(m, q)} ELSE {}
    IN  /\ m.temp # Lost => m.temp \in -500 .. 699 /\ w.temp = m.temp * 10
        /\ \A q \in {"wind", "gust", "pressure", "humid"} : m[q] # Lost => svg[q] = Expect(q)
        /\ \A q \in {"wind", "dir", "pressure"} : m[q] # Lost => json[q] = Expect(q)
        /\ m.dir # Lost => \A v \in Expect("dir") : \A a \in svg.arrow :
             (a - v) \in {180, -180}
        /\ \A v \in svg.sun : 1267 * v - 10 * m.sun \in -634 .. 634
        /\ (svg.sun = {}) <=> ~Has(type, "sun")

(* What the service reads of a written number x, against what was measured:*)
(* tenths of a degree, per cent, hundredths of km/h, 1/1000 mm, tenths of  *)
(* a hPa.                                                                  *)
Near(x, y, e) == -e <= x - y /\ x - y <= e
TemperaturePrecise(t, x) ==
  /\ x.power <=> t >= 375
  /\ Near(10 * ReadAs(x, -1), 18 * t + 3200, IF t >= 375 THEN 500 ELSE 50)
HumidityPrecise(h, x) == (x.power <=> h = 100) /\ ReadAs(x, 0) = h
WindPrecise(v, x) ==
  /\ x.power <=> v >= 16013
  /\ Near(16093 * ReadAs(x, -2), 10000 * v,
          IF v < 1600 THEN 90000 ELSE IF v < 16013 THEN 810000 ELSE 8100000)
RainPrecise(r, x) ==
  Near(254 * ReadAs(x, -4), 100 * r, IF r < 100000 THEN 1000 ELSE r \div 100)
PressurePrecise(p, x) == ~x.power /\ Near(33864 * ReadAs(x, -2), 10000 * p, 170000)

(* The values that are sent of each quantity *)
Keys(u) == [humid |-> u.humidity, wind |-> u.windspeedmph, dir |-> u.winddir,
            gust |-> u.windgustmph, rain |-> u.dailyrainin, pressure |-> u.baromin]

(* The cloud service gets the quantities that the station measures, and    *)
(* what it reads is near to what was measured: the temperature within half *)
(* a degree Fahrenheit, the wind within half a mile per hour and below ten *)
(* of them within a twentieth, the rain within 1/100 mm or the ten         *)
(* thousandth part of it, the pressure within 1.7 hPa.  For a temperature  *)
(* from 37.5 degrees (99.5 F), a wind of as many miles per hour and a      *)
(* humidity of 100 % two digits are too few: they come with an exponent,   *)
(* within five degrees or miles per hour (clouduploader.cc:48-67).         *)
UploadedPrecisely ==
  pc = "reports" =>
    LET m == measured[uploaded.stamp]
        u == Url(uploaded)
    IN  /\ \A q \in DOMAIN Keys(u) : Keys(u)[q] # {} <=> Has(type, q)
        /\ m.dir # Lost => \A v \in u.winddir : v = Physical(m, "dir")
        /\ m.temp # Lost => \A x \in u.tempf : TemperaturePrecise(m.temp, x)
        /\ m.humid # Lost => \A x \in u.humidity : HumidityPrecise(m.humid, x)
        /\ m.wind # Lost => \A x \in u.windspeedmph : WindPrecise(Physical(m, "wind"), x)
        /\ m.gust # Lost => \A x \in u.windgustmph : WindPrecise(Physical(m, "gust"), x)
        /\ \A x \in u.dailyrainin : \A r \in uploaded.column.rain : RainPrecise(r, x)
        /\ m.pressure # Lost => \A x \in u.baromin : PressurePrecise(m.pressure, x)

(* The strengths published are those of the Beaufort formula,              *)
(* v = 0.836 * B^(3/2) m/s: for 2 km/h or more the least B that reaches    *)
(* the rounded speed at B + 1/2; 12 is the last (weather.cc:26-61).  The   *)
(* direction of the wind gets the name of its sixteenth of the circle, or  *)
(* for a station that measures degrees of the one before it, never of one  *)
(* that is further away (dataset.cc:520-529).                              *)
WindNamed ==
  \A w \in {shown, uploaded} :
    /\ \A v \in w.column.wind \union w.column.gust :
         LET kmh == Rounded(v)
             b   == Beaufort(v)
             Cube(n) == n * n * n
             Reaches(n) == kmh * kmh * 80000 <= 301 * 301 * Cube(2 * n + 1)
         IN  kmh \in 2 .. 160 => (b = 12 \/ Reaches(b)) /\ ~Reaches(b - 1)
    /\ \A v \in w.column.dir :
         LET nearest == ((4 * v + 45) \div 90) % 16
             off     == (WindIndex(v) - nearest) % 16
         IN  off = 0 \/ (off = 15 /\ type # "freetec")

(* In either language and for every station, the display shows all of its  *)
(* texts and none of them over another, exactly when it has 7 lines and 21 *)
(* columns.  It takes more than that when a wind reaches 1000 km/h, which a*)
(* FreeTec station that has lost its sensor stands for, or a day's rain a  *)
(* metre, and for the dew point of a humidity that was lost                *)
(* (vetero_displayd.cc:176-214, serdisplibdisplay.cc:186-228).             *)
ScreenLegible ==
  shown.stamp # None =>
    \A language \in Languages, dewpoint \in Dewpoint(shown) :
      LET texts == UpdateDisplay(language, OnDisplay(shown, dewpoint))
          fast  == \E wind \in shown.column.wind \union {shown.maxWind} : wind >= 99995
          wet   == \E rain \in shown.column.rain : rain >= 999950
          columns == IF dewpoint < -8300 THEN 27 ELSE IF fast \/ wet THEN 22 ELSE 21
      IN  /\ Apart(texts)
          /\ \A display \in Displays :
               Complete(display, texts) <=> display.height >= 63 /\ display.width >= 6 * columns
=============================================================================
